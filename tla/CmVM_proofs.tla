---------------------------- MODULE CmVM_proofs ----------------------------
(***************************************************************************)
(* What CmCalls guarantees carries over to the interpreter: in programs    *)
(* that keep to the discipline of compiled code, returns go to where calls *)
(* came from, and the registers of the stack stay in the array.  In every  *)
(* program cells hold words and memory and line bytes, so that AUnit can   *)
(* judge what is printed.  All this for every program, memory, word size   *)
(* and number of cells.                                                    *)
(***************************************************************************)
EXTENDS CmVM, TLAPS

CP == INSTANCE CmCalls_refinement WITH
        Addresses <- Memory,
        mode      <- IF status = "fault" THEN "fault" ELSE "run"

LEMMA SameInit == C!Init <=> CP!Init
  BY DEF C!Init, CP!Init, C!Stack_New, CP!Stack_New, C!Outermost, CP!Outermost,
         C!Activation, CP!Activation, C!Index, CP!Index

\* The two instances are the same module with the same arguments, so the
\* definitions below them agree once they are expanded.
LEMMA SameVars == C!vars = CP!vars
  BY DEF C!vars, CP!vars

LEMMA SameNext == C!Next <=> CP!Next
  BY ZenonT(60)
  DEF C!Index, CP!Index, C!U8, CP!U8, C!I8, CP!I8, C!I32, CP!I32, C!Desc,
      CP!Desc, C!Stack_New, CP!Stack_New, C!Stack_Count, CP!Stack_Count,
      C!Stack_top, CP!Stack_top, C!PushCells, CP!PushCells, C!Stack_Push,
      CP!Stack_Push, C!Stack_Pop, CP!Stack_Pop, C!Stack_dup, CP!Stack_dup,
      C!SetTop, CP!SetTop, C!V2, CP!V2, C!V1, CP!V1, C!Combine, CP!Combine,
      C!Bit, CP!Bit, C!FromBits, CP!FromBits, C!BitAnd, CP!BitAnd, C!BitXor,
      CP!BitXor, C!BitOr, CP!BitOr, C!Magnitude, CP!Magnitude, C!Quotient,
      CP!Quotient, C!Remainder, CP!Remainder, C!Truth, CP!Truth, C!Stack_not,
      CP!Stack_not, C!Stack_neg, CP!Stack_neg, C!Stack_inc, CP!Stack_inc,
      C!Stack_dec, CP!Stack_dec, C!Stack_and, CP!Stack_and, C!Stack_or,
      CP!Stack_or, C!Stack_xor, CP!Stack_xor, C!Stack_add, CP!Stack_add,
      C!Stack_sub, CP!Stack_sub, C!Stack_mul, CP!Stack_mul, C!Stack_div,
      CP!Stack_div, C!Stack_rem, CP!Stack_rem, C!Stack_shl, CP!Stack_shl,
      C!Stack_shr, CP!Stack_shr, C!Stack_teq, CP!Stack_teq, C!Stack_tne,
      CP!Stack_tne, C!Stack_tlt, CP!Stack_tlt, C!Stack_tgt, CP!Stack_tgt,
      C!Stack_tle, CP!Stack_tle, C!Stack_tge, CP!Stack_tge, C!RemDefined,
      CP!RemDefined, C!ShiftDefined, CP!ShiftDefined, C!FctInfo, CP!FctInfo,
      C!VOf, CP!VOf, C!NpOf, CP!NpOf, C!NlOf, CP!NlOf, C!EnterCells,
      CP!EnterCells, C!Enter, CP!Enter, C!Stack_enterU5, CP!Stack_enterU5,
      C!Stack_enterU8, CP!Stack_enterU8, C!FrameInfo, CP!FrameInfo,
      C!ExitBase, CP!ExitBase, C!ExitCells, CP!ExitCells, C!Stack_exit,
      CP!Stack_exit, C!getFrameOffset, CP!getFrameOffset, C!VariableCell,
      CP!VariableCell, C!VariableCells, CP!VariableCells, C!Stack_addVariable,
      CP!Stack_addVariable, C!Stack_loadVariable, CP!Stack_loadVariable,
      C!Stack_storeVariable, CP!Stack_storeVariable, C!vars, CP!vars,
      C!Activation, CP!Activation, C!Outermost, CP!Outermost, C!Framed,
      CP!Framed, C!Base, CP!Base, C!Depth, CP!Depth, C!Current, CP!Current,
      C!NumVars, CP!NumVars, C!Operands, CP!Operands, C!Others, CP!Others,
      C!Init, CP!Init, C!Fault, CP!Fault, C!Touches, CP!Touches, C!Body,
      CP!Body, C!Ldc, CP!Ldc, C!Pop, CP!Pop, C!Dup, CP!Dup, C!Monadic,
      CP!Monadic, C!Dyadic, CP!Dyadic, C!Partial, CP!Partial, C!Inherent,
      CP!Inherent, C!Ldv, CP!Ldv, C!Stv, CP!Stv, C!Addv, CP!Addv, C!Stepv,
      CP!Stepv, C!Variables, CP!Variables, C!Calls, CP!Calls, C!Packed,
      CP!Packed, C!Entered, CP!Entered, C!EnterFunction, CP!EnterFunction,
      C!Ret, CP!Ret, C!ExitFunction, CP!ExitFunction, C!Restart, CP!Restart,
      C!Next, CP!Next

-----------------------------------------------------------------------------
(* What CmCalls proves of the stack of a disciplined program.              *)

CallsInv == CP!IInv

LEMMA Fits == CP!FramesFit
  BY StackAssumption DEF CP!FramesFit

LEMMA CallsInvInit == C!Init => CallsInv
<1>1. CP!Init => CP!IInv
  BY Fits, StackAssumption, CP!InitIInv
  DEF CP!InitIInv, CP!SiLenAssumption, CP!WordAssumption, CP!CapacityAssumption,
      CP!ShapesAssumption, CP!Forms, C!Forms, CP!FormMax, C!FormMax
<1> QED
  BY <1>1, SameInit DEF CallsInv

LEMMA CallsInvNext == CallsInv /\ [C!Next]_(C!vars) => CallsInv'
<1>1. CP!IInv /\ [CP!Next]_(CP!vars) => CP!IInv'
  BY Fits, StackAssumption, CP!NextIInv
  DEF CP!NextIInv, CP!SiLenAssumption, CP!WordAssumption, CP!CapacityAssumption,
      CP!ShapesAssumption, CP!Forms, C!Forms, CP!FormMax, C!FormMax
<1>2. UNCHANGED C!vars => UNCHANGED CP!vars
  BY DEF C!vars, CP!vars
<1> QED
  BY <1>1, <1>2, SameNext DEF CallsInv

LEMMA Disciplines == Disciplined => []CallsInv /\ [][C!Next]_(C!vars)
  BY CallsInvInit, CallsInvNext, PTL DEF Disciplined, C!Spec

LEMMA Stack ==
  ASSUME CallsInv
  PROVE  /\ act \in Seq(CP!Activations) /\ Len(act) \in Nat \ {0}
         /\ DOMAIN s.si = Index
         /\ s.bp \in -1 .. SiLen - 1 /\ s.sp \in -1 .. SiLen - 1
  BY CP!Registers, StackAssumption
  DEF CallsInv, CP!Registers, CP!IInv, CP!TypeOK, CP!Depth, CP!Index, Index,
      CP!SiLenAssumption, CP!WordAssumption, CP!CapacityAssumption,
      CP!ShapesAssumption, CP!Forms, C!Forms, CP!FormMax, C!FormMax

\* The address that activation k will continue its caller at.
Resume(k) == CP!Resume(k)

LEMMA Resumes ==
  ASSUME CallsInv, CallsInv', C!Next, status' # "fault"
  PROVE  /\ Len(act') <= Len(act) + 1
         /\ \A k \in 2 .. Len(act) : k <= Len(act') => Resume(k)' = Resume(k)
         /\ Len(act') < Len(act) => Len(act) > 1 /\ target' = Resume(Len(act))
  BY Fits, StackAssumption, SameNext, CP!ResumesKept
  DEF CP!ResumesKept, CallsInv, Resume, CP!Depth,
      CP!SiLenAssumption, CP!WordAssumption, CP!CapacityAssumption,
      CP!ShapesAssumption, CP!Forms, C!Forms, CP!FormMax, C!FormMax

LEMMA CallsResume ==
  ASSUME CallsInv, CallsInv', C!Next, status' # "fault", Len(act') > Len(act)
  PROVE  /\ Len(act') = Len(act) + 1 /\ Resume(Len(act))' \in Memory
         /\ s.sp + 1 \in Index /\ s'.si[s.sp + 1] = Resume(Len(act))'
<1>1. \E address \in Memory : CP!Calls(address)
  BY StackAssumption, SameNext, CP!OnlyCallsGrow
  DEF CP!OnlyCallsGrow, CallsInv, CP!Depth,
      CP!SiLenAssumption, CP!WordAssumption, CP!CapacityAssumption,
      CP!ShapesAssumption, CP!Forms, C!Forms, CP!FormMax, C!FormMax
<1>2. PICK address \in Memory : CP!Calls(address)
  BY <1>1
<1>3. CP!Depth' = CP!Depth + 1 /\ CP!Resume(CP!Depth)' = address
  BY <1>2, StackAssumption, CP!CallResumes
  DEF CP!CallResumes, CallsInv,
      CP!SiLenAssumption, CP!WordAssumption, CP!CapacityAssumption,
      CP!ShapesAssumption, CP!Forms, C!Forms, CP!FormMax, C!FormMax
<1>4. s.sp + 1 \in Index /\ s' = CP!Stack_Push(s, address)
  BY <1>2 DEF CP!Calls, CP!Touches, CP!Fault, CP!PushCells, CP!Index, Index
<1>5. s'.si[s.sp + 1] = address
  BY <1>4, Stack DEF CP!Stack_Push, CP!Desc
<1> QED
  BY <1>3, <1>4, <1>5 DEF CP!Depth, Resume

-----------------------------------------------------------------------------
(* What a step of the machine does to the activations.                     *)

Quiet == UNCHANGED <<mem, s, act>>

Moves ==
  /\ mem' = mem /\ status' = "run"
  /\ Len(act') < Len(act) => ip' = Pointer(target')
  /\ Len(act') > Len(act) => opcode = CALLS_I16 /\ s' = Stack_Push(s, Address(ip + 3))

LEMMA Stays ==
  ASSUME status = "run", NEW cells, NEW t, NEW next, NEW text,
         Execute(cells, t, act, next, text)
  PROVE  Quiet \/ Moves
  BY DEF Execute, Fault, Quiet, Moves

LEMMA SimpleStays ==
  ASSUME status = "run", NEW cells, NEW t, NEW n, Simple(cells, t, n)
  PROVE  Quiet \/ Moves
  BY Stays DEF Simple

LEMMA InherentMoves ==
  ASSUME status = "run", Inherent
  PROVE  Quiet \/ Moves
<1>1. ASSUME NEW code, NEW cells, NEW t, On(code, cells, t)
      PROVE  Quiet \/ Moves
  BY <1>1, SimpleStays DEF On
<1>2. CASE Divide
  BY <1>2, Stays DEF Divide
<1>3. CASE \/ Partial(REM, Stack_rem, RemDefined)
           \/ Partial(SHL, Stack_shl, ShiftDefined)
           \/ Partial(SHR, Stack_shr, ShiftDefined)
  BY <1>1, <1>3 DEF Partial, Dyadic, Fault, Quiet
<1> QED
  BY <1>1, <1>2, <1>3 DEF Inherent, Monadic, Dyadic

LEMMA ConstantsMove ==
  ASSUME status = "run", Constants
  PROVE  Quiet \/ Moves
<1>1. ASSUME NEW value, NEW n, Ldc(value, n)
      PROVE  Quiet \/ Moves
  BY <1>1, SimpleStays DEF Ldc
<1> QED
  BY <1>1 DEF Constants

LEMMA VariablesMove ==
  ASSUME status = "run", Variables
  PROVE  Quiet \/ Moves
<1>1. ASSUME NEW i, NEW n, Addv(i, n) \/ Ldv(i, n) \/ Stv(i, n) \/ Stepv(i, n)
      PROVE  Quiet \/ Moves
  BY <1>1, SimpleStays DEF Addv, Ldv, Stv, Stepv
<1> QED
  BY <1>1 DEF Variables

LEMMA BranchesMove ==
  ASSUME status = "run", Branches
  PROVE  Quiet \/ Moves
<1>1. ASSUME NEW offset, NEW n, Branch(offset) \/ BranchFalse(offset, n)
      PROVE  Quiet \/ Moves
  BY <1>1, SimpleStays DEF Branch, BranchFalse
<1> QED
  BY <1>1 DEF Branches

LEMMA TrapMoves ==
  ASSUME status = "run", Trap
  PROVE  Quiet \/ Moves
<1>1. ASSUME Kernel_IO
      PROVE  Quiet \/ Moves
  BY <1>1, Stays DEF Kernel_IO, PutS, Put, Lost, Quiet
<1> QED
  BY <1>1, SimpleStays DEF Trap

LEMMA CallsMoves ==
  ASSUME status = "run", Calls
  PROVE  Quiet \/ Moves
<1>1. CASE PushCells(s) \subseteq Index
  <2>1. /\ mem' = mem /\ status' = "run" /\ opcode = CALLS_I16
        /\ s' = Stack_Push(s, Address(ip + 3))
        /\ target' = IF Len(act') < Len(act) THEN ip + OperandI16 ELSE target
        /\ ip' = Pointer(ip + OperandI16)
    BY <1>1 DEF Calls, Execute
  <2> QED
    BY <2>1 DEF Moves
<1>2. CASE ~(PushCells(s) \subseteq Index)
  BY <1>2 DEF Calls, Execute, Fault, Quiet
<1> QED
  BY <1>1, <1>2

\* ENTER, EXIT and RET replace the current activation or end it.
LEMMA NoGrowth ==
  ASSUME CallsInv, status = "run", NEW cells, NEW t, NEW acts, NEW next, NEW text,
         Execute(cells, t, acts, next, text), Len(acts) <= Len(act)
  PROVE  Quiet \/ Moves
<1>1. CASE cells \subseteq Index
  <2>1. /\ mem' = mem /\ status' = "run" /\ act' = acts
        /\ target' = IF Len(acts) < Len(act) THEN next ELSE target
        /\ ip' = Pointer(next)
    BY <1>1 DEF Execute
  <2>2. ~(Len(act') > Len(act))
    BY <2>1
  <2> QED
    BY <2>1, <2>2 DEF Moves
<1>2. CASE ~(cells \subseteq Index)
  BY <1>2 DEF Execute, Fault, Quiet
<1> QED
  BY <1>1, <1>2

LEMMA ButLast ==
  ASSUME NEW T, NEW l \in Seq(T), Len(l) > 0
  PROVE  SubSeq(l, 1, Len(l) - 1) \in Seq(T) /\ Len(SubSeq(l, 1, Len(l) - 1)) = Len(l) - 1
<1> DEFINE q == Len(l) - 1
<1>1. q \in Nat /\ \A i \in 1 .. q : l[i] \in T
  OBVIOUS
<1> HIDE DEF q
<1>2. SubSeq(l, 1, q) \in Seq(T)
  BY <1>1
<1>3. Len(SubSeq(l, 1, q)) = q
  BY <1>1
<1> QED
  BY <1>2, <1>3 DEF q

LEMMA OthersShorter ==
  ASSUME CallsInv
  PROVE  Len(C!Others) = Len(act) - 1 /\ \A a : Len(Append(C!Others, a)) = Len(act)
<1>1. C!Others \in Seq(CP!Activations) /\ Len(C!Others) = Len(act) - 1
  <2>1. act \in Seq(CP!Activations) /\ Len(act) > 0
    BY Stack
  <2>2. C!Others = SubSeq(act, 1, Len(act) - 1)
    BY DEF C!Others, C!Depth
  <2> QED
    BY <2>1, <2>2, ButLast
<1> QED
  BY <1>1, Stack

LEMMA FramesMove ==
  ASSUME CallsInv, status = "run", EnterFunction \/ Ret \/ ExitFunction
  PROVE  Quiet \/ Moves
<1>1. ASSUME NEW t, NEW n, NEW v, NEW np, NEW nl, Enters(t, n, v, np, nl)
      PROVE  Quiet \/ Moves
  <2> DEFINE acts == Append(C!Others, C!Activation(t.bp, t.bp, v, np, nl))
  <2>1. Len(acts) = Len(act)
    BY OthersShorter
  <2>2. Execute(EnterCells(s, nl), t, acts, ip + n, << >>)
    BY <1>1 DEF Enters
  <2>3. Len(acts) <= Len(act)
    BY <2>1, Stack
  <2> HIDE DEF acts
  <2> QED
    BY <2>2, <2>3, NoGrowth
<1>2. Len(C!Others) <= Len(act)
  BY OthersShorter, Stack
<1>3. CASE Ret
  BY <1>2, <1>3, NoGrowth DEF Ret
<1>4. CASE ExitFunction
  BY <1>2, <1>4, NoGrowth DEF ExitFunction
<1> QED
  BY <1>1, <1>3, <1>4 DEF EnterFunction

Fresh == status = "idle" /\ Len(act') = 1

LEMMA EveryMove ==
  ASSUME CallsInv, [Next]_vars
  PROVE  Quiet \/ (Running /\ Moves) \/ Fresh
<1>1. CASE Instruction
  <2>1. status = "run" /\ Running
    BY <1>1 DEF Instruction, Running
  <2>2. CASE Reserved
    BY <2>2 DEF Reserved, vars, Quiet
  <2>3. CASE Halt \/ InvalidOpcode
    BY <2>3 DEF Halt, InvalidOpcode, Quiet
  <2> QED
    BY <1>1, <2>1, <2>2, <2>3, InherentMoves, ConstantsMove, VariablesMove,
       BranchesMove, CallsMoves, FramesMove, TrapMoves DEF Instruction
<1>2. CASE Stray
  BY <1>2 DEF Stray, Lost, Quiet
<1>3. CASE \E p \in Programs[printf] : Load(p)
  BY <1>3 DEF Load, Fresh, C!Outermost
<1>4. CASE UNCHANGED vars
  BY <1>4 DEF vars, Quiet
<1> QED
  BY <1>1, <1>2, <1>3, <1>4 DEF Next

-----------------------------------------------------------------------------
(* Every activation but the outermost continues behind a CALLS of the      *)
(* program in memory.                                                      *)

BehindCalls(a) == a \in Memory /\ mem[a - 3] = CALLS_I16

Marked == \A k \in 2 .. Len(act) : BehindCalls(Resume(k))

LEMMA MarkedInit == Init => Marked
  BY DEF Init, Marked, C!Outermost

\* A fault of the stack leaves everything where it was.
LEMMA FaultQuiet ==
  ASSUME [Next]_vars, status' = "fault", CallsInv
  PROVE  Quiet
<1>1. CASE \E p \in Programs[printf] : Load(p)
  BY <1>1 DEF Load
<1>2. CASE Instruction \/ Stray
  BY <1>2, EveryMove DEF Instruction, Running, Stray, Fresh, Moves
<1>3. CASE UNCHANGED vars
  BY <1>3 DEF vars, Quiet
<1> QED
  BY <1>1, <1>2, <1>3 DEF Next

LEMMA QuietKeeps ==
  ASSUME Marked, Quiet
  PROVE  Marked'
<1>1. s' = s /\ act' = act /\ mem' = mem
  BY DEF Quiet
<1>2. \A k \in 2 .. Len(act) : Resume(k)' = Resume(k)
  BY <1>1 DEF Resume, CP!Resume, CP!ReturnCell, CP!Framed
<1> QED
  BY <1>1, <1>2 DEF Marked, BehindCalls

\* The provers evaluate a power whose exponent is a numeral.
LEMMA PowersOfTwo == ASSUME NEW k \in 0 .. 32 PROVE 2^k \in Nat \ {0}
<1>1. CASE k = 0
  BY <1>1
<1>2. CASE k = 1
  BY <1>2
<1>3. CASE k = 2
  BY <1>3
<1>4. CASE k = 3
  BY <1>4
<1>5. CASE k = 4
  BY <1>5
<1>6. CASE k = 5
  BY <1>6
<1>7. CASE k = 6
  BY <1>7
<1>8. CASE k = 7
  BY <1>8
<1>9. CASE k = 8
  BY <1>9
<1>10. CASE k = 9
  BY <1>10
<1>11. CASE k = 10
  BY <1>11
<1>12. CASE k = 11
  BY <1>12
<1>13. CASE k = 12
  BY <1>13
<1>14. CASE k = 13
  BY <1>14
<1>15. CASE k = 14
  BY <1>15
<1>16. CASE k = 15
  BY <1>16
<1>17. CASE k = 16
  BY <1>17
<1>18. CASE k = 17
  BY <1>18
<1>19. CASE k = 18
  BY <1>19
<1>20. CASE k = 19
  BY <1>20
<1>21. CASE k = 20
  BY <1>21
<1>22. CASE k = 21
  BY <1>22
<1>23. CASE k = 22
  BY <1>23
<1>24. CASE k = 23
  BY <1>24
<1>25. CASE k = 24
  BY <1>25
<1>26. CASE k = 25
  BY <1>26
<1>27. CASE k = 26
  BY <1>27
<1>28. CASE k = 27
  BY <1>28
<1>29. CASE k = 28
  BY <1>29
<1>30. CASE k = 29
  BY <1>30
<1>31. CASE k = 30
  BY <1>31
<1>32. CASE k = 31
  BY <1>32
<1>33. CASE k = 32
  BY <1>33
<1> QED
  BY <1>1, <1>2, <1>3, <1>4, <1>5, <1>6, <1>7, <1>8, <1>9, <1>10, <1>11,
     <1>12, <1>13, <1>14, <1>15, <1>16, <1>17, <1>18, <1>19, <1>20,
     <1>21, <1>22, <1>23, <1>24, <1>25, <1>26, <1>27, <1>28, <1>29,
     <1>30, <1>31, <1>32, <1>33

\* Half the values of a word are negative.
LEMMA WordPowers ==
  /\ 2^(WordBits - 1) \in Nat /\ 2^(WordBits - 1) >= 65536
  /\ 2^WordBits = 2 * 2^(WordBits - 1)
<1>1. CASE WordBits = 17
  BY <1>1
<1>2. CASE WordBits = 18
  BY <1>2
<1>3. CASE WordBits = 19
  BY <1>3
<1>4. CASE WordBits = 20
  BY <1>4
<1>5. CASE WordBits = 21
  BY <1>5
<1>6. CASE WordBits = 22
  BY <1>6
<1>7. CASE WordBits = 23
  BY <1>7
<1>8. CASE WordBits = 24
  BY <1>8
<1>9. CASE WordBits = 25
  BY <1>9
<1>10. CASE WordBits = 26
  BY <1>10
<1>11. CASE WordBits = 27
  BY <1>11
<1>12. CASE WordBits = 28
  BY <1>12
<1>13. CASE WordBits = 29
  BY <1>13
<1>14. CASE WordBits = 30
  BY <1>14
<1>15. CASE WordBits = 31
  BY <1>15
<1>16. CASE WordBits = 32
  BY <1>16
<1> QED
  BY StackAssumption, <1>1, <1>2, <1>3, <1>4, <1>5, <1>6, <1>7, <1>8,
     <1>9, <1>10, <1>11, <1>12, <1>13, <1>14, <1>15, <1>16

\* The addresses of the memory are those that pointers and cells of a stack
\* hold unchanged.
LEMMA MemoryRange ==
  /\ BaseAddr \in Nat
  /\ \A x \in Memory : x \in Int /\ 0 <= x /\ x < 32768
  /\ \A x \in Allocated : x \in Int /\ 0 <= x /\ x < 32768
<1>1. PICK k \in 0 .. 16 : MemInc = 2^k
  BY MachineAssumption
<1>2. MemInc \in Nat \ {0}
  <2>1. k \in 0 .. 32
    OBVIOUS
  <2> QED
    BY <1>1, <2>1, PowersOfTwo
<1>3. MemAddr \in Nat /\ MemMax \in Nat /\ MemAddr + MemMax + MemInc < 32768
  <2>1. 2^15 = 32768
    OBVIOUS
  <2> QED BY <2>1, MachineAssumption
<1> DEFINE top == MemAddr + MemInc
<1>4. top \in Nat /\ top % MemInc \in 0 .. MemInc - 1
  BY <1>2, <1>3
<1>5. BaseAddr = top - (top % MemInc)
  BY DEF BaseAddr, GetBaseAddr
<1>6. BaseAddr \in Nat /\ BaseAddr <= top
  BY <1>2, <1>3, <1>4, <1>5
<1>7. \A x \in Memory : x \in Int /\ 0 <= x /\ x < 32768
  BY <1>2, <1>3, <1>6 DEF Memory
<1>8. \A x \in Allocated : x \in Int /\ 0 <= x /\ x < 32768
  BY <1>2, <1>3 DEF Allocated
<1> QED BY <1>6, <1>7, <1>8

LEMMA PointerIs == \A x : Pointer(x) = x % 65536
<1>1. 2^16 = 65536
  OBVIOUS
<1> QED BY <1>1 DEF Pointer

LEMMA SignedIs ==
  ASSUME NEW x
  PROVE  Signed(x, 16) = IF x >= 32768 THEN x - 65536 ELSE x
<1>1. 2^16 = 65536 /\ 2^(16 - 1) = 32768
  OBVIOUS
<1> QED BY <1>1 DEF Signed

LEMMA MemoryPointers == \A a \in Memory : Pointer(a) = a
<1> TAKE a \in Memory
<1>1. a \in Int /\ 0 <= a /\ a < 32768
  BY MemoryRange
<1>2. a % 65536 = a
  BY <1>1
<1> QED BY <1>2, PointerIs

\* The address a CALLS pushes, if it is one of the memory.
LEMMA AddressBehind ==
  ASSUME ip \in Memory, Address(ip + 3) \in Memory
  PROVE  Address(ip + 3) = ip + 3
<1>1. ip \in Int /\ 0 <= ip /\ ip < 32768
  BY MemoryRange
<1>2. Address(ip + 3) \in Int /\ 0 <= Address(ip + 3)
  BY MemoryRange
<1>3. Pointer(ip + 3) = ip + 3
  <2>1. (ip + 3) % 65536 = ip + 3
    BY <1>1
  <2> QED BY <2>1, PointerIs
<1>4. Address(ip + 3) = IF ip + 3 >= 32768 THEN (ip + 3) - 65536 ELSE ip + 3
  BY <1>3, SignedIs DEF Address
<1> QED BY <1>1, <1>2, <1>4

LEMMA MovesKeep ==
  ASSUME CallsInv, CallsInv', C!Next, Marked, Running, Moves
  PROVE  Marked'
<1>1. /\ mem' = mem /\ status' # "fault"
      /\ Len(act) \in Nat \ {0} /\ Len(act') <= Len(act) + 1 /\ Len(act') \in Nat
  BY Resumes, Stack DEF Moves
<1>2. \A k \in 2 .. Len(act) : k <= Len(act') => Resume(k)' = Resume(k)
  BY <1>1, Resumes
<1>3. ASSUME NEW k \in 2 .. Len(act'), k <= Len(act)
      PROVE  BehindCalls(Resume(k))'
  BY <1>1, <1>2, <1>3 DEF Marked, BehindCalls
<1>4. ASSUME NEW k \in 2 .. Len(act'), k > Len(act)
      PROVE  BehindCalls(Resume(k))'
  <2>1. Len(act') > Len(act) /\ k = Len(act')
    BY <1>1, <1>4
  <2>2. Resume(Len(act))' = ip + 3 /\ Resume(Len(act))' \in Memory /\ opcode = CALLS_I16
    <3>1. s' = Stack_Push(s, Address(ip + 3)) /\ opcode = CALLS_I16
      BY <2>1 DEF Moves
    <3>2. s.sp + 1 \in Index => s'.si[s.sp + 1] = Address(ip + 3)
      BY <3>1, Stack DEF Stack_Push, Desc
    <3>3. Resume(Len(act))' = Address(ip + 3) /\ Resume(Len(act))' \in Memory
      BY <1>1, <2>1, <3>1, <3>2, CallsResume
    <3> QED
      BY <3>1, <3>3, AddressBehind DEF Running
  <2>3. BehindCalls(Resume(k))' <=> Resume(k)' \in Memory /\ mem[Resume(k)' - 3] = CALLS_I16
    BY <1>1 DEF BehindCalls, CALLS_I16, Memory, BaseAddr
  <2>4. Resume(k)' = Resume(Len(act))'
    BY <2>1 DEF Resume, CP!Resume, CP!ReturnCell, CP!Framed
  <2>5. BaseAddr \in Int
    BY MemoryRange
  <2>6. ip + 0 = ip
    BY <2>5 DEF Running, Memory
  <2>7. Resume(k)' = ip + 3 /\ Resume(k)' \in Memory /\ mem[ip] = CALLS_I16
    BY <2>2, <2>4, <2>6 DEF opcode, Byte
  <2>8. Resume(k)' - 3 = ip
    <3>1. ip \in Int
      BY <2>5 DEF Running, Memory
    <3> QED
      BY <2>7, <3>1
  <2>9. mem[Resume(k)' - 3] = CALLS_I16
    BY <2>7, <2>8
  <2> QED
    BY <2>3, <2>7, <2>9
<1> QED
  BY <1>1, <1>3, <1>4 DEF Marked

LEMMA MarkedNext ==
  ASSUME CallsInv, CallsInv', [C!Next]_(C!vars), [Next]_vars, Marked
  PROVE  Marked'
<1>1. CASE Quiet
  BY <1>1, QuietKeeps
<1>2. CASE Running /\ Moves /\ C!Next
  BY <1>2, MovesKeep
<1>3. CASE Running /\ Moves /\ UNCHANGED C!vars
  <2>1. Quiet
    BY <1>3 DEF Moves, Quiet, C!vars
  <2> QED
    BY <2>1, QuietKeeps
<1>4. CASE Fresh
  BY <1>4 DEF Fresh, Marked
<1> QED
  BY <1>1, <1>2, <1>3, <1>4, EveryMove

LEMMA ReturnMarked ==
  ASSUME CallsInv, CallsInv', [C!Next]_(C!vars), [Next]_vars, Marked,
         status = "run", Len(act') < Len(act)
  PROVE  ip' \in Memory /\ mem[ip' - 3] = CALLS_I16
<1>1. ~Quiet /\ ~Fresh /\ act' # act
  BY Stack DEF Quiet, Fresh
<1>2. Moves /\ C!Next
  BY <1>1, EveryMove DEF C!vars
<1>3. Len(act) > 1 /\ target' = Resume(Len(act)) /\ ip' = Pointer(target')
  BY <1>2, Resumes DEF Moves
<1>4. Len(act) \in 2 .. Len(act)
  BY <1>3, Stack
<1>5. BehindCalls(Resume(Len(act)))
  BY <1>4 DEF Marked
<1> QED
  BY <1>3, <1>5, MemoryPointers DEF BehindCalls

(* RET and EXIT of a program that keeps to the discipline of compiled code *)
(* go on right behind a CALLS of that program: for all programs, wherever  *)
(* the memory lies, and for every size of the stack and width of its cells.*)
THEOREM ReturnsHome == Spec /\ Disciplined => ReturnsToCalls
<1>1. Init => Marked
  BY MarkedInit
<1>2. /\ CallsInv /\ CallsInv' /\ [C!Next]_(C!vars) /\ [Next]_vars /\ Marked
      => Marked'
  BY MarkedNext
<1>3. /\ CallsInv /\ CallsInv' /\ [C!Next]_(C!vars) /\ [Next]_vars /\ Marked
      => [status = "run" /\ Len(act') < Len(act)
            => ip' \in Memory /\ mem[ip' - 3] = CALLS_I16]_vars
  BY ReturnMarked
<1> QED
  BY <1>1, <1>2, <1>3, Disciplines, PTL DEF Spec, ReturnsToCalls

-----------------------------------------------------------------------------
(* Cells, bytes and characters: for every program, disciplined or not.     *)

UP == INSTANCE AUnit_proofs WITH
        MaxCharactersInLine <- 256,
        MaxLinesToTest      <- 9,
        Newline             <- 10,
        TestWord            <- <<84, 101, 115, 116>>,
        Less                <- 60,
        DigitOf             <- [c \in 0 .. 255 |-> c - 48]

Bytes == 0 .. 255
Words == -(2^(WordBits - 1)) .. 2^(WordBits - 1) - 1

\* A number wraps at h, half the number of words.
LEMMA WordBounds ==
  \E h \in Nat :
    /\ h >= 65536
    /\ \A x : x \in Words <=> x \in Int /\ -h <= x /\ x < h
    /\ \A x : I32(x) = ((x + h) % (2 * h)) - h
<1>1. PICK h \in Nat : h = 2^(WordBits - 1) /\ h >= 65536 /\ 2^WordBits = 2 * h
  BY WordPowers
<1>2. \A x : x \in Words <=> x \in Int /\ -h <= x /\ x < h
  BY <1>1 DEF Words
<1>3. \A x : I32(x) = ((x + h) % (2 * h)) - h
  BY <1>1 DEF I32
<1> QED BY <1>1, <1>2, <1>3

LEMMA WordIsInt == ASSUME NEW x \in Words PROVE x \in Int
  BY WordBounds

LEMMA SmallWord == ASSUME NEW x \in Int, -65536 <= x, x <= 65535 PROVE x \in Words
<1>1. PICK h \in Nat :
        h >= 65536 /\ \A y : y \in Words <=> y \in Int /\ -h <= y /\ y < h
  BY WordBounds
<1> QED BY <1>1

LEMMA WrappedWord == ASSUME NEW x \in Int PROVE I32(x) \in Words
<1>1. PICK h \in Nat :
        /\ h >= 65536
        /\ \A y : y \in Words <=> y \in Int /\ -h <= y /\ y < h
        /\ \A y : I32(y) = ((y + h) % (2 * h)) - h
  BY WordBounds
<1>2. PICK m \in 0 .. (2 * h) - 1 : m = (x + h) % (2 * h)
  BY <1>1
<1>3. I32(x) = m - h
  BY <1>1, <1>2
<1>4. m - h \in Int /\ -h <= m - h /\ m - h < h
  BY <1>1, <1>2
<1> QED BY <1>1, <1>3, <1>4

LEMMA WordStays == ASSUME NEW x \in Words PROVE I32(x) = x
<1>1. PICK h \in Nat :
        /\ h >= 65536
        /\ \A y : y \in Words <=> y \in Int /\ -h <= y /\ y < h
        /\ \A y : I32(y) = ((y + h) % (2 * h)) - h
  BY WordBounds
<1>2. x \in Int /\ -h <= x /\ x < h
  BY <1>1
<1>3. x + h \in 0 .. (2 * h) - 1
  BY <1>1, <1>2
<1>4. \A y \in 0 .. (2 * h) - 1 : y % (2 * h) = y
  BY <1>1
<1>5. (x + h) % (2 * h) = x + h
  BY <1>3, <1>4
<1>6. I32(x) = (x + h) - h
  BY <1>1, <1>5
<1> QED BY <1>1, <1>2, <1>6

\* The sum in FromBits, with h for the sums before it.
SumAt(b, h, i) == IF i = 0 THEN 0 ELSE h[i - 1] + b[i - 1] * 2^(i - 1)

SumsTo(b, n) == \E h : h = [i \in 0 .. n |-> SumAt(b, h, i)]

LEMMA SumsExtend ==
  ASSUME NEW b, NEW n \in Nat, SumsTo(b, n)
  PROVE  SumsTo(b, n + 1)
<1>1. PICK h : h = [i \in 0 .. n |-> SumAt(b, h, i)]
  BY DEF SumsTo
<1> DEFINE g == [i \in 0 .. n + 1 |-> IF i = n + 1 THEN SumAt(b, h, i) ELSE h[i]]
<1>2. ASSUME NEW i \in 0 .. n + 1
      PROVE  SumAt(b, g, i) = SumAt(b, h, i)
  <2>1. CASE i = 0
    BY <2>1 DEF SumAt
  <2>2. CASE i # 0
    <3>1. g[i - 1] = h[i - 1]
      BY <2>2
    <3> HIDE DEF g
    <3> QED BY <3>1 DEF SumAt
  <2> QED BY <2>1, <2>2
<1>3. ASSUME NEW i \in 0 .. n + 1
      PROVE  g[i] = SumAt(b, h, i)
  <2>1. CASE i = n + 1
    BY <2>1
  <2>2. CASE i # n + 1
    <3>1. i \in 0 .. n BY <2>2
    <3> QED BY <1>1, <2>2, <3>1
  <2> QED BY <2>1, <2>2
<1>4. g = [i \in 0 .. n + 1 |-> g[i]]
  OBVIOUS
<1>5. g = [i \in 0 .. n + 1 |-> SumAt(b, g, i)]
  <2> HIDE DEF g
  <2> QED BY <1>2, <1>3, <1>4
<1> QED BY <1>5 DEF SumsTo

LEMMA SumsExist == ASSUME NEW b, NEW n \in Nat PROVE SumsTo(b, n)
<1> DEFINE bad == {k \in Nat : ~ SumsTo(b, k)}
<1>1. SUFFICES ASSUME bad # {} PROVE FALSE
  OBVIOUS
<1>2. PICK k \in bad : \A y \in bad : k <= y
  <2>1. bad \subseteq Nat OBVIOUS
  <2> HIDE DEF bad
  <2> QED BY <1>1, <2>1, UP!Least
<1>3. SumsTo(b, 0)
  <2> DEFINE h == [i \in 0 .. 0 |-> 0]
  <2>1. \A i \in 0 .. 0 : SumAt(b, h, i) = 0
    BY DEF SumAt
  <2>2. h = [i \in 0 .. 0 |-> SumAt(b, h, i)]
    BY <2>1
  <2> QED BY <2>2 DEF SumsTo
<1>4. k # 0 /\ k - 1 \in Nat
  BY <1>3
<1>5. SumsTo(b, k - 1)
  BY <1>2, <1>4
<1>6. SumsTo(b, (k - 1) + 1)
  BY <1>4, <1>5, SumsExtend
<1> QED BY <1>4, <1>6

LEMMA FromBitsWord ==
  ASSUME NEW b, \A i \in 0 .. WordBits - 1 : b[i] \in Int
  PROVE  FromBits(b) \in Words
<1>1. WordBits \in Nat
  BY StackAssumption
<1> DEFINE sum == CHOOSE f : f = [i \in 0 .. WordBits |-> SumAt(b, f, i)]
<1>2. sum = [i \in 0 .. WordBits |-> SumAt(b, sum, i)]
  <2>1. \E h : h = [i \in 0 .. WordBits |-> SumAt(b, h, i)]
    BY <1>1, SumsExist DEF SumsTo
  <2> QED BY <2>1
<1>3. FromBits(b) = I32(sum[WordBits])
  BY DEF FromBits, SumAt
<1> HIDE DEF sum
<1> DEFINE bad == {k \in 0 .. WordBits : sum[k] \notin Int}
<1>4. bad = {}
  <2>1. SUFFICES ASSUME bad # {} PROVE FALSE
    OBVIOUS
  <2>2. PICK k \in bad : \A y \in bad : k <= y
    <3>1. bad \subseteq Nat BY <1>1
    <3> HIDE DEF bad
    <3> QED BY <2>1, <3>1, UP!Least
  <2>3. k \in 0 .. WordBits /\ sum[k] \notin Int /\ sum[k] = SumAt(b, sum, k)
    BY <1>2
  <2>4. k # 0
    BY <2>3 DEF SumAt
  <2>5. k - 1 \in 0 .. WordBits /\ k - 1 \notin bad
    BY <1>1, <2>2, <2>3, <2>4
  <2>6. sum[k - 1] \in Int /\ b[k - 1] \in Int
    BY <1>1, <2>3, <2>4, <2>5
  <2>7. 2^(k - 1) \in Int
    <3>1. k - 1 \in 0 .. 32
      BY <1>1, <2>3, <2>4, StackAssumption
    <3> QED BY <3>1, PowersOfTwo
  <2>8. SumAt(b, sum, k) \in Int
    BY <2>4, <2>6, <2>7 DEF SumAt
  <2> QED BY <2>3, <2>8
<1>5. sum[WordBits] \in Int
  BY <1>1, <1>4
<1> QED BY <1>3, <1>5, WrappedWord

\* What the operations of the stack compute of words are words.
LEMMA BitIs ==
  ASSUME NEW x \in Int, NEW i \in 0 .. WordBits - 1
  PROVE  Bit(x, i) \in 0 .. 1
<1>1. PICK p \in Nat \ {0} : p = 2^i
  <2>1. i \in 0 .. 32
    BY StackAssumption
  <2> QED BY <2>1, PowersOfTwo
<1>2. x \div p \in Int
  BY <1>1
<1>3. (x \div p) % 2 \in 0 .. 1
  BY <1>2
<1> QED BY <1>1, <1>3 DEF Bit

LEMMA BitwiseWord ==
  ASSUME NEW x \in Words, NEW y \in Words
  PROVE  BitAnd(x, y) \in Words /\ BitOr(x, y) \in Words /\ BitXor(x, y) \in Words
<1>1. \A i \in 0 .. WordBits - 1 : Bit(x, i) \in 0 .. 1 /\ Bit(y, i) \in 0 .. 1
  BY BitIs, WordIsInt
<1> DEFINE conj == [i \in 0 .. WordBits - 1 |-> Bit(x, i) * Bit(y, i)]
           disj == [i \in 0 .. WordBits - 1 |-> 1 - (1 - Bit(x, i)) * (1 - Bit(y, i))]
           odd  == [i \in 0 .. WordBits - 1 |-> (Bit(x, i) + Bit(y, i)) % 2]
<1>2. ASSUME NEW i \in 0 .. WordBits - 1
      PROVE  conj[i] \in Int /\ disj[i] \in Int /\ odd[i] \in Int
  <2>1. PICK u \in 0 .. 1, v \in 0 .. 1 : u = Bit(x, i) /\ v = Bit(y, i)
    BY <1>1
  <2>2. u * v \in Int /\ 1 - (1 - u) * (1 - v) \in Int /\ (u + v) % 2 \in Int
    OBVIOUS
  <2> QED BY <2>1, <2>2
<1>3. FromBits(conj) \in Words /\ FromBits(disj) \in Words /\ FromBits(odd) \in Words
  <2> HIDE DEF conj, disj, odd
  <2> QED BY <1>2, FromBitsWord
<1> QED BY <1>3 DEF BitAnd, BitOr, BitXor

LEMMA ComplementWord ==
  ASSUME NEW x \in Words
  PROVE  -x - 1 \in Words
<1>1. PICK h \in Nat : \A y : y \in Words <=> y \in Int /\ -h <= y /\ y < h
  BY WordBounds
<1>2. x \in Int /\ -h <= x /\ x < h
  BY <1>1
<1>3. -x - 1 \in Int /\ -h <= -x - 1 /\ -x - 1 < h
  BY <1>1, <1>2
<1> QED BY <1>1, <1>3

LEMMA MagnitudeIs ==
  ASSUME NEW x \in Int
  PROVE  Magnitude(x) \in Nat /\ (x = 0 <=> Magnitude(x) = 0)
  BY DEF Magnitude

LEMMA QuotientIs ==
  ASSUME NEW x \in Int, NEW y \in Int, y # 0
  PROVE  Quotient(x, y) \in Int
<1>1. Magnitude(x) \div Magnitude(y) \in Int
  BY MagnitudeIs
<1> QED BY <1>1 DEF Quotient

\* C's remainder is between zero and the dividend.
LEMMA RemainderWord ==
  ASSUME NEW x \in Words, NEW y \in Words, y # 0
  PROVE  Remainder(x, y) \in Words
<1>1. PICK h \in Nat : \A z : z \in Words <=> z \in Int /\ -h <= z /\ z < h
  BY WordBounds
<1>2. x \in Int /\ y \in Int /\ -h <= x /\ x < h
  BY <1>1
<1>3. PICK a \in Nat, b \in Nat \ {0} : a = Magnitude(x) /\ b = Magnitude(y)
  BY <1>2, MagnitudeIs
<1>4. PICK q \in Nat, r \in Nat : q = a \div b /\ a = b * q + r
  <2>1. a \div b \in Nat /\ a % b \in Nat /\ a = b * (a \div b) + (a % b)
    BY <1>3
  <2> QED BY <2>1
<1>5. b * q \in Nat /\ b * q <= a
  BY <1>3, <1>4
<1>6. Quotient(x, y) = IF (x < 0) = (y < 0) THEN q ELSE -q
  BY <1>3, <1>4 DEF Quotient
<1>7. y * Quotient(x, y) = IF x < 0 THEN -(b * q) ELSE b * q
  <2>1. b = IF y < 0 THEN -y ELSE y
    BY <1>3 DEF Magnitude
  <2>2. CASE y < 0
    <3>1. y = -b /\ Quotient(x, y) = IF x < 0 THEN q ELSE -q
      BY <1>2, <1>6, <2>1, <2>2
    <3>2. (-b) * q = -(b * q) /\ (-b) * (-q) = b * q
      BY <1>3, <1>4
    <3> QED BY <3>1, <3>2
  <2>3. CASE ~(y < 0)
    <3>1. y = b /\ Quotient(x, y) = IF x < 0 THEN -q ELSE q
      BY <1>2, <1>6, <2>1, <2>3
    <3>2. b * (-q) = -(b * q)
      BY <1>3, <1>4
    <3> QED BY <3>1, <3>2
  <2> QED BY <2>2, <2>3
<1>8. PICK m \in Nat : m = b * q /\ m <= a
  BY <1>5
<1>9. Remainder(x, y) = IF x < 0 THEN x + m ELSE x - m
  <2>1. x - (-m) = x + m
    BY <1>2, <1>8
  <2> QED BY <1>7, <1>8, <2>1 DEF Remainder
<1>10. a = IF x < 0 THEN -x ELSE x
  BY <1>3 DEF Magnitude
<1>11. Remainder(x, y) \in Int /\ -h <= Remainder(x, y) /\ Remainder(x, y) < h
  BY <1>1, <1>2, <1>8, <1>9, <1>10
<1> QED BY <1>1, <1>11

LEMMA DivideStays ==
  ASSUME NEW x \in Int, NEW p \in Nat, p > 0, NEW h \in Nat, -h <= x, x < h
  PROVE  x \div p \in Int /\ -h <= x \div p /\ x \div p < h
<1>1. x \div p \in Int
  OBVIOUS
<1>2. -h <= x \div p /\ x \div p < h
  OBVIOUS
<1> QED BY <1>1, <1>2

LEMMA ShiftedWord ==
  ASSUME NEW x \in Words, NEW k \in 0 .. WordBits - 1
  PROVE  I32((x % 2^(WordBits - k)) * 2^k) \in Words /\ x \div 2^k \in Words
<1>1. k \in 0 .. 32 /\ WordBits - k \in 0 .. 32
  BY StackAssumption
<1>2. PICK p \in Nat \ {0}, o \in Nat \ {0} : p = 2^k /\ o = 2^(WordBits - k)
  BY <1>1, PowersOfTwo
<1>3. PICK h \in Nat : \A z : z \in Words <=> z \in Int /\ -h <= z /\ z < h
  BY WordBounds
<1>4. x \in Int /\ -h <= x /\ x < h
  BY <1>3
<1>5. (x % o) * p \in Int
  <2>1. x % o \in Int BY <1>2, <1>4
  <2> QED BY <1>2, <2>1
<1>6. x \div p \in Int /\ -h <= x \div p /\ x \div p < h
  BY <1>2, <1>3, <1>4, DivideStays
<1> QED BY <1>2, <1>3, <1>5, <1>6, WrappedWord

-----------------------------------------------------------------------------
(* What the console prints is characters.                                  *)

LEMMA Joined ==
  ASSUME NEW S, NEW a \in Seq(S), NEW b \in Seq(S)
  PROVE  a \o b \in Seq(S)
  OBVIOUS

LEMMA DecimalPowers == ASSUME NEW k \in 0 .. 9 PROVE 10^k \in Nat /\ 10^k > 0
<1>1. CASE k = 0
  BY <1>1
<1>2. CASE k = 1
  BY <1>2
<1>3. CASE k = 2
  BY <1>3
<1>4. CASE k = 3
  BY <1>4
<1>5. CASE k = 4
  BY <1>5
<1>6. CASE k = 5
  BY <1>6
<1>7. CASE k = 6
  BY <1>7
<1>8. CASE k = 7
  BY <1>8
<1>9. CASE k = 8
  BY <1>9
<1>10. CASE k = 9
  BY <1>10
<1> QED
  BY <1>1, <1>2, <1>3, <1>4, <1>5, <1>6, <1>7, <1>8, <1>9, <1>10

LEMMA HexadecimalPowers == ASSUME NEW k \in 0 .. 7 PROVE 16^k \in Nat /\ 16^k > 0
<1>1. CASE k = 0
  BY <1>1
<1>2. CASE k = 1
  BY <1>2
<1>3. CASE k = 2
  BY <1>3
<1>4. CASE k = 3
  BY <1>4
<1>5. CASE k = 4
  BY <1>5
<1>6. CASE k = 5
  BY <1>6
<1>7. CASE k = 6
  BY <1>7
<1>8. CASE k = 7
  BY <1>8
<1> QED
  BY <1>1, <1>2, <1>3, <1>4, <1>5, <1>6, <1>7, <1>8

\* The digit of n at place k.
Figure(n, base, k) == (n \div base^k) % base

LEMMA FigureIs ==
  ASSUME NEW n \in Int, NEW base \in {10, 16}, NEW k \in 0 .. Out!HighestPlace(base)
  PROVE  Figure(n, base, k) \in 0 .. base - 1
<1>1. PICK p \in Nat : p > 0 /\ p = base^k
  <2>1. CASE base = 10
    <3>1. k \in 0 .. 9 BY <2>1 DEF Out!HighestPlace
    <3>2. 10^k \in Nat /\ 10^k > 0 BY <3>1, DecimalPowers
    <3> QED BY <2>1, <3>2
  <2>2. CASE base = 16
    <3>1. k \in 0 .. 7 BY <2>2 DEF Out!HighestPlace
    <3>2. 16^k \in Nat /\ 16^k > 0 BY <3>1, HexadecimalPowers
    <3> QED BY <2>2, <3>2
  <2> QED BY <2>1, <2>2
<1>2. PICK m \in Int : m = n \div p
  BY <1>1
<1>3. m % base \in 0 .. base - 1
  <2>1. CASE base = 10
    BY <2>1
  <2>2. CASE base = 16
    BY <2>2
  <2> QED BY <2>1, <2>2
<1> QED BY <1>1, <1>2, <1>3 DEF Figure

LEMMA MaxIs ==
  ASSUME NEW T, T # {}, NEW m \in Nat, T \subseteq 0 .. m
  PROVE  Max(T) \in T
<1> DEFINE D == {d \in 0 .. m : m - d \in T}
<1>1. D \subseteq Nat /\ D # {}
  <2>1. PICK t \in 0 .. m : t \in T
    OBVIOUS
  <2>2. m - t \in 0 .. m /\ m - (m - t) = t
    BY <2>1
  <2> QED BY <2>1, <2>2
<1>2. PICK d \in D : \A e \in D : d <= e
  <2> HIDE DEF D
  <2> QED BY <1>1, UP!Least
<1>3. m - d \in T
  OBVIOUS
<1>4. ASSUME NEW y \in T
      PROVE  m - d >= y
  <2>1. y \in 0 .. m /\ m - y \in 0 .. m /\ m - (m - y) = y
    OBVIOUS
  <2>2. m - y \in D
    BY <2>1
  <2>3. d \in 0 .. m /\ d <= m - y
    BY <1>2, <2>2
  <2> QED BY <2>1, <2>3
<1> QED BY <1>3, <1>4 DEF Max

LEMMA UtoaPrints ==
  ASSUME NEW n \in Int, NEW base \in {10, 16}
  PROVE  /\ Out!bsl_utoa(n, base) \in Seq(Bytes)
         /\ Len(Out!bsl_utoa(n, base)) \in 1 .. Out!HighestPlace(base) + 1
<1>1. PICK high \in Nat : high = Out!HighestPlace(base)
  BY DEF Out!HighestPlace
<1> DEFINE T   == {0} \cup {k \in 1 .. high : Figure(n, base, k) # 0}
           top == Max(T)
<1>2. top \in 0 .. high
  <2>1. T # {} /\ T \subseteq 0 .. high
    OBVIOUS
  <2> HIDE DEF T
  <2> QED BY <2>1, MaxIs
<1> DEFINE text == [i \in 1 .. top + 1 |-> Out!Digit(Figure(n, base, top + 1 - i))]
<1>3. Out!bsl_utoa(n, base) = text
  BY <1>1 DEF Out!bsl_utoa, Out!Max, Max, Figure
<1> HIDE DEF top
<1>4. ASSUME NEW i \in 1 .. top + 1
      PROVE  Out!Digit(Figure(n, base, top + 1 - i)) \in Bytes
  <2>1. top + 1 - i \in 0 .. Out!HighestPlace(base)
    BY <1>1, <1>2
  <2>2. PICK d \in 0 .. 15 : d = Figure(n, base, top + 1 - i)
    <3>1. base - 1 \in 0 .. 15 OBVIOUS
    <3> QED BY <2>1, <3>1, FigureIs
  <2>3. Out!Digit(d) \in Bytes
    BY DEF Out!Digit, Bytes
  <2> QED BY <2>2, <2>3
<1>5. text \in Seq(Bytes) /\ Len(text) = top + 1
  <2>1. top + 1 \in Nat
    BY <1>2
  <2>2. text \in [1 .. top + 1 -> Bytes]
    BY <1>4
  <2> HIDE DEF text
  <2> QED BY <2>1, <2>2
<1> HIDE DEF text
<1> QED BY <1>1, <1>2, <1>3, <1>5

LEMMA UnsignedIs == ASSUME NEW x \in Int PROVE Out!Unsigned(x) \in Int
<1>1. PICK h \in Nat : 2^WordBits = 2 * h /\ h > 0
  BY WordPowers
<1>2. x % (2 * h) \in Int
  BY <1>1
<1> QED BY <1>1, <1>2 DEF Out!Unsigned

LEMMA NumberPrints ==
  ASSUME NEW x \in Int
  PROVE  /\ Out!PutI(x) \in Seq(Bytes)
         /\ Out!PutU(x) \in Seq(Bytes)
         /\ Out!PutX(x) \in Seq(Bytes)
<1>1. \A y \in Int : Out!bsl_utoa(y, 10) \in Seq(Bytes)
  BY UtoaPrints
<1>2. Out!PutU(x) \in Seq(Bytes)
  BY <1>1, UnsignedIs DEF Out!PutU
<1>3. Out!PutI(x) \in Seq(Bytes)
  <2>1. <<45>> \in Seq(Bytes)
    BY DEF Bytes
  <2>2. Out!bsl_utoa(Out!Unsigned(-x), 10) \in Seq(Bytes)
    <3>1. -x \in Int OBVIOUS
    <3> QED BY <1>1, <3>1, UnsignedIs
  <2>3. <<45>> \o Out!bsl_utoa(Out!Unsigned(-x), 10) \in Seq(Bytes)
    BY <2>1, <2>2, Joined
  <2> QED BY <1>1, <2>3 DEF Out!PutI, Out!bsl_itoa
<1>4. Out!PutX(x) \in Seq(Bytes)
  <2> DEFINE digits == Out!bsl_utoa(x, 16)
             zeros  == [i \in 1 .. 8 - Len(digits) |-> 48]
  <2>1. digits \in Seq(Bytes) /\ Len(digits) \in 1 .. 8
    BY UtoaPrints DEF Out!HighestPlace
  <2> HIDE DEF digits
  <2>2. zeros \in Seq(Bytes)
    <3>1. 8 - Len(digits) \in Nat
      <4>1. PICK l \in 1 .. 8 : l = Len(digits)
        BY <2>1
      <4> QED BY <4>1
    <3>2. zeros \in [1 .. 8 - Len(digits) -> Bytes]
      BY DEF Bytes
    <3> HIDE DEF zeros
    <3> QED BY <3>1, <3>2
  <2> HIDE DEF zeros
  <2>3. zeros \o digits \in Seq(Bytes)
    BY <2>1, <2>2, Joined
  <2> QED BY <2>1, <2>3 DEF Out!PutX, digits, zeros
<1> QED BY <1>2, <1>3, <1>4

LEMMA CharacterPrints ==
  ASSUME NEW x \in Int
  PROVE  Out!PutB(x) \in Seq(Bytes) /\ Out!PutC(x) \in Seq(Bytes) /\ Out!PutN \in Seq(Bytes)
<1>1. <<116, 114, 117, 101>> \in Seq(Bytes) /\ <<84>> \in Seq(Bytes)
  BY DEF Bytes
<1>2. <<102, 97, 108, 115, 101>> \in Seq(Bytes) /\ <<70>> \in Seq(Bytes)
  BY DEF Bytes
<1>3. Out!PutB(x) \in Seq(Bytes)
  BY <1>1, <1>2 DEF Out!PutB, Out!True, Out!False
<1>4. PICK c \in Bytes : c = x % 256
  BY DEF Bytes
<1>5. Out!PutC(x) \in Seq(Bytes)
  BY <1>4 DEF Out!PutC
<1>6. Out!PutN \in Seq(Bytes)
  BY DEF Out!PutN, Out!Newline, Bytes
<1> QED BY <1>3, <1>5, <1>6

LEMMA MessagesPrint ==
  /\ DivisionMessage \in Seq(Bytes)
  /\ OpcodeText \in Seq(Bytes)
  /\ ReservedText \in Seq(Bytes)
  /\ <<204, 0>> \in Seq(Bytes)
<1>1. DivisionMessage \in Seq(Bytes)
  BY DEF DivisionMessage, Bytes
<1>2. OpcodeText \in Seq(Bytes)
  BY DEF OpcodeText, Bytes
<1>3. ReservedText \in Seq(Bytes)
  BY DEF ReservedText, Bytes
<1>4. <<204, 0>> \in Seq(Bytes)
  BY DEF Bytes
<1> QED BY <1>1, <1>2, <1>3, <1>4

\* What the memory holds, and the numbers that are read from it.
MemoryTyped == mem \in [Allocated -> Bytes]

LEMMA MemoryAllocated == Memory \subseteq Allocated
<1>1. PICK k \in 0 .. 16 : MemInc = 2^k
  BY MachineAssumption
<1>2. MemInc \in Nat /\ MemInc > 0
  <2>1. k \in 0 .. 32
    OBVIOUS
  <2>2. MemInc \in Nat \ {0}
    BY <1>1, <2>1, PowersOfTwo
  <2> QED BY <2>2
<1>3. MemAddr \in Nat /\ MemMax \in Nat
  BY MachineAssumption
<1> DEFINE top == MemAddr + MemInc
<1>4. top \in Nat /\ top % MemInc \in 0 .. MemInc - 1
  BY <1>2, <1>3
<1>5. BaseAddr = top - (top % MemInc)
  BY DEF BaseAddr, GetBaseAddr
<1>6. BaseAddr \in Int /\ MemAddr <= BaseAddr /\ BaseAddr <= MemAddr + MemInc
  BY <1>2, <1>3, <1>4, <1>5
<1> QED BY <1>2, <1>3, <1>6 DEF Memory, Allocated

LEMMA StringPrints ==
  ASSUME MemoryTyped, NEW a \in Memory, Zeros(a) # {}
  PROVE  CString(a) \in Seq(Bytes)
<1>1. a \in Nat /\ Zeros(a) \subseteq Nat
  <2>1. \A x \in Memory : x \in Nat
    BY MemoryRange
  <2> QED BY <2>1 DEF Zeros
<1>2. Min(Zeros(a)) \in Zeros(a)
  <2>1. \E x \in Zeros(a) : \A y \in Zeros(a) : x <= y
    BY <1>1, UP!Least
  <2> QED BY <2>1 DEF Min
<1>3. PICK e \in Memory : e = Min(Zeros(a)) /\ e >= a /\ e \in Nat
  BY <1>1, <1>2 DEF Zeros
<1> DEFINE text == [i \in 1 .. e - a |-> mem[a + i - 1]]
<1>4. ASSUME NEW i \in 1 .. e - a
      PROVE  mem[a + i - 1] \in Bytes
  <2>1. a + i - 1 \in Int /\ a <= a + i - 1 /\ a + i - 1 <= e
    BY <1>1, <1>3
  <2>2. a + i - 1 \in Memory
    <3>1. BaseAddr \in Int /\ MemMax \in Int
      BY MemoryRange, MachineAssumption
    <3> QED BY <1>1, <1>3, <2>1, <3>1 DEF Memory
  <2> QED BY <2>2, MemoryAllocated DEF MemoryTyped
<1>5. text \in Seq(Bytes)
  <2>1. e - a \in Nat
    BY <1>1, <1>3
  <2>2. text \in [1 .. e - a -> Bytes]
    BY <1>4
  <2> HIDE DEF text
  <2> QED BY <2>1, <2>2
<1> QED BY <1>3, <1>5 DEF CString

-----------------------------------------------------------------------------
(* The invariant.                                                          *)

\* No program reaches the last four bytes, so that HALT is in each of them: an
\* instruction with operands has them in memory.
TailHalts == \A a \in Memory : a + 4 >= BaseAddr + MemMax => mem[a] = 0

\* Numbers of sixteen bits.
IsU16(x) == x \in Int /\ 0 <= x /\ x < 65536
IsI16(x) == x \in Int /\ -32768 <= x /\ x < 32768

DescTyped(t) == t.si \in [Index -> Words] /\ t.bp \in -128 .. 127 /\ t.sp \in Int

Typed ==
  /\ printf \in DOMAIN Programs
  /\ MemoryTyped
  /\ TailHalts
  /\ DescTyped(s)
  /\ IsU16(ip)
  /\ out \in Seq(Bytes)
  /\ status \in {"run", "idle", "exited", "fault", "lost"}

LEMMA CodeIs ==
  ASSUME MemoryTyped, ip \in Memory
  PROVE  opcode \in Bytes
<1>1. ip \in Int
  BY MemoryRange
<1>2. ip + 0 = ip
  BY <1>1
<1> QED BY <1>2, MemoryAllocated DEF opcode, Byte, MemoryTyped

LEMMA OperandsAre ==
  ASSUME MemoryTyped, TailHalts, ip \in Memory, opcode # 0, NEW n \in 1 .. 4
  PROVE  Byte(n) \in Bytes
<1>1. ip \in Int /\ BaseAddr \in Int /\ MemMax \in Int
  BY MemoryRange, MachineAssumption
<1>2. mem[ip] # 0
  <2>1. ip + 0 = ip
    BY <1>1
  <2> QED BY <2>1 DEF opcode, Byte
<1>3. ip + 4 < BaseAddr + MemMax /\ BaseAddr <= ip
  BY <1>1, <1>2 DEF TailHalts, Memory
<1>4. ip + n \in Memory
  BY <1>1, <1>3 DEF Memory
<1> QED BY <1>4, MemoryAllocated DEF Byte, MemoryTyped

LEMMA SignedByte ==
  ASSUME NEW x \in Bytes
  PROVE  Signed(x, 8) \in -128 .. 127
<1>1. 2^8 = 256 /\ 2^(8 - 1) = 128
  OBVIOUS
<1>2. Signed(x, 8) = IF x >= 128 THEN x - 256 ELSE x
  BY <1>1 DEF Signed
<1> QED BY <1>2 DEF Bytes

LEMMA SignedHalf ==
  ASSUME NEW x, IsU16(x)
  PROVE  IsI16(Signed(x, 16))
<1>1. Signed(x, 16) = IF x >= 32768 THEN x - 65536 ELSE x
  BY SignedIs DEF IsU16
<1> QED BY <1>1 DEF IsU16, IsI16

LEMMA PointerRange == ASSUME NEW x \in Int PROVE IsU16(Pointer(x))
<1>1. x % 65536 \in Int /\ 0 <= x % 65536 /\ x % 65536 < 65536
  OBVIOUS
<1> QED BY <1>1, PointerIs DEF IsU16

LEMMA HalfWord == ASSUME NEW x, IsU16(x) \/ IsI16(x) PROVE x \in Words
<1>1. x \in Int /\ -65536 <= x /\ x < 65536
  BY DEF IsU16, IsI16
<1> QED BY <1>1, SmallWord

LEMMA AddressWord == ASSUME NEW x \in Int PROVE Address(x) \in Words
  BY PointerRange, SignedHalf, HalfWord DEF Address

LEMMA OperandRanges ==
  ASSUME MemoryTyped, TailHalts, ip \in Memory, opcode # 0
  PROVE  /\ Byte(1) \in Bytes
         /\ OperandI8 \in -128 .. 127
         /\ IsU16(OperandU16)
         /\ IsI16(OperandI16)
         /\ OperandI32 \in Words
<1>1. Byte(1) \in Bytes /\ Byte(2) \in Bytes /\ Byte(3) \in Bytes /\ Byte(4) \in Bytes
  BY OperandsAre
<1>2. IsU16(OperandU16)
  <2>1. \A b, c : b \in Bytes /\ c \in Bytes => IsU16(b * 256 + c)
    BY DEF Bytes, IsU16
  <2> QED BY <1>1, <2>1 DEF OperandU16
<1>3. IsI16(OperandI16)
  BY <1>2, SignedHalf DEF OperandI16
<1>4. OperandI8 \in -128 .. 127
  BY <1>1, SignedByte DEF OperandI8
<1>5. OperandI32 \in Words
  <2>1. 2^16 = 65536
    OBVIOUS
  <2>2. PICK a \in Int, b \in Int, c \in Int :
          a = Signed(OperandU16, 16) /\ b = Byte(3) /\ c = Byte(4)
    <3>1. Signed(OperandU16, 16) \in Int
      BY <1>3 DEF OperandI16, IsI16
    <3>2. \A b \in Bytes : b \in Int
      BY DEF Bytes
    <3> QED BY <1>1, <3>1, <3>2
  <2>3. a * 65536 + b * 256 + c \in Int
    OBVIOUS
  <2> QED BY <2>1, <2>2, <2>3, WrappedWord DEF OperandI32
<1> QED BY <1>1, <1>2, <1>3, <1>4, <1>5

-----------------------------------------------------------------------------
(* What the functions of the stack leave.                                  *)

LEMMA Stored ==
  ASSUME NEW f \in [Index -> Words], NEW k, NEW v \in Words
  PROVE  [f EXCEPT ![k] = v] \in [Index -> Words]
  OBVIOUS

LEMMA PushTyped ==
  ASSUME NEW t, DescTyped(t), NEW v \in Words
  PROVE  DescTyped(Stack_Push(t, v))
<1>1. [t.si EXCEPT ![t.sp + 1] = v] \in [Index -> Words]
  BY Stored DEF DescTyped
<1> QED BY <1>1 DEF DescTyped, Stack_Push, Desc

LEMMA PopTyped ==
  ASSUME NEW t, DescTyped(t)
  PROVE  DescTyped(Stack_Pop(t))
  BY DEF DescTyped, Stack_Pop, Desc

LEMMA SetTopTyped ==
  ASSUME NEW t, DescTyped(t), NEW v \in Words
  PROVE  DescTyped(SetTop(t, v))
<1>1. [t.si EXCEPT ![t.sp] = v] \in [Index -> Words]
  BY Stored DEF DescTyped
<1> QED BY <1>1 DEF DescTyped, SetTop, Desc

LEMMA CombineTyped ==
  ASSUME NEW t, DescTyped(t), NEW v \in Words
  PROVE  DescTyped(Combine(t, v))
<1>1. [t.si EXCEPT ![t.sp - 1] = v] \in [Index -> Words]
  BY Stored DEF DescTyped
<1> QED BY <1>1 DEF DescTyped, Combine, Desc

LEMMA FrameInfoIs ==
  ASSUME NEW t, DescTyped(t), t.bp - 2 \in Index
  PROVE  /\ FrameInfo(t) \in 0 .. 255
         /\ VOf(FrameInfo(t)) \in 0 .. 1
         /\ NpOf(FrameInfo(t)) \in 0 .. 7
         /\ NlOf(FrameInfo(t)) \in 0 .. 7
<1>1. t.si[t.bp - 2] \in Int
  BY WordIsInt DEF DescTyped
<1>2. PICK fi \in 0 .. 255 : fi = FrameInfo(t)
  BY <1>1 DEF FrameInfo, U8
<1>3. fi \div 64 \in Int /\ fi \div 8 \in Int
  OBVIOUS
<1>4. (fi \div 64) % 2 \in 0 .. 1 /\ (fi \div 8) % 8 \in 0 .. 7 /\ fi % 8 \in 0 .. 7
  BY <1>3
<1> QED BY <1>2, <1>4 DEF VOf, NpOf, NlOf

LEMMA StoreVariableTyped ==
  ASSUME NEW t, DescTyped(t), NEW i, t.sp \in Index
  PROVE  DescTyped(Stack_storeVariable(t, i))
<1>1. Stack_top(t) \in Words
  BY DEF DescTyped, Stack_top
<1>2. [t.si EXCEPT ![VariableCell(t, i)] = Stack_top(t)] \in [Index -> Words]
  BY <1>1, Stored DEF DescTyped
<1> QED BY <1>2 DEF DescTyped, Stack_storeVariable, Desc

LEMMA LoadVariableTyped ==
  ASSUME NEW t, DescTyped(t), NEW i, VariableCells(t, i) \subseteq Index
  PROVE  DescTyped(Stack_loadVariable(t, i))
<1>1. VariableCell(t, i) \in Index
  BY DEF VariableCells
<1>2. t.si[VariableCell(t, i)] \in Words
  BY <1>1 DEF DescTyped
<1> QED BY <1>2, PushTyped DEF Stack_loadVariable

LEMMA AddVariableTyped ==
  ASSUME NEW t, DescTyped(t), NEW i, t.sp \in Index
  PROVE  DescTyped(Stack_addVariable(t, i))
<1> DEFINE c == VariableCell(t, i)
           x == I32(t.si[c] + Stack_top(t))
<1>1. Stack_top(t) \in Int
  BY WordIsInt DEF DescTyped, Stack_top
<1>2. c \in Index => x \in Words
  <2>1. c \in Index => t.si[c] \in Int
    BY WordIsInt DEF DescTyped
  <2> HIDE DEF c
  <2> QED BY <1>1, <2>1, WrappedWord
<1>3. [t.si EXCEPT ![c] = x] \in [Index -> Words]
  <2> HIDE DEF c, x
  <2>1. t.si \in [Index -> Words]
    BY DEF DescTyped
  <2>2. CASE c \in Index
    BY <1>2, <2>1, <2>2
  <2>3. CASE c \notin Index
    BY <2>1, <2>3
  <2> QED BY <2>2, <2>3
<1>4. Stack_addVariable(t, i) = Desc(t, [t.si EXCEPT ![c] = x], t.bp, t.sp - 1)
  BY DEF Stack_addVariable
<1> HIDE DEF c, x
<1> QED BY <1>3, <1>4 DEF DescTyped, Desc

LEMMA IndexIs == Index \subseteq 0 .. 126
  BY StackAssumption DEF Index

LEMMA EnterTyped ==
  ASSUME NEW t, DescTyped(t), NEW v \in 0 .. 1, NEW np \in 0 .. 7, NEW nl \in 0 .. 7,
         EnterCells(t, nl) \subseteq Index
  PROVE  DescTyped(Enter(t, v, np, nl))
<1> DEFINE top == t.sp + nl + 2
           fi  == FctInfo(v, np, nl)
<1>1. t.sp \in Int
  BY DEF DescTyped
<1>2. top \in Int /\ top \in t.sp + nl .. t.sp + nl + 2
  BY <1>1
<1>3. t.sp \in Index /\ top \in Index
  BY <1>2 DEF EnterCells
<1>4. t.si[t.sp] \in Words
  BY <1>3 DEF DescTyped
<1>5. t.bp \in Words
  BY SmallWord DEF DescTyped
<1>6. fi \in Words
  <2>1. v * 64 + np * 8 + nl \in Int /\ -65536 <= v * 64 + np * 8 + nl
        /\ v * 64 + np * 8 + nl <= 65535
    OBVIOUS
  <2> QED BY <2>1, SmallWord DEF FctInfo
<1>7. top \in -128 .. 127
  <2>1. top \in 0 .. 126
    BY <1>3, IndexIs
  <2> HIDE DEF top
  <2> QED BY <2>1
<1> DEFINE cells == [t.si EXCEPT ![top - 2] = fi, ![top - 1] = t.si[t.sp], ![top] = t.bp]
<1>8. Enter(t, v, np, nl) = Desc(t, cells, top, top)
  BY DEF Enter, Stack_top
<1> HIDE DEF top, fi
<1>9. cells \in [Index -> Words]
  <2>1. t.si \in [Index -> Words]
    BY DEF DescTyped
  <2> QED BY <1>4, <1>5, <1>6, <2>1
<1> HIDE DEF cells
<1> QED BY <1>2, <1>7, <1>8, <1>9 DEF DescTyped, Desc

LEMMA ExitBaseIs ==
  ASSUME NEW t, DescTyped(t), t.bp - 2 \in Index
  PROVE  ExitBase(t) \in Int
<1>1. PICK v \in Int, np \in Int, nl \in Int :
        v = VOf(FrameInfo(t)) /\ np = NpOf(FrameInfo(t)) /\ nl = NlOf(FrameInfo(t))
  BY FrameInfoIs
<1>2. t.sp \in Int
  BY DEF DescTyped
<1>3. t.sp - v - 2 - (np + nl + 1) - (IF np + nl > 7 THEN nl ELSE 0) \in Int
  BY <1>2
<1> QED BY <1>1, <1>3 DEF ExitBase

LEMMA ExitTyped ==
  ASSUME NEW t, DescTyped(t), ExitCells(t) \subseteq Index
  PROVE  DescTyped(Stack_exit(t))
<1>1. t.bp - 2 \in Index
  BY DEF ExitCells
<1>2. PICK v \in 0 .. 1 : v = VOf(FrameInfo(t))
  BY <1>1, FrameInfoIs
<1>3. PICK base \in Int : base = ExitBase(t)
  BY <1>1, ExitBaseIs
<1>4. t.sp - v - 1 \in Index /\ t.sp - v \in Index /\ t.sp \in Index
  <2>1. t.sp - v - 1 .. t.sp \subseteq Index
    BY <1>1, <1>2 DEF ExitCells
  <2>2. t.sp \in Int
    BY DEF DescTyped
  <2> QED BY <2>1, <2>2
<1>5. t.si \in [Index -> Words]
  BY DEF DescTyped
<1> DEFINE x == t.si[t.sp]
           y == t.si[t.sp - v - 1]
           z == t.si[t.sp - v]
<1>6. x \in Words /\ y \in Words /\ z \in Words
  BY <1>4, <1>5
<1>7. I8(U8(z)) \in -128 .. 127
  <2>1. PICK c \in Int : c = z
    BY <1>6, WordIsInt
  <2>2. PICK u \in 0 .. 255 : u = U8(c)
    BY DEF U8
  <2>3. ((u + 128) % 256) - 128 \in -128 .. 127
    OBVIOUS
  <2> QED BY <2>1, <2>2, <2>3 DEF I8
<1> DEFINE one  == [t.si EXCEPT ![base + 1] = x, ![base + 2] = y]
           none == [t.si EXCEPT ![base + 1] = y]
<1>8. Stack_exit(t) = Desc(t, IF v = 1 THEN one ELSE none, I8(U8(z)), base + v + 1)
  BY <1>2, <1>3 DEF Stack_exit, Stack_top
<1> HIDE DEF x, y, z
<1>9. one \in [Index -> Words] /\ none \in [Index -> Words]
  BY <1>5, <1>6
<1> HIDE DEF one, none
<1> QED BY <1>7, <1>8, <1>9 DEF DescTyped, Desc

-----------------------------------------------------------------------------
(* One lemma for each group of instructions.                               *)

ExecuteKeeps(cells, t, next, text) ==
  cells \subseteq Index => DescTyped(t) /\ next \in Int /\ text \in Seq(Bytes)

LEMMA FaultTyped == ASSUME Typed, Fault PROVE Typed'
  BY DEF Typed, Fault, MemoryTyped, TailHalts, DescTyped, IsU16

LEMMA LostTyped == ASSUME Typed, Lost PROVE Typed'
  BY DEF Typed, Lost, MemoryTyped, TailHalts, DescTyped, IsU16

LEMMA ExecuteTyped ==
  ASSUME Typed, NEW cells, NEW t, NEW acts, NEW next, NEW text,
         ExecuteKeeps(cells, t, next, text), Execute(cells, t, acts, next, text)
  PROVE  Typed'
<1>1. CASE cells \subseteq Index
  <2>1. /\ s' = t /\ ip' = Pointer(next) /\ out' = out \o text
        /\ printf' = printf /\ mem' = mem /\ status' = status
    BY <1>1 DEF Execute
  <2>2. DescTyped(s')
    BY <1>1, <2>1 DEF ExecuteKeeps
  <2>3. IsU16(ip')
    BY <1>1, <2>1, PointerRange DEF ExecuteKeeps
  <2>4. out' \in Seq(Bytes)
    BY <1>1, <2>1, Joined DEF ExecuteKeeps, Typed
  <2>5. MemoryTyped' /\ TailHalts'
    BY <2>1 DEF Typed, MemoryTyped, TailHalts
  <2> QED BY <2>1, <2>2, <2>3, <2>4, <2>5 DEF Typed, DescTyped, IsU16
<1>2. CASE ~(cells \subseteq Index)
  BY <1>2, FaultTyped DEF Execute
<1> QED BY <1>1, <1>2

LEMMA Nothing == << >> \in Seq(Bytes)
  OBVIOUS

LEMMA SimpleTyped ==
  ASSUME Typed, NEW cells, NEW t, NEW n, Simple(cells, t, n),
         cells \subseteq Index => DescTyped(t) /\ n \in Int
  PROVE  Typed'
<1>1. ip \in Int
  BY DEF Typed, IsU16
<1>2. ExecuteKeeps(cells, t, ip + n, << >>)
  BY <1>1, Nothing DEF ExecuteKeeps
<1> QED BY <1>2, ExecuteTyped DEF Simple

LEMMA TruthWord == ASSUME NEW b PROVE Truth(b) \in Words
<1>1. Truth(b) \in 0 .. 1
  BY DEF Truth
<1>2. Truth(b) \in Int /\ -65536 <= Truth(b) /\ Truth(b) <= 65535
  BY <1>1
<1> QED BY <1>2, SmallWord

LEMMA MonadicTyped ==
  ASSUME NEW t, DescTyped(t), t.sp \in Index
  PROVE  /\ DescTyped(Stack_not(t)) /\ DescTyped(Stack_neg(t))
         /\ DescTyped(Stack_inc(t)) /\ DescTyped(Stack_dec(t))
         /\ DescTyped(Stack_dup(t))
<1>1. PICK x \in Words : x = Stack_top(t)
  BY DEF DescTyped, Stack_top
<1>2. x \in Int
  BY WordIsInt
<1>3. -x \in Int /\ x + 1 \in Int /\ x - 1 \in Int
  BY <1>2
<1>4. -x - 1 \in Words
  BY ComplementWord
<1>5. I32(-x) \in Words /\ I32(x + 1) \in Words /\ I32(x - 1) \in Words
  BY <1>3, WrappedWord
<1>6. DescTyped(Stack_not(t))
  BY <1>1, <1>4, SetTopTyped DEF Stack_not
<1>7. DescTyped(Stack_neg(t)) /\ DescTyped(Stack_inc(t)) /\ DescTyped(Stack_dec(t))
  BY <1>1, <1>5, SetTopTyped DEF Stack_neg, Stack_inc, Stack_dec
<1>8. DescTyped(Stack_dup(t))
  BY <1>1, PushTyped DEF Stack_dup
<1> QED BY <1>6, <1>7, <1>8

LEMMA OperandWords ==
  ASSUME NEW t, DescTyped(t), {t.sp, t.sp - 1} \subseteq Index
  PROVE  V1(t) \in Words /\ V2(t) \in Words
  BY DEF DescTyped, V1, V2

LEMMA ArithmeticTyped ==
  ASSUME NEW t, DescTyped(t), {t.sp, t.sp - 1} \subseteq Index
  PROVE  /\ DescTyped(Stack_and(t)) /\ DescTyped(Stack_or(t)) /\ DescTyped(Stack_xor(t))
         /\ DescTyped(Stack_add(t)) /\ DescTyped(Stack_sub(t)) /\ DescTyped(Stack_mul(t))
         /\ DescTyped(Stack_div(t))
<1>1. PICK x \in Words, y \in Words : x = V1(t) /\ y = V2(t)
  BY OperandWords
<1>2. x \in Int /\ y \in Int
  BY WordIsInt
<1>3. x + y \in Int /\ x - y \in Int /\ x * y \in Int
  BY <1>2
<1>4. I32(x + y) \in Words /\ I32(x - y) \in Words /\ I32(x * y) \in Words
  BY <1>3, WrappedWord
<1>5. DescTyped(Stack_and(t)) /\ DescTyped(Stack_or(t)) /\ DescTyped(Stack_xor(t))
  BY <1>1, BitwiseWord, CombineTyped DEF Stack_and, Stack_or, Stack_xor
<1>6. DescTyped(Stack_add(t)) /\ DescTyped(Stack_sub(t)) /\ DescTyped(Stack_mul(t))
  BY <1>1, <1>4, CombineTyped DEF Stack_add, Stack_sub, Stack_mul
<1>7. DescTyped(Stack_div(t))
  <2>1. CASE y = 0
    BY <1>1, <2>1, PopTyped DEF Stack_div
  <2>2. CASE y # 0
    <3>1. I32(Quotient(x, y)) \in Words
      BY <1>2, <2>2, QuotientIs, WrappedWord
    <3> QED BY <1>1, <2>2, <3>1, CombineTyped DEF Stack_div
  <2> QED BY <2>1, <2>2
<1> QED BY <1>5, <1>6, <1>7

LEMMA RemTyped ==
  ASSUME NEW t, DescTyped(t), {t.sp, t.sp - 1} \subseteq Index, RemDefined(t)
  PROVE  DescTyped(Stack_rem(t))
  BY OperandWords, RemainderWord, CombineTyped DEF Stack_rem, RemDefined

LEMMA ShiftTyped ==
  ASSUME NEW t, DescTyped(t), {t.sp, t.sp - 1} \subseteq Index, ShiftDefined(t)
  PROVE  DescTyped(Stack_shl(t)) /\ DescTyped(Stack_shr(t))
  BY OperandWords, ShiftedWord, CombineTyped DEF Stack_shl, Stack_shr, ShiftDefined

LEMMA ComparisonTyped ==
  ASSUME NEW t, DescTyped(t)
  PROVE  /\ DescTyped(Stack_teq(t)) /\ DescTyped(Stack_tne(t)) /\ DescTyped(Stack_tlt(t))
         /\ DescTyped(Stack_tgt(t)) /\ DescTyped(Stack_tle(t)) /\ DescTyped(Stack_tge(t))
<1>1. \A b : DescTyped(Combine(t, Truth(b)))
  BY TruthWord, CombineTyped
<1> QED
  BY <1>1, Zenon
  DEF Stack_teq, Stack_tne, Stack_tlt, Stack_tgt, Stack_tle, Stack_tge

LEMMA InherentTyped ==
  ASSUME Typed, Inherent
  PROVE  Typed'
<1>1. ASSUME NEW code, NEW cells, NEW t, On(code, cells, t),
             cells \subseteq Index => DescTyped(t)
      PROVE  Typed'
  BY <1>1, SimpleTyped DEF On
<1>2. DescTyped(s)
  BY DEF Typed
<1>3. CASE On(POP, {s.sp}, Stack_Pop(s))
  BY <1>1, <1>2, <1>3, PopTyped
<1>4. CASE On(DUP, {s.sp, s.sp + 1}, Stack_dup(s))
  BY <1>1, <1>2, <1>4, MonadicTyped
<1>5. CASE \/ Monadic(NOT, Stack_not) \/ Monadic(NEG, Stack_neg)
           \/ Monadic(INC, Stack_inc) \/ Monadic(DEC, Stack_dec)
  BY <1>1, <1>2, <1>5, MonadicTyped DEF Monadic
<1>6. CASE \/ Dyadic(AND, Stack_and) \/ Dyadic(OR, Stack_or) \/ Dyadic(XOR, Stack_xor)
           \/ Dyadic(ADD, Stack_add) \/ Dyadic(SUB, Stack_sub) \/ Dyadic(MUL, Stack_mul)
  BY <1>1, <1>2, <1>6, ArithmeticTyped DEF Dyadic
<1>7. CASE Divide
  <2> DEFINE text == IF V2(s) = 0 THEN DivisionMessage ELSE << >>
  <2>1. text \in Seq(Bytes)
    BY MessagesPrint, Nothing
  <2>2. ip + 1 \in Int
    BY DEF Typed, IsU16
  <2>3. Execute({s.sp, s.sp - 1}, Stack_div(s), act, ip + 1, text)
    BY <1>7 DEF Divide
  <2> HIDE DEF text
  <2>4. ExecuteKeeps({s.sp, s.sp - 1}, Stack_div(s), ip + 1, text)
    BY <1>2, <2>1, <2>2, ArithmeticTyped DEF ExecuteKeeps
  <2> QED BY <2>3, <2>4, ExecuteTyped
<1>8. CASE Partial(REM, Stack_rem, RemDefined)
  <2>1. CASE {s.sp, s.sp - 1} \subseteq Index /\ ~RemDefined(s)
    BY <1>8, <2>1, FaultTyped DEF Partial
  <2>2. CASE ~({s.sp, s.sp - 1} \subseteq Index /\ ~RemDefined(s))
    <3>1. On(REM, {s.sp, s.sp - 1}, Stack_rem(s))
      BY <1>8, <2>2 DEF Partial, Dyadic
    <3> QED BY <1>1, <1>2, <2>2, <3>1, RemTyped
  <2> QED BY <2>1, <2>2
<1>9. CASE Partial(SHL, Stack_shl, ShiftDefined) \/ Partial(SHR, Stack_shr, ShiftDefined)
  <2>1. CASE {s.sp, s.sp - 1} \subseteq Index /\ ~ShiftDefined(s)
    BY <1>9, <2>1, FaultTyped DEF Partial
  <2>2. CASE ~({s.sp, s.sp - 1} \subseteq Index /\ ~ShiftDefined(s))
    <3>1. \/ On(SHL, {s.sp, s.sp - 1}, Stack_shl(s))
          \/ On(SHR, {s.sp, s.sp - 1}, Stack_shr(s))
      BY <1>9, <2>2 DEF Partial, Dyadic
    <3> QED BY <1>1, <1>2, <2>2, <3>1, ShiftTyped
  <2> QED BY <2>1, <2>2
<1>10. CASE \/ Dyadic(TEQ, Stack_teq) \/ Dyadic(TNE, Stack_tne) \/ Dyadic(TLT, Stack_tlt)
            \/ Dyadic(TGT, Stack_tgt) \/ Dyadic(TLE, Stack_tle) \/ Dyadic(TGE, Stack_tge)
  BY <1>1, <1>2, <1>10, ComparisonTyped DEF Dyadic
<1> QED
  BY <1>3, <1>4, <1>5, <1>6, <1>7, <1>8, <1>9, <1>10 DEF Inherent

\* The operands in the opcode itself.
LEMMA SignedSmall ==
  ASSUME NEW x \in Int, -512 <= x, x <= 511, NEW bits \in {3, 5, 8}
  PROVE  Signed(x, bits) \in Int /\ Signed(x, bits) \in Words
<1>1. PICK p \in Int, q \in Int :
        /\ p = 2^bits /\ q = 2^(bits - 1)
        /\ 0 <= p /\ p <= 256
  <2>1. CASE bits = 3
    BY <2>1
  <2>2. CASE bits = 5
    BY <2>2
  <2>3. CASE bits = 8
    BY <2>3
  <2> QED BY <2>1, <2>2, <2>3
<1>2. Signed(x, bits) = IF x >= q THEN x - p ELSE x
  BY <1>1 DEF Signed
<1>3. Signed(x, bits) \in Int /\ -65536 <= Signed(x, bits) /\ Signed(x, bits) <= 65535
  BY <1>1, <1>2
<1> QED BY <1>3, SmallWord

LEMMA OpcodeParts ==
  ASSUME opcode \in Bytes
  PROVE  /\ Signed(opcode % 8, 3) \in Words
         /\ Signed(opcode - BR_I5, 5) \in Int
         /\ Signed(opcode - BRF_I5, 5) \in Int
<1>1. PICK c \in 0 .. 255 : c = opcode
  BY DEF Bytes
<1>2. c % 8 \in Int /\ -512 <= c % 8 /\ c % 8 <= 511
  OBVIOUS
<1>3. Signed(c % 8, 3) \in Words
  BY <1>2, SignedSmall
<1>4. /\ c - 48 \in Int /\ -512 <= c - 48 /\ c - 48 <= 511
      /\ c - 80 \in Int /\ -512 <= c - 80 /\ c - 80 <= 511
  OBVIOUS
<1>5. Signed(c - 48, 5) \in Int /\ Signed(c - 80, 5) \in Int
  BY <1>4, SignedSmall
<1> QED BY <1>1, <1>3, <1>5 DEF BR_I5, BRF_I5

LEMMA Reading ==
  ASSUME Typed, Running
  PROVE  /\ DescTyped(s) /\ ip \in Int /\ opcode \in Bytes
         /\ opcode # 0 => /\ Byte(1) \in Bytes
                          /\ OperandI8 \in -128 .. 127
                          /\ IsU16(OperandU16)
                          /\ IsI16(OperandI16)
                          /\ OperandI32 \in Words
  BY OperandRanges, CodeIs DEF Typed, Running, IsU16

LEMMA ByteWord == ASSUME NEW x \in Bytes PROVE x \in Words
<1>1. x \in Int /\ -65536 <= x /\ x <= 65535
  BY DEF Bytes
<1> QED BY <1>1, SmallWord

LEMMA ConstantsTyped ==
  ASSUME Typed, Running, Constants
  PROVE  Typed'
<1>1. ASSUME NEW value \in Words, NEW n \in Int, Ldc(value, n)
      PROVE  Typed'
  BY <1>1, Reading, PushTyped, SimpleTyped DEF Ldc
<1>2. CASE opcode \in LDC_I3 .. ADDV_U3 - 1 /\ Ldc(Signed(opcode % 8, 3), 1)
  BY <1>1, <1>2, Reading, OpcodeParts
<1>3. ASSUME opcode # 0
      PROVE  /\ Address(ip + OperandI8) \in Words /\ Address(ip + OperandI16) \in Words
             /\ Byte(1) \in Words /\ OperandI8 \in Words
             /\ OperandU16 \in Words /\ OperandI16 \in Words /\ OperandI32 \in Words
  <2>1. OperandI8 \in Int /\ -65536 <= OperandI8 /\ OperandI8 <= 65535
    BY <1>3, Reading
  <2>2. OperandI16 \in Int
    BY <1>3, Reading DEF IsI16
  <2>3. ip + OperandI8 \in Int /\ ip + OperandI16 \in Int
    BY <2>1, <2>2, Reading
  <2> QED BY <1>3, <2>1, <2>3, Reading, AddressWord, ByteWord, HalfWord, SmallWord
<1>4. CASE opcode = LDA_I8 /\ Ldc(Address(ip + OperandI8), 2)
  BY <1>1, <1>3, <1>4 DEF LDA_I8
<1>5. CASE opcode = LDA_I16 /\ Ldc(Address(ip + OperandI16), 3)
  BY <1>1, <1>3, <1>5 DEF LDA_I16
<1>6. CASE opcode \in {LDC_C8, LDC_U8} /\ Ldc(Byte(1), 2)
  BY <1>1, <1>3, <1>6 DEF LDC_C8, LDC_U8
<1>7. CASE opcode = LDC_I8 /\ Ldc(OperandI8, 2)
  BY <1>1, <1>3, <1>7 DEF LDC_I8
<1>8. CASE opcode \in {LDC_C16, LDC_U16} /\ Ldc(OperandU16, 3)
  BY <1>1, <1>3, <1>8 DEF LDC_C16, LDC_U16
<1>9. CASE opcode = LDC_I16 /\ Ldc(OperandI16, 3)
  BY <1>1, <1>3, <1>9 DEF LDC_I16
<1>10. CASE opcode \in {LDC_I32, LDC_U32} /\ Ldc(OperandI32, 5)
  BY <1>1, <1>3, <1>10 DEF LDC_I32, LDC_U32
<1> QED
  BY <1>2, <1>4, <1>5, <1>6, <1>7, <1>8, <1>9, <1>10 DEF Constants

LEMMA StepWords == 1 \in Words /\ -1 \in Words
  BY SmallWord

LEMMA VariablesTyped ==
  ASSUME Typed, Running, Variables
  PROVE  Typed'
<1>1. DescTyped(s)
  BY Reading
<1>2. ASSUME NEW i, NEW n \in Int, Addv(i, n)
      PROVE  Typed'
  BY <1>1, <1>2, AddVariableTyped, SimpleTyped DEF Addv
<1>3. ASSUME NEW i, NEW n \in Int, Ldv(i, n)
      PROVE  Typed'
  BY <1>1, <1>3, LoadVariableTyped, SimpleTyped DEF Ldv
<1>4. ASSUME NEW i, NEW n \in Int, Stv(i, n)
      PROVE  Typed'
  BY <1>1, <1>4, StoreVariableTyped, SimpleTyped DEF Stv
<1>5. ASSUME NEW i, NEW step \in Words, Stepv(i, step)
      PROVE  Typed'
  <2> DEFINE t == Stack_Push(s, step)
  <2>1. DescTyped(t) /\ t.sp = s.sp + 1
    BY <1>1, PushTyped DEF Stack_Push, Desc
  <2> HIDE DEF t
  <2>2. PushCells(s) \subseteq Index => DescTyped(Stack_addVariable(t, i))
    BY <2>1, AddVariableTyped DEF PushCells
  <2> QED BY <1>5, <2>2, SimpleTyped DEF Stepv, t
<1> QED BY <1>2, <1>3, <1>4, <1>5, StepWords DEF Variables

LEMMA BranchesTyped ==
  ASSUME Typed, Running, Branches
  PROVE  Typed'
<1>1. DescTyped(s)
  BY Reading
<1>2. ASSUME NEW offset \in Int, Branch(offset)
      PROVE  Typed'
  BY <1>1, <1>2, SimpleTyped DEF Branch
<1>3. ASSUME NEW offset \in Int, NEW n \in Int, BranchFalse(offset, n)
      PROVE  Typed'
  BY <1>1, <1>3, PopTyped, SimpleTyped DEF BranchFalse
<1>4. Signed(opcode - BR_I5, 5) \in Int /\ Signed(opcode - BRF_I5, 5) \in Int
  BY Reading, OpcodeParts
<1>5. opcode # 0 => OperandI8 \in Int /\ OperandI16 \in Int
  BY Reading DEF IsI16
<1> QED
  BY <1>2, <1>3, <1>4, <1>5 DEF Branches, BR_I8, BRF_I8, BR_I16

LEMMA CallsTyped ==
  ASSUME Typed, Running, Calls
  PROVE  Typed'
<1>1. DescTyped(s) /\ ip \in Int /\ opcode # 0
  BY Reading DEF Calls, CALLS_I16
<1>2. OperandI16 \in Int
  BY <1>1, Reading DEF IsI16
<1>3. ip + 3 \in Int /\ ip + OperandI16 \in Int
  BY <1>1, <1>2
<1>4. DescTyped(Stack_Push(s, Address(ip + 3)))
  BY <1>1, <1>3, AddressWord, PushTyped
<1>5. ExecuteKeeps(PushCells(s), Stack_Push(s, Address(ip + 3)), ip + OperandI16, << >>)
  BY <1>3, <1>4, Nothing DEF ExecuteKeeps
<1> QED BY <1>5, ExecuteTyped DEF Calls

LEMMA EnterParts ==
  ASSUME opcode \in Bytes
  PROVE  LET i == opcode - ENTER_U5
         IN  /\ (i \div 16) % 2 \in 0 .. 7 /\ (i \div 16) % 2 \in 0 .. 1
             /\ (i \div 4) % 4 \in 0 .. 7 /\ i % 4 \in 0 .. 7
<1>1. PICK i \in Int : i = opcode - ENTER_U5
  BY DEF Bytes, ENTER_U5
<1>2. i \div 16 \in Int /\ i \div 4 \in Int
  OBVIOUS
<1>3. (i \div 16) % 2 \in 0 .. 1 /\ (i \div 4) % 4 \in 0 .. 3 /\ i % 4 \in 0 .. 3
  BY <1>2
<1> QED BY <1>1, <1>3

LEMMA InfoParts ==
  ASSUME NEW x \in Bytes
  PROVE  VOf(x) \in 0 .. 1 /\ NpOf(x) \in 0 .. 7 /\ NlOf(x) \in 0 .. 7
<1>1. PICK i \in Int : i = x
  BY DEF Bytes
<1>2. i \div 64 \in Int /\ i \div 8 \in Int
  OBVIOUS
<1>3. (i \div 64) % 2 \in 0 .. 1 /\ (i \div 8) % 8 \in 0 .. 7 /\ i % 8 \in 0 .. 7
  BY <1>2
<1> QED BY <1>1, <1>3 DEF VOf, NpOf, NlOf

LEMMA EntersTyped ==
  ASSUME Typed, Running, NEW t, NEW n \in Int, NEW v, NEW np, NEW nl, Enters(t, n, v, np, nl),
         EnterCells(s, nl) \subseteq Index => DescTyped(t)
  PROVE  Typed'
<1>1. ip + n \in Int
  BY Reading
<1>2. ExecuteKeeps(EnterCells(s, nl), t, ip + n, << >>)
  BY <1>1, Nothing DEF ExecuteKeeps
<1> QED BY <1>2, ExecuteTyped DEF Enters

LEMMA EnterFunctionTyped ==
  ASSUME Typed, Running, EnterFunction
  PROVE  Typed'
<1>1. DescTyped(s)
  BY Reading
<1>2. CASE opcode \in ENTER_U5 .. LDC_I3 - 1
  <2> DEFINE i == opcode - ENTER_U5
  <2>1. PICK t, v, np : t = Stack_enterU5(s, i) /\ Enters(t, 1, v, np, i % 4)
    BY <1>2 DEF EnterFunction, ENTER_U8, LDC_I3, ENTER_U5
  <2>2. EnterCells(s, i % 4) \subseteq Index => DescTyped(t)
    BY <1>1, <2>1, Reading, EnterParts, EnterTyped DEF Stack_enterU5
  <2> HIDE DEF i
  <2> QED BY <2>1, <2>2, EntersTyped
<1>3. CASE opcode = ENTER_U8
  <2>1. PICK x \in Bytes : x = Byte(1)
    BY <1>3, Reading DEF ENTER_U8
  <2>2. Enters(Stack_enterU8(s, x), 2, VOf(x), NpOf(x), NlOf(x))
    BY <1>3, <2>1 DEF EnterFunction, ENTER_U8, LDC_I3, ENTER_U5
  <2>3. Stack_enterU8(s, x) = Enter(s, VOf(x), NpOf(x), NlOf(x))
    BY DEF Stack_enterU8, VOf, NpOf, NlOf
  <2>4. EnterCells(s, NlOf(x)) \subseteq Index => DescTyped(Stack_enterU8(s, x))
    BY <1>1, <2>3, InfoParts, EnterTyped
  <2> QED BY <2>2, <2>4, EntersTyped
<1> QED BY <1>2, <1>3 DEF EnterFunction

LEMMA RetTyped ==
  ASSUME Typed, Running, Ret
  PROVE  Typed'
<1>1. DescTyped(s)
  BY Reading
<1>2. s.sp \in Index => Stack_top(s) \in Int
  BY <1>1, WordIsInt DEF DescTyped, Stack_top
<1>3. ExecuteKeeps({s.sp}, Stack_Pop(s), Stack_top(s), << >>)
  BY <1>1, <1>2, PopTyped, Nothing DEF ExecuteKeeps
<1> QED BY <1>3, ExecuteTyped DEF Ret

\* EXIT leaves the return address in a cell of the array, on top.
LEMMA ExitTop ==
  ASSUME NEW t, DescTyped(t), ExitCells(t) \subseteq Index
  PROVE  Stack_exit(t).sp \in Index
<1>1. t.bp - 2 \in Index
  BY DEF ExitCells
<1>2. PICK v \in 0 .. 1 : v = VOf(FrameInfo(t))
  BY <1>1, FrameInfoIs
<1>3. PICK base \in Int : base = ExitBase(t)
  BY <1>1, ExitBaseIs
<1>4. base + 1 .. base + v + 1 \subseteq Index
  BY <1>1, <1>2, <1>3 DEF ExitCells
<1>5. base + v + 1 \in base + 1 .. base + v + 1
  OBVIOUS
<1>6. Stack_exit(t).sp = base + v + 1
  BY <1>2, <1>3 DEF Stack_exit, Desc
<1> QED BY <1>4, <1>5, <1>6

LEMMA ExitFunctionTyped ==
  ASSUME Typed, Running, ExitFunction
  PROVE  Typed'
<1>1. DescTyped(s)
  BY Reading
<1> DEFINE t == Stack_exit(s)
<1>2. ExitCells(s) \subseteq Index => DescTyped(t) /\ t.sp \in Index
  BY <1>1, ExitTyped, ExitTop
<1>3. Execute(ExitCells(s), Stack_Pop(t), C!Others, Stack_top(t), << >>)
  BY DEF ExitFunction
<1> HIDE DEF t
<1>4. ExitCells(s) \subseteq Index => DescTyped(Stack_Pop(t)) /\ Stack_top(t) \in Int
  BY <1>2, PopTyped, WordIsInt DEF DescTyped, Stack_top
<1>5. ExecuteKeeps(ExitCells(s), Stack_Pop(t), Stack_top(t), << >>)
  BY <1>4, Nothing DEF ExecuteKeeps
<1> QED BY <1>3, <1>5, ExecuteTyped

LEMMA TrapTyped ==
  ASSUME Typed, Running, Trap
  PROVE  Typed'
<1>1. DescTyped(s) /\ ip + 2 \in Int
  BY Reading
<1>2. s.sp \in Index => Stack_top(s) \in Int
  BY <1>1, WordIsInt DEF DescTyped, Stack_top
<1>3. ASSUME NEW text, Execute({s.sp}, Stack_Pop(s), act, ip + 2, text),
             s.sp \in Index => text \in Seq(Bytes)
      PROVE  Typed'
  <2>1. ExecuteKeeps({s.sp}, Stack_Pop(s), ip + 2, text)
    BY <1>1, <1>3, PopTyped DEF ExecuteKeeps
  <2> QED BY <1>3, <2>1, ExecuteTyped
<1>4. CASE \/ Put(\h80, Out!PutB) \/ Put(\h81, Out!PutC) \/ Put(\h82, Out!PutI)
           \/ Put(\h83, Out!PutU) \/ Put(\h86, Out!PutX)
  <2>1. PICK text \in {Out!PutB(Stack_top(s)), Out!PutC(Stack_top(s)), Out!PutI(Stack_top(s)),
                       Out!PutU(Stack_top(s)), Out!PutX(Stack_top(s))} :
          Execute({s.sp}, Stack_Pop(s), act, ip + 2, text)
    BY <1>4 DEF Put
  <2>2. s.sp \in Index => text \in Seq(Bytes)
    BY <1>2, <2>1, NumberPrints, CharacterPrints
  <2> QED BY <1>3, <2>1, <2>2
<1>5. CASE PutS
  <2> DEFINE a == Pointer(Stack_top(s))
  <2>1. CASE s.sp \in Index /\ (a \notin Memory \/ Zeros(a) = {})
    BY <1>5, <2>1, LostTyped DEF PutS
  <2>2. CASE ~(s.sp \in Index /\ (a \notin Memory \/ Zeros(a) = {}))
    <3>1. Execute({s.sp}, Stack_Pop(s), act, ip + 2, CString(a))
      BY <1>5, <2>2 DEF PutS, Put
    <3> HIDE DEF a
    <3>2. s.sp \in Index => CString(a) \in Seq(Bytes)
      BY <2>2, StringPrints DEF Typed
    <3> QED BY <1>3, <3>1, <3>2
  <2> QED BY <2>1, <2>2
<1>6. CASE Execute({}, s, act, ip + 2, Out!PutN)
  <2>1. Out!PutN \in Seq(Bytes)
    <3>1. 0 \in Int
      OBVIOUS
    <3> QED BY <3>1, CharacterPrints
  <2>2. ExecuteKeeps({}, s, ip + 2, Out!PutN)
    BY <1>1, <2>1 DEF ExecuteKeeps
  <2> QED BY <1>6, <2>2, ExecuteTyped
<1>7. CASE Simple({}, s, 2)
  BY <1>1, <1>7, SimpleTyped
<1> QED
  BY <1>4, <1>5, <1>6, <1>7 DEF Trap, Kernel_IO

LEMMA HaltTyped ==
  ASSUME Typed, Halt
  PROVE  Typed'
<1>1. /\ out' = out \o <<204, 0>> /\ status' = "idle"
      /\ printf' = printf /\ mem' = mem /\ s' = s /\ ip' = ip
  BY DEF Halt
<1>2. out' \in Seq(Bytes)
  BY <1>1, MessagesPrint, Joined DEF Typed
<1> QED BY <1>1, <1>2 DEF Typed, MemoryTyped, TailHalts, DescTyped, IsU16

LEMMA InvalidOpcodeTyped ==
  ASSUME Typed, Running, InvalidOpcode
  PROVE  Typed'
<1>1. /\ out' = out \o OpcodeText \o Out!PutX(opcode) \o ReservedText /\ status' = "exited"
      /\ printf' = printf /\ mem' = mem /\ s' = s /\ ip' = ip
  BY DEF InvalidOpcode
<1>2. Out!PutX(opcode) \in Seq(Bytes)
  <2>1. opcode \in Int
    BY Reading DEF Bytes
  <2> QED BY <2>1, NumberPrints
<1>3. out' \in Seq(Bytes)
  <2>1. out \o OpcodeText \in Seq(Bytes)
    BY MessagesPrint, Joined DEF Typed
  <2>2. (out \o OpcodeText) \o Out!PutX(opcode) \in Seq(Bytes)
    BY <1>2, <2>1, Joined
  <2> QED BY <1>1, <2>2, MessagesPrint, Joined
<1> QED BY <1>1, <1>3 DEF Typed, MemoryTyped, TailHalts, DescTyped, IsU16

LEMMA Element == ASSUME NEW S, NEW l \in Seq(S), NEW i \in 1 .. Len(l) PROVE l[i] \in S
  OBVIOUS

\* Loading a program leaves bytes, and zeros behind the longest program.
LEMMA LoadedTyped ==
  ASSUME printf \in DOMAIN Programs, NEW p \in Programs[printf],
         NEW old \in [Allocated -> Bytes],
         \A a \in Memory : a + 4 >= BaseAddr + MemMax => old[a] = 0
  PROVE  /\ Loaded(old, p) \in [Allocated -> Bytes]
         /\ \A a \in Memory : a + 4 >= BaseAddr + MemMax => Loaded(old, p)[a] = 0
<1>1. p \in Seq(0 .. 255) /\ Len(p) + 4 <= MemMax
  BY MachineAssumption
<1>2. BaseAddr \in Int /\ MemMax \in Int /\ Len(p) \in Nat
  BY <1>1, MemoryRange, MachineAssumption
<1>3. \A a \in Allocated : a \in Int
  BY MemoryRange
<1>4. ASSUME NEW a \in Allocated
      PROVE  (IF a \in BaseAddr .. BaseAddr + Len(p) - 1
                THEN p[a - BaseAddr + 1] ELSE old[a]) \in Bytes
  <2>1. CASE a \in BaseAddr .. BaseAddr + Len(p) - 1
    <3>1. PICK i \in 1 .. Len(p) : i = a - BaseAddr + 1
      BY <1>2, <2>1
    <3>2. p[i] \in 0 .. 255
      BY <1>1, Element
    <3> QED BY <2>1, <3>1, <3>2 DEF Bytes
  <2>2. CASE a \notin BaseAddr .. BaseAddr + Len(p) - 1
    BY <2>2
  <2> QED BY <2>1, <2>2
<1>5. Loaded(old, p) \in [Allocated -> Bytes]
  BY <1>4 DEF Loaded
<1>6. ASSUME NEW a \in Memory, a + 4 >= BaseAddr + MemMax
      PROVE  Loaded(old, p)[a] = 0
  <2>1. a \in Allocated /\ a \in Int
    BY <1>3, MemoryAllocated
  <2>2. a \notin BaseAddr .. BaseAddr + Len(p) - 1
    BY <1>1, <1>2, <1>6, <2>1
  <2>3. Loaded(old, p)[a] = old[a]
    BY <2>1, <2>2 DEF Loaded
  <2> QED BY <1>6, <2>3
<1> QED BY <1>5, <1>6

LEMMA StartTyped ==
  /\ IsU16(BaseAddr)
  /\ \A t : t.si \in [Index -> Words] => DescTyped(Stack_New(t, Capacity))
<1>1. BaseAddr \in Memory
  <2>1. BaseAddr \in Int /\ MemMax \in Int /\ MemMax > 0
    BY MemoryRange, MachineAssumption
  <2> QED BY <2>1 DEF Memory
<1>2. IsU16(BaseAddr)
  BY <1>1, MemoryRange DEF IsU16
<1>3. ASSUME NEW t, t.si \in [Index -> Words]
      PROVE  DescTyped(Stack_New(t, Capacity))
  <2>1. Stack_New(t, Capacity) = [si |-> t.si, bp |-> -1, sp |-> -1, capacity |-> Capacity]
    BY StackAssumption DEF Stack_New
  <2> QED BY <1>3, <2>1 DEF DescTyped
<1> QED BY <1>2, <1>3

LEMMA BannerTyped == DisplayBanner \in Seq(Bytes)
<1>1. Out!PutN \in Seq(Bytes)
  BY DEF Out!PutN, Out!Newline, Bytes
<1>2. <<67, 109>> \in Seq(Bytes)
  BY DEF Bytes
<1>3. <<67, 111, 112, 121, 114, 105, 103, 104, 116>> \in Seq(Bytes)
  BY DEF Bytes
<1>4. <<67, 109>> \o Out!PutN \in Seq(Bytes)
  BY <1>1, <1>2, Joined
<1>5. (<<67, 109>> \o Out!PutN)
        \o <<67, 111, 112, 121, 114, 105, 103, 104, 116>> \in Seq(Bytes)
  BY <1>3, <1>4, Joined
<1> QED BY <1>1, <1>5, Joined DEF DisplayBanner

LEMMA LoadTyped ==
  ASSUME Typed, NEW p \in Programs[printf], Load(p)
  PROVE  Typed'
<1>1. /\ printf' = printf /\ mem' = Loaded(mem, p) /\ s' = Stack_New(s, Capacity)
      /\ ip' = BaseAddr /\ out' = DisplayBanner /\ status' = "run"
  BY DEF Load
<1>2. MemoryTyped' /\ TailHalts'
  BY <1>1, LoadedTyped DEF Typed, MemoryTyped, TailHalts
<1>3. DescTyped(s') /\ IsU16(ip')
  BY <1>1, StartTyped DEF Typed, DescTyped
<1>4. out' \in Seq(Bytes)
  BY <1>1, BannerTyped
<1> QED BY <1>1, <1>2, <1>3, <1>4 DEF Typed, DescTyped, IsU16

LEMMA InitTyped == Init => Typed
<1> SUFFICES ASSUME Init PROVE Typed
  OBVIOUS
<1> DEFINE none == [a \in Allocated |-> 0]
           zero == [si |-> [i \in Index |-> 0], bp |-> 0, sp |-> 0, capacity |-> 0]
<1>1. PICK p \in Programs[printf] : mem = Loaded(none, p)
  BY DEF Init
<1>2. /\ printf \in DOMAIN Programs /\ s = Stack_New(zero, Capacity)
      /\ ip = BaseAddr /\ out = DisplayBanner /\ status = "run"
  BY DEF Init
<1>3. MemoryTyped /\ TailHalts
  <2>1. none \in [Allocated -> Bytes] /\ \A a \in Memory : none[a] = 0
    BY MemoryAllocated DEF Bytes
  <2> HIDE DEF none
  <2> QED BY <1>1, <1>2, <2>1, LoadedTyped DEF MemoryTyped, TailHalts
<1>4. zero.si \in [Index -> Words]
  BY SmallWord
<1> HIDE DEF zero
<1> QED BY <1>2, <1>3, <1>4, StartTyped, BannerTyped DEF Typed

LEMMA TypedNext == Typed /\ [Next]_vars => Typed'
<1> SUFFICES ASSUME Typed, [Next]_vars PROVE Typed'
  OBVIOUS
<1>1. CASE Instruction
  <2>1. Running
    BY <1>1 DEF Instruction
  <2>2. CASE Reserved
    BY <2>2 DEF Reserved, vars, Typed, MemoryTyped, TailHalts, DescTyped, IsU16
  <2> QED
    BY <1>1, <2>1, <2>2, InherentTyped, ConstantsTyped, VariablesTyped, BranchesTyped,
       CallsTyped, EnterFunctionTyped, RetTyped, ExitFunctionTyped, TrapTyped,
       HaltTyped, InvalidOpcodeTyped
    DEF Instruction
<1>2. CASE Stray
  BY <1>2, LostTyped DEF Stray
<1>3. CASE \E p \in Programs[printf] : Load(p)
  BY <1>3, LoadTyped
<1>4. CASE UNCHANGED vars
  BY <1>4 DEF vars, Typed, MemoryTyped, TailHalts, DescTyped, IsU16
<1> QED BY <1>1, <1>2, <1>3, <1>4 DEF Next

LEMMA AlwaysTyped == Spec => []Typed
  BY InitTyped, TypedNext, PTL DEF Spec

-----------------------------------------------------------------------------
(* What follows from it.                                                   *)

(* The registers of the stack stay in the array, the instruction pointer   *)
(* has sixteen bits, and cells, memory and the line hold cells, bytes and  *)
(* characters, in every disciplined program (vmstack.c, vm.c:115-318).     *)
THEOREM TypeCorrect == Spec /\ Disciplined => []TypeOK
<1>1. Typed /\ CallsInv => TypeOK
  <2> SUFFICES ASSUME Typed, CallsInv PROVE TypeOK
    OBVIOUS
  <2>1. Memory \subseteq DOMAIN mem /\ \A a \in Allocated : mem[a] \in 0 .. 255
    BY MemoryAllocated DEF Typed, MemoryTyped, Bytes
  <2>2. DOMAIN s.si = Index /\ s.bp \in -1 .. SiLen - 1 /\ s.sp \in -1 .. SiLen - 1
    BY Stack
  <2>3. \A i \in Index : s.si[i] = I32(s.si[i])
    BY WordStays DEF Typed, DescTyped
  <2>4. ip \in 0 .. 2^16 - 1
    <3>1. PICK top \in Int : top = 2^16 - 1 /\ top = 65535
      OBVIOUS
    <3>2. ip \in Int /\ 0 <= ip /\ ip <= top
      BY <3>1 DEF Typed, IsU16
    <3>3. ip \in 0 .. top
      BY <3>2
    <3> QED BY <3>1, <3>3
  <2>5. \A i \in 1 .. Len(out) : out[i] \in 0 .. 255
    <3>1. out \in Seq(0 .. 255)
      BY DEF Typed, Bytes
    <3> QED BY <3>1, Element
  <2>6. status \in {"run", "idle", "exited", "fault", "lost"}
    BY DEF Typed
  <2> QED BY <2>1, <2>2, <2>3, <2>4, <2>5, <2>6 DEF TypeOK
<1> QED BY <1>1, AlwaysTyped, Disciplines, PTL

\* The judge of CmVM is the one AUnit_proofs is about.
LEMMA SameLines == \A file : Unit!Lines(file) = UP!Lines(file)
  BY ZenonT(60)
  DEF Unit!Lines, UP!Lines, Unit!LinesFrom, UP!LinesFrom, Unit!LineEnd, UP!LineEnd,
      Unit!Min, UP!Min

LEMMA SameCount == \A title : Unit!LinesToTest(title) = UP!LinesToTest(title)
  BY ZenonT(60) DEF Unit!LinesToTest, UP!LinesToTest, Unit!Min, UP!Min

LEMMA SameReport == \A lines : Unit!VerdictFrom(lines) = UP!VerdictFrom(lines)
  BY ZenonT(60)
  DEF Unit!VerdictFrom, UP!VerdictFrom, Unit!StartsWith, UP!StartsWith,
      Unit!Passed, UP!Passed, Unit!IsPrefix, UP!IsPrefix,
      Unit!LinesToTest, UP!LinesToTest, Unit!Min, UP!Min

LEMMA SameVerdict == \A file : Unit!OneTestOK(file) <=> UP!OneTestOK(file)
  BY SameLines, SameReport
  DEF Unit!OneTestOK, UP!OneTestOK, Unit!Verdict, UP!Verdict

LEMMA PrintedLines ==
  ASSUME Typed, WholeLines
  PROVE  Printed \in Seq(Bytes) /\ Printed # << >> /\ Printed[Len(Printed)] = 10
<1>1. Printed # << >> /\ Printed[Len(Printed)] = 10
  BY DEF WholeLines, Last
<1>2. out \in Seq(Bytes)
  BY DEF Typed
<1>3. Printed \in Seq(Bytes)
  <2>1. PICK m \in Nat \ {0} : m = Len(DisplayBanner) + 1
    BY BannerTyped
  <2>2. PICK n \in Int : n = IF status = "idle" THEN Len(out) - 2 ELSE Len(out)
    <3>1. Len(out) \in Int /\ Len(out) - 2 \in Int
      BY <1>2
    <3>2. CASE status = "idle"
      BY <3>1, <3>2
    <3>3. CASE status # "idle"
      BY <3>1, <3>3
    <3> QED BY <3>2, <3>3
  <2>3. Printed = SubSeq(out, m, n)
    BY <2>1, <2>2 DEF Printed
  <2>4. n <= Len(out)
    <3>1. Len(out) \in Nat
      BY <1>2
    <3>2. n = Len(out) - 2 \/ n = Len(out)
      BY <2>2
    <3> QED BY <3>1, <3>2
  <2>5. SubSeq(out, m, n) \in Seq(Bytes)
    BY <1>2, <2>4
  <2> QED BY <2>3, <2>5
<1> QED BY <1>1, <1>3

(* Whatever the program does, and however its execution ends: if what it   *)
(* printed is whole lines and AUnit reports one test that is OK, then each *)
(* line it had to print is the line expected (AUnit_v1.0.9e.c:73-124).     *)
THEOREM VerdictsSound == Spec => []VerdictSound
<1>1. Typed => VerdictSound
  <2> SUFFICES ASSUME Typed, WholeLines, Unit!OneTestOK(Printed)
               PROVE  LET lines == Unit!Lines(Printed)
                          n     == Unit!LinesToTest(lines[1])
                      IN  \A k \in 2 .. n + 1 : lines[k] = lines[k + n]
    BY DEF VerdictSound
  <2>1. Printed \in Seq(Bytes) /\ Printed # << >> /\ Printed[Len(Printed)] = 10
    BY PrintedLines
  <2>2. UP!LineRoom
    BY DEF UP!LineRoom
  <2>3. 9 \in Nat
    OBVIOUS
  <2>4. LET lines == UP!Lines(Printed)
            n     == UP!LinesToTest(lines[1])
        IN  UP!OneTestOK(Printed)
              <=> UP!OneTest(lines) /\ \A k \in 2 .. n + 1 : lines[k] = lines[k + n]
    BY <2>1, <2>2, <2>3, UP!VerdictExact
  <2>5. UP!OneTestOK(Printed)
    BY SameVerdict
  <2> QED BY <2>4, <2>5, SameLines, SameCount
<1> QED BY <1>1, AlwaysTyped, PTL
=============================================================================
