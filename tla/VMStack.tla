------------------------------ MODULE VMStack ------------------------------
(***************************************************************************)
(* The operand stack of the Cm virtual machine (src/src/vmstack.c): the    *)
(* single instance of struct VMStackDesc as a record, and every function   *)
(* of the file that changes it as an operator from records to records.     *)
(* A function that also returns a value (Stack_Pop) is two operators: the  *)
(* value is Stack_top of the record before, the record after is Stack_Pop. *)
(*                                                                         *)
(* The build is the one of cmMake.bat: STACK_CHECK and MONITOR undefined.  *)
(* No function compares an index with the bounds of si, so neither do the  *)
(* operators; the sets ...Cells say which cells a call reads or writes, and *)
(* the modules that use the stack stop where one of them does not exist.   *)
(***************************************************************************)
EXTENDS Integers

CONSTANTS
  SiLen,       \* number of cells of the array si (32 in the source)
  WordBits     \* width of an i32 cell as arithmetic sees it (32)

Index == 0 .. SiLen - 1

\* Conversions of _stdtype.h: to unsigned char, to signed char, to int32_t.
U8(x)  == x % 256
I8Unsigned(x) == x % 256                   \* mutant of I8: char is unsigned
I8(x)  == ((x + 128) % 256) - 128
I32(x) == ((x + 2^(WordBits - 1)) % 2^WordBits) - 2^(WordBits - 1)

\* The struct after an assignment to si, bp and sp; capacity is set only once.
Desc(s, cells, base, top) ==
  [si |-> cells, bp |-> base, sp |-> top, capacity |-> s.capacity]

-----------------------------------------------------------------------------
(* Creation, push and pop.  Stack_New leaves the cells as they are.        *)

Stack_New(s, cap) ==
  IF cap # 0 THEN [si |-> s.si, bp |-> -1, sp |-> -1, capacity |-> cap] ELSE s

Stack_Count(s) == s.sp + 1

Stack_top(s) == s.si[s.sp]

PushCells(s) == {s.sp + 1}

Stack_Push(s, value) ==
  Desc(s, [s.si EXCEPT ![s.sp + 1] = value], s.bp, s.sp + 1)

Stack_Pop(s) == Desc(s, s.si, s.bp, s.sp - 1)

Stack_dup(s) == Stack_Push(s, Stack_top(s))

-----------------------------------------------------------------------------
(* Inherent instructions.  A one-operand function overwrites the top cell, *)
(* a two-operand one pops v2 and overwrites v1.                            *)

SetTop(s, x) == Desc(s, [s.si EXCEPT ![s.sp] = x], s.bp, s.sp)
V2(s) == s.si[s.sp]
V1(s) == s.si[s.sp - 1]
Combine(s, x) == Desc(s, [s.si EXCEPT ![s.sp - 1] = x], s.bp, s.sp - 1)

\* Bit i of a two's-complement word, and the word with the bits of a predicate.
Bit(x, i) == (x \div 2^i) % 2
FromBits(b) ==
  LET sum[i \in 0 .. WordBits] ==
        IF i = 0 THEN 0 ELSE sum[i - 1] + b[i - 1] * 2^(i - 1)
  IN  I32(sum[WordBits])
BitAnd(a, b) == FromBits([i \in 0 .. WordBits - 1 |-> Bit(a, i) * Bit(b, i)])
BitXor(a, b) == FromBits([i \in 0 .. WordBits - 1 |-> (Bit(a, i) + Bit(b, i)) % 2])
BitOr(a, b)  ==
  FromBits([i \in 0 .. WordBits - 1 |-> 1 - (1 - Bit(a, i)) * (1 - Bit(b, i))])

\* C division truncates toward zero; the remainder has the sign of a.
Magnitude(a) == IF a < 0 THEN -a ELSE a
Quotient(a, b) ==
  LET q == Magnitude(a) \div Magnitude(b) IN IF (a < 0) = (b < 0) THEN q ELSE -q
Remainder(a, b) == a - b * Quotient(a, b)

Truth(b) == IF b THEN 1 ELSE 0

Stack_not(s) == SetTop(s, -Stack_top(s) - 1)
Stack_neg(s) == SetTop(s, I32(-Stack_top(s)))
Stack_inc(s) == SetTop(s, I32(Stack_top(s) + 1))
Stack_dec(s) == SetTop(s, I32(Stack_top(s) - 1))

Stack_and(s) == Combine(s, BitAnd(V1(s), V2(s)))
Stack_or(s)  == Combine(s, BitOr(V1(s), V2(s)))
Stack_xor(s) == Combine(s, BitXor(V1(s), V2(s)))
Stack_add(s) == Combine(s, I32(V1(s) + V2(s)))
Stack_sub(s) == Combine(s, I32(V1(s) - V2(s)))
Stack_mul(s) == Combine(s, I32(V1(s) * V2(s)))
\* Division by zero prints a message and leaves the dividend on the stack.
Stack_div(s) ==
  IF V2(s) = 0 THEN Stack_Pop(s) ELSE Combine(s, I32(Quotient(V1(s), V2(s))))
Stack_rem(s) == Combine(s, Remainder(V1(s), V2(s)))
Stack_shl(s) == Combine(s, I32((V1(s) % 2^(WordBits - V2(s))) * 2^V2(s)))
Stack_shr(s) == Combine(s, V1(s) \div 2^V2(s))
Stack_teq(s) == Combine(s, Truth(V1(s) = V2(s)))
Stack_tne(s) == Combine(s, Truth(V1(s) # V2(s)))
Stack_tlt(s) == Combine(s, Truth(V1(s) < V2(s)))
Stack_tgt(s) == Combine(s, Truth(V1(s) > V2(s)))
Stack_tle(s) == Combine(s, Truth(V1(s) <= V2(s)))
Stack_tge(s) == Combine(s, Truth(V1(s) >= V2(s)))

\* Where C leaves rem, shl and shr undefined: no guard in the source.
RemDefined(s)   == V2(s) # 0
ShiftDefined(s) == V2(s) \in 0 .. WordBits - 1

-----------------------------------------------------------------------------
(* Frames.  ENTER finds the return address on top of the arguments and     *)
(* leaves  arguments | locals | fi | return address | caller's bp,  with   *)
(* bp and sp on the last cell.  fi packs v (a value is returned), np       *)
(* (arguments) and nl (locals); EXIT and the variable accesses unpack it   *)
(* from the cell bp - 2.                                                   *)

FctInfo(v, np, nl) == v * 64 + np * 8 + nl
VOf(fi)  == (fi \div 64) % 2
NpOf(fi) == (fi \div 8) % 8
NlOf(fi) == fi % 8

EnterCells(s, nl) == {s.sp} \cup (s.sp + nl .. s.sp + nl + 2)

Enter(s, v, np, nl) ==
  LET top == s.sp + nl + 2
  IN  Desc(s, [s.si EXCEPT ![top - 2] = FctInfo(v, np, nl),
                           ![top - 1] = Stack_top(s),
                           ![top]     = s.bp], top, top)

Stack_enterU5(s, funcInfo) ==
  Enter(s, (funcInfo \div 16) % 2, (funcInfo \div 4) % 4, funcInfo % 4)

Stack_enterU8(s, funcInfo) ==
  Enter(s, (funcInfo \div 64) % 2, (funcInfo \div 8) % 8, funcInfo % 8)

FrameInfo(s) == U8(s.si[s.bp - 2])

\* Mutant of ExitBase: the arguments stay on the stack.
ExitBaseLocals(s) ==
  s.sp - VOf(FrameInfo(s)) - 2 - (NlOf(FrameInfo(s)) + 1)

\* sp once the frame is gone, before the result and the address are put back.
ExitBase(s) ==
  LET fi == FrameInfo(s)
      np == NpOf(fi)
      nl == NlOf(fi)
  IN  s.sp - VOf(fi) - 2 - (np + nl + 1) - (IF np + nl > 7 THEN nl ELSE 0)

ExitCells(s) ==
  LET v == VOf(FrameInfo(s))
  IN  IF s.bp - 2 \in Index
        THEN {s.bp - 2} \cup (s.sp - v - 1 .. s.sp)
                        \cup (ExitBase(s) + 1 .. ExitBase(s) + v + 1)
        ELSE {s.bp - 2}

\* Mutant of Stack_exit: the result is put back above the return address.
Stack_exitSwapped(s) ==
  LET v    == VOf(FrameInfo(s))
      base == ExitBase(s)
  IN  Desc(s, [s.si EXCEPT ![base + 1] = s.si[s.sp - v - 1],
                           ![base + v + 1] = Stack_top(s)],
           I8(U8(s.si[s.sp - v])), base + v + 1)

Stack_exit(s) ==
  LET v       == VOf(FrameInfo(s))
      retVal  == Stack_top(s)
      retAddr == s.si[s.sp - v - 1]
      base    == ExitBase(s)
  IN  Desc(s,
           IF v = 1
             THEN [s.si EXCEPT ![base + 1] = retVal, ![base + 2] = retAddr]
             ELSE [s.si EXCEPT ![base + 1] = retAddr],
           I8(U8(s.si[s.sp - v])),
           base + v + 1)

\* Mutant of getFrameOffset: the cell of fi is not counted.
getFrameOffsetShort(var, np, nl) == U8(1 + np + nl - var)

getFrameOffset(var, np, nl) ==
  U8(2 + np + nl - var + (IF np + nl > 7 THEN nl ELSE 0))

\* The cell of variable var of the current function, and the cells touched.
VariableCell(s, var) ==
  s.bp - getFrameOffset(var, NpOf(FrameInfo(s)), NlOf(FrameInfo(s)))

VariableCells(s, var) ==
  IF s.bp - 2 \in Index THEN {s.bp - 2, VariableCell(s, var)} ELSE {s.bp - 2}

Stack_addVariable(s, var) ==
  LET cell == VariableCell(s, var)
  IN  Desc(s, [s.si EXCEPT ![cell] = I32(@ + Stack_top(s))], s.bp, s.sp - 1)

Stack_loadVariable(s, var) == Stack_Push(s, s.si[VariableCell(s, var)])

Stack_storeVariable(s, var) ==
  Desc(s, [s.si EXCEPT ![VariableCell(s, var)] = Stack_top(s)], s.bp, s.sp - 1)

-----------------------------------------------------------------------------
(* The enumerator: an index that goes from the top of the stack down.      *)

\* Mutant of StackEnumtor_Reset: behind the last cell, not the top.
StackEnumtor_ResetCapacity(s) == s.capacity + 1

StackEnumtor_Reset(s) == s.sp + 1

\* Mutant of StackEnumtor_HasNext: the cell at the bottom is left out.
StackEnumtor_HasNextShort(index) == index - 1 > 0

\* StackEnumtor_MoveNext decrements the index and returns this.
StackEnumtor_HasNext(index) == index - 1 >= 0

StackEnumtor_Current(s, index) == s.si[index]
=============================================================================
