--------------------------- MODULE CmCalls_proofs ---------------------------
(***************************************************************************)
(* Proofs about CmCalls, for every array, word size, program and set of    *)
(* literals and addresses, as long as the frames fit (FramesFit).          *)
(***************************************************************************)
EXTENDS CmCalls, TLAPS

\* What FramesFit says of the program, said of the activations; and the frame
\* an activation works with is its own or one below it.
ActivationsFit ==
  \A k \in 1 .. Depth : act[k].np + act[k].nl <= 7 /\ act[k].bp <= act[k].top

IInv == TypeOK /\ FramesLinked /\ ActivationsFit

\* A register in range survives the casts that save and restore it.
LEMMA RestoredBp ==
  ASSUME NEW x \in -1 .. SiLen - 1
  PROVE  I8(U8(x)) = x
  BY SiLenAssumption DEF I8, U8

\* The fields of fi come out as they went in.
LEMMA Unpacked ==
  ASSUME NEW v \in 0 .. 1, NEW np \in 0 .. 7, NEW nl \in 0 .. 7
  PROVE  /\ U8(FctInfo(v, np, nl)) = FctInfo(v, np, nl)
         /\ VOf(FctInfo(v, np, nl)) = v
         /\ NpOf(FctInfo(v, np, nl)) = np
         /\ NlOf(FctInfo(v, np, nl)) = nl
  BY DEF U8, FctInfo, VOf, NpOf, NlOf

LEMMA PackedU5 ==
  ASSUME NEW v \in 0 .. 1, NEW np \in 0 .. 3, NEW nl \in 0 .. 3,
         NEW p, p = v * 16 + np * 4 + nl
  PROVE  (p \div 16) % 2 = v /\ (p \div 4) % 4 = np /\ p % 4 = nl
  OBVIOUS

LEMMA PackedU8 ==
  ASSUME NEW v \in 0 .. 1, NEW np \in 0 .. 7, NEW nl \in 0 .. 7,
         NEW p, p = v * 64 + np * 8 + nl
  PROVE  (p \div 64) % 2 = v /\ (p \div 8) % 8 = np /\ p % 8 = nl
  OBVIOUS

\* Both forms of ENTER build the frame of the shape they were given.
LEMMA EnteredShape ==
  ASSUME NEW f \in Shapes
  PROVE  /\ f.v \in 0 .. 1 /\ f.np \in 0 .. 7 /\ f.nl \in 0 .. 7
         /\ Entered(f) = Enter(s, f.v, f.np, f.nl)
<1>0. /\ f.form \in {"U5", "U8"} /\ f.v \in 0 .. 1
      /\ f.np \in 0 .. FormMax(f.form) /\ f.nl \in 0 .. FormMax(f.form)
  BY ShapesAssumption DEF Forms
<1>1. CASE f.form = "U5"
  <2> DEFINE p == Packed(f) v == f.v np == f.np nl == f.nl
  <2>1. v \in 0 .. 1 /\ np \in 0 .. 3 /\ nl \in 0 .. 3
    BY <1>0, <1>1 DEF FormMax
  <2>2. p = v * 16 + np * 4 + nl
    BY <1>1 DEF Packed
  <2>3. Entered(f) = Enter(s, (p \div 16) % 2, (p \div 4) % 4, p % 4)
    BY <1>1 DEF Entered, Stack_enterU5
  <2> HIDE DEF p, v, np, nl
  <2>4. (p \div 16) % 2 = v /\ (p \div 4) % 4 = np /\ p % 4 = nl
    BY <2>1, <2>2, PackedU5
  <2> QED
    BY <2>1, <2>3, <2>4 DEF v, np, nl
<1>2. CASE f.form = "U8"
  <2> DEFINE p == Packed(f) v == f.v np == f.np nl == f.nl
  <2>1. v \in 0 .. 1 /\ np \in 0 .. 7 /\ nl \in 0 .. 7
    BY <1>0, <1>2 DEF FormMax
  <2>2. p = v * 64 + np * 8 + nl
    BY <1>2 DEF Packed
  <2>3. Entered(f) = Enter(s, (p \div 64) % 2, (p \div 8) % 8, p % 8)
    BY <1>2 DEF Entered, Stack_enterU8
  <2> HIDE DEF p, v, np, nl
  <2>4. (p \div 64) % 2 = v /\ (p \div 8) % 8 = np /\ p % 8 = nl
    BY <2>1, <2>2, PackedU8
  <2> QED
    BY <2>1, <2>3, <2>4 DEF v, np, nl
<1> QED
  BY <1>0, <1>1, <1>2

-----------------------------------------------------------------------------
(* The activations one above the other.                                    *)

\* The cells an instruction of a body must leave alone: those up to the last
\* cell of the linkage, but for the variables.
Kept(i) == i <= Current.top /\ i \notin Base(Current) .. Current.top - 3

\* The registers and the history as numbers.
LEMMA Registers ==
  ASSUME IInv
  PROVE  /\ Depth \in Nat \ {0}
         /\ \A k \in 1 .. Depth :
              /\ act[k] \in Activations
              /\ act[k].top \in -1 .. SiLen - 1 /\ act[k].bp \in -1 .. SiLen - 1
              /\ act[k].v \in 0 .. 1 /\ act[k].np \in 0 .. 7 /\ act[k].nl \in 0 .. 7
         /\ Current = act[Depth]
         /\ s.bp = Current.bp
         /\ s.bp \in -1 .. SiLen - 1
         /\ s.sp \in Current.top .. SiLen - 1
         /\ DOMAIN s.si = Index
<1>1. Depth \in Nat \ {0} /\ act \in Seq(Activations) /\ Depth = Len(act)
  BY DEF IInv, TypeOK, FramesLinked, Depth
<1>2. \A k \in 1 .. Depth : act[k] \in Activations
  BY <1>1
<1>3. \A k \in 1 .. Depth :
        /\ act[k].top \in -1 .. SiLen - 1 /\ act[k].bp \in -1 .. SiLen - 1
        /\ act[k].v \in 0 .. 1 /\ act[k].np \in 0 .. 7 /\ act[k].nl \in 0 .. 7
  BY <1>2 DEF Activations
<1>4. s.sp \in Current.top .. SiLen - 1
  BY <1>1, <1>3, SiLenAssumption DEF IInv, TypeOK, FramesLinked, Operands, Current
<1> QED
  BY <1>1, <1>2, <1>3, <1>4 DEF IInv, TypeOK, FramesLinked, Current

LEMMA Bases ==
  ASSUME NEW a \in Activations
  PROVE  /\ Base(a) \in Int /\ Base(a) <= a.top
         /\ Framed(a) => Base(a) = a.bp - 2 - a.np - a.nl
<1> DEFINE top == a.top np == a.np nl == a.nl
<1>1. top \in Int /\ np \in 0 .. 7 /\ nl \in 0 .. 7
  BY SiLenAssumption DEF Activations
<1>2. Base(a) = top - np - nl - (IF Framed(a) THEN 2 ELSE 0)
  BY DEF Base
<1>3. Framed(a) => a.bp = top
  BY DEF Framed
<1> HIDE DEF top, np, nl
<1>4. Base(a) \in Int /\ Base(a) <= top /\ (Framed(a) => Base(a) = top - 2 - np - nl)
  BY <1>1, <1>2
<1> QED
  BY <1>3, <1>4 DEF top, np, nl

\* Activations do not overlap, so that a later one is higher.
LEMMA Ascending ==
  ASSUME IInv, NEW n \in 1 .. Depth, NEW k \in 1 .. n
  PROVE  act[k].top <= act[n].top
<1>1. CASE k = n
  BY <1>1, Registers, SiLenAssumption
<1>2. CASE k # n
  <2>1. k \in 1 .. Depth /\ k < n
    BY <1>2, Registers
  <2>2. act[k].top < Base(act[n])
    BY <2>1 DEF IInv, FramesLinked
  <2>3. Base(act[n]) \in Int /\ Base(act[n]) <= act[n].top
    BY Bases, Registers
  <2>4. act[k].top \in Int /\ act[n].top \in Int
    BY <2>1, Registers, SiLenAssumption
  <2> QED
    BY <2>2, <2>3, <2>4
<1> QED
  BY <1>1, <1>2

\* Every activation but the outermost lies in the array.
LEMMA Inside ==
  ASSUME IInv, NEW k \in 2 .. Depth
  PROVE  Base(act[k]) >= 0
<1>1. 1 \in 1 .. Depth /\ k \in 1 .. Depth /\ 1 < k
  BY Registers
<1>2. act[1].top = -1 /\ act[1].top < Base(act[k])
  BY <1>1 DEF IInv, FramesLinked, Activation
<1>3. Base(act[k]) \in Int
  BY <1>1, Registers, Bases
<1> QED
  BY <1>2, <1>3

\* Where the linkage of the frames is.
LEMMA LinkageCells ==
  ASSUME IInv, NEW n \in 1 .. Depth, NEW k \in 2 .. n, Framed(act[k])
  PROVE  /\ act[k].bp \in Index /\ act[k].bp - 2 \in Index
         /\ act[k].bp <= act[n].top /\ act[k].bp - 2 <= act[n].top
         /\ n = Depth => Kept(act[k].bp) /\ Kept(act[k].bp - 2)
<1> DEFINE bp == act[k].bp np == act[k].np nl == act[k].nl top == act[n].top
<1>1. k \in 2 .. Depth
  BY Registers
<1>2. bp \in -1 .. SiLen - 1 /\ np \in 0 .. 7 /\ nl \in 0 .. 7 /\ top \in -1 .. SiLen - 1
  BY <1>1, Registers
<1>3. bp - 2 - np - nl >= 0
  BY <1>1, Inside, Bases, Registers
<1>4. act[k].top = bp /\ bp <= top
  BY Ascending DEF Framed
<1>5. CASE k = n
  <2>1. Base(act[n]) = bp - 2 - np - nl /\ top = bp
    BY <1>1, <1>4, <1>5, Bases, Registers
  <2>2. n = Depth => (Kept(bp) <=> bp <= top /\ bp \notin bp - 2 - np - nl .. top - 3)
    BY <2>1, Registers DEF Kept
  <2>3. n = Depth =>
          (Kept(bp - 2) <=> bp - 2 <= top /\ bp - 2 \notin bp - 2 - np - nl .. top - 3)
    BY <2>1, Registers DEF Kept
  <2> HIDE DEF bp, np, nl, top
  <2> QED
    BY <1>2, <1>3, <2>1, <2>2, <2>3, SiLenAssumption DEF Index, bp, top
<1>6. CASE k # n
  <2>1. k < n /\ k \in 1 .. Depth
    BY <1>1, <1>6, Registers
  <2>2. bp < Base(act[n])
    BY <1>4, <2>1 DEF IInv, FramesLinked
  <2>3. Base(act[n]) \in Int
    BY Registers, Bases
  <2>4. n = Depth => \A i : Kept(i) <=> i <= top /\ i \notin Base(act[n]) .. top - 3
    BY Registers DEF Kept
  <2> HIDE DEF bp, np, nl, top
  <2>5. bp \in Index /\ bp - 2 \in Index /\ bp <= top /\ bp - 2 <= top
    BY <1>2, <1>3, <1>4, SiLenAssumption DEF Index
  <2>6. bp \notin Base(act[n]) .. top - 3 /\ bp - 2 \notin Base(act[n]) .. top - 3
    BY <1>2, <2>2, <2>3, SiLenAssumption
  <2> QED
    BY <2>4, <2>5, <2>6 DEF bp, top
<1> QED
  BY <1>5, <1>6

\* The step keeps the first n activations and their linkage, and no others but
\* perhaps one that lies above them.
LEMMA LastActivation ==
  ASSUME IInv, NEW n \in 1 .. Depth,
         act' \in Seq(Activations), Len(act') \in {n, n + 1},
         \A k \in 1 .. n : act'[k] = act[k],
         \A k \in 2 .. n :
           Framed(act[k]) => /\ s'.si[act[k].bp] = s.si[act[k].bp]
                             /\ s'.si[act[k].bp - 2] = s.si[act[k].bp - 2],
         Len(act') = n + 1 =>
           /\ act[n].top < Base(act'[n + 1])
           /\ Linked(s'.si, act[n], act'[n + 1])
           /\ act'[n + 1].np + act'[n + 1].nl <= 7
           /\ act'[n + 1].bp <= act'[n + 1].top,
         s'.bp = Current'.bp, Operands' >= 0
  PROVE  FramesLinked' /\ ActivationsFit'
<1>1. Depth' \in {n, n + 1} /\ Depth' = Len(act')
  BY DEF Depth
<1>2. act'[1] = Activation(-1, -1, 0, 0, 0)
  <2>1. 1 \in 1 .. n
    BY Registers
  <2> QED
    BY <2>1 DEF IInv, FramesLinked
<1>3. ASSUME NEW k \in 1 .. Depth', NEW m \in 1 .. Depth', k < m
      PROVE  act'[k].top < Base(act'[m])
  <2>1. k \in 1 .. n /\ k \in 1 .. Depth /\ act'[k] = act[k]
    BY <1>1, <1>3, Registers
  <2>2. CASE m = n + 1
    <3>1. act[n].top < Base(act'[n + 1]) /\ act'[m] \in Activations
      BY <1>1, <2>2
    <3>2. act[k].top <= act[n].top
      BY <2>1, Ascending
    <3>3. act[k].top \in Int /\ act[n].top \in Int
      BY <2>1, Registers, SiLenAssumption
    <3>4. Base(act'[m]) \in Int
      BY ONLY <3>1, Bases
    <3> QED
      BY <2>1, <2>2, <3>1, <3>2, <3>3, <3>4
  <2>3. CASE m # n + 1
    <3>1. m \in 1 .. n /\ m \in 1 .. Depth /\ act'[m] = act[m]
      BY <1>1, <1>3, <2>3, Registers
    <3>2. act[k].top < Base(act[m])
      BY <1>3, <2>1, <3>1 DEF IInv, FramesLinked
    <3> QED
      BY <2>1, <3>1, <3>2
  <2> QED
    BY <2>2, <2>3
<1>4. ASSUME NEW k \in 2 .. Depth'
      PROVE  Linked(s'.si, act'[k - 1], act'[k])
  <2>1. CASE k = n + 1
    BY <1>1, <1>4, <2>1
  <2>2. CASE k # n + 1
    <3>1. k \in 2 .. n /\ k \in 2 .. Depth /\ act'[k] = act[k] /\ act'[k - 1] = act[k - 1]
      BY <1>1, <1>4, <2>2, Registers
    <3>2. Linked(s.si, act[k - 1], act[k])
      BY <3>1 DEF IInv, FramesLinked
    <3> QED
      BY <3>1, <3>2 DEF Linked
  <2> QED
    BY <2>1, <2>2
<1>5. FramesLinked'
  BY <1>1, <1>2, <1>3, <1>4 DEF FramesLinked
<1>6. ActivationsFit'
  BY <1>1, Registers DEF IInv, ActivationsFit
<1> QED
  BY <1>5, <1>6

-----------------------------------------------------------------------------
(* Instructions of a function's body.                                      *)

LEMMA FaultKeeps ==
  ASSUME IInv, Fault
  PROVE  IInv'
<1>1. /\ s' = s /\ act' = act /\ mode' = "fault"
  BY DEF Fault
<1>2. TypeOK'
  BY <1>1 DEF IInv, TypeOK
<1>3. FramesLinked' /\ ActivationsFit'
  BY <1>1 DEF IInv, FramesLinked, ActivationsFit, Depth, Current, Operands
<1> QED
  BY <1>2, <1>3 DEF IInv

\* A step that neither starts nor ends an activation.
LEMMA SameFramesKeeps ==
  ASSUME IInv, act' = act, DOMAIN s'.si = Index, s'.bp = s.bp, s'.capacity = s.capacity,
         mode' = "run", s'.sp \in Current.top .. SiLen - 1,
         \A i \in Index : Kept(i) => s'.si[i] = s.si[i]
  PROVE  IInv'
<1>1. TypeOK'
  BY Registers, SiLenAssumption DEF IInv, TypeOK
<1>2. PICK n \in 1 .. Depth : n = Depth
  BY Registers
<1>3. \A k \in 2 .. n : Framed(act[k]) => /\ s'.si[act[k].bp] = s.si[act[k].bp]
                                          /\ s'.si[act[k].bp - 2] = s.si[act[k].bp - 2]
  BY <1>2, LinkageCells
<1>4. Current' = Current /\ Len(act') = n /\ act' \in Seq(Activations)
  BY <1>2, Registers DEF Current, Depth, IInv, TypeOK
<1>5. Operands' >= 0 /\ s'.bp = Current'.bp
  BY <1>4, Registers, SiLenAssumption DEF Operands
<1>6. FramesLinked' /\ ActivationsFit'
  BY <1>3, <1>4, <1>5, LastActivation
<1> QED
  BY <1>1, <1>6 DEF IInv

\* An instruction that changes operands or variables only.
LEMMA InstructionKeeps ==
  ASSUME IInv, NEW n, NEW cells, NEW t, Body(n, cells, t),
         DOMAIN t.si = Index, t.bp = s.bp, t.capacity = s.capacity,
         cells \subseteq Index => t.sp \in Current.top .. SiLen - 1,
         cells \subseteq Index => \A i \in Index : Kept(i) => t.si[i] = s.si[i]
  PROVE  IInv'
<1>1. CASE cells \subseteq Index
  <2>1. mode = "run" /\ s' = t /\ act' = act /\ mode' = mode
    BY <1>1 DEF Body, Touches
  <2> QED
    BY <1>1, <2>1, SameFramesKeeps
<1>2. CASE ~(cells \subseteq Index)
  BY <1>2, FaultKeeps DEF Body, Touches
<1> QED
  BY <1>1, <1>2

LEMMA PushKeeps ==
  ASSUME IInv, NEW n \in Nat, NEW cells, NEW x, Body(n, cells \cup PushCells(s), Stack_Push(s, x))
  PROVE  IInv'
<1> DEFINE t == Stack_Push(s, x)
<1>1. s.sp >= Current.top /\ (cells \cup PushCells(s) \subseteq Index => s.sp + 1 \in Index)
  BY Registers DEF Body, Operands, PushCells, IInv, FramesLinked
<1>2. /\ t.si = [s.si EXCEPT ![s.sp + 1] = x]
      /\ t.bp = s.bp /\ t.sp = s.sp + 1 /\ t.capacity = s.capacity
  BY DEF Stack_Push, Desc
<1> HIDE DEF t
<1>3. DOMAIN t.si = Index
  BY <1>2, Registers
<1>4. cells \cup PushCells(s) \subseteq Index => t.sp \in Current.top .. SiLen - 1
  BY <1>1, <1>2, Registers, SiLenAssumption DEF Index
<1>5. cells \cup PushCells(s) \subseteq Index => \A i \in Index : Kept(i) => t.si[i] = s.si[i]
  BY <1>1, <1>2, Registers, SiLenAssumption DEF Index, Kept
<1>6. Body(n, cells \cup PushCells(s), t)
  BY DEF t
<1> QED
  BY <1>2, <1>3, <1>4, <1>5, <1>6, InstructionKeeps

LEMMA PopKeeps ==
  ASSUME IInv, Body(1, {s.sp}, Stack_Pop(s))
  PROVE  IInv'
<1> DEFINE t == Stack_Pop(s)
<1>1. s.sp >= Current.top + 1
  BY Registers DEF Body, Operands
<1>2. /\ t.si = s.si
      /\ t.bp = s.bp /\ t.sp = s.sp - 1 /\ t.capacity = s.capacity
  BY DEF Stack_Pop, Desc
<1> HIDE DEF t
<1>3. DOMAIN t.si = Index
  BY <1>2, Registers
<1>4. {s.sp} \subseteq Index => t.sp \in Current.top .. SiLen - 1
  BY <1>1, <1>2, Registers, SiLenAssumption DEF Index
<1>5. {s.sp} \subseteq Index => \A i \in Index : Kept(i) => t.si[i] = s.si[i]
  BY <1>1, <1>2, Registers, SiLenAssumption DEF Index, Kept
<1>6. Body(1, {s.sp}, t)
  BY DEF t
<1> QED
  BY <1>2, <1>3, <1>4, <1>5, <1>6, InstructionKeeps

LEMMA SetTopKeeps ==
  ASSUME IInv, NEW x, Body(1, {s.sp}, SetTop(s, x))
  PROVE  IInv'
<1> DEFINE t == SetTop(s, x)
<1>1. s.sp >= Current.top + 1
  BY Registers DEF Body, Operands
<1>2. /\ t.si = [s.si EXCEPT ![s.sp] = x]
      /\ t.bp = s.bp /\ t.sp = s.sp /\ t.capacity = s.capacity
  BY DEF SetTop, Desc
<1> HIDE DEF t
<1>3. DOMAIN t.si = Index
  BY <1>2, Registers
<1>4. {s.sp} \subseteq Index => t.sp \in Current.top .. SiLen - 1
  BY <1>1, <1>2, Registers, SiLenAssumption DEF Index
<1>5. {s.sp} \subseteq Index => \A i \in Index : Kept(i) => t.si[i] = s.si[i]
  BY <1>1, <1>2, Registers, SiLenAssumption DEF Index, Kept
<1>6. Body(1, {s.sp}, t)
  BY DEF t
<1> QED
  BY <1>2, <1>3, <1>4, <1>5, <1>6, InstructionKeeps

LEMMA CombineKeeps ==
  ASSUME IInv, NEW x, Body(2, {s.sp, s.sp - 1}, Combine(s, x))
  PROVE  IInv'
<1> DEFINE t == Combine(s, x)
<1>1. s.sp >= Current.top + 2
  BY Registers DEF Body, Operands
<1>2. /\ t.si = [s.si EXCEPT ![s.sp - 1] = x]
      /\ t.bp = s.bp /\ t.sp = s.sp - 1 /\ t.capacity = s.capacity
  BY DEF Combine, Desc
<1> HIDE DEF t
<1>3. DOMAIN t.si = Index
  BY <1>2, Registers
<1>4. {s.sp, s.sp - 1} \subseteq Index => t.sp \in Current.top .. SiLen - 1
  BY <1>1, <1>2, Registers, SiLenAssumption DEF Index
<1>5. {s.sp, s.sp - 1} \subseteq Index => \A i \in Index : Kept(i) => t.si[i] = s.si[i]
  BY <1>1, <1>2, Registers, SiLenAssumption DEF Index, Kept
<1>6. Body(2, {s.sp, s.sp - 1}, t)
  BY DEF t
<1> QED
  BY <1>2, <1>3, <1>4, <1>5, <1>6, InstructionKeeps

\* Division by zero only drops the divisor.
LEMMA DivKeeps ==
  ASSUME IInv, Dyadic(Stack_div)
  PROVE  IInv'
<1>1. CASE V2(s) = 0
  <2>1. Body(1, {s.sp}, Stack_Pop(s))
    BY <1>1, Registers, SiLenAssumption DEF Dyadic, Stack_div, Body, Operands, Touches, Index
  <2> QED
    BY <2>1, PopKeeps
<1>2. CASE V2(s) # 0
  BY <1>2, CombineKeeps DEF Dyadic, Stack_div
<1> QED
  BY <1>1, <1>2

\* The inherent instructions overwrite the top operand or combine two.
LEMMA InherentKeeps ==
  ASSUME IInv, Inherent
  PROVE  IInv'
<1>1. CASE Monadic(Stack_not) \/ Monadic(Stack_neg) \/ Monadic(Stack_inc) \/ Monadic(Stack_dec)
  BY <1>1, SetTopKeeps DEF Monadic, Stack_not, Stack_neg, Stack_inc, Stack_dec
<1>2. CASE \/ Dyadic(Stack_and) \/ Dyadic(Stack_or) \/ Dyadic(Stack_xor)
           \/ Dyadic(Stack_add) \/ Dyadic(Stack_sub) \/ Dyadic(Stack_mul)
  BY <1>2, CombineKeeps
  DEF Dyadic, Stack_and, Stack_or, Stack_xor, Stack_add, Stack_sub, Stack_mul
<1>3. CASE Dyadic(Stack_div)
  BY <1>3, DivKeeps
<1>4. CASE \/ Partial(Stack_rem, RemDefined) \/ Partial(Stack_shl, ShiftDefined)
           \/ Partial(Stack_shr, ShiftDefined)
  BY <1>4, CombineKeeps, FaultKeeps DEF Partial, Dyadic, Stack_rem, Stack_shl, Stack_shr
<1>5. CASE \/ Dyadic(Stack_teq) \/ Dyadic(Stack_tne) \/ Dyadic(Stack_tlt)
           \/ Dyadic(Stack_tgt) \/ Dyadic(Stack_tle) \/ Dyadic(Stack_tge)
  BY <1>5, CombineKeeps
  DEF Dyadic, Stack_teq, Stack_tne, Stack_tlt, Stack_tgt, Stack_tle, Stack_tge
<1> QED
  BY <1>1, <1>2, <1>3, <1>4, <1>5 DEF Inherent

-----------------------------------------------------------------------------
(* Variables.                                                              *)

\* The offset the code computes leads to one of the function's variables.
LEMMA VariableInFrame ==
  ASSUME IInv, NEW i \in 0 .. NumVars - 1
  PROVE  /\ s.bp - 2 \in Index /\ s.bp = Current.top
         /\ VariableCell(s, i) = Base(Current) + i
         /\ VariableCell(s, i) \in Base(Current) .. Current.top - 3
         /\ VariableCell(s, i) \in Index
<1> DEFINE bp == s.bp v == Current.v np == Current.np nl == Current.nl
<1>0. Depth \in 1 .. Depth /\ Current \in Activations /\ i \in 0 .. np + nl - 1
      /\ v \in 0 .. 1 /\ np \in 0 .. 7 /\ nl \in 0 .. 7 /\ bp \in -1 .. SiLen - 1
  BY Registers DEF NumVars
<1>1. Depth \in 2 .. Depth /\ Depth - 1 \in Nat
  BY <1>0, Registers DEF IInv, FramesLinked, Activation
<1>2. np + nl <= 7
  BY <1>0, Registers DEF IInv, ActivationsFit
<1>3. Linked(s.si, act[Depth - 1], Current)
  BY <1>1, Registers DEF IInv, FramesLinked
<1>9. Framed(Current) /\ Current.top = bp
  BY <1>0, <1>3, Registers DEF Linked, Activation, Framed
<1>4. Base(Current) >= 0 /\ Base(Current) = bp - 2 - np - nl
  BY <1>0, <1>1, <1>9, Inside, Bases, Registers
<1>5. s.si[bp - 2] = FctInfo(v, np, nl)
  BY <1>3, <1>9, Registers DEF Linked
<1>6. NpOf(FrameInfo(s)) = np /\ NlOf(FrameInfo(s)) = nl
  BY <1>0, <1>5, Unpacked DEF FrameInfo
<1> HIDE DEF v, np, nl
<1>7. getFrameOffset(i, np, nl) = 2 + np + nl - i
  BY <1>0, <1>2 DEF getFrameOffset, U8
<1>8. VariableCell(s, i) = Base(Current) + i
  BY <1>0, <1>4, <1>6, <1>7, SiLenAssumption DEF VariableCell
<1> QED
  BY <1>0, <1>9, <1>4, <1>8, SiLenAssumption DEF Index

\* STV and ADDV write a variable and drop the top operand.
LEMMA WriteKeeps ==
  ASSUME IInv, NEW i \in 0 .. NumVars - 1, NEW x, NEW t,
         Body(1, VariableCells(s, i) \cup {s.sp}, t),
         t = Desc(s, [s.si EXCEPT ![VariableCell(s, i)] = x], s.bp, s.sp - 1)
  PROVE  IInv'
<1>1. /\ t.si = [s.si EXCEPT ![VariableCell(s, i)] = x]
      /\ t.bp = s.bp /\ t.sp = s.sp - 1 /\ t.capacity = s.capacity
  BY DEF Desc
<1>2. t.sp \in Current.top .. SiLen - 1
  BY <1>1, Registers, SiLenAssumption DEF Body, Operands
<1>3. DOMAIN t.si = Index
  BY <1>1, Registers
<1>4. \A j \in Index : Kept(j) => t.si[j] = s.si[j]
  BY <1>1, VariableInFrame, Registers DEF Kept
<1> QED
  BY <1>1, <1>2, <1>3, <1>4, InstructionKeeps

\* INCV and DECV write the cell above the operands and a variable.
LEMMA StepKeeps ==
  ASSUME IInv, NEW i \in 0 .. NumVars - 1, NEW step, Stepv(i, step)
  PROVE  IInv'
<1> DEFINE pushed == Stack_Push(s, step)
           cells  == VariableCells(s, i) \cup PushCells(s)
           t      == Stack_addVariable(pushed, i)
           cell   == VariableCell(s, i)
           x      == I32(pushed.si[cell] + Stack_top(pushed))
<1>1. /\ pushed.si = [s.si EXCEPT ![s.sp + 1] = step]
      /\ pushed.bp = s.bp /\ pushed.sp = s.sp + 1 /\ pushed.capacity = s.capacity
  BY DEF Stack_Push, Desc
<1>2. s.sp >= Current.top
  BY Registers DEF Stepv, Body, Operands, IInv, FramesLinked
<1>3. FrameInfo(pushed) = FrameInfo(s)
  BY <1>1, <1>2, VariableInFrame, Registers, SiLenAssumption DEF FrameInfo
<1>4. VariableCell(pushed, i) = cell
  BY <1>1, <1>3 DEF VariableCell
<1> HIDE DEF pushed, cell
<1>5. /\ t.si = [pushed.si EXCEPT ![cell] = x]
      /\ t.bp = s.bp /\ t.sp = s.sp /\ t.capacity = s.capacity
  BY <1>1, <1>4, Registers DEF Stack_addVariable, Desc
<1>6. Body(0, cells, t)
  BY DEF Stepv, pushed
<1>7. cells \subseteq Index => t.sp \in Current.top .. SiLen - 1
  BY <1>2, <1>5, Registers, SiLenAssumption
<1>8. DOMAIN t.si = Index
  BY <1>1, <1>5, Registers
<1> HIDE DEF x, t
<1>9. ASSUME NEW j \in Index, Kept(j)
      PROVE  t.si[j] = s.si[j]
  <2>1. Current.top \in Int /\ s.sp \in Int /\ j \in Int
    BY Registers, SiLenAssumption DEF Index
  <2>2. cell \in Base(Current) .. Current.top - 3
    BY VariableInFrame DEF cell
  <2>3. j # cell
    BY <1>9, <2>2 DEF Kept
  <2>4. j # s.sp + 1
    BY <1>2, <1>9, <2>1 DEF Kept
  <2>5. t.si[j] = pushed.si[j]
    BY <1>1, <1>5, <2>3, Registers
  <2> QED
    BY <1>1, <2>4, <2>5, Registers
<1> HIDE DEF cells
<1> QED
  BY <1>5, <1>6, <1>7, <1>8, <1>9, InstructionKeeps

LEMMA VariablesKeep ==
  ASSUME IInv, Variables
  PROVE  IInv'
<1>1. PICK i \in 0 .. NumVars - 1 :
        Ldv(i) \/ Stv(i) \/ Addv(i) \/ Stepv(i, 1) \/ Stepv(i, -1)
  BY DEF Variables
<1>2. CASE Ldv(i)
  BY <1>2, PushKeeps DEF Ldv, Stack_loadVariable
<1>3. CASE Stv(i)
  BY <1>3, WriteKeeps DEF Stv, Stack_storeVariable
<1>4. CASE Addv(i)
  BY <1>4, WriteKeeps DEF Addv, Stack_addVariable
<1>5. CASE Stepv(i, 1) \/ Stepv(i, -1)
  BY <1>5, StepKeeps
<1> QED
  BY <1>1, <1>2, <1>3, <1>4, <1>5

-----------------------------------------------------------------------------
(* Calls and returns.                                                      *)

\* The activations up to n keep their linkage when no cell up to the top of
\* the last of them changes.
LEMMA LinkageKept ==
  ASSUME IInv, NEW n \in 1 .. Depth,
         \A i \in Index : i <= act[n].top => s'.si[i] = s.si[i],
         NEW k \in 2 .. n, Framed(act[k])
  PROVE  /\ s'.si[act[k].bp] = s.si[act[k].bp]
         /\ s'.si[act[k].bp - 2] = s.si[act[k].bp - 2]
  BY LinkageCells

\* CALLS starts an activation on the cell it pushes.
LEMMA CallsKeeps ==
  ASSUME IInv, NEW address, Calls(address)
  PROVE  IInv'
<1> DEFINE new == Activation(s.sp + 1, s.bp, 0, 0, 0)
<1>1. CASE ~(PushCells(s) \subseteq Index)
  BY <1>1, FaultKeeps DEF Calls, Touches
<1>2. CASE PushCells(s) \subseteq Index
  <2>1. s' = Stack_Push(s, address) /\ act' = Append(act, new) /\ mode' = "run"
    BY <1>2 DEF Calls, Touches
  <2>2. /\ s'.si = [s.si EXCEPT ![s.sp + 1] = address]
        /\ s'.bp = s.bp /\ s'.sp = s.sp + 1 /\ s'.capacity = s.capacity
    BY <2>1 DEF Stack_Push, Desc
  <2>3. s.sp + 1 \in Index /\ s.sp \in Int /\ Current.top \in Int
    BY <1>2, Registers, SiLenAssumption DEF PushCells
  <2>4. PICK n \in 1 .. Depth : n = Depth
    BY Registers
  <2>5. s.bp <= act[n].top /\ act[n].top <= s.sp /\ act[n] = Current
    BY <2>4, Registers, SiLenAssumption DEF IInv, ActivationsFit
  <2>6. /\ new.top = s.sp + 1 /\ new.bp = s.bp /\ new.v = 0 /\ new.np = 0 /\ new.nl = 0
        /\ new \in Activations
    BY <2>3, Registers, SiLenAssumption DEF Activation, Activations, Index
  <2> HIDE DEF new
  <2>7. /\ act' \in Seq(Activations) /\ Len(act') = n + 1
        /\ act'[n + 1] = new /\ \A k \in 1 .. n : act'[k] = act[k]
    BY <2>1, <2>4, <2>6 DEF Depth, IInv, TypeOK
  <2>8. ~Framed(new)
    BY <2>3, <2>5, <2>6, Registers, SiLenAssumption DEF Framed
  <2>9. act[n].top < Base(new) /\ Linked(s'.si, act[n], new)
    <3>1. Base(new) = s.sp + 1
      BY <2>3, <2>6, <2>8 DEF Base
    <3>2. Linked(s'.si, act[n], new)
      BY <2>5, <2>6, <2>8, Registers DEF Linked, new
    <3> QED
      BY <2>3, <2>5, <3>1, <3>2
  <2>10. \A i \in Index : i <= act[n].top => s'.si[i] = s.si[i]
    BY <2>2, <2>3, <2>5, Registers DEF Index
  <2>11. Current' = new
    BY <2>7 DEF Current, Depth
  <2>12. s'.bp = Current'.bp /\ Operands' >= 0
    BY <2>2, <2>3, <2>6, <2>11 DEF Operands
  <2>13. new.np + new.nl <= 7 /\ new.bp <= new.top
    BY <2>3, <2>5, <2>6, Registers, SiLenAssumption
  <2>14. FramesLinked' /\ ActivationsFit'
    BY <2>7, <2>9, <2>10, <2>12, <2>13, LinkageKept, LastActivation
  <2>15. TypeOK'
    BY <2>1, <2>2, <2>3, <2>7, Registers, SiLenAssumption DEF IInv, TypeOK, Index
  <2> QED
    BY <2>14, <2>15 DEF IInv
<1> QED
  BY <1>1, <1>2

\* A step that ends the current activation and leaves its result to the caller.
LEMMA LeaveKeeps ==
  ASSUME IInv, Depth > 1, act' = Others, mode' = "run",
         DOMAIN s'.si = Index, s'.capacity = s.capacity,
         s'.bp = act[Depth - 1].bp,
         s'.sp \in act[Depth - 1].top .. SiLen - 1,
         \A i \in Index : i <= act[Depth - 1].top => s'.si[i] = s.si[i]
  PROVE  IInv'
<1>1. PICK n \in 1 .. Depth : n = Depth - 1
  BY Registers
<1>2. /\ act' \in Seq(Activations) /\ Len(act') = n
      /\ \A k \in 1 .. n : act'[k] = act[k]
  BY <1>1 DEF Others, Depth, IInv, TypeOK
<1>3. Current' = act[n] /\ act[n].top \in -1 .. SiLen - 1 /\ act[n].bp \in -1 .. SiLen - 1
  BY <1>1, <1>2, Registers DEF Current, Depth
<1>4. s'.bp = Current'.bp /\ Operands' >= 0
  BY <1>1, <1>3, SiLenAssumption DEF Operands
<1>5. FramesLinked' /\ ActivationsFit'
  BY <1>1, <1>2, <1>4, LinkageKept, LastActivation
<1>6. TypeOK'
  BY <1>1, <1>2, <1>3, Registers, SiLenAssumption DEF IInv, TypeOK
<1> QED
  BY <1>5, <1>6 DEF IInv

\* The activation below the current one, and the cells between the two.
LEMMA CallerBelow ==
  ASSUME IInv, Depth > 1
  PROVE  /\ act[Depth - 1].top \in -1 .. SiLen - 1 /\ act[Depth - 1].bp \in -1 .. SiLen - 1
         /\ Base(Current) \in Int /\ Base(Current) >= 0
         /\ act[Depth - 1].top < Base(Current)
         /\ Base(Current) <= Current.top
         /\ Linked(s.si, act[Depth - 1], Current)
<1>1. Depth \in 2 .. Depth /\ Depth \in 1 .. Depth /\ Depth - 1 \in 1 .. Depth /\ Depth - 1 < Depth
  BY Registers
<1>2. Base(Current) >= 0 /\ Base(Current) \in Int /\ Base(Current) <= Current.top
  BY <1>1, Inside, Bases, Registers
<1> QED
  BY <1>1, <1>2, Registers DEF IInv, FramesLinked

LEMMA RetKeeps ==
  ASSUME IInv, Ret
  PROVE  IInv'
<1>1. mode = "run" /\ ~Framed(Current) /\ s.sp = Current.top
  BY Registers, SiLenAssumption DEF Ret, Operands
<1>2. CASE {s.sp} \subseteq Index
  <2>1. s' = Stack_Pop(s) /\ act' = Others /\ mode' = "run"
    BY <1>1, <1>2 DEF Ret, Touches
  <2>2. /\ s'.si = s.si /\ s'.bp = s.bp /\ s'.sp = s.sp - 1 /\ s'.capacity = s.capacity
    BY <2>1 DEF Stack_Pop, Desc
  <2>3. Depth > 1
    BY <1>1, Registers DEF IInv, FramesLinked, Activation, Framed
  <2>4. s.bp = act[Depth - 1].bp
    BY <1>1, <2>3, CallerBelow, Registers DEF Linked, Activation
  <2>5. s'.sp \in act[Depth - 1].top .. SiLen - 1
    BY <1>1, <2>2, <2>3, CallerBelow, Registers, SiLenAssumption
  <2> QED
    BY <2>1, <2>2, <2>3, <2>4, <2>5, Registers, LeaveKeeps
<1> QED
  BY <1>2, FaultKeeps DEF Ret, Touches

\* ENTER puts a frame where the frameless activation was: its first variables
\* are the arguments, the caller's last operands.
LEMMA EnterKeeps ==
  ASSUME IInv, FramesFit, NEW f \in Shapes, EnterFunction(f)
  PROVE  IInv'
<1> DEFINE v == f.v np == f.np nl == f.nl top == s.sp + nl + 2
           new == Activation(top, top, v, np, nl)
<1>1. /\ v \in 0 .. 1 /\ np \in 0 .. 7 /\ nl \in 0 .. 7 /\ np + nl <= 7
      /\ Entered(f) = Enter(s, v, np, nl)
  BY EnteredShape DEF FramesFit
<1>2. /\ mode = "run" /\ ~Framed(Current) /\ s.sp = Current.top
      /\ s.sp - 1 - act[Depth - 1].top >= np
  BY Registers, SiLenAssumption DEF EnterFunction, Operands
<1>3. CASE ~(EnterCells(s, nl) \subseteq Index)
  BY <1>3, FaultKeeps DEF EnterFunction, Touches
<1>4. CASE EnterCells(s, nl) \subseteq Index
  <2>1. s' = Enter(s, v, np, nl) /\ act' = Append(Others, new) /\ mode' = "run"
    BY <1>1, <1>4 DEF EnterFunction, Touches
  <2> HIDE DEF v, np, nl
  <2>2. /\ s'.si = [s.si EXCEPT ![top - 2] = FctInfo(v, np, nl),
                                ![top - 1] = Stack_top(s), ![top] = s.bp]
        /\ s'.bp = top /\ s'.sp = top /\ s'.capacity = s.capacity
    BY <2>1 DEF Enter, Desc
  <2>3. Depth > 1
    BY <1>2, Registers DEF IInv, FramesLinked, Activation, Framed
  <2>4. PICK n \in 1 .. Depth : n = Depth - 1
    BY <2>3, Registers
  <2>5. /\ act[n].top \in Int /\ act[n].bp = s.bp /\ s.sp \in Int
        /\ act[n].top < s.sp - np
    BY <1>1, <1>2, <2>3, <2>4, CallerBelow, Registers, SiLenAssumption DEF Linked, Activation
  <2>6. /\ top \in Index /\ top - 1 \in Index /\ top - 2 \in Index
        /\ top - 2 > act[n].top
    <3>1. {top - 2, top - 1, top} \subseteq EnterCells(s, nl)
      BY <1>1, <2>5 DEF EnterCells
    <3> QED
      BY <1>1, <1>4, <2>5, <3>1
  <2>7. /\ new.top = top /\ new.bp = top /\ new.v = v /\ new.np = np /\ new.nl = nl
        /\ new \in Activations
    BY <1>1, <2>6, SiLenAssumption DEF Activation, Activations, Index
  <2> HIDE DEF new
  <2>8. /\ act' \in Seq(Activations) /\ Len(act') = n + 1
        /\ act'[n + 1] = new /\ \A k \in 1 .. n : act'[k] = act[k]
    BY <2>1, <2>3, <2>4, <2>7 DEF Others, Depth, IInv, TypeOK
  <2>9. act[n].top < Base(new)
    <3>1. Base(new) = top - 2 - np - nl
      BY <2>7, Bases DEF Framed
    <3> QED
      BY <1>1, <2>5, <3>1
  <2> HIDE DEF top
  <2>10. Linked(s'.si, act[n], new)
    <3>1. s'.si[top] = s.bp /\ s'.si[top - 2] = FctInfo(v, np, nl)
      BY <2>2, <2>6, Registers, SiLenAssumption DEF Index
    <3> QED
      BY <2>5, <2>7, <3>1 DEF Linked, Framed
  <2>11. \A i \in Index : i <= act[n].top => s'.si[i] = s.si[i]
    <3>1. \A i \in Index : i <= act[n].top => i \notin {top - 2, top - 1, top}
      BY <2>5, <2>6 DEF Index
    <3> QED
      BY <2>2, <3>1, Registers
  <2>12. Current' = new
    BY <2>8 DEF Current, Depth
  <2>13. s'.bp = Current'.bp /\ Operands' >= 0
    BY <2>2, <2>6, <2>7, <2>12 DEF Operands, Index
  <2>14. FramesLinked' /\ ActivationsFit'
    BY <1>1, <2>6, <2>7, <2>8, <2>9, <2>10, <2>11, <2>13, LinkageKept, LastActivation DEF Index
  <2>15. TypeOK'
    BY <2>1, <2>2, <2>6, <2>8, Registers, SiLenAssumption DEF IInv, TypeOK, Index
  <2> QED
    BY <2>14, <2>15 DEF IInv
<1> QED
  BY <1>3, <1>4

\* EXIT finds the frame by bp and by the shape in fi: it frees exactly that.
LEMMA ExitFrees ==
  ASSUME IInv, ExitFunction
  PROVE  /\ VOf(FrameInfo(s)) = Current.v
         /\ ExitBase(s) = Base(Current) - 1
         /\ I8(U8(s.si[s.sp - Current.v])) = act[Depth - 1].bp
<1> DEFINE bp == s.bp v == Current.v np == Current.np nl == Current.nl
<1>1. Depth > 1 /\ Framed(Current) /\ Operands = v
  BY DEF ExitFunction
<1>2. /\ Depth \in 1 .. Depth /\ Current \in Activations /\ Current.top = bp
      /\ bp \in -1 .. SiLen - 1 /\ v \in 0 .. 1 /\ np \in 0 .. 7 /\ nl \in 0 .. 7
  BY <1>1, Registers DEF Framed
<1>3. np + nl <= 7
  BY <1>2, Registers DEF IInv, ActivationsFit
<1>4. s.si[bp] = act[Depth - 1].bp /\ s.si[bp - 2] = FctInfo(v, np, nl)
  BY <1>1, <1>2, CallerBelow, Registers DEF Linked
<1>5. Base(Current) = bp - 2 - np - nl /\ s.sp = bp + v /\ s.sp \in Int
  BY <1>1, <1>2, Bases, Registers, SiLenAssumption DEF Operands
<1>6. VOf(FrameInfo(s)) = v /\ NpOf(FrameInfo(s)) = np /\ NlOf(FrameInfo(s)) = nl
  BY <1>2, <1>4, Unpacked DEF FrameInfo
<1>7. act[Depth - 1].bp \in -1 .. SiLen - 1
  BY <1>1, CallerBelow
<1> HIDE DEF bp, v, np, nl
<1>8. ExitBase(s) = Base(Current) - 1 /\ s.sp - v = bp
  BY <1>2, <1>3, <1>5, <1>6, SiLenAssumption DEF ExitBase
<1> QED
  BY <1>4, <1>6, <1>7, <1>8, RestoredBp DEF v

LEMMA ExitKeeps ==
  ASSUME IInv, ExitFunction
  PROVE  IInv'
<1> DEFINE v == Current.v base == Base(Current) - 1
<1>1. mode = "run" /\ Depth > 1
  BY DEF ExitFunction
<1>2. CASE ~(ExitCells(s) \subseteq Index)
  BY <1>2, FaultKeeps DEF ExitFunction, Touches
<1>3. CASE ExitCells(s) \subseteq Index
  <2>1. s' = Stack_Pop(Stack_exit(s)) /\ act' = Others /\ mode' = "run"
    BY <1>1, <1>3 DEF ExitFunction, Touches
  <2>2. /\ v \in 0 .. 1 /\ base \in Int /\ base >= act[Depth - 1].top
        /\ act[Depth - 1].top \in Int /\ base >= -1
    BY <1>1, CallerBelow, Registers, SiLenAssumption
  <2>3. /\ s'.bp = act[Depth - 1].bp /\ s'.sp = base + v /\ s'.capacity = s.capacity
        /\ \/ s'.si = [s.si EXCEPT ![base + 1] = Stack_top(s),
                                   ![base + 2] = s.si[s.sp - v - 1]]
           \/ s'.si = [s.si EXCEPT ![base + 1] = s.si[s.sp - v - 1]]
    BY <2>1, <2>2, ExitFrees DEF Stack_Pop, Stack_exit, Desc
  <2>4. base + v + 1 \in Index
    BY <1>3, <2>2, ExitFrees DEF ExitCells
  <2> HIDE DEF v, base
  <2>5. \A i \in Index : i <= act[Depth - 1].top => s'.si[i] = s.si[i]
    <3>1. \A i \in Index : i <= act[Depth - 1].top => i \notin {base + 1, base + 2}
      BY <2>2 DEF Index
    <3> QED
      BY <2>3, <3>1, Registers
  <2>6. s'.sp \in act[Depth - 1].top .. SiLen - 1
    BY <2>2, <2>3, <2>4, SiLenAssumption DEF Index
  <2>7. DOMAIN s'.si = Index
    BY <2>3, Registers
  <2> QED
    BY <1>1, <2>1, <2>3, <2>5, <2>6, <2>7, LeaveKeeps
<1> QED
  BY <1>2, <1>3

\* The machine is prepared again only when no function is active.
LEMMA RestartKeeps ==
  ASSUME IInv, Restart
  PROVE  IInv'
<1>1. /\ mode' = "run" /\ act' = act /\ Depth = 1
      /\ s'.si = s.si /\ s'.bp = -1 /\ s'.sp = -1 /\ s'.capacity = Capacity
  BY CapacityAssumption DEF Restart, Stack_New
<1>2. s.bp = -1 /\ Current.top = -1
  BY <1>1, Registers DEF IInv, FramesLinked, Activation
<1>3. s.capacity = Capacity
  BY DEF IInv, TypeOK
<1>4. s'.sp \in Current.top .. SiLen - 1
  BY <1>1, <1>2, SiLenAssumption
<1> QED
  BY <1>1, <1>2, <1>3, <1>4, Registers, SameFramesKeeps

-----------------------------------------------------------------------------
(* The invariant, and what follows from it.                                *)

LEMMA InitIInv ==
  ASSUME FramesFit, Init
  PROVE  IInv
<1> DEFINE outermost == Activation(-1, -1, 0, 0, 0)
<1>1. /\ DOMAIN s.si = Index /\ s.bp = -1 /\ s.sp = -1 /\ s.capacity = Capacity
      /\ act = <<outermost>> /\ mode = "run"
  BY CapacityAssumption DEF Init, Stack_New, Outermost
<1>2. outermost \in Activations
  BY SiLenAssumption DEF Activation, Activations
<1>3. Depth = 1 /\ act[1] = outermost /\ act \in Seq(Activations) /\ Current = outermost
  BY <1>1, <1>2 DEF Depth, Current
<1>4. TypeOK
  BY <1>1, <1>3, SiLenAssumption DEF TypeOK
<1>5. FramesLinked
  BY <1>1, <1>3 DEF FramesLinked, Operands, Activation
<1>6. ActivationsFit
  BY <1>3 DEF ActivationsFit, Activation
<1> QED
  BY <1>4, <1>5, <1>6 DEF IInv

LEMMA NextIInv ==
  ASSUME FramesFit, IInv, [Next]_vars
  PROVE  IInv'
<1>1. CASE \E c \in Literals : Ldc(c)
  BY <1>1, PushKeeps DEF Ldc
<1>2. CASE Pop
  BY <1>2, PopKeeps DEF Pop
<1>3. CASE Dup
  BY <1>3, PushKeeps DEF Dup, Stack_dup, PushCells
<1>4. CASE Inherent
  BY <1>4, InherentKeeps
<1>5. CASE Variables
  BY <1>5, VariablesKeep
<1>6. CASE \E address \in Addresses : Calls(address)
  BY <1>6, CallsKeeps
<1>7. CASE \E f \in Shapes : EnterFunction(f)
  BY <1>7, EnterKeeps
<1>8. CASE Ret
  BY <1>8, RetKeeps
<1>9. CASE ExitFunction
  BY <1>9, ExitKeeps
<1>10. CASE Restart
  BY <1>10, RestartKeeps
<1>11. CASE UNCHANGED vars
  BY <1>11 DEF vars, IInv, TypeOK, FramesLinked, ActivationsFit, Depth, Current, Operands
<1> QED
  BY <1>1, <1>2, <1>3, <1>4, <1>5, <1>6, <1>7, <1>8, <1>9, <1>10, <1>11 DEF Next

(* The registers and the history keep their types: bp and sp never leave   *)
(* the range of the array, so that their i8 fields never wrap.             *)
THEOREM TypeCorrect ==
  ASSUME FramesFit
  PROVE  Spec => []TypeOK
<1>1. Init => IInv
  BY InitIInv
<1>2. IInv /\ [Next]_vars => IInv'
  BY NextIInv
<1>3. IInv => TypeOK
  BY DEF IInv
<1> QED
  BY <1>1, <1>2, <1>3, PTL DEF Spec

(* The linkage of every frame is intact in every state: no program writes  *)
(* over a saved bp or an fi, and bp is always the current function's.      *)
THEOREM LinkageIntact ==
  ASSUME FramesFit
  PROVE  Spec => []FramesLinked
<1>1. Init => IInv
  BY InitIInv
<1>2. IInv /\ [Next]_vars => IInv'
  BY NextIInv
<1>3. IInv => FramesLinked
  BY DEF IInv
<1> QED
  BY <1>1, <1>2, <1>3, PTL DEF Spec

\* No instruction but RET and EXIT ends an activation.
LEMMA OnlyReturnsLeave ==
  ASSUME IInv, Next, Len(act') < Depth
  PROVE  Ret \/ ExitFunction
<1>1. act' # act
  BY Registers DEF Depth
<1>2. ASSUME NEW n, NEW cells, NEW t
      PROVE  ~Body(n, cells, t)
  BY <1>1 DEF Body, Touches, Fault
<1>3. /\ \A c \in Literals : ~Ldc(c)
      /\ ~Pop /\ ~Dup
  BY <1>2 DEF Ldc, Pop, Dup
<1>4. ~Inherent
  BY <1>1, <1>2 DEF Inherent, Monadic, Dyadic, Partial, Fault
<1>5. ~Variables
  BY <1>2 DEF Variables, Ldv, Stv, Addv, Stepv
<1>6. ~Restart
  BY <1>1 DEF Restart
<1>7. ASSUME NEW address \in Addresses
      PROVE  ~Calls(address)
  <2>1. \A a : Len(Append(act, a)) = Depth + 1
    BY DEF Depth, IInv, TypeOK
  <2> QED
    BY <1>1, <2>1, Registers DEF Calls, Touches, Fault
<1>8. ASSUME NEW f \in Shapes
      PROVE  ~EnterFunction(f)
  <2> SUFFICES ASSUME EnterFunction(f)
               PROVE  FALSE
    OBVIOUS
  <2>1. Depth > 1
    BY Registers DEF EnterFunction, IInv, FramesLinked, Activation, Framed
  <2>2. \A a : Len(Append(Others, a)) = Depth
    BY <2>1, Registers DEF Others, Depth, IInv, TypeOK
  <2> QED
    BY <1>1, <2>2, Registers DEF EnterFunction, Touches, Fault
<1> QED
  BY <1>3, <1>4, <1>5, <1>6, <1>7, <1>8 DEF Next

(* RET and EXIT free what the call took - the arguments, the locals and    *)
(* the linkage - and nothing of the caller's, for every program whose      *)
(* frames fit.                                                             *)
THEOREM ExitExact ==
  ASSUME FramesFit
  PROVE  Spec => ExitFreesFrame
<1>1. Init => IInv
  BY InitIInv
<1>2. IInv /\ [Next]_vars => IInv'
  BY NextIInv
<1>3. IInv /\ [Next]_vars => [Len(act') < Depth => s'.sp = Base(Current) - 1 + Current.v]_vars
  <2> SUFFICES ASSUME IInv, Next, Len(act') < Depth
               PROVE  s'.sp = Base(Current) - 1 + Current.v
    OBVIOUS
  <2>1. CASE Ret
    <3>1. s' = Stack_Pop(s)
      BY <2>1 DEF Ret, Touches, Fault, Depth
    <3>2. ~Framed(Current) /\ s.sp = Current.top
      BY <2>1, Registers, SiLenAssumption DEF Ret, Operands
    <3>3. Depth > 1
      BY <3>2, Registers DEF IInv, FramesLinked, Activation, Framed
    <3>4. Current.v = 0 /\ Current.np = 0 /\ Current.nl = 0
      BY <3>2, <3>3, CallerBelow DEF Linked, Activation
    <3>5. Base(Current) = s.sp /\ s.sp \in Int
      BY <3>2, <3>4, Registers, SiLenAssumption DEF Base
    <3>6. s'.sp = s.sp - 1
      BY <3>1 DEF Stack_Pop, Desc
    <3> QED
      BY <3>4, <3>5, <3>6
  <2>2. CASE ExitFunction
    <3>1. s' = Stack_Pop(Stack_exit(s)) /\ Depth > 1
      BY <2>2 DEF ExitFunction, Touches, Fault, Depth
    <3>2. s'.sp = (ExitBase(s) + VOf(FrameInfo(s)) + 1) - 1
      <4>1. Stack_exit(s).sp = ExitBase(s) + VOf(FrameInfo(s)) + 1
        BY DEF Stack_exit, Desc
      <4> QED
        BY <3>1, <4>1 DEF Stack_Pop, Desc
    <3>3. Current.v \in 0 .. 1 /\ Base(Current) \in Int
      BY <3>1, CallerBelow, Registers
    <3> QED
      BY <2>2, <3>2, <3>3, ExitFrees
  <2> QED
    BY <2>1, <2>2, OnlyReturnsLeave
<1> QED
  BY <1>1, <1>2, <1>3, PTL DEF Spec, ExitFreesFrame
=============================================================================
