------------------------- MODULE CmCalls_refinement -------------------------
(***************************************************************************)
(* The flat array of CmCalls implements the stack of activations of        *)
(* ActivationStack, for every array, word size, program and set of         *)
(* literals and addresses, as long as the frames fit (FramesFit).          *)
(*                                                                         *)
(* The activations are read off the cells (frames, in CmCalls), and every  *)
(* instruction is shown to be one step of ActivationStack: what it writes  *)
(* lies above the operands it keeps, or is one variable of the current     *)
(* activation.                                                             *)
(***************************************************************************)
EXTENDS CmCalls_proofs, SequenceTheorems

\* The fields of an abstract activation are sequences.
LEMMA FunctionIsSeq ==
  ASSUME NEW n \in Nat, NEW S, NEW f \in [1 .. n -> S]
  PROVE  f \in Seq(S) /\ Len(f) = n
<1>1. f \in Seq(S)
  BY SeqDef
<1>2. Len(f) \in Nat /\ DOMAIN f = 1 .. Len(f)
  BY <1>1, LenProperties
<1>3. 1 .. Len(f) = 1 .. n
  BY <1>2
<1> QED
  BY <1>1, <1>2, <1>3

LEMMA Lengths ==
  ASSUME NEW n \in Nat, NEW f, f = [i \in 1 .. n |-> f[i]]
  PROVE  f \in Seq({f[i] : i \in 1 .. n}) /\ Len(f) = n
<1>1. f \in [1 .. n -> {f[i] : i \in 1 .. n}]
  OBVIOUS
<1> QED
  BY <1>1, FunctionIsSeq

\* Base and the frame of the history, as numbers.
LEMMA Bounds ==
  ASSUME IInv, NEW k \in 1 .. Depth
  PROVE  /\ act[k].np + act[k].nl \in Nat
         /\ NumOperands(k) \in Nat
         /\ act[k].top + NumOperands(k) \in -1 .. SiLen - 1
         /\ Base(act[k]) + act[k].np + act[k].nl <= act[k].top
         /\ Framed(act[k]) => Base(act[k]) + act[k].np + act[k].nl = act[k].top - 2
         /\ k > 1 => Base(act[k]) \in Nat /\ ReturnCell(k) \in Index
         /\ k > 1 /\ ~Framed(act[k]) => act[k].np = 0 /\ act[k].nl = 0 /\ act[k].v = 0
<1> DEFINE top == act[k].top np == act[k].np nl == act[k].nl base == Base(act[k])
<1>1. /\ top \in -1 .. SiLen - 1 /\ np \in 0 .. 7 /\ nl \in 0 .. 7
      /\ act[k] \in Activations
  BY Registers
<1>2. base = top - np - nl - (IF Framed(act[k]) THEN 2 ELSE 0)
  BY DEF Base
<1>3. k > 1 => base \in Nat
  BY <1>1, Inside, Bases
<1>4. ASSUME k > 1, ~Framed(act[k])
      PROVE  np = 0 /\ nl = 0 /\ act[k].v = 0
  <2>1. k \in 2 .. Depth
    BY <1>4, Registers
  <2>2. Linked(s.si, act[k - 1], act[k])
    BY <2>1 DEF IInv, FramesLinked
  <2> QED
    BY <1>4, <2>2 DEF Linked, Activation
<1>5. NumOperands(k) \in Nat /\ top + NumOperands(k) \in -1 .. SiLen - 1
  <2>1. CASE k = Depth
    BY <2>1, Registers, SiLenAssumption DEF NumOperands, Operands
  <2>2. CASE k # Depth
    <3>1. k + 1 \in 1 .. Depth /\ k < k + 1
      BY <2>2, Registers
    <3>2. top < Base(act[k + 1])
      BY <3>1 DEF IInv, FramesLinked
    <3>3. Base(act[k + 1]) \in Int /\ Base(act[k + 1]) <= act[k + 1].top
      BY <3>1, Registers, Bases
    <3>4. act[k + 1].top \in -1 .. SiLen - 1
      BY <3>1, Registers
    <3>5. NumOperands(k) = Base(act[k + 1]) - 1 - top
      BY <2>2 DEF NumOperands
    <3> HIDE DEF top
    <3> QED
      BY <1>1, <3>2, <3>3, <3>4, <3>5, SiLenAssumption
  <2> QED
    BY <2>1, <2>2
<1>6. ReturnCell(k) = IF Framed(act[k]) THEN top - 1 ELSE top
  BY DEF ReturnCell
<1> HIDE DEF top, np, nl, base
<1>7. k > 1 => ReturnCell(k) \in Index
  BY <1>1, <1>2, <1>3, <1>6, SiLenAssumption DEF Index
<1>8. /\ np + nl \in Nat
      /\ base + np + nl <= top
      /\ Framed(act[k]) => base + np + nl = top - 2
  BY <1>1, <1>2, SiLenAssumption
<1> QED
  BY <1>3, <1>4, <1>5, <1>7, <1>8 DEF top, np, nl, base
-----------------------------------------------------------------------------
(* The abstract state as functions over the activations and the cells.     *)

Fields(k) ==
  /\ Len(Frame(k).variables) = act[k].np + act[k].nl
  /\ \A i \in 1 .. act[k].np + act[k].nl :
       Frame(k).variables[i] = s.si[Base(act[k]) + i - 1]
  /\ Len(Frame(k).operands) = NumOperands(k)
  /\ \A j \in 1 .. NumOperands(k) : Frame(k).operands[j] = s.si[act[k].top + j]

AbstractState ==
  /\ Depth \in Nat \ {0}
  /\ Len(frames) = Depth
  /\ DOMAIN frames = 1 .. Depth
  /\ \A k \in 1 .. Depth : frames[k] = Frame(k) /\ Fields(k)

LEMMA Abstract == IInv => AbstractState
<1> SUFFICES ASSUME IInv
             PROVE  AbstractState
  OBVIOUS
<1>1. /\ Depth \in Nat \ {0} /\ DOMAIN frames = 1 .. Depth
      /\ \A k \in 1 .. Depth : frames[k] = Frame(k)
  BY Registers DEF frames
<1>2. frames = [k \in 1 .. Depth |-> frames[k]]
  BY DEF frames
<1>3. Len(frames) = Depth
  BY <1>1, <1>2, Lengths
<1>4. ASSUME NEW k \in 1 .. Depth
      PROVE  Fields(k)
  <2> DEFINE vs == [i \in 1 .. act[k].np + act[k].nl |-> s.si[Base(act[k]) + i - 1]]
             os == [j \in 1 .. NumOperands(k) |-> s.si[act[k].top + j]]
  <2>1. Frame(k).variables = vs /\ Frame(k).operands = os
    BY DEF Frame
  <2>2. vs = [i \in 1 .. act[k].np + act[k].nl |-> vs[i]]
    OBVIOUS
  <2>3. os = [j \in 1 .. NumOperands(k) |-> os[j]]
    OBVIOUS
  <2>4. act[k].np + act[k].nl \in Nat /\ NumOperands(k) \in Nat
    BY Bounds
  <2>5. Len(vs) = act[k].np + act[k].nl
    BY <2>2, <2>4, Lengths
  <2>6. Len(os) = NumOperands(k)
    BY <2>3, <2>4, Lengths
  <2> QED
    BY <2>1, <2>5, <2>6 DEF Fields
<1> QED
  BY <1>1, <1>3, <1>4 DEF AbstractState

LEMMA AbstractNext == IInv' => AbstractState'
  BY Abstract, PTL

-----------------------------------------------------------------------------
(* What a step leaves of an activation that the cells it writes miss.      *)

LEMMA HeadKept ==
  ASSUME IInv, NEW k \in 1 .. Depth, act'[k] = act[k],
         \A i \in Index : i \in {act[k].top - 1, act[k].top} => s'.si[i] = s.si[i]
  PROVE  /\ Frame(k)'.framed = Frame(k).framed
         /\ Frame(k)'.returns = Frame(k).returns
         /\ Frame(k)'.resume = Frame(k).resume
<1>1. Framed(act'[k]) = Framed(act[k]) /\ act'[k].v = act[k].v
  OBVIOUS
<1>2. ReturnCell(k)' = ReturnCell(k)
  BY DEF ReturnCell
<1>3. k # 1 => s'.si[ReturnCell(k)] = s.si[ReturnCell(k)]
  <2>1. k # 1 => ReturnCell(k) \in Index
    BY Bounds, Registers
  <2>2. ReturnCell(k) \in {act[k].top - 1, act[k].top}
    BY DEF ReturnCell
  <2> QED
    BY <2>1, <2>2
<1> QED
  BY <1>1, <1>2, <1>3 DEF Frame

LEMMA VariablesKept ==
  ASSUME IInv, NEW k \in 1 .. Depth, act'[k] = act[k],
         \A i \in Index : i <= act[k].top => s'.si[i] = s.si[i]
  PROVE  Frame(k)'.variables = Frame(k).variables
<1> DEFINE top == act[k].top n == act[k].np + act[k].nl base == Base(act[k])
<1>1. n \in Nat /\ base + n <= top /\ top \in -1 .. SiLen - 1
  <2>1. act[k].np \in 0 .. 7 /\ act[k].nl \in 0 .. 7 /\ base \in Int
    BY Registers, Bases
  <2>2. base + act[k].np + act[k].nl <= top /\ top \in -1 .. SiLen - 1
    BY Bounds, Registers
  <2> HIDE DEF base, top
  <2> QED
    BY <2>1, <2>2
<1>2. k = 1 => n = 0
  BY Registers DEF IInv, FramesLinked, Activation
<1>3. k # 1 => base \in Nat
  BY Bounds, Registers
<1>4. /\ Frame(k)'.variables = [i \in 1 .. n |-> s'.si[base + i - 1]]
      /\ Frame(k).variables = [i \in 1 .. n |-> s.si[base + i - 1]]
  BY DEF Frame
<1> HIDE DEF n, base
<1>5. \A i \in 1 .. n : base + i - 1 \in Index /\ base + i - 1 <= top
  BY <1>1, <1>2, <1>3, SiLenAssumption DEF Index
<1>6. \A i \in 1 .. n : s'.si[base + i - 1] = s.si[base + i - 1]
  BY <1>5
<1> QED
  BY <1>4, <1>6

LEMMA OperandsKept ==
  ASSUME IInv, NEW k \in 1 .. Depth, act'[k] = act[k], NumOperands(k)' = NumOperands(k),
         \A i \in Index : i <= act[k].top + NumOperands(k) => s'.si[i] = s.si[i]
  PROVE  Frame(k)'.operands = Frame(k).operands
<1> DEFINE top == act[k].top n == NumOperands(k)
<1>1. n \in Nat /\ top + n \in -1 .. SiLen - 1 /\ top \in -1 .. SiLen - 1
  BY Bounds, Registers
<1>2. Frame(k)'.operands = [j \in 1 .. n |-> s'.si[top + j]]
  BY DEF Frame
<1>3. Frame(k).operands = [j \in 1 .. n |-> s.si[top + j]]
  BY DEF Frame
<1>4. \A i \in Index : i <= top + n => s'.si[i] = s.si[i]
  OBVIOUS
<1> HIDE DEF n, top
<1>5. \A j \in 1 .. n : top + j \in Index /\ top + j <= top + n
  BY <1>1, SiLenAssumption DEF Index
<1> QED
  BY <1>2, <1>3, <1>4, <1>5

\* An activation that neither the step's writes nor its caller's operands touch.
LEMMA FrameKept ==
  ASSUME IInv, NEW k \in 1 .. Depth, act'[k] = act[k], NumOperands(k)' = NumOperands(k),
         \A i \in Index : i <= act[k].top + NumOperands(k) => s'.si[i] = s.si[i]
  PROVE  Frame(k)' = Frame(k)
<1>1. /\ NumOperands(k) \in Nat /\ act[k].top \in -1 .. SiLen - 1
  BY Bounds, Registers
<1>2. \A i \in Index : i <= act[k].top => s'.si[i] = s.si[i]
  BY <1>1, SiLenAssumption DEF Index
<1>3. \A i \in Index : i \in {act[k].top - 1, act[k].top} => s'.si[i] = s.si[i]
  BY <1>1, <1>2, SiLenAssumption DEF Index
<1>4. /\ Frame(k)'.framed = Frame(k).framed
      /\ Frame(k)'.returns = Frame(k).returns
      /\ Frame(k)'.resume = Frame(k).resume
  BY <1>3, HeadKept
<1>5. Frame(k)'.variables = Frame(k).variables
  BY <1>2, VariablesKept
<1>6. Frame(k)'.operands = Frame(k).operands
  BY OperandsKept
<1> QED
  BY <1>4, <1>5, <1>6 DEF Frame

\* The callers of activation n, when the step writes nothing below its base.
LEMMA CallersKept ==
  ASSUME IInv, IInv', NEW n \in 1 .. Depth, n <= Depth',
         \A k \in 1 .. n - 1 : act'[k] = act[k],
         n > 1 => Base(act'[n]) = Base(act[n]),
         \A i \in Index : i < Base(act[n]) => s'.si[i] = s.si[i]
  PROVE  \A k \in 1 .. n - 1 : Frame(k)' = Frame(k)
<1> SUFFICES ASSUME NEW k \in 1 .. n - 1
             PROVE  Frame(k)' = Frame(k)
  OBVIOUS
<1>1. /\ k \in 1 .. Depth /\ k + 1 \in 1 .. Depth /\ k + 1 \in 1 .. n /\ k \in Nat
      /\ Depth \in Nat /\ Depth' \in Nat /\ k # Depth /\ k # Depth' /\ n > 1
  BY Registers, AbstractNext DEF AbstractState
<1>2. NumOperands(k) = Base(act[k + 1]) - 1 - act[k].top
  BY <1>1 DEF NumOperands
<1>3. NumOperands(k)' = Base(act'[k + 1]) - 1 - act'[k].top
  BY <1>1 DEF NumOperands
<1>4. Base(act'[k + 1]) = Base(act[k + 1]) /\ act'[k] = act[k]
  <2>1. CASE k + 1 = n
    BY <1>1, <2>1
  <2>2. CASE k + 1 # n
    BY <1>1, <2>2
  <2> QED
    BY <2>1, <2>2
<1>5. /\ Base(act[k + 1]) \in Int /\ Base(act[n]) \in Int /\ act[k].top \in Int
      /\ Base(act[k + 1]) <= Base(act[n])
  <2>1. Base(act[k + 1]) \in Int /\ Base(act[n]) \in Int /\ act[k].top \in Int
    BY <1>1, Registers, Bases, SiLenAssumption
  <2>2. CASE k + 1 # n
    <3>1. act[k + 1].top < Base(act[n]) /\ Base(act[k + 1]) <= act[k + 1].top
      BY <1>1, <2>2, Registers, Bases DEF IInv, FramesLinked
    <3> QED
      BY <1>1, <2>1, <3>1, Registers, SiLenAssumption
  <2> QED
    BY <2>1, <2>2
<1>6. \A i \in Index : i <= act[k].top + NumOperands(k) => s'.si[i] = s.si[i]
  BY <1>2, <1>5 DEF Index
<1> QED
  BY <1>1, <1>2, <1>3, <1>4, <1>6, FrameKept

-----------------------------------------------------------------------------
(* Instructions of a body: a step of the current activation.               *)

LEMMA FaultRefines ==
  ASSUME Fault, mode = "run"
  PROVE  A!Next
  BY DEF Fault, A!Next, A!Exhaust

LEMMA BodyRefines ==
  ASSUME IInv, IInv', mode = "run", act' = act, UNCHANGED <<target, mode>>,
         \A i \in Index : Kept(i) => s'.si[i] = s.si[i],
         NEW d \in 1 .. Depth, d = Depth,
         A!Evaluate(Frame(d), Frame(d)') \/ A!Update(Frame(d), Frame(d)')
  PROVE  A!Next
<1>1. Depth' = Depth /\ Depth \in Nat \ {0}
  BY Registers DEF Depth
<1>2. /\ act[d].top \in -1 .. SiLen - 1 /\ Current = act[d]
      /\ Base(act[d]) \in Int /\ Base(act[d]) <= act[d].top
  BY Registers, Bases
<1>3. \A i \in Index : i < Base(act[d]) => s'.si[i] = s.si[i]
  BY <1>2, SiLenAssumption DEF Kept, Index
<1>4. \A k \in 1 .. d - 1 : Frame(k)' = Frame(k)
  BY <1>1, <1>3, CallersKept
<1>5. \A i \in Index : i \in {act[d].top - 1, act[d].top} => s'.si[i] = s.si[i]
  BY <1>2, SiLenAssumption DEF Kept, Index
<1>6. /\ Frame(d)'.framed = Frame(d).framed
      /\ Frame(d)'.returns = Frame(d).returns
      /\ Frame(d)'.resume = Frame(d).resume
  BY <1>5, HeadKept
<1>7. /\ Len(frames) = d /\ Len(frames') = d
      /\ \A k \in 1 .. d : frames[k] = Frame(k) /\ frames'[k] = Frame(k)'
  BY <1>1, Abstract, AbstractNext DEF AbstractState
<1>8. A!Body
  BY <1>1, <1>4, <1>6, <1>7 DEF A!Body, A!Depth, A!Current
<1> QED
  BY <1>8 DEF A!Next

LEMMA EvaluateRefines ==
  ASSUME IInv, IInv', mode = "run", act' = act, UNCHANGED <<target, mode>>,
         NEW n \in 0 .. 2, NEW m \in 0 .. 1, Operands >= n, s'.sp = s.sp - n + m,
         \A i \in Index : i <= s.sp - n => s'.si[i] = s.si[i]
  PROVE  A!Next
<1>1. PICK d \in 1 .. Depth : d = Depth
  BY Registers
<1> DEFINE top == act[d].top sp == s.sp
<1>2. /\ top \in -1 .. SiLen - 1 /\ sp \in -1 .. SiLen - 1 /\ top <= sp - n
      /\ Current = act[d] /\ act'[d] = act[d]
  BY <1>1, Registers, SiLenAssumption DEF Operands
<1>3. Depth' = Depth
  BY DEF Depth
<1>4. NumOperands(d) = sp - top /\ NumOperands(d)' = s'.sp - top
  BY <1>1, <1>2, <1>3 DEF NumOperands, Operands, Current
<1> HIDE DEF sp, top
<1>5. \A i \in Index : i <= top => s'.si[i] = s.si[i]
  BY <1>2, SiLenAssumption DEF Index, sp
<1>6. Frame(d)'.variables = Frame(d).variables
  BY <1>2, <1>5, VariablesKept DEF top
<1>7. A!Rewritten(Frame(d).operands, Frame(d)'.operands, n, m)
  <2> DEFINE a == Frame(d).operands b == Frame(d)'.operands
  <2>1. /\ Len(a) = NumOperands(d)
        /\ \A j \in 1 .. NumOperands(d) : a[j] = s.si[top + j]
    BY Abstract DEF AbstractState, Fields, top
  <2>2. /\ Len(b) = NumOperands(d)'
        /\ \A j \in 1 .. NumOperands(d)' : b[j] = s'.si[top + j]
    BY <1>2, <1>3, AbstractNext DEF AbstractState, Fields, top
  <2> HIDE DEF a, b
  <2>0. /\ sp \in Int /\ top \in Int /\ top <= sp - n
        /\ Len(a) = sp - top /\ Len(b) = sp - n + m - top
    BY <1>2, <1>4, <2>1, <2>2, SiLenAssumption DEF sp
  <2>3. /\ Len(a) >= n /\ Len(b) = Len(a) - n + m
    BY <2>0
  <2>4. ASSUME NEW j \in 1 .. Len(a) - n
        PROVE  b[j] = a[j]
    <3>1. Len(a) = sp - top /\ Len(b) = sp - top - n + m /\ sp \in Int /\ top \in Int
      BY <2>0
    <3>2. j \in 1 .. Len(a) /\ j \in 1 .. Len(b) /\ top + j \in Index /\ top + j <= sp - n
      BY <1>2, <3>1, SiLenAssumption DEF Index
    <3>3. s'.si[top + j] = s.si[top + j]
      BY <3>2 DEF sp
    <3> QED
      BY <1>4, <2>0, <2>1, <2>2, <3>2, <3>3
  <2> QED
    BY <2>3, <2>4 DEF A!Rewritten, a, b
<1>8. A!Evaluate(Frame(d), Frame(d)')
  BY <1>6, <1>7 DEF A!Evaluate
<1>9. \A i \in Index : Kept(i) => s'.si[i] = s.si[i]
  BY <1>2, <1>5 DEF Kept, top
<1> QED
  BY <1>1, <1>8, <1>9, BodyRefines

LEMMA UpdateRefines ==
  ASSUME IInv, IInv', mode = "run", act' = act, UNCHANGED <<target, mode>>,
         NEW i \in 0 .. NumVars - 1,
         NEW n \in 0 .. 1, Operands >= n, s'.sp = s.sp - n,
         \A j \in Index :
           j <= s.sp - n /\ j # VariableCell(s, i) => s'.si[j] = s.si[j]
  PROVE  A!Next
<1>1. PICK d \in 1 .. Depth : d = Depth
  BY Registers
<1> DEFINE top == act[d].top sp == s.sp base == Base(act[d]) vs == act[d].np + act[d].nl
           cell == VariableCell(s, i) a == Frame(d) b == Frame(d)'
<1>2. /\ top \in -1 .. SiLen - 1 /\ sp \in -1 .. SiLen - 1 /\ top <= sp - n
      /\ Current = act[d] /\ act'[d] = act[d]
  BY <1>1, Registers, SiLenAssumption DEF Operands
<1>3. Depth' = Depth
  BY DEF Depth
<1>4. NumOperands(d) = sp - top /\ NumOperands(d)' = s'.sp - top
  BY <1>1, <1>2, <1>3 DEF NumOperands, Operands, Current
<1>5. i \in 0 .. vs - 1 /\ vs \in Nat
  BY <1>2, Bounds DEF NumVars
<1>6. cell = base + i /\ cell \in base .. top - 3 /\ cell \in Index /\ base \in Int
  BY <1>2, VariableInFrame, Registers, Bases
<1>7. /\ Len(a.variables) = vs
      /\ \A j \in 1 .. vs : a.variables[j] = s.si[base + j - 1]
      /\ Len(a.operands) = NumOperands(d)
      /\ \A j \in 1 .. NumOperands(d) : a.operands[j] = s.si[top + j]
  BY Abstract DEF AbstractState, Fields
<1>8. /\ Len(b.variables) = vs
      /\ \A j \in 1 .. vs : b.variables[j] = s'.si[base + j - 1]
      /\ Len(b.operands) = NumOperands(d)'
      /\ \A j \in 1 .. NumOperands(d)' : b.operands[j] = s'.si[top + j]
  BY <1>2, <1>3, AbstractNext DEF AbstractState, Fields
<1>9. d # 1
  BY <1>5, Registers DEF IInv, FramesLinked, Activation
<1>10. base + act[d].np + act[d].nl <= top /\ base \in Nat
  BY <1>9, Bounds, Registers
<1>11. base + vs <= top
  <2>1. act[d].np \in Nat /\ act[d].nl \in Nat
    BY Registers
  <2> HIDE DEF base, top
  <2> QED
    BY <1>2, <1>10, <2>1
<1>12. \A j \in Index : j <= sp - n /\ j # cell => s'.si[j] = s.si[j]
  OBVIOUS
<1> HIDE DEF top, sp, base, vs, cell
<1>13. ASSUME NEW j \in 1 .. vs, j # i + 1
       PROVE  b.variables[j] = a.variables[j]
  <2>1. base + j - 1 \in Index /\ base + j - 1 <= sp - n /\ base + j - 1 # cell
    BY <1>2, <1>5, <1>6, <1>10, <1>11, <1>13, SiLenAssumption DEF Index
  <2>2. s'.si[base + j - 1] = s.si[base + j - 1]
    BY <1>12, <2>1
  <2> QED
    BY <1>7, <1>8, <2>2
<1>14. A!Rewritten(a.operands, b.operands, n, 0)
  <2>1. Len(a.operands) >= n /\ Len(b.operands) = Len(a.operands) - n + 0
    BY <1>2, <1>4, <1>7, <1>8, SiLenAssumption DEF sp
  <2>2. ASSUME NEW j \in 1 .. Len(a.operands) - n
        PROVE  b.operands[j] = a.operands[j]
    <3>1. Len(a.operands) = sp - top /\ Len(b.operands) = sp - top - n
      BY <1>2, <1>4, <1>7, <2>1
    <3>2. /\ j \in 1 .. Len(a.operands) /\ j \in 1 .. Len(b.operands)
          /\ top + j \in Index /\ top + j <= sp - n /\ top + j # cell
      BY <1>2, <1>6, <3>1, SiLenAssumption DEF Index
    <3>3. s'.si[top + j] = s.si[top + j]
      BY <1>12, <3>2
    <3> QED
      BY <1>7, <1>8, <3>2, <3>3
  <2> QED
    BY <2>1, <2>2 DEF A!Rewritten
<1>15. A!Update(a, b)
  <2>1. i + 1 \in 1 .. Len(a.variables)
    BY <1>5, <1>7
  <2> QED
    BY <1>7, <1>8, <1>13, <1>14, <2>1 DEF A!Update
<1>16. \A j \in Index : Kept(j) => s'.si[j] = s.si[j]
  BY <1>2, <1>6, <1>12, SiLenAssumption DEF Kept, Index, top, base
<1> QED
  BY <1>1, <1>15, <1>16, BodyRefines

\* An instruction that takes n operands and gives m.
LEMMA InstructionRefines ==
  ASSUME IInv, IInv', NEW n \in 0 .. 2, NEW m \in 0 .. 1, NEW cells, NEW t,
         Body(n, cells, t), t.sp = s.sp - n + m,
         cells \subseteq Index =>
           \A i \in Index : i <= s.sp - n => t.si[i] = s.si[i]
  PROVE  A!Next
<1>1. CASE cells \subseteq Index
  <2>1. /\ mode = "run" /\ s' = t /\ act' = act /\ UNCHANGED <<target, mode>>
        /\ Operands >= n
    BY <1>1 DEF Body, Touches
  <2> QED
    BY <1>1, <2>1, EvaluateRefines
<1>2. CASE ~(cells \subseteq Index)
  BY <1>2, FaultRefines DEF Body, Touches
<1> QED
  BY <1>1, <1>2

LEMMA PushRefines ==
  ASSUME IInv, IInv', NEW n \in 0 .. 1, NEW cells, NEW x,
         Body(n, cells, Stack_Push(s, x)), PushCells(s) \subseteq cells
  PROVE  A!Next
<1> DEFINE t == Stack_Push(s, x)
<1>1. t.si = [s.si EXCEPT ![s.sp + 1] = x] /\ t.sp = s.sp + 1
  BY DEF Stack_Push, Desc
<1>2. s.sp \in Int /\ DOMAIN s.si = Index
  BY Registers, SiLenAssumption
<1> HIDE DEF t
<1>3. \A i \in Index : i <= s.sp => t.si[i] = s.si[i]
  BY <1>1, <1>2 DEF Index
<1>4. CASE ~(cells \subseteq Index)
  BY <1>4, FaultRefines DEF Body, Touches
<1>5. CASE cells \subseteq Index
  <2>1. /\ mode = "run" /\ s' = t /\ act' = act /\ UNCHANGED <<target, mode>>
    BY <1>5 DEF Body, Touches, t
  <2>2. Operands >= 0 /\ s'.sp = s.sp - 0 + 1 /\ 0 \in 0 .. 2 /\ 1 \in 0 .. 1
    BY <1>1, <1>2, <2>1 DEF IInv, FramesLinked
  <2>3. \A i \in Index : i <= s.sp - 0 => s'.si[i] = s.si[i]
    BY <1>2, <1>3, <2>1
  <2> QED
    BY <2>1, <2>2, <2>3, EvaluateRefines
<1> QED
  BY <1>4, <1>5

LEMMA PopRefines ==
  ASSUME IInv, IInv', Body(1, {s.sp}, Stack_Pop(s))
  PROVE  A!Next
<1> DEFINE t == Stack_Pop(s)
<1>1. t.si = s.si /\ t.sp = s.sp - 1 /\ s.sp \in Int
  BY Registers, SiLenAssumption DEF Stack_Pop, Desc
<1> HIDE DEF t
<1>2. t.sp = s.sp - 1 + 0
  BY <1>1
<1> QED
  BY <1>1, <1>2, InstructionRefines DEF t

LEMMA SetTopRefines ==
  ASSUME IInv, IInv', NEW x, Body(1, {s.sp}, SetTop(s, x))
  PROVE  A!Next
<1> DEFINE t == SetTop(s, x)
<1>1. t.si = [s.si EXCEPT ![s.sp] = x] /\ t.sp = s.sp
  BY DEF SetTop, Desc
<1>2. s.sp \in Int /\ DOMAIN s.si = Index
  BY Registers, SiLenAssumption
<1> HIDE DEF t
<1>3. t.sp = s.sp - 1 + 1 /\ \A i \in Index : i <= s.sp - 1 => t.si[i] = s.si[i]
  BY <1>1, <1>2 DEF Index
<1> QED
  BY <1>3, InstructionRefines DEF t

LEMMA CombineRefines ==
  ASSUME IInv, IInv', NEW x, Body(2, {s.sp, s.sp - 1}, Combine(s, x))
  PROVE  A!Next
<1> DEFINE t == Combine(s, x)
<1>1. t.si = [s.si EXCEPT ![s.sp - 1] = x] /\ t.sp = s.sp - 1
  BY DEF Combine, Desc
<1>2. s.sp \in Int /\ DOMAIN s.si = Index
  BY Registers, SiLenAssumption
<1> HIDE DEF t
<1>3. t.sp = s.sp - 2 + 1 /\ \A i \in Index : i <= s.sp - 2 => t.si[i] = s.si[i]
  BY <1>1, <1>2 DEF Index
<1> QED
  BY <1>3, InstructionRefines DEF t

LEMMA InherentRefines ==
  ASSUME IInv, IInv', Inherent
  PROVE  A!Next
<1>1. CASE Monadic(Stack_not) \/ Monadic(Stack_neg) \/ Monadic(Stack_inc) \/ Monadic(Stack_dec)
  BY <1>1, SetTopRefines DEF Monadic, Stack_not, Stack_neg, Stack_inc, Stack_dec
<1>2. CASE \/ Dyadic(Stack_and) \/ Dyadic(Stack_or) \/ Dyadic(Stack_xor)
           \/ Dyadic(Stack_add) \/ Dyadic(Stack_sub) \/ Dyadic(Stack_mul)
  BY <1>2, CombineRefines
  DEF Dyadic, Stack_and, Stack_or, Stack_xor, Stack_add, Stack_sub, Stack_mul
<1>3. CASE Dyadic(Stack_div)
  <2>1. CASE V2(s) = 0
    <3>1. Body(1, {s.sp}, Stack_Pop(s))
      BY <1>3, <2>1, Registers, SiLenAssumption
      DEF Dyadic, Stack_div, Body, Operands, Touches, Index
    <3> QED
      BY <3>1, PopRefines
  <2>2. CASE V2(s) # 0
    BY <1>3, <2>2, CombineRefines DEF Dyadic, Stack_div
  <2> QED
    BY <2>1, <2>2
<1>4. CASE \/ Partial(Stack_rem, RemDefined) \/ Partial(Stack_shl, ShiftDefined)
           \/ Partial(Stack_shr, ShiftDefined)
  BY <1>4, CombineRefines, FaultRefines DEF Partial, Dyadic, Stack_rem, Stack_shl, Stack_shr
<1>5. CASE \/ Dyadic(Stack_teq) \/ Dyadic(Stack_tne) \/ Dyadic(Stack_tlt)
           \/ Dyadic(Stack_tgt) \/ Dyadic(Stack_tle) \/ Dyadic(Stack_tge)
  BY <1>5, CombineRefines
  DEF Dyadic, Stack_teq, Stack_tne, Stack_tlt, Stack_tgt, Stack_tle, Stack_tge
<1> QED
  BY <1>1, <1>2, <1>3, <1>4, <1>5 DEF Inherent

\* STV and ADDV.
LEMMA WriteRefines ==
  ASSUME IInv, IInv', NEW i \in 0 .. NumVars - 1, NEW x, NEW t,
         Body(1, VariableCells(s, i) \cup {s.sp}, t),
         t = Desc(s, [s.si EXCEPT ![VariableCell(s, i)] = x], s.bp, s.sp - 1)
  PROVE  A!Next
<1> DEFINE cells == VariableCells(s, i) \cup {s.sp}
<1>1. CASE ~(cells \subseteq Index)
  BY <1>1, FaultRefines DEF Body, Touches
<1>2. CASE cells \subseteq Index
  <2>1. /\ mode = "run" /\ s' = t /\ act' = act /\ UNCHANGED <<target, mode>>
        /\ Operands >= 1
    BY <1>2 DEF Body, Touches
  <2>2. s'.si = [s.si EXCEPT ![VariableCell(s, i)] = x] /\ s'.sp = s.sp - 1
    BY <2>1 DEF Desc
  <2>3. \A j \in Index : j <= s.sp - 1 /\ j # VariableCell(s, i) => s'.si[j] = s.si[j]
    BY <2>2, Registers
  <2> QED
    BY <2>1, <2>2, <2>3, UpdateRefines
<1> QED
  BY <1>1, <1>2

\* INCV and DECV: the step they push is gone again.
LEMMA StepRefines ==
  ASSUME IInv, IInv', NEW i \in 0 .. NumVars - 1, NEW step, Stepv(i, step)
  PROVE  A!Next
<1> DEFINE pushed == Stack_Push(s, step)
           cells  == VariableCells(s, i) \cup PushCells(s)
           t      == Stack_addVariable(pushed, i)
           cell   == VariableCell(s, i)
           x      == I32(pushed.si[cell] + Stack_top(pushed))
<1>0. Body(0, cells, t)
  BY DEF Stepv
<1>1. CASE ~(cells \subseteq Index)
  BY <1>0, <1>1, FaultRefines DEF Body, Touches
<1>2. CASE cells \subseteq Index
  <2>1. /\ mode = "run" /\ s' = t /\ act' = act /\ UNCHANGED <<target, mode>>
        /\ Operands >= 0
    BY <1>0, <1>2 DEF Body, Touches, IInv, FramesLinked
  <2>2. /\ pushed.si = [s.si EXCEPT ![s.sp + 1] = step]
        /\ pushed.bp = s.bp /\ pushed.sp = s.sp + 1
    BY DEF Stack_Push, Desc
  <2>3. s.sp \in Int /\ s.sp >= Current.top /\ DOMAIN s.si = Index
    BY Registers, SiLenAssumption
  <2>4. FrameInfo(pushed) = FrameInfo(s)
    BY <2>2, <2>3, VariableInFrame, Registers, SiLenAssumption DEF FrameInfo
  <2>5. VariableCell(pushed, i) = cell
    BY <2>2, <2>4 DEF VariableCell
  <2> HIDE DEF pushed, cell
  <2>6. t.si = [pushed.si EXCEPT ![cell] = x] /\ t.sp = s.sp
    BY <2>2, <2>3, <2>5 DEF Stack_addVariable, Desc
  <2> HIDE DEF x, t
  <2>7. \A j \in Index : j <= s.sp /\ j # cell => s'.si[j] = s.si[j]
    <3>1. DOMAIN pushed.si = Index /\ s'.si = t.si
      BY <2>1, <2>2, <2>3
    <3>2. \A j \in Index : j # cell => s'.si[j] = pushed.si[j]
      BY <2>6, <3>1
    <3>3. \A j \in Index : j <= s.sp => pushed.si[j] = s.si[j]
      BY <2>2, <2>3 DEF Index
    <3> QED
      BY <3>2, <3>3
  <2>8. s'.sp = s.sp - 0 /\ \A j \in Index : j <= s.sp - 0 /\ j # cell => s'.si[j] = s.si[j]
    BY <2>1, <2>3, <2>6, <2>7
  <2>9. 0 \in 0 .. 1
    OBVIOUS
  <2> QED
    BY <2>1, <2>8, <2>9, UpdateRefines DEF cell
<1> QED
  BY <1>1, <1>2

LEMMA VariablesRefine ==
  ASSUME IInv, IInv', Variables
  PROVE  A!Next
<1>1. PICK i \in 0 .. NumVars - 1 :
        Ldv(i) \/ Stv(i) \/ Addv(i) \/ Stepv(i, 1) \/ Stepv(i, -1)
  BY DEF Variables
<1>2. CASE Ldv(i)
  BY <1>2, PushRefines DEF Ldv, Stack_loadVariable
<1>3. CASE Stv(i)
  BY <1>1, <1>3, WriteRefines DEF Stv, Stack_storeVariable
<1>4. CASE Addv(i)
  BY <1>1, <1>4, WriteRefines DEF Addv, Stack_addVariable
<1>5. CASE Stepv(i, 1) \/ Stepv(i, -1)
  BY <1>1, <1>5, StepRefines
<1> QED
  BY <1>1, <1>2, <1>3, <1>4, <1>5

-----------------------------------------------------------------------------
(* Calls and returns.                                                      *)

LEMMA CallsRefines ==
  ASSUME IInv, IInv', NEW address, Calls(address)
  PROVE  A!Next
<1> DEFINE new == Activation(s.sp + 1, s.bp, 0, 0, 0)
<1>1. CASE ~(PushCells(s) \subseteq Index)
  BY <1>1, FaultRefines DEF Calls, Touches
<1>2. CASE PushCells(s) \subseteq Index
  <2>1. /\ s' = Stack_Push(s, address) /\ act' = Append(act, new)
        /\ mode = "run" /\ UNCHANGED <<target, mode>>
    BY <1>2 DEF Calls, Touches
  <2>2. s'.si = [s.si EXCEPT ![s.sp + 1] = address] /\ s'.sp = s.sp + 1
    BY <2>1 DEF Stack_Push, Desc
  <2>3. PICK d \in 1 .. Depth : d = Depth
    BY Registers
  <2>4. s.sp \in Int /\ act[d].top \in -1 .. SiLen - 1 /\ act[d].top <= s.sp /\ act[d] = Current
        /\ act[d].bp \in -1 .. SiLen - 1 /\ s.bp = act[d].bp
        /\ act[d].bp <= act[d].top /\ DOMAIN s.si = Index
    BY <2>3, Registers, SiLenAssumption DEF IInv, ActivationsFit
  <2>5. /\ new.top = s.sp + 1 /\ new.bp = s.bp /\ new.v = 0 /\ new.np = 0 /\ new.nl = 0
    BY DEF Activation
  <2> HIDE DEF new
  <2>6. ~Framed(new) /\ Base(new) = s.sp + 1
    BY <2>4, <2>5 DEF Framed, Base
  <2>7. Depth' = d + 1 /\ act'[d + 1] = new /\ \A k \in 1 .. d : act'[k] = act[k]
    BY <2>1, <2>3 DEF Depth, IInv, TypeOK
  <2>8. \A i \in Index : i <= s.sp => s'.si[i] = s.si[i]
    BY <2>2, <2>4 DEF Index
  <2>9. \A k \in 1 .. d : Frame(k)' = Frame(k)
    <3>1. \A k \in 1 .. d - 1 : Frame(k)' = Frame(k)
      <4>1. Base(act[d]) \in Int /\ Base(act[d]) <= act[d].top
        BY Registers, Bases
      <4>2. \A i \in Index : i < Base(act[d]) => s'.si[i] = s.si[i]
        BY <2>4, <2>8, <4>1, SiLenAssumption DEF Index
      <4>3. d <= Depth'
        BY <2>7
      <4>4. \A k \in 1 .. d - 1 : act'[k] = act[k]
        BY <2>7
      <4>5. Base(act'[d]) = Base(act[d])
        BY <2>7
      <4> QED
        BY <4>2, <4>3, <4>4, <4>5, CallersKept
    <3>2. Frame(d)' = Frame(d)
      <4>1. NumOperands(d) = s.sp - act[d].top
        BY <2>3, <2>4 DEF NumOperands, Operands
      <4>2. d # Depth' /\ act'[d] = act[d]
        BY <2>7
      <4>3. NumOperands(d)' = Base(new) - 1 - act[d].top
        BY <2>7, <4>2 DEF NumOperands
      <4>4. NumOperands(d)' = NumOperands(d) /\ act[d].top + NumOperands(d) = s.sp
        BY <2>4, <2>6, <4>1, <4>3, SiLenAssumption
      <4> QED
        BY <2>8, <4>2, <4>4, FrameKept
    <3> QED
      BY <3>1, <3>2
  <2>10. /\ Frame(d + 1)'.framed = FALSE /\ Frame(d + 1)'.returns = 0
         /\ Frame(d + 1)'.variables = << >> /\ Frame(d + 1)'.operands = << >>
    <3>1. NumOperands(d + 1)' = 0
      BY <2>2, <2>4, <2>5, <2>7 DEF NumOperands, Operands, Current
    <3>2. \A e : [j \in 1 .. 0 |-> e] = << >>
      OBVIOUS
    <3>3. Frame(d + 1)'.variables = << >> /\ Frame(d + 1)'.operands = << >>
      BY <2>5, <2>7, <3>1, <3>2 DEF Frame
    <3> QED
      BY <2>5, <2>6, <2>7, <3>3 DEF Frame
  <2>11. /\ Len(frames) = d /\ Len(frames') = d + 1
         /\ \A k \in 1 .. d : frames[k] = Frame(k) /\ frames'[k] = Frame(k)'
         /\ frames'[d + 1] = Frame(d + 1)'
    BY <2>3, <2>7, Abstract, AbstractNext DEF AbstractState
  <2>12. A!Call
    <3>1. Frame(d + 1)' = [framed |-> FALSE, returns |-> 0, resume |-> Frame(d + 1)'.resume,
                           variables |-> << >>, operands |-> << >>]
      BY <2>10 DEF Frame
    <3> QED
      BY <2>1, <2>9, <2>11, <3>1 DEF A!Call, A!Depth, A!Activation
  <2> QED
    BY <2>12 DEF A!Next
<1> QED
  BY <1>1, <1>2

LEMMA Prefix ==
  ASSUME NEW S, NEW q \in Nat, NEW f, \A j \in 1 .. q : f[j] \in S
  PROVE  /\ SubSeq(f, 1, q) \in Seq(S) /\ Len(SubSeq(f, 1, q)) = q
         /\ \A j \in 1 .. q : SubSeq(f, 1, q)[j] = f[j]
<1>1. SubSeq(f, 1, q) \in Seq(S)
  OBVIOUS
<1>2. Len(SubSeq(f, 1, q)) = q
  OBVIOUS
<1>3. \A j \in 1 .. q : SubSeq(f, 1, q)[j] = f[j]
  OBVIOUS
<1> QED
  BY <1>1, <1>2, <1>3

\* The caller's operands before are those after and the arguments.
LEMMA Joined ==
  ASSUME NEW S, NEW before \in Seq(S), NEW after \in Seq(S), NEW args \in Seq(S),
         Len(before) = Len(after) + Len(args),
         \A j \in 1 .. Len(after) : after[j] = before[j],
         \A j \in 1 .. Len(args) : args[j] = before[Len(after) + j]
  PROVE  after \o args = before
<1> DEFINE m == Len(after) q == Len(args)
<1>1. m \in Nat /\ q \in Nat
  OBVIOUS
<1>2. /\ Len(before) = m + q
      /\ \A j \in 1 .. m : after[j] = before[j]
      /\ \A j \in 1 .. q : args[j] = before[m + j]
  OBVIOUS
<1>4. /\ after \o args \in Seq(S) /\ Len(after \o args) = m + q
      /\ \A j \in 1 .. m + q : (after \o args)[j] = IF j <= m THEN after[j] ELSE args[j - m]
  BY <1>2, ConcatProperties
<1> HIDE DEF m, q
<1>5. ASSUME NEW j \in 1 .. m + q
      PROVE  (after \o args)[j] = before[j]
  <2>1. CASE j <= m
    BY <1>1, <1>2, <1>4, <2>1
  <2>2. CASE j > m
    <3>1. PICK i \in 1 .. q : j = m + i /\ j - m = i
      <4>1. j - m \in 1 .. q /\ j = m + (j - m)
        BY <1>1, <2>2
      <4> QED
        BY <4>1
    <3>2. (after \o args)[j] = args[j - m]
      BY <1>1, <1>4, <2>2
    <3>3. args[i] = before[m + i]
      BY <1>2
    <3>5. (after \o args)[j] = args[i]
      BY <3>1, <3>2, Zenon
    <3>6. (after \o args)[j] = before[m + i]
      BY <3>3, <3>5, Zenon
    <3> QED
      BY <3>1, <3>6, Zenon
  <2>3. j <= m \/ j > m
    BY <1>1
  <2> QED
    BY <2>1, <2>2, <2>3, Zenon
<1> QED
  BY <1>2, <1>4, <1>5, SeqEqual

LEMMA EnterRefines ==
  ASSUME IInv, IInv', FramesFit, NEW f \in Shapes, EnterFunction(f)
  PROVE  A!Next
<1> DEFINE v == f.v np == f.np nl == f.nl sp == s.sp top == s.sp + nl + 2
           new == Activation(top, top, v, np, nl)
<1>1. /\ v \in 0 .. 1 /\ np \in 0 .. 7 /\ nl \in 0 .. 7
      /\ Entered(f) = Enter(s, v, np, nl)
  BY EnteredShape
<1>2. /\ mode = "run" /\ ~Framed(Current) /\ sp = Current.top
      /\ sp - 1 - act[Depth - 1].top >= np /\ Operands = 0
  BY Registers, SiLenAssumption DEF EnterFunction, Operands
<1>3. CASE ~(EnterCells(s, nl) \subseteq Index)
  BY <1>2, <1>3, FaultRefines DEF EnterFunction, Touches
<1>4. CASE EnterCells(s, nl) \subseteq Index
  <2>1. /\ s' = Enter(s, v, np, nl) /\ act' = Append(Others, new)
        /\ UNCHANGED <<target, mode>>
    BY <1>1, <1>4 DEF EnterFunction, Touches
  <2> HIDE DEF v, np, nl
  <2>2. /\ s'.si = [s.si EXCEPT ![top - 2] = FctInfo(v, np, nl),
                                ![top - 1] = Stack_top(s), ![top] = s.bp]
        /\ s'.sp = top
    BY <2>1 DEF Enter, Desc
  <2>3. Depth > 1
    BY <1>2, Registers DEF IInv, FramesLinked, Activation, Framed
  <2>4. PICK d \in 1 .. Depth : d = Depth - 1
    BY <2>3, Registers
  <2>5. /\ d + 1 = Depth /\ d + 1 \in 1 .. Depth /\ d \in Nat \ {0} /\ act[d + 1] = Current
        /\ d # Depth
    BY <2>3, <2>4, Registers
  <2> DEFINE callerTop == act[d].top
  <2>6. /\ callerTop \in -1 .. SiLen - 1 /\ sp \in -1 .. SiLen - 1 /\ DOMAIN s.si = Index
        /\ callerTop < sp - np
    BY <1>1, <1>2, <2>4, Registers, SiLenAssumption
  <2>7. /\ new.top = top /\ new.bp = top /\ new.v = v /\ new.np = np /\ new.nl = nl
    BY DEF Activation
  <2>8. top - 2 \in Index /\ top - 1 \in Index /\ top \in Index
    <3>1. {top - 2, top - 1, top} \subseteq EnterCells(s, nl)
      BY <1>1, <2>6, SiLenAssumption DEF EnterCells
    <3> QED
      BY <1>4, <3>1
  <2>9. new \in Activations
    BY <1>1, <2>8, SiLenAssumption DEF Activation, Activations, Index
  <2>10. /\ Framed(new) /\ Base(new) = top - np - nl - 2
    BY <2>7 DEF Framed, Base
  <2> HIDE DEF new
  <2>11. Depth' = d + 1 /\ act'[d + 1] = new /\ \A k \in 1 .. d : act'[k] = act[k]
    BY <2>1, <2>3, <2>4, <2>9 DEF Others, Depth, IInv, TypeOK
  <2>12. Base(new) = sp - np
    BY <1>1, <2>6, <2>10, SiLenAssumption
  <2>13. top - 2 = sp + nl /\ top - 2 # top - 1 /\ top - 1 # top /\ top \in Int
    BY <1>1, <2>6, SiLenAssumption
  <2> HIDE DEF top
  <2>14. \A i \in Index : i < sp => s'.si[i] = s.si[i]
    <3>1. sp \in Int /\ Index \subseteq Int
      BY <2>6, SiLenAssumption DEF Index
    <3> HIDE DEF sp
    <3>2. \A i \in Index : i < sp => i \notin {top - 2, top - 1, top}
      BY <1>1, <2>13, <3>1
    <3> QED
      BY <2>2, <2>6, <3>2
  <2>15. s'.si[top - 1] = Stack_top(s)
    BY <2>2, <2>6, <2>8, <2>13
  <2>16. Current.np = 0 /\ Current.nl = 0 /\ Base(Current) = sp
    <3>1. Current.np = 0 /\ Current.nl = 0
      BY <1>2, <2>3, <2>5, Bounds
    <3> QED
      BY <1>2, <2>6, <3>1, SiLenAssumption DEF Base
  <2>17. NumOperands(d) = sp - 1 - callerTop /\ NumOperands(d)' = sp - np - 1 - callerTop
    <3>1. NumOperands(d) = Base(act[d + 1]) - 1 - callerTop
      BY <2>5 DEF NumOperands
    <3>2. d # Depth' /\ act'[d] = act[d] /\ act'[d + 1] = new
      BY <2>5, <2>11
    <3>3. NumOperands(d)' = Base(new) - 1 - callerTop
      BY <3>2 DEF NumOperands
    <3> QED
      BY <2>5, <2>12, <2>16, <3>1, <3>3
  <2>18. NumOperands(d + 1) = 0 /\ NumOperands(d + 1)' = 0
    <3>1. Operands' = 0
      BY <2>2, <2>7, <2>11, <2>13 DEF Operands, Current
    <3> QED
      BY <1>2, <2>5, <2>11, <3>1 DEF NumOperands
  <2>19. \A i \in Index : i <= callerTop => s'.si[i] = s.si[i]
    BY <1>1, <2>6, <2>14, SiLenAssumption DEF Index
  <2> HIDE DEF callerTop, sp
  <2>20. \A k \in 1 .. d - 1 : Frame(k)' = Frame(k)
    <3>1. Base(act[d]) \in Int /\ Base(act[d]) <= callerTop
      BY Registers, Bases DEF callerTop
    <3>2. \A i \in Index : i < Base(act[d]) => s'.si[i] = s.si[i]
      BY <2>6, <2>19, <3>1, SiLenAssumption DEF Index
    <3>3. d <= Depth' /\ \A k \in 1 .. d - 1 : act'[k] = act[k]
      BY <2>5, <2>11
    <3>4. Base(act'[d]) = Base(act[d])
      BY <2>5, <2>11
    <3> QED
      BY <3>2, <3>3, <3>4, CallersKept
  <2>21. /\ Frame(d)'.framed = Frame(d).framed
         /\ Frame(d)'.returns = Frame(d).returns
         /\ Frame(d)'.resume = Frame(d).resume
         /\ Frame(d)'.variables = Frame(d).variables
    <3>1. act'[d] = act[d]
      BY <2>5, <2>11
    <3>2. \A i \in Index : i <= act[d].top => s'.si[i] = s.si[i]
      BY <2>19 DEF callerTop
    <3>3. \A i \in Index : i \in {act[d].top - 1, act[d].top} => s'.si[i] = s.si[i]
      BY <2>6, <3>2, SiLenAssumption DEF Index, callerTop
    <3> QED
      BY <3>1, <3>2, <3>3, HeadKept, VariablesKept
  <2>22. /\ Frame(d + 1)'.framed = TRUE
         /\ Frame(d + 1)'.resume = Frame(d + 1).resume
         /\ Frame(d + 1)'.operands = << >>
         /\ Frame(d + 1).framed = FALSE
         /\ Frame(d + 1).operands = << >>
    <3>1. d + 1 # 1
      BY <2>5
    <3>2. ReturnCell(d + 1)' = top - 1 /\ ReturnCell(d + 1) = sp
      BY <1>2, <2>5, <2>7, <2>10, <2>11 DEF ReturnCell
    <3>3. s'.si[top - 1] = s.si[sp]
      BY <2>15 DEF Stack_top, sp
    <3>4. \A e : [j \in 1 .. 0 |-> e] = << >>
      OBVIOUS
    <3> QED
      BY <1>2, <2>5, <2>10, <2>11, <2>18, <3>1, <3>2, <3>3, <3>4 DEF Frame
  <2>23. /\ Len(frames) = d + 1 /\ Len(frames') = d + 1
         /\ \A k \in 1 .. d + 1 : frames[k] = Frame(k) /\ frames'[k] = Frame(k)'
         /\ Len(Frame(d).operands) = NumOperands(d)
         /\ Len(Frame(d)'.operands) = NumOperands(d)'
         /\ Len(Frame(d + 1)'.variables) = np + nl
    <3>1. AbstractState /\ AbstractState'
      BY Abstract, AbstractNext
    <3>2. d \in 1 .. Depth' /\ d + 1 \in 1 .. Depth'
      BY <2>5, <2>11
    <3>3. Fields(d) /\ Fields(d)' /\ Fields(d + 1)'
      BY <3>1, <3>2 DEF AbstractState
    <3>4. /\ Len(frames) = d + 1 /\ Len(frames') = d + 1
          /\ \A k \in 1 .. d + 1 : frames[k] = Frame(k) /\ frames'[k] = Frame(k)'
      BY <2>5, <2>11, <3>1 DEF AbstractState
    <3> QED
      BY <2>7, <2>11, <3>3, <3>4 DEF Fields
  <2>24. Frame(d)'.operands \o SubSeq(Frame(d + 1)'.variables, 1, np) = Frame(d).operands
    <3> DEFINE m == sp - np - 1 - callerTop
               before == Frame(d).operands after == Frame(d)'.operands
               variables == Frame(d + 1)'.variables
               S == {before[j] : j \in 1 .. NumOperands(d)}
    <3>1. /\ m \in Nat /\ np \in Nat /\ NumOperands(d) = m + np /\ NumOperands(d)' = m
          /\ callerTop \in Int /\ callerTop + m + np = sp - 1 /\ np <= np + nl
      BY <1>1, <2>6, <2>17, SiLenAssumption
    <3>2. /\ before = [j \in 1 .. m + np |-> s.si[callerTop + j]]
          /\ after = [j \in 1 .. m |-> s'.si[callerTop + j]]
          /\ variables = [j \in 1 .. np + nl |-> s'.si[Base(new) + j - 1]]
      BY <2>5, <2>7, <2>11, <3>1 DEF Frame, callerTop
    <3> HIDE DEF m, before, after, variables
    <3>3. before \in Seq(S) /\ Len(before) = m + np
      <4>1. m + np \in Nat /\ before = [j \in 1 .. m + np |-> before[j]]
        BY <3>1, <3>2
      <4> QED
        BY <3>1, <4>1, Lengths
    <3>4. \A j \in 1 .. m + np : s'.si[callerTop + j] = before[j]
      <4>1. \A j \in 1 .. m + np : callerTop + j \in Index /\ callerTop + j < sp
        BY <2>6, <3>1, SiLenAssumption DEF Index
      <4> QED
        BY <2>14, <3>2, <4>1
    <3>5. \A j \in 1 .. m : after[j] = before[j] /\ before[j] \in S
      <4>1. \A j \in 1 .. m : j \in 1 .. m + np
        BY <3>1
      <4> QED
        BY <3>1, <3>2, <3>4, <4>1
    <3>6. after \in Seq(S) /\ Len(after) = m
      <4>1. after \in [1 .. m -> S]
        BY <3>2, <3>5
      <4> QED
        BY <3>1, <4>1, FunctionIsSeq
    <3>7. \A j \in 1 .. np : variables[j] = before[m + j]
      <4> SUFFICES ASSUME NEW j \in 1 .. np
                   PROVE  variables[j] = before[m + j]
        OBVIOUS
      <4>1. /\ j \in 1 .. np + nl /\ m + j \in 1 .. m + np
            /\ Base(new) + j - 1 = callerTop + (m + j)
        BY <1>1, <2>6, <2>12, <3>1, SiLenAssumption
      <4> QED
        BY <3>2, <3>4, <4>1
    <3> HIDE DEF S
    <3>8. after \o SubSeq(variables, 1, np) = before
      <4>1. before \in Seq(S) /\ after \in Seq(S) /\ m \in Nat /\ np \in Nat
        BY <3>1, <3>3, <3>6
      <4>2. Len(before) = m + np /\ Len(after) = m /\ \A j \in 1 .. m : after[j] = before[j]
        BY <3>3, <3>5, <3>6
      <4> DEFINE args == SubSeq(variables, 1, np)
      <4>3. args \in Seq(S) /\ Len(args) = np /\ \A j \in 1 .. np : args[j] = before[m + j]
        <5>1. \A j \in 1 .. np : m + j \in 1 .. Len(before)
          BY <3>1, <4>2
        <5>2. \A j \in 1 .. np : variables[j] \in S
          BY <3>7, <4>1, <5>1
        <5> QED
          BY <3>1, <3>7, <5>2, Prefix
      <4> HIDE DEF args
      <4>4. Len(before) = Len(after) + Len(args)
        BY <4>2, <4>3
      <4>5. \A j \in 1 .. Len(after) : after[j] = before[j]
        BY <4>2
      <4>6. \A j \in 1 .. Len(args) : args[j] = before[Len(after) + j]
        BY <4>2, <4>3
      <4>7. after \o args = before
        BY ONLY <4>1, <4>3, <4>4, <4>5, <4>6, Joined
      <4> QED
        BY <4>7 DEF args
    <3> QED
      BY <3>8 DEF before, after, variables
  <2>25. Len(Frame(d).operands) - Len(Frame(d)'.operands) = np
    BY <1>1, <2>6, <2>17, <2>23, SiLenAssumption
  <2>26. A!Enter
    <3>1. /\ A!Depth = d + 1 /\ A!Depth - 1 = d /\ A!Depth - 2 = d - 1
          /\ A!Current = Frame(d + 1) /\ A!Caller = Frame(d)
          /\ frames'[d] = Frame(d)' /\ frames'[d + 1] = Frame(d + 1)'
      BY <2>5, <2>23 DEF A!Depth, A!Current, A!Caller
    <3>2. \A k \in 1 .. d - 1 : frames'[k] = frames[k]
      BY <2>5, <2>20, <2>23
    <3>3. np \in 0 .. Len(Frame(d + 1)'.variables)
      BY <1>1, <2>23
    <3>4. Frame(d + 1)' =
            A!Activation(TRUE, Frame(d + 1)'.returns, Frame(d + 1).resume,
                         Frame(d + 1)'.variables, << >>)
      BY <2>22 DEF Frame, A!Activation
    <3>5. Frame(d)' = [Frame(d) EXCEPT !.operands = Frame(d)'.operands]
      BY <2>21 DEF Frame
    <3> QED
      BY <1>2, <2>1, <2>22, <2>23, <2>24, <2>25, <3>1, <3>2, <3>3, <3>4, <3>5 DEF A!Enter
  <2> QED
    BY <2>26 DEF A!Next
<1> QED
  BY <1>3, <1>4

\* RET and EXIT: the cell above the caller's operands holds the result, if any.
LEMMA LeaveRefines ==
  ASSUME IInv, IInv', mode = "run", Depth > 1, act' = Others, UNCHANGED mode,
         Operands = Current.v, target' = s.si[ReturnCell(Depth)],
         s'.sp = Base(Current) - 1 + Current.v,
         \A i \in Index : i < Base(Current) => s'.si[i] = s.si[i],
         Current.v = 1 => s'.si[Base(Current)] = s.si[s.sp]
  PROVE  A!Next
<1>1. PICK d \in 1 .. Depth : d = Depth - 1
  BY Registers
<1>2. /\ d + 1 = Depth /\ d + 1 \in 1 .. Depth /\ d \in Nat \ {0} /\ act[d + 1] = Current
      /\ d # Depth /\ d + 1 # 1
  BY <1>1, Registers
<1>3. Depth' = d /\ \A k \in 1 .. d : act'[k] = act[k]
  <2>1. /\ act' \in Seq(Activations) /\ Len(act') = d
        /\ \A k \in 1 .. d : act'[k] = act[k]
    BY <1>1 DEF Others, Depth, IInv, TypeOK
  <2> QED
    BY <2>1 DEF Depth
<1> DEFINE T == act[d].top base == Base(Current) v == Current.v top == Current.top
<1>4. /\ T \in -1 .. SiLen - 1 /\ top \in -1 .. SiLen - 1 /\ v \in 0 .. 1
      /\ base \in Nat /\ T < base /\ base <= top /\ s.sp = top + v
  BY <1>1, <1>2, CallerBelow, Registers, SiLenAssumption DEF Operands
<1>5. NumOperands(d) = base - 1 - T /\ NumOperands(d)' = base - 1 + v - T
  <2>1. NumOperands(d) = base - 1 - T
    BY <1>2 DEF NumOperands
  <2>2. NumOperands(d)' = s'.sp - T
    BY <1>2, <1>3 DEF NumOperands, Operands, Current
  <2>3. s'.sp = base - 1 + v
    OBVIOUS
  <2> HIDE DEF T, base, v
  <2> QED
    BY <1>4, <2>1, <2>2, <2>3, SiLenAssumption
<1>6. NumOperands(d + 1) = v
  BY <1>2 DEF NumOperands
<1> DEFINE before == Frame(d)'.operands after == Frame(d).operands
           args == Frame(d + 1).operands
<1>7. /\ before = [j \in 1 .. base - 1 + v - T |-> s'.si[T + j]]
      /\ after = [j \in 1 .. base - 1 - T |-> s.si[T + j]]
      /\ args = [j \in 1 .. v |-> s.si[top + j]]
  BY <1>2, <1>3, <1>5, <1>6 DEF Frame
<1>8. \A i \in Index : i < base => s'.si[i] = s.si[i]
  OBVIOUS
<1>9. v = 1 => s'.si[base] = s.si[top + 1]
  BY <1>4
<1>10. Base(act[d]) \in Int /\ Base(act[d]) <= T
  BY Registers, Bases
<1> HIDE DEF T, base, v, top, before, after, args
<1>11. after \o args = before
  <2> DEFINE n == base - 1 - T S == {before[j] : j \in 1 .. n + v}
  <2>1. n \in Nat /\ n + v \in Nat /\ n + v = base - 1 + v - T
    BY <1>4, SiLenAssumption
  <2>2. /\ before = [j \in 1 .. n + v |-> s'.si[T + j]]
        /\ after = [j \in 1 .. n |-> s.si[T + j]]
    BY <1>7, <2>1
  <2> HIDE DEF n
  <2>3. before \in Seq(S) /\ Len(before) = n + v
    <3>1. before = [j \in 1 .. n + v |-> before[j]]
      BY <2>2
    <3> QED
      BY <2>1, <3>1, Lengths
  <2>4. \A j \in 1 .. n : after[j] = before[j] /\ before[j] \in S
    <3> SUFFICES ASSUME NEW j \in 1 .. n
                 PROVE  after[j] = before[j] /\ before[j] \in S
      OBVIOUS
    <3>1. j \in 1 .. n + v /\ T + j \in Index /\ T + j < base
      BY <1>4, <2>1, SiLenAssumption DEF Index, n
    <3> QED
      BY <1>8, <2>2, <3>1
  <2>5. \A j \in 1 .. v : args[j] = before[n + j] /\ before[n + j] \in S
    <3> SUFFICES ASSUME NEW j \in 1 .. v
                 PROVE  args[j] = before[n + j] /\ before[n + j] \in S
      OBVIOUS
    <3>1. j = 1 /\ v = 1 /\ n + 1 \in 1 .. n + v /\ T + (n + 1) = base
      BY <1>4, <2>1 DEF n
    <3>2. before[n + 1] = s'.si[base]
      BY <2>2, <3>1
    <3>3. args[1] = s.si[top + 1]
      BY <1>7, <3>1
    <3> QED
      BY <1>9, <3>1, <3>2, <3>3
  <2>6. after \in Seq(S) /\ Len(after) = n
    <3>1. after \in [1 .. n -> S]
      BY <2>2, <2>4
    <3> QED
      BY <2>1, <3>1, FunctionIsSeq
  <2>7. args \in Seq(S) /\ Len(args) = v
    <3>1. args \in [1 .. v -> S]
      BY <1>7, <2>5
    <3> QED
      BY <1>4, <3>1, FunctionIsSeq
  <2> HIDE DEF S
  <2>8. /\ Len(before) = Len(after) + Len(args)
        /\ \A j \in 1 .. Len(after) : after[j] = before[j]
        /\ \A j \in 1 .. Len(args) : args[j] = before[Len(after) + j]
    BY <2>3, <2>4, <2>5, <2>6, <2>7
  <2> QED
    BY ONLY <2>3, <2>6, <2>7, <2>8, Joined
<1>12. \A k \in 1 .. d - 1 : Frame(k)' = Frame(k)
  <2>1. \A i \in Index : i < Base(act[d]) => s'.si[i] = s.si[i]
    BY <1>4, <1>8, <1>10, SiLenAssumption DEF Index
  <2>2. d <= Depth' /\ Base(act'[d]) = Base(act[d]) /\ \A k \in 1 .. d - 1 : act'[k] = act[k]
    BY <1>2, <1>3
  <2> QED
    BY <2>1, <2>2, CallersKept
<1>13. Frame(d)' = [Frame(d) EXCEPT !.operands = before]
  <2>1. act'[d] = act[d]
    BY <1>2, <1>3
  <2>2. \A i \in Index : i <= act[d].top => s'.si[i] = s.si[i]
    BY <1>4, <1>8, SiLenAssumption DEF Index, T
  <2>3. \A i \in Index : i \in {act[d].top - 1, act[d].top} => s'.si[i] = s.si[i]
    BY <1>4, <2>2, SiLenAssumption DEF Index, T
  <2>4. /\ Frame(d)'.framed = Frame(d).framed
        /\ Frame(d)'.returns = Frame(d).returns
        /\ Frame(d)'.resume = Frame(d).resume
    BY ONLY IInv, <1>1, <2>1, <2>3, HeadKept
  <2>5. Frame(d)'.variables = Frame(d).variables
    BY ONLY IInv, <1>1, <2>1, <2>2, VariablesKept
  <2>6. Frame(d) = [framed |-> Frame(d).framed, returns |-> Frame(d).returns,
                    resume |-> Frame(d).resume, variables |-> Frame(d).variables,
                    operands |-> Frame(d).operands]
    BY DEF Frame
  <2>7. Frame(d)' = [framed |-> Frame(d)'.framed, returns |-> Frame(d)'.returns,
                     resume |-> Frame(d)'.resume, variables |-> Frame(d)'.variables,
                     operands |-> Frame(d)'.operands]
    BY DEF Frame
  <2> QED
    BY ONLY <2>4, <2>5, <2>6, <2>7 DEF before
<1>14. /\ Len(frames) = d + 1
       /\ \A k \in 1 .. d + 1 : frames[k] = Frame(k)
       /\ frames' = [k \in 1 .. d |-> Frame(k)']
       /\ Len(Frame(d + 1).operands) = v
  <2>1. AbstractState /\ Fields(d + 1)
    BY <1>2, Abstract DEF AbstractState
  <2>2. frames' = [k \in 1 .. d |-> Frame(k)']
    BY <1>3 DEF frames
  <2> QED
    BY <1>2, <1>6, <2>1, <2>2 DEF AbstractState, Fields
<1>15. /\ Frame(d + 1).returns = v
       /\ Frame(d + 1).resume = s.si[ReturnCell(Depth)]
  BY <1>2 DEF Frame, v
<1>16. A!Leave
  <2>1. /\ A!Depth = d + 1 /\ A!Depth - 1 = d
        /\ A!Current = Frame(d + 1) /\ A!Caller = Frame(d)
    BY <1>2, <1>14 DEF A!Depth, A!Current, A!Caller
  <2>2. frames' = [k \in 1 .. d |->
                     IF k = d THEN [Frame(d) EXCEPT !.operands = before] ELSE frames[k]]
    <3>1. \A k \in 1 .. d :
            Frame(k)' = IF k = d THEN [Frame(d) EXCEPT !.operands = before] ELSE frames[k]
      <4>1. CASE d = 1
        BY <1>2, <1>13, <4>1
      <4>2. CASE d # 1
        BY <1>2, <1>12, <1>13, <1>14, <4>2
      <4> QED
        BY <4>1, <4>2
    <3> QED
      BY <1>14, <3>1
  <2>3. before = Frame(d).operands \o Frame(d + 1).operands
    BY <1>11 DEF after, args
  <2>4. A!Depth > 1
    BY <1>2, <2>1
  <2>5. Len(A!Current.operands) = A!Current.returns /\ target' = A!Current.resume
    BY <1>14, <1>15, <2>1
  <2>6. frames' = [k \in 1 .. A!Depth - 1 |->
                     IF k = A!Depth - 1
                       THEN [A!Caller EXCEPT !.operands = A!Caller.operands \o A!Current.operands]
                       ELSE frames[k]]
    BY <2>1, <2>2, <2>3
  <2> QED
    BY <2>4, <2>5, <2>6 DEF A!Leave
<1> QED
  BY <1>16 DEF A!Next

LEMMA RetRefines ==
  ASSUME IInv, IInv', Ret
  PROVE  A!Next
<1>1. mode = "run" /\ ~Framed(Current) /\ Operands = 0 /\ s.sp = Current.top
  BY Registers, SiLenAssumption DEF Ret, Operands
<1>2. CASE {s.sp} \subseteq Index
  <2>1. s' = Stack_Pop(s) /\ act' = Others /\ target' = Stack_top(s) /\ UNCHANGED mode
    BY <1>1, <1>2 DEF Ret, Touches
  <2>2. s'.si = s.si /\ s'.sp = s.sp - 1
    BY <2>1 DEF Stack_Pop, Desc
  <2>3. Depth > 1 /\ Depth \in 1 .. Depth /\ act[Depth] = Current
    BY <1>1, Registers DEF IInv, FramesLinked, Activation, Framed
  <2>4. Current.np = 0 /\ Current.nl = 0 /\ Current.v = 0
    BY <1>1, <2>3, Bounds
  <2>5. Base(Current) = s.sp /\ s.sp \in Int
    BY <1>1, <2>4, Registers, SiLenAssumption DEF Base
  <2>6. s'.sp = Base(Current) - 1 + Current.v
    BY <2>2, <2>4, <2>5
  <2>7. target' = s.si[ReturnCell(Depth)]
    BY <1>1, <2>1, <2>3 DEF ReturnCell, Stack_top
  <2>8. Operands = Current.v /\ (Current.v = 1 => s'.si[Base(Current)] = s.si[s.sp])
    BY <1>1, <2>4
  <2>9. \A i \in Index : i < Base(Current) => s'.si[i] = s.si[i]
    BY <2>2
  <2> QED
    BY <1>1, <2>1, <2>3, <2>6, <2>7, <2>8, <2>9, LeaveRefines
<1> QED
  BY <1>1, <1>2, FaultRefines DEF Ret, Touches

LEMMA ExitRefines ==
  ASSUME IInv, IInv', ExitFunction
  PROVE  A!Next
<1> DEFINE v == Current.v base == Base(Current) - 1
<1>1. mode = "run" /\ Depth > 1 /\ Framed(Current) /\ Operands = v
  BY DEF ExitFunction
<1>2. CASE ~(ExitCells(s) \subseteq Index)
  BY <1>1, <1>2, FaultRefines DEF ExitFunction, Touches
<1>3. CASE ExitCells(s) \subseteq Index
  <2>1. /\ s' = Stack_Pop(Stack_exit(s)) /\ act' = Others
        /\ target' = Stack_top(Stack_exit(s)) /\ UNCHANGED mode
    BY <1>1, <1>3 DEF ExitFunction, Touches
  <2>2. /\ v \in 0 .. 1 /\ base \in Int /\ base >= -1 /\ s.sp \in Int
        /\ s.sp = Current.top + v /\ base < Current.top /\ Base(Current) = base + 1
    BY <1>1, CallerBelow, Registers, SiLenAssumption DEF Operands
  <2>3. VOf(FrameInfo(s)) = v /\ ExitBase(s) = base
    BY ExitFrees
  <2>4. base + v + 1 \in Index /\ base + 1 \in Index
    <3>1. base + v + 1 \in Index
      BY <1>3, <2>2, <2>3 DEF ExitCells
    <3> QED
      BY <2>2, <3>1, SiLenAssumption DEF Index
  <2> DEFINE new == Stack_exit(s)
             cells == IF v = 1 THEN [s.si EXCEPT ![base + 1] = Stack_top(s),
                                                 ![base + 2] = s.si[s.sp - v - 1]]
                               ELSE [s.si EXCEPT ![base + 1] = s.si[s.sp - v - 1]]
  <2>5. new.si = cells /\ new.sp = base + v + 1
    BY <2>3 DEF Stack_exit, Desc
  <2> HIDE DEF v, base, new
  <2>6. s'.si = cells /\ s'.sp = base + v
    <3>1. s'.si = new.si /\ s'.sp = new.sp - 1
      BY <2>1 DEF Stack_Pop, Desc, new
    <3> QED
      BY <2>2, <2>5, <3>1
  <2>7. target' = s.si[s.sp - v - 1]
    <3>1. target' = cells[base + v + 1]
      BY <2>1, <2>5 DEF Stack_top, new
    <3>2. v = 1 => cells[base + v + 1] = s.si[s.sp - v - 1]
      BY <2>2, <2>4, Registers
    <3>3. v = 0 => cells[base + v + 1] = s.si[s.sp - v - 1]
      BY <2>2, <2>4, Registers
    <3> QED
      BY <2>2, <3>1, <3>2, <3>3
  <2>8. ReturnCell(Depth) = s.sp - v - 1
    <3>1. act[Depth] = Current
      BY Registers
    <3>2. ReturnCell(Depth) = Current.top - 1
      BY <1>1, <3>1 DEF ReturnCell
    <3> QED
      BY <2>2, <3>2, Registers, SiLenAssumption
  <2>9. \A i \in Index : i < Base(Current) => s'.si[i] = s.si[i]
    <3>1. \A i \in Index : i < Base(Current) => i # base + 1 /\ i # base + 2
      BY <2>2 DEF Index
    <3> QED
      BY <2>6, <3>1, Registers
  <2>10. v = 1 => s'.si[Base(Current)] = s.si[s.sp]
    <3>1. v = 1 => cells[base + 1] = Stack_top(s)
      BY <2>2, <2>4, Registers
    <3> QED
      BY <2>2, <2>6, <3>1 DEF Stack_top
  <2>11. s'.sp = Base(Current) - 1 + v
    BY <2>2, <2>6
  <2>12. target' = s.si[ReturnCell(Depth)]
    BY <2>7, <2>8
  <2> QED
    BY <1>1, <2>1, <2>9, <2>10, <2>11, <2>12, LeaveRefines DEF v
<1> QED
  BY <1>2, <1>3

\* The outermost activation has no variables; a restart drops its operands.
LEMMA Emptied ==
  ASSUME IInv, Depth = 1, Operands = 0
  PROVE  frames = <<A!Outermost>>
<1>1. Current = act[1] /\ act[1] = Activation(-1, -1, 0, 0, 0) /\ Len(act) = 1
  BY Registers DEF IInv, FramesLinked, Depth
<1>2. Frame(1).framed = TRUE /\ Frame(1).returns = 0 /\ Frame(1).resume = Outside
  <2>1. Framed(act[1]) /\ act[1].v = 0
    BY <1>1 DEF Framed, Activation
  <2> QED
    BY <2>1 DEF Frame
<1>3. NumOperands(1) = 0 /\ act[1].np + act[1].nl = 0
  BY <1>1 DEF NumOperands, Activation
<1>4. \A e : [j \in 1 .. 0 |-> e] = << >>
  OBVIOUS
<1>5. Frame(1).variables = << >> /\ Frame(1).operands = << >>
  BY <1>3, <1>4 DEF Frame
<1>6. Frame(1) = A!Outermost
  BY <1>2, <1>5 DEF Frame, A!Outermost, A!Activation
<1>7. frames = [k \in 1 .. 1 |-> A!Outermost]
  <2>1. \A k \in 1 .. 1 : Frame(k) = A!Outermost
    BY <1>6
  <2> QED
    BY <2>1 DEF frames
<1> QED
  BY <1>7

Empty == Depth = 1 /\ Operands = 0 => frames = <<A!Outermost>>

LEMMA EmptyNext == IInv' => Empty'
<1>1. IInv => Empty
  BY Emptied DEF Empty
<1> QED
  BY <1>1, PTL

LEMMA RestartRefines ==
  ASSUME IInv, IInv', Restart
  PROVE  A!Next
<1>1. /\ mode = "run" /\ act' = act /\ Depth = 1 /\ s'.sp = -1
      /\ UNCHANGED <<target, mode>>
  BY CapacityAssumption DEF Restart, Stack_New
<1>2. Depth' = 1 /\ Operands' = 0
  BY <1>1, Registers DEF IInv, FramesLinked, Activation, Depth, Operands, Current
<1>3. frames' = <<A!Outermost>>
  BY <1>2, EmptyNext DEF Empty
<1>4. A!Depth = 1
  BY <1>1, Abstract DEF A!Depth, AbstractState
<1>5. A!Restart
  BY <1>1, <1>3, <1>4 DEF A!Restart
<1> QED
  BY <1>5 DEF A!Next

-----------------------------------------------------------------------------
(* Every step of the array is a step of the activations, or changes none   *)
(* of them.                                                                *)

LEMMA StutterRefines ==
  ASSUME IInv, UNCHANGED vars
  PROVE  UNCHANGED A!vars
<1>1. s' = s /\ act' = act /\ target' = target /\ mode' = mode
  BY DEF vars
<1>2. Depth' = Depth
  BY <1>1 DEF Depth
<1>3. ASSUME NEW k \in 1 .. Depth
      PROVE  Frame(k)' = Frame(k)
  <2>1. NumOperands(k)' = NumOperands(k)
    BY <1>1, <1>2 DEF NumOperands, Operands, Current
  <2> QED
    BY <1>1, <2>1, FrameKept
<1>4. frames' = frames
  <2>1. frames' = [k \in 1 .. Depth |-> Frame(k)']
    BY <1>2 DEF frames
  <2> QED
    BY <1>3, <2>1 DEF frames
<1> QED
  BY <1>1, <1>4 DEF A!vars

LEMMA InitRefines ==
  ASSUME FramesFit, Init
  PROVE  A!Init
<1>1. IInv
  BY InitIInv
<1>2. Depth = 1 /\ Operands = 0 /\ target = Outside /\ mode = "run"
  <2>1. s.sp = -1 /\ act = Outermost
    BY CapacityAssumption DEF Init, Stack_New
  <2> QED
    BY <2>1 DEF Init, Depth, Operands, Current, Outermost, Activation
<1> QED
  BY <1>1, <1>2, Emptied DEF A!Init

LEMMA NextRefines ==
  ASSUME FramesFit, IInv, IInv', [Next]_vars
  PROVE  [A!Next]_(A!vars)
<1>1. CASE \E c \in Literals : Ldc(c)
  BY <1>1, PushRefines DEF Ldc
<1>2. CASE Pop
  BY <1>2, PopRefines DEF Pop
<1>3. CASE Dup
  BY <1>3, PushRefines DEF Dup, Stack_dup, PushCells
<1>4. CASE Inherent
  BY <1>4, InherentRefines
<1>5. CASE Variables
  BY <1>5, VariablesRefine
<1>6. CASE \E address \in Addresses : Calls(address)
  BY <1>6, CallsRefines
<1>7. CASE \E f \in Shapes : EnterFunction(f)
  BY <1>7, EnterRefines
<1>8. CASE Ret
  BY <1>8, RetRefines
<1>9. CASE ExitFunction
  BY <1>9, ExitRefines
<1>10. CASE Restart
  BY <1>10, RestartRefines
<1>11. CASE UNCHANGED vars
  BY <1>11, StutterRefines
<1> QED
  BY <1>1, <1>2, <1>3, <1>4, <1>5, <1>6, <1>7, <1>8, <1>9, <1>10, <1>11 DEF Next

(* One flat array, a stack pointer and a frame pointer behave as a stack   *)
(* of separate activations: a callee finds its arguments in its variables, *)
(* no instruction disturbs a caller, and RET and EXIT hand the result to   *)
(* the caller and continue behind its CALLS, in every program whose frames *)
(* fit.                                                                    *)
THEOREM Refinement ==
  ASSUME FramesFit
  PROVE  Spec => Implements
<1>1. Init => IInv
  BY InitIInv
<1>2. IInv /\ [Next]_vars => IInv'
  BY NextIInv
<1>3. Init => A!Init
  BY InitRefines
<1>4. IInv /\ IInv' /\ [Next]_vars => [A!Next]_(A!vars)
  BY NextRefines
<1> QED
  BY <1>1, <1>2, <1>3, <1>4, PTL DEF Spec, Implements, A!Spec

-----------------------------------------------------------------------------
(* The return addresses: a CALLS puts one on the stack, no instruction     *)
(* moves or changes it while its activation lasts, and the RET or EXIT     *)
(* that ends the activation continues there.                               *)

Resume(k) == s.si[ReturnCell(k)]

LEMMA OnlyCallsGrow ==
  ASSUME IInv, Next, Len(act') > Depth
  PROVE  \E address \in Addresses : Calls(address)
<1>1. act' # act /\ act \in Seq(Activations) /\ Depth = Len(act)
  BY Registers DEF Depth, IInv, TypeOK
<1>2. ASSUME NEW n, NEW cells, NEW t
      PROVE  ~Body(n, cells, t)
  BY <1>1 DEF Body, Touches, Fault
<1>3. /\ \A c \in Literals : ~Ldc(c)
      /\ ~Pop /\ ~Dup
  BY <1>2 DEF Ldc, Pop, Dup
<1>4. ~Inherent
  BY <1>1, <1>2 DEF Inherent, Monadic, Dyadic, Partial, Fault
<1>5. ~Variables
  BY <1>2 DEF Variables, Ldv, Stv, Addv, Stepv
<1>6. ~Restart
  BY <1>1 DEF Restart
<1>7. Len(Others) = Depth - 1 /\ Others \in Seq(Activations)
  BY <1>1, Registers DEF Others
<1>8. ~Ret /\ ~ExitFunction
  BY <1>1, <1>7, Registers DEF Ret, ExitFunction, Touches, Fault
<1>9. ASSUME NEW f \in Shapes
      PROVE  ~EnterFunction(f)
  <2>1. \A a : Len(Append(Others, a)) = Depth
    BY <1>7, Registers
  <2> QED
    BY <1>1, <2>1, Registers DEF EnterFunction, Touches, Fault
<1> QED
  BY <1>3, <1>4, <1>5, <1>6, <1>8, <1>9 DEF Next

LEMMA CallResumes ==
  ASSUME IInv, IInv', NEW address, Calls(address), mode' = "run"
  PROVE  Depth' = Depth + 1 /\ Resume(Depth)' = address
<1> DEFINE new == Activation(s.sp + 1, s.bp, 0, 0, 0)
<1>1. s' = Stack_Push(s, address) /\ act' = Append(act, new) /\ s.sp + 1 \in Index
  BY DEF Calls, Touches, Fault, PushCells
<1>2. Depth' = Depth + 1 /\ act'[Depth + 1] = new
  BY <1>1, Registers DEF Depth, IInv, TypeOK
<1>3. new.top = s.sp + 1 /\ ~Framed(new)
  <2>1. s.bp = Current.bp /\ Current.bp <= Current.top /\ Current.top <= s.sp
    BY Registers DEF IInv, FramesLinked, ActivationsFit, Operands, Current
  <2>2. s.bp \in Int /\ s.sp \in Int /\ Current.top \in Int
    BY Registers, SiLenAssumption DEF Current
  <2> QED
    BY <2>1, <2>2 DEF Framed, Activation
<1>4. ReturnCell(Depth)' = s.sp + 1
  BY <1>2, <1>3 DEF ReturnCell
<1>5. s'.si[s.sp + 1] = address
  BY <1>1, Registers DEF Stack_Push, Desc
<1> QED
  BY <1>2, <1>4, <1>5 DEF Resume

FrameResumes == \A k \in 2 .. Depth : frames[k].resume = Resume(k)

LEMMA FrameResumesHold == IInv => FrameResumes
  BY Abstract, Registers DEF AbstractState, Frame, FrameResumes, Resume

LEMMA FrameResumesNext == IInv' => FrameResumes'
  BY FrameResumesHold, PTL

LEMMA ResumesKept ==
  ASSUME FramesFit, IInv, IInv', Next, mode' = "run"
  PROVE  /\ Depth' <= Depth + 1
         /\ \A k \in 2 .. Depth : k <= Depth' => Resume(k)' = Resume(k)
         /\ Depth' < Depth => Depth > 1 /\ target' = Resume(Depth)
<1>1. [A!Next]_(A!vars)
  BY NextRefines
<1>2. /\ Depth \in Nat \ {0} /\ Len(frames) = Depth
      /\ Depth' \in Nat \ {0} /\ Len(frames') = Depth'
  BY Abstract, AbstractNext DEF AbstractState
<1>3. /\ \A k \in 2 .. Depth : frames[k].resume = Resume(k)
      /\ \A k \in 2 .. Depth' : frames'[k].resume = Resume(k)'
  BY FrameResumesHold, FrameResumesNext DEF FrameResumes
<1>4. /\ Len(frames') <= Len(frames) + 1
      /\ \A k \in 2 .. Len(frames) : k <= Len(frames') => frames'[k].resume = frames[k].resume
      /\ Len(frames') < Len(frames) =>
           Len(frames) > 1 /\ target' = frames[Len(frames)].resume
  <2>1. CASE A!Body
    BY <1>2, <2>1 DEF A!Body, A!Depth, A!Current
  <2>2. CASE A!Call
    BY <1>2, <2>2 DEF A!Call, A!Depth
  <2>3. CASE A!Enter
    <3> DEFINE d == Len(frames)
    <3>1. /\ ~frames[d].framed /\ Len(frames') = d
          /\ \A k \in 1 .. d - 2 : frames'[k] = frames[k]
          /\ frames'[d].resume = frames[d].resume
          /\ frames'[d - 1].resume = frames[d - 1].resume
      <4>1. frames'[d].resume = frames[d].resume
        BY <2>3 DEF A!Enter, A!Depth, A!Current, A!Activation
      <4>2. frames'[d - 1] = [frames[d - 1] EXCEPT !.operands = frames'[d - 1].operands]
        BY <2>3 DEF A!Enter, A!Depth, A!Caller
      <4>3. d > 1 => frames'[d - 1].resume = frames[d - 1].resume
        BY <1>2, <4>2, Abstract DEF AbstractState, Frame
      <4>4. d # 1
        <5>1. ~frames[d].framed
          BY <2>3 DEF A!Enter, A!Depth, A!Current
        <5>2. act[1] = Activation(-1, -1, 0, 0, 0)
          BY DEF IInv, FramesLinked
        <5>3. Framed(act[1])
          BY <5>2 DEF Framed, Activation
        <5>4. frames[1].framed = Framed(act[1])
          BY <1>2, Abstract DEF AbstractState, Frame
        <5> QED
          BY <5>1, <5>3, <5>4
      <4> QED
        BY <1>2, <2>3, <4>1, <4>3, <4>4 DEF A!Enter, A!Depth, A!Current
    <3> QED
      BY <1>2, <3>1
  <2>4. CASE A!Leave
    <3> DEFINE d == Len(frames)
               f == [frames[d - 1] EXCEPT !.operands =
                       frames[d - 1].operands \o frames[d].operands]
    <3>1. /\ d > 1 /\ target' = frames[d].resume
          /\ frames' = [k \in 1 .. d - 1 |-> IF k = d - 1 THEN f ELSE frames[k]]
      BY <2>4 DEF A!Leave, A!Depth, A!Current, A!Caller
    <3>2. f.resume = frames[d - 1].resume
      BY <1>2, <3>1, Abstract DEF AbstractState, Frame
    <3> HIDE DEF f
    <3>3. Len(frames') = d - 1
      BY <1>2, <3>1, Lengths
    <3>4. \A k \in 1 .. d - 1 : frames'[k].resume = frames[k].resume
      BY <3>1, <3>2
    <3> QED
      BY <1>2, <3>1, <3>3, <3>4
  <2>5. CASE A!Restart
    BY <1>2, <2>5 DEF A!Restart, A!Depth
  <2>6. CASE A!Exhaust
    BY <2>6 DEF A!Exhaust
  <2>7. CASE UNCHANGED A!vars
    BY <1>2, <2>7 DEF A!vars
  <2> QED
    BY <1>1, <2>1, <2>2, <2>3, <2>4, <2>5, <2>6, <2>7 DEF A!Next
<1> QED
  BY <1>2, <1>3, <1>4
=============================================================================
