-------------------------- MODULE HalLoader_proofs --------------------------
(***************************************************************************)
(* Theorems about HalLoader, for every stream of bytes, every width of the *)
(* positions and every size of the memory that LoaderAssumption allows.    *)
(***************************************************************************)
EXTENDS HalLoader, TLAPS

\* downloading is set once and for all, and only from then on does anything
\* move memWritePos or the memory; only without it does main return.
Untouched == ~downloading => memWritePos = 0 /\ mem = Empty
Refused   == phase = "ended" => ~downloading

\* TypeOK, RunAlwaysRefused and RefusedEmpty are consequences of IInv.
IInv == TypeOK /\ Untouched /\ Refused

LEMMA EmptyMemory == Empty \in [0 .. MemMax - 1 -> 0 .. 255]
BY LoaderAssumption DEF Empty

\* The next position is one again.
LEMMA NextPosition ==
  ASSUME NEW p \in 0 .. PosRange - 1
  PROVE  (p + 1) % PosRange \in 0 .. PosRange - 1
BY LoaderAssumption

LEMMA FirstPosition == 0 \in 0 .. PosRange - 1
BY LoaderAssumption

LEMMA InitIInv == Init => IInv
<1> SUFFICES ASSUME Init PROVE IInv
  OBVIOUS
<1>1. TypeOK
  BY EmptyMemory, FirstPosition, Zenon DEF Init, TypeOK
<1> QED
  BY <1>1 DEF Init, IInv, Untouched, Refused

LEMMA NextIInv == IInv /\ [Next]_vars => IInv'
<1> SUFFICES ASSUME IInv, [Next]_vars PROVE IInv'
  OBVIOUS
<1> USE DEF IInv
<1>1. ASSUME NEW c \in Bytes, Receive(c) PROVE IInv'
  <2>0. phase = "loading" /\ c \in 0 .. 255
    BY <1>1, LoaderAssumption DEF Receive
  <2>1. CASE EndOfPacket(c)
    BY <2>1, LoaderAssumption
    DEF EndOfPacket, Return, Success, TypeOK, Untouched, Refused
  <2>2. CASE Store(c)
    <3>1. memWritePos \in 0 .. MemMax - 1
      BY LoaderAssumption DEF TypeOK
    <3>2. mem' \in [0 .. MemMax - 1 -> 0 .. 255]
      BY <2>0, <2>2, <3>1 DEF Store, TypeOK
    <3>3. memWritePos' \in 0 .. PosRange - 1
      BY <2>2, NextPosition DEF Store, TypeOK
    <3> QED
      BY <2>0, <2>2, <3>2, <3>3 DEF Store, TypeOK, Untouched, Refused
  <2>3. CASE Fill(c)
    <3>1. packetReadPos' \in 0 .. PosRange - 1
      BY <2>3, NextPosition DEF Fill, TypeOK
    <3>2. memWritePos' = 0 /\ mem' = mem /\ mem = Empty /\ memWritePos = 0
      BY <2>3 DEF Fill, Untouched
    <3>3. CASE packetReadPos' = 2
      <4>1. Command(c)
        BY <2>3, <3>3 DEF Fill
      <4>2. downloading' \in BOOLEAN
            /\ phase' \in {"loading", "executing", "ended", "exited"}
        BY <2>0, <4>1
        DEF Command, Return, Success, InvalidAddr, TypeOK
      <4>3. phase' = "ended" => ~downloading'
        <5>0. Run # Download /\ Run # Ping
          BY DEF Run, Download, Ping
        <5>1. CASE c = Run
          BY <4>1, <5>0, <5>1 DEF Command
        <5>2. CASE c \notin {Ping, Run}
          BY <2>0, <4>1, <5>2 DEF Command
        <5>3. CASE c = Ping
          BY <2>0, <4>1, <5>3 DEF Command, Return, Success, Run, Ping
        <5> QED
          BY <5>1, <5>2, <5>3
      <4> QED
        BY <3>1, <3>2, <4>2, <4>3 DEF TypeOK, Untouched, Refused
    <3>4. CASE packetReadPos' # 2
      BY <2>3, <3>1, <3>2, <3>4 DEF Fill, TypeOK, Untouched, Refused
    <3> QED
      BY <3>3, <3>4
  <2> QED
    BY <1>1, <2>1, <2>2, <2>3 DEF Receive
<1>2. CASE Executed
  BY <1>2 DEF Executed, TypeOK, Untouched, Refused
<1>3. CASE Exited
  BY <1>3 DEF Exited, TypeOK, Untouched, Refused
<1>4. CASE Restart
  <2>1. TypeOK'
    BY <1>4, EmptyMemory, FirstPosition, Zenon DEF Restart, TypeOK
  <2> QED
    BY <1>4, <2>1 DEF Restart, Untouched, Refused, Empty
<1>5. CASE UNCHANGED vars
  BY <1>5 DEF vars, TypeOK, Untouched, Refused, Empty
<1> QED
  BY <1>1, <1>2, <1>3, <1>4, <1>5 DEF Next

LEMMA Inductive == Spec => []IInv
BY InitIInv, NextIInv, PTL DEF Spec

(* The positions never leave their range, and no byte is stored beside the *)
(* memory (hal_Loader.c:16).                                               *)
THEOREM LoaderTypeCorrect == Spec => []TypeOK
<1>1. IInv => TypeOK
  BY DEF IInv
<1> QED
  BY <1>1, Inductive, PTL

(* The branch of hal_Loader.c:40 is dead: whatever bytes arrive, a Run is  *)
(* never answered with Success.                                            *)
THEOREM RunNeverAccepted == Spec => []RunAlwaysRefused
<1>1. IInv => RunAlwaysRefused
  BY DEF IInv, Untouched, RunAlwaysRefused
<1> QED
  BY <1>1, Inductive, PTL

(* Main returns with InvalidAddr only while the memory is empty.           *)
THEOREM RefusedOnlyEmpty == Spec => []RefusedEmpty
<1>1. IInv => RefusedEmpty
  BY DEF IInv, Untouched, Refused, RefusedEmpty
<1> QED
  BY <1>1, Inductive, PTL
=============================================================================
