------------------------------ MODULE Opcodes ------------------------------
(***************************************************************************)
(* The instruction set of the Cm virtual machine (src/src/opcode.h).       *)
(***************************************************************************)
EXTENDS Integers

\* One byte, no operand: 00 .. 2F.
HALT           == \h00
POP            == \h01
DUP            == \h02
EXIT           == \h03
RET            == \h04
NOT            == \h0C
AND            == \h0D
OR             == \h0E
XOR            == \h0F
NEG            == \h10
INC            == \h11
DEC            == \h12
ADD            == \h13
SUB            == \h14
MUL            == \h15
DIV            == \h16
REM            == \h17
SHL            == \h18
SHR            == \h19
TEQ            == \h1A
TNE            == \h1B
TLT            == \h1C
TGT            == \h1D
TLE            == \h1E
TGE            == \h1F
INHERENT_END   == \h2F

\* Reserved for future use: RFU1 .. RFU7, and the rest of the inherent range.
RFU == \h05 .. \h0B \cup \h20 .. INHERENT_END

\* One byte with the operand in its low bits: 30 .. AF.
BR_I5          == \h30
BRF_I5         == \h50
ENTER_U5       == \h70
LDC_I3         == \h90
ADDV_U3        == \h98
LDV_U3         == \hA0
STV_U3         == \hA8

\* One byte followed by operand bytes: B0 .. FF.
RELATIVE_BEGIN == \hB0
ADDV_U8        == \hB0
LDV_U8         == \hB1
STV_U8         == \hB2
INCV_U8        == \hB3
DECV_U8        == \hB4
ENTER_U8       == \hBF
LDA_I8         == \hD4
LDA_I16        == \hD5
LDC_C8         == \hD7
LDC_C16        == \hD8
LDC_I8         == \hD9
LDC_I16        == \hDA
LDC_I32        == \hDB
LDC_U8         == \hDC
LDC_U16        == \hDD
LDC_U32        == \hDE
BR_I8          == \hE0
BR_I16         == \hE1
BRF_I8         == \hE3
BRF_I16        == \hE4
CALLS_I8       == \hE6
CALLS_I16      == \hE7
TRAP           == \hFF

\* The last opcode and the ones VM_execute has a case for.
RELATIVE_END   == \hFF
RelativeCases ==
  {ADDV_U8, LDV_U8, STV_U8, INCV_U8, DECV_U8, ENTER_U8, LDA_I8, LDA_I16,
   LDC_C8, LDC_C16, LDC_I8, LDC_I16, LDC_I32, LDC_U8, LDC_U16, LDC_U32,
   BR_I8, BR_I16, BRF_I8, CALLS_I16, TRAP}
=============================================================================
