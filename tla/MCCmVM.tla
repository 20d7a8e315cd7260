------------------------------- MODULE MCCmVM -------------------------------
(***************************************************************************)
(* Programs for CmVM: the repository's own tests T01.exe .. T12.exe, byte  *)
(* for byte after the two bytes of their size (all but T07, whose numbers  *)
(* need all 32 bits), and programs of the same form for the instructions   *)
(* the tests do not use.                                                   *)
(***************************************************************************)
EXTENDS CmVM

T01 ==
  <<225, 0, 153, 213, 0, 161, 255, 133, 213, 0, 189, 255, 133, 217, 128, 255,
    130, 217, 124, 255, 129, 217, 127, 255, 130, 217, 124, 255, 129, 217,
    127, 255, 130, 217, 124, 255, 129, 217, 127, 255, 131, 217, 124, 255,
    129, 219, 0, 13, 236, 175, 255, 134, 217, 124, 255, 129, 219, 0, 0, 171,
    141, 255, 134, 217, 124, 255, 129, 217, 48, 255, 129, 217, 124, 255, 129,
    217, 57, 255, 129, 217, 124, 255, 129, 217, 97, 255, 129, 217, 124, 255,
    129, 217, 65, 255, 129, 217, 124, 255, 129, 217, 10, 255, 130, 217, 124,
    255, 129, 217, 10, 255, 130, 217, 124, 255, 129, 217, 10, 255, 130, 217,
    124, 255, 129, 217, 10, 255, 130, 217, 124, 255, 129, 217, 10, 255, 130,
    217, 124, 255, 129, 144, 255, 128, 217, 124, 255, 129, 145, 255, 128,
    255, 135, 4, 4, 231, 255, 255, 231, 255, 103, 0, 84, 46, 67, 0, 84, 101,
    115, 116, 32, 48, 49, 58, 32, 86, 97, 108, 117, 101, 32, 84, 121, 112,
    101, 115, 32, 40, 76, 105, 116, 101, 114, 97, 108, 115, 41, 10, 0, 45,
    49, 50, 56, 124, 49, 50, 55, 124, 49, 50, 55, 124, 49, 50, 55, 124, 48,
    48, 48, 68, 69, 67, 65, 70, 124, 48, 48, 48, 48, 65, 66, 56, 68, 124, 48,
    124, 57, 124, 97, 124, 65, 124, 49, 48, 124, 49, 48, 124, 49, 48, 124,
    49, 48, 124, 49, 48, 124, 102, 97, 108, 115, 101, 124, 116, 114, 117,
    101, 10, 0>>

T02 ==
  <<225, 0, 77, 115, 213, 0, 84, 255, 133, 213, 0, 110, 255, 133, 147, 168,
    217, 4, 169, 160, 161, 28, 227, 5, 160, 224, 3, 161, 170, 162, 255, 130,
    217, 124, 255, 129, 148, 168, 160, 144, 28, 227, 6, 160, 16, 224, 3, 160,
    170, 162, 255, 130, 217, 124, 255, 129, 217, 5, 168, 160, 144, 28, 227,
    6, 160, 16, 224, 3, 160, 170, 162, 255, 130, 255, 135, 3, 4, 231, 255,
    255, 231, 255, 179, 0, 84, 46, 67, 0, 84, 101, 115, 116, 32, 48, 50, 58,
    32, 67, 111, 110, 100, 105, 116, 105, 111, 110, 97, 108, 32, 79, 112,
    101, 114, 97, 116, 111, 114, 10, 0, 51, 124, 52, 124, 53, 10, 0>>

T03 ==
  <<225, 0, 76, 115, 213, 0, 86, 255, 133, 213, 0, 109, 255, 133, 217, 90,
    168, 218, 60, 90, 169, 160, 161, 13, 170, 162, 255, 134, 217, 124, 255,
    129, 160, 161, 14, 170, 162, 255, 134, 217, 124, 255, 129, 160, 161, 15,
    170, 162, 255, 134, 217, 124, 255, 129, 160, 151, 15, 170, 162, 255, 134,
    217, 124, 255, 129, 161, 151, 15, 170, 162, 255, 134, 255, 135, 3, 4,
    231, 255, 255, 231, 255, 180, 0, 84, 46, 69, 120, 112, 114, 0, 84, 101,
    115, 116, 32, 48, 51, 58, 32, 66, 105, 116, 119, 105, 115, 101, 32, 79,
    112, 101, 114, 97, 116, 111, 114, 115, 10, 0, 48, 48, 48, 48, 48, 48, 53,
    65, 124, 48, 48, 48, 48, 51, 67, 53, 65, 124, 48, 48, 48, 48, 51, 67, 48,
    48, 124, 70, 70, 70, 70, 70, 70, 65, 53, 124, 70, 70, 70, 70, 67, 51, 65,
    53, 10, 0>>

T04 ==
  <<225, 0, 53, 114, 213, 0, 63, 255, 133, 213, 0, 87, 255, 133, 217, 57,
    168, 160, 217, 9, 27, 227, 5, 144, 224, 3, 145, 169, 161, 255, 128, 217,
    124, 255, 129, 160, 217, 9, 26, 227, 5, 144, 224, 3, 145, 169, 161, 255,
    128, 255, 135, 3, 4, 231, 255, 255, 231, 255, 203, 0, 84, 46, 69, 120,
    112, 114, 0, 84, 101, 115, 116, 32, 48, 52, 58, 32, 69, 113, 117, 97,
    108, 105, 116, 121, 32, 79, 112, 101, 114, 97, 116, 111, 114, 115, 10, 0,
    102, 97, 108, 115, 101, 124, 116, 114, 117, 101, 10, 0>>

T05 ==
  <<225, 0, 103, 115, 213, 0, 113, 255, 133, 213, 0, 139, 255, 133, 145, 168,
    146, 169, 160, 161, 31, 227, 5, 144, 224, 3, 145, 170, 162, 255, 128,
    217, 124, 255, 129, 147, 168, 217, 4, 169, 160, 161, 29, 227, 5, 144,
    224, 3, 145, 170, 162, 255, 128, 217, 124, 255, 129, 217, 5, 168, 217, 6,
    169, 160, 161, 30, 227, 5, 144, 224, 3, 145, 170, 162, 255, 128, 217,
    124, 255, 129, 217, 7, 168, 217, 8, 169, 160, 161, 28, 227, 5, 144, 224,
    3, 145, 170, 162, 255, 128, 255, 135, 3, 4, 231, 255, 255, 231, 255, 153,
    0, 84, 46, 69, 120, 112, 114, 0, 84, 101, 115, 116, 32, 48, 53, 58, 32,
    82, 101, 108, 97, 116, 105, 111, 110, 97, 108, 32, 79, 112, 101, 114, 97,
    116, 111, 114, 115, 10, 0, 116, 114, 117, 101, 124, 116, 114, 117, 101,
    124, 102, 97, 108, 115, 101, 124, 102, 97, 108, 115, 101, 10, 0>>

T06 ==
  <<225, 0, 66, 115, 213, 0, 76, 255, 133, 213, 0, 97, 255, 133, 255, 135,
    217, 90, 168, 218, 60, 90, 169, 160, 16, 168, 160, 255, 134, 217, 124,
    255, 129, 160, 145, 25, 170, 162, 255, 134, 217, 124, 255, 129, 161, 146,
    24, 170, 162, 255, 134, 217, 124, 255, 129, 162, 147, 25, 170, 162, 255,
    134, 255, 135, 3, 4, 231, 255, 255, 231, 255, 190, 0, 84, 46, 69, 120,
    112, 114, 0, 84, 101, 115, 116, 32, 48, 54, 58, 32, 83, 104, 105, 102,
    116, 32, 79, 112, 101, 114, 97, 116, 111, 114, 115, 10, 0, 70, 70, 70,
    70, 70, 70, 65, 54, 124, 70, 70, 70, 70, 70, 70, 68, 51, 124, 48, 48, 48,
    48, 70, 49, 54, 56, 124, 48, 48, 48, 48, 49, 69, 50, 68, 0>>

T08 ==
  <<225, 0, 69, 114, 213, 0, 79, 255, 133, 213, 0, 113, 255, 133, 217, 6,
    169, 179, 1, 161, 168, 160, 255, 130, 161, 255, 130, 161, 179, 1, 168,
    160, 255, 130, 161, 255, 130, 179, 1, 160, 255, 130, 161, 255, 130, 180,
    1, 161, 168, 160, 255, 130, 161, 255, 130, 161, 180, 1, 168, 160, 255,
    130, 161, 255, 130, 255, 135, 3, 4, 231, 255, 255, 231, 255, 187, 0, 84,
    46, 69, 120, 112, 114, 0, 84, 101, 115, 116, 32, 48, 56, 58, 32, 80, 114,
    101, 102, 105, 120, 32, 97, 110, 100, 32, 80, 111, 115, 116, 102, 105,
    120, 32, 79, 112, 101, 114, 97, 116, 111, 114, 115, 10, 0, 55, 55, 55,
    56, 55, 57, 56, 56, 56, 55, 10, 0>>

T09 ==
  <<225, 0, 95, 136, 161, 144, 27, 227, 14, 179, 0, 160, 217, 9, 29, 227, 4,
    144, 168, 224, 12, 180, 0, 160, 144, 28, 227, 5, 217, 9, 168, 160, 255,
    130, 217, 124, 255, 129, 160, 3, 3, 114, 213, 0, 67, 255, 133, 213, 0,
    90, 255, 133, 217, 8, 168, 145, 169, 160, 161, 231, 255, 200, 168, 160,
    161, 231, 255, 194, 168, 144, 169, 160, 161, 231, 255, 186, 168, 145,
    169, 160, 161, 231, 255, 178, 168, 160, 161, 231, 255, 172, 168, 255,
    135, 3, 4, 231, 255, 255, 231, 255, 199, 0, 84, 46, 83, 116, 109, 116, 0,
    84, 101, 115, 116, 32, 48, 57, 58, 32, 105, 102, 45, 101, 108, 115, 101,
    32, 83, 116, 97, 116, 101, 109, 101, 110, 116, 10, 0, 57, 124, 48, 124,
    57, 124, 48, 124, 49, 124, 10, 0>>

T10 ==
  <<225, 0, 33, 113, 213, 0, 43, 255, 133, 213, 0, 76, 255, 133, 217, 9, 168,
    224, 7, 160, 180, 0, 255, 130, 160, 144, 28, 227, 248, 255, 135, 3, 4,
    231, 255, 255, 231, 255, 223, 0, 84, 46, 83, 116, 109, 116, 0, 84, 101,
    115, 116, 32, 49, 48, 58, 32, 119, 104, 105, 108, 101, 32, 83, 116, 97,
    116, 101, 109, 101, 110, 116, 32, 45, 32, 99, 111, 117, 110, 116, 100,
    111, 119, 110, 10, 0, 57, 56, 55, 54, 53, 52, 51, 50, 49, 48, 10, 0>>

T11 ==
  <<225, 0, 37, 113, 213, 0, 47, 255, 133, 213, 0, 68, 255, 133, 217, 9, 168,
    224, 14, 160, 144, 28, 227, 4, 224, 9, 160, 180, 0, 255, 130, 224, 244,
    255, 135, 3, 4, 231, 255, 255, 231, 255, 219, 0, 84, 46, 83, 116, 109,
    116, 0, 84, 101, 115, 116, 32, 49, 49, 58, 32, 98, 114, 101, 97, 107, 32,
    83, 116, 97, 116, 101, 109, 101, 110, 116, 10, 0, 57, 56, 55, 54, 53, 52,
    51, 50, 49, 48, 10, 0>>

T12 ==
  <<225, 0, 134, 136, 160, 145, 161, 24, 14, 2, 168, 3, 3, 136, 160, 145,
    161, 24, 151, 15, 13, 2, 168, 3, 3, 136, 160, 145, 161, 24, 15, 2, 168,
    3, 3, 136, 160, 161, 25, 145, 13, 3, 3, 114, 213, 0, 103, 255, 133, 213,
    0, 122, 255, 133, 144, 168, 144, 169, 217, 124, 255, 129, 160, 255, 134,
    160, 146, 231, 255, 192, 168, 217, 124, 255, 129, 160, 255, 134, 160,
    146, 231, 255, 189, 168, 217, 124, 255, 129, 160, 255, 134, 160, 146,
    231, 255, 188, 168, 217, 124, 255, 129, 160, 255, 134, 160, 146, 231,
    255, 185, 169, 217, 124, 255, 129, 161, 255, 134, 160, 144, 231, 255,
    172, 169, 217, 124, 255, 129, 161, 255, 134, 255, 135, 3, 4, 231, 255,
    255, 231, 255, 162, 0, 84, 46, 66, 105, 116, 0, 84, 101, 115, 116, 32,
    49, 50, 58, 32, 66, 105, 116, 32, 102, 117, 110, 99, 116, 105, 111, 110,
    115, 10, 0, 124, 48, 48, 48, 48, 48, 48, 48, 48, 124, 48, 48, 48, 48, 48,
    48, 48, 52, 124, 48, 48, 48, 48, 48, 48, 48, 48, 124, 48, 48, 48, 48, 48,
    48, 48, 52, 124, 48, 48, 48, 48, 48, 48, 48, 49, 124, 48, 48, 48, 48, 48,
    48, 48, 48, 10, 0>>

\* The one- and two-operand instructions that T01 .. T12 do not use, with negative
\* operands: division truncates toward zero and shr keeps the sign.
Arithmetic ==
  <<212, 80, 255, 133, 217, 249, 146, 22, 255, 130, 217, 249, 146, 23, 255,
    130, 217, 249, 145, 25, 255, 130, 149, 12, 255, 130, 147, 16, 17, 17, 18,
    255, 130, 218, 254, 212, 220, 200, 21, 255, 130, 147, 148, 14, 255, 130,
    145, 146, 27, 146, 146, 30, 13, 151, 147, 31, 20, 255, 130, 145, 146, 26,
    151, 146, 28, 15, 147, 146, 29, 19, 255, 130, 147, 2, 1, 255, 130, 255,
    135, 0, 84, 101, 115, 116, 32, 65, 114, 105, 116, 104, 109, 101, 116,
    105, 99, 10, 45, 51, 45, 49, 45, 52, 50, 45, 50, 45, 54, 48, 48, 48, 48,
    45, 49, 49, 50, 51, 10, 0>>

\* Operands of every width at the ends of their ranges, and traps nobody knows.
Operands ==
  <<213, 0, 56, 255, 133, 215, 65, 255, 129, 220, 255, 255, 131, 217, 128,
    255, 130, 216, 0, 48, 255, 129, 221, 255, 255, 255, 131, 218, 128, 0,
    255, 130, 219, 255, 255, 255, 255, 255, 134, 222, 0, 0, 0, 171, 255, 134,
    148, 255, 132, 255, 0, 255, 130, 255, 135, 0, 84, 101, 115, 116, 32, 79,
    112, 101, 114, 97, 110, 100, 115, 10, 65, 50, 53, 53, 45, 49, 50, 56, 48,
    54, 53, 53, 51, 53, 45, 51, 50, 55, 54, 56, 70, 70, 70, 70, 70, 70, 70,
    70, 48, 48, 48, 48, 48, 48, 65, 66, 45, 52, 10, 0>>

\* A function with its variables accessed in the two-byte forms, and branches of
\* every form, backward and forward: the sum 3 + 2 + 1, then 1 + 2 + 3.
Loops ==
  <<225, 0, 38, 191, 73, 144, 178, 1, 177, 0, 176, 1, 180, 0, 177, 0, 82, 71,
    161, 3, 134, 144, 169, 144, 170, 162, 160, 28, 227, 8, 179, 2, 162, 153,
    224, 247, 161, 3, 212, 19, 255, 133, 147, 231, 255, 216, 255, 130, 147,
    231, 255, 227, 255, 130, 255, 135, 0, 84, 101, 115, 116, 32, 76, 111,
    111, 112, 115, 10, 54, 54, 10, 0>>

\* A recursive function: frames of the same function on top of each other.
Factorial ==
  <<224, 17, 132, 160, 145, 29, 89, 160, 160, 18, 231, 255, 248, 21, 3, 145,
    3, 212, 14, 255, 133, 147, 17, 231, 255, 235, 255, 130, 255, 135, 0, 84,
    101, 115, 116, 32, 70, 97, 99, 116, 111, 114, 105, 97, 108, 10, 50, 52,
    10, 0>>

\* A division by zero prints a message and leaves the dividend.
DivideByZero ==
  <<212, 9, 255, 133, 147, 144, 22, 1, 0, 84, 101, 115, 116, 32, 68, 105,
    118, 105, 115, 105, 111, 110, 10, 68, 105, 118, 105, 115, 105, 111, 110,
    32, 98, 121, 32, 122, 101, 114, 111, 10, 0>>

\* What the console of the target prints for truth values and in hexadecimal.
Target ==
  <<212, 25, 255, 133, 146, 255, 128, 144, 255, 128, 221, 168, 13, 255, 134,
    217, 240, 255, 134, 144, 255, 134, 255, 135, 0, 84, 101, 115, 116, 32,
    84, 97, 114, 103, 101, 116, 10, 84, 70, 65, 56, 48, 68, 70, 70, 70, 70,
    70, 70, 70, 48, 48, 10, 0>>

\* Operands C leaves undefined.
RemainderOfZero ==
  <<147, 144, 23, 0>>

ShiftTooFar ==
  <<147, 151, 24, 0>>

ShiftTooFarRight ==
  <<147, 217, 32, 25, 0>>

\* A program that uses more cells than there are.
Overflow ==
  <<147, 79>>

\* A branch out of the memory.
Astray ==
  <<224, 128>>

\* A string outside the memory.
NoString ==
  <<147, 255, 133, 0>>

\* Stopped after a line that lacks a character.
WrongLine ==
  <<212, 6, 255, 133, 224, 128, 84, 101, 115, 116, 32, 87, 114, 111, 110,
    103, 10, 55, 56, 10, 55, 10, 0>>

\* Stopped in the middle of a line.
CutOff ==
  <<212, 6, 255, 133, 224, 128, 84, 101, 115, 116, 32, 67, 117, 116, 10, 55,
    56, 10, 55, 0>>

\* BRF_I16 has an opcode and no case in VM_execute.
Unimplemented ==
  <<144, 228, 0, 8>>

\* RFU1.
ReservedOpcode ==
  <<144, 5, 0>>

Tests == {T01, T02, T03, T04, T05, T06, T08, T09, T10, T11, T12}

All ==
  Tests \cup {Arithmetic, Operands, Loops, Factorial, DivideByZero,
              RemainderOfZero, ShiftTooFar, ShiftTooFarRight, Overflow, Astray,
              NoString, WrongLine, CutOff, Unimplemented, ReservedOpcode}

\* Programs that print no truth value and no hexadecimal number, and Target.
Plain ==
  {T02, T08, T09, T10, T11, Arithmetic, Loops, Factorial, DivideByZero, Target}

\* Everything on the console with printf, the plain ones on the target's too.
MCPrograms == [console \in BOOLEAN |-> IF console THEN All ELSE Plain]
MCTests    == [console \in {FALSE} |-> Tests]
MCReserved == [console \in {TRUE} |-> {ReservedOpcode}]

MCShapes ==
  {f \in [form : {"U5", "U8"}, v : 0 .. 1, np : 0 .. 7, nl : 0 .. 7] :
     /\ f.np + f.nl <= 7
     /\ f.form = "U5" => f.np <= 3 /\ f.nl <= 3}

\* The values an LDC at offset i of program p can push, by its opcode.
Pushes(p, i) ==
  LET b(n) == IF i + n <= Len(p) THEN p[i + n] ELSE 0
      u16  == b(1) * 256 + b(2)
  IN  CASE p[i] \in {LDC_C8, LDC_U8} -> {b(1)}
        [] p[i] = LDC_I8 -> {Signed(b(1), 8)}
        [] p[i] \in {LDC_C16, LDC_U16} -> {u16}
        [] p[i] = LDC_I16 -> {Signed(u16, 16)}
        [] p[i] \in {LDC_I32, LDC_U32} ->
             {I32(Signed(u16, 16) * 2^16 + b(3) * 256 + b(4))}
        [] p[i] = LDA_I8 -> {Address(BaseAddr + i - 1 + Signed(b(1), 8))}
        [] p[i] = LDA_I16 -> {Address(BaseAddr + i - 1 + Signed(u16, 16))}
        [] OTHER -> {}

MCLiterals ==
  -4 .. 3 \cup UNION {UNION {Pushes(p, i) : i \in 1 .. Len(p)} : p \in All \cup Plain}
=============================================================================
