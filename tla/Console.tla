------------------------------ MODULE Console ------------------------------
(***************************************************************************)
(* The output interface VMOut (src/src/hal_Out.c) as the characters each   *)
(* call prints, on the two consoles of the repository: the one of the host *)
(* tests, with printf (src/src/_cout.c), and the UART of the target        *)
(* (src/src/bsl_COut.c) with its conversions (src/src/bsl_xtoa.c).         *)
(*                                                                         *)
(* A character is its ASCII code.                                          *)
(***************************************************************************)
EXTENDS Integers, Sequences, FiniteSetsExt

CONSTANTS
  Printf,      \* TRUE: the console with printf; FALSE: the UART
  WordBits     \* width of an i32 (32)

Newline == <<10>>

Digit(d) == IF d < 10 THEN 48 + d ELSE 55 + d

\* The power of base that f starts with: 1000000000 or 0x10000000.
HighestPlace(base) == IF base = 10 THEN 9 ELSE 7

\* Mutant of bsl_utoa: foundNonzero is never set, zeros are left out.
bsl_utoaSparse(n, base) ==
  LET digit(k) == (n \div base^k) % base
      shown    == {k \in 0 .. HighestPlace(base) : k = 0 \/ digit(k) # 0}
      top      == Cardinality(shown)
      place(i) == CHOOSE k \in shown : Cardinality({j \in shown : j >= k}) = i
  IN  [i \in 1 .. top |-> Digit(digit(place(i)))]

\* The digits of n from its first one that is not zero.  A negative n stands
\* for n + 2^32: its hexadecimal digits are those of the two's complement.
bsl_utoa(n, base) ==
  LET digit(k) == (n \div base^k) % base
      top      == Max({0} \cup {k \in 1 .. HighestPlace(base) : digit(k) # 0})
  IN  [i \in 1 .. top + 1 |-> Digit(digit(top + 1 - i))]

Unsigned(x) == x % 2^WordBits

bsl_itoa(i) ==
  IF i < 0 THEN <<45>> \o bsl_utoa(Unsigned(-i), 10) ELSE bsl_utoa(i, 10)

True  == IF Printf THEN <<116, 114, 117, 101>> ELSE <<84>>         \* true, T
False == IF Printf THEN <<102, 97, 108, 115, 101>> ELSE <<70>>     \* false, F

PutB(b) == IF b # 0 THEN True ELSE False
PutC(c) == <<c % 256>>
PutI(i) == bsl_itoa(i)
PutU(u) == bsl_utoa(Unsigned(u), 10)
PutX(x) ==
  LET digits == bsl_utoa(x, 16)
  IN  IF Printf THEN [i \in 1 .. 8 - Len(digits) |-> 48] \o digits ELSE digits
PutN    == Newline
=============================================================================
