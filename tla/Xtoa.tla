-------------------------------- MODULE Xtoa --------------------------------
(***************************************************************************)
(* bsl_itoa and bsl_utoa (src/src/bsl_xtoa.c), which write a number into   *)
(* the buffer of the console, one digit after the other.  A step is one    *)
(* pass of the loop, which writes at most one character.                   *)
(*                                                                         *)
(* number, value and places are history variables.                         *)
(***************************************************************************)
EXTENDS Integers, Sequences

CONSTANTS
  Word,          \* number of values of a u32 (2^32)
  Places,        \* the values of f, for each base: 1000000000 .. 1 in base 10
  BufLen,        \* length of buf (12)
  Numbers        \* what is converted

Bases == {10, 16}

ASSUME XtoaAssumption ==
  /\ Word \in Nat \ {0}
  /\ BufLen \in Nat
  /\ Numbers \subseteq -Word .. Word - 1
  /\ \A b \in Bases :
       /\ Places[b] \in Seq(Nat \ {0})
       /\ Len(Places[b]) > 0
       /\ Places[b][Len(Places[b])] = 1
       /\ \A k \in 1 .. Len(Places[b]) - 1 : Places[b][k] = b * Places[b][k + 1]
       /\ Word <= b * Places[b][1]
       /\ Len(Places[b]) + 2 <= BufLen     \* a sign, the digits and the zero

VARIABLES
  buf,           \* static char buf[12] of the console
  n, f, next, base, foundNonzero,          \* of bsl_utoa
  conversion,    \* where bsl_utoa is; "overrun" when it has left buf
  number,        \* its argument
  value,         \* what the digits so far stand for
  places         \* number of passes of the loop

locals   == <<n, f, next, base, foundNonzero, number, value, places>>
xtoaVars == <<buf, locals, conversion>>

Digits ==
  <<"0", "1", "2", "3", "4", "5", "6", "7", "8", "9", "A", "B", "C", "D", "E", "F">>
Null == "NUL"

XtoaInit ==
  /\ buf = [i \in 0 .. BufLen - 1 |-> Null]
  /\ n = 0 /\ f = 0 /\ next = 0 /\ base = 10 /\ foundNonzero = FALSE
  /\ conversion = "none"
  /\ number = 0 /\ value = 0 /\ places = 0

-----------------------------------------------------------------------------

Begin(x, b) ==
  /\ conversion = "none"
  /\ n' = x
  /\ number' = x
  /\ base' = IF b = 10 THEN 10 ELSE 16
  /\ f' = Places[base'][1]
  /\ foundNonzero' = FALSE
  /\ conversion' = IF x = 0 THEN "zero" ELSE "digits"
  /\ value' = 0
  /\ places' = 0

bsl_utoa(x, b) == Begin(x % Word, b) /\ next' = 0 /\ UNCHANGED buf

\* The lowest integer negated is itself in the build, which as a u32 is right.
bsl_itoa(i) ==
  IF i < 0
    THEN Begin((-i) % Word, 10) /\ next' = 1 /\ buf' = [buf EXCEPT ![0] = "-"]
    ELSE Begin(i, 10) /\ next' = 0 /\ UNCHANGED buf

\* buf[next++] = c.
Write(c, then) ==
  IF next \in DOMAIN buf
    THEN buf' = [buf EXCEPT ![next] = c] /\ next' = next + 1 /\ conversion' = then
    ELSE conversion' = "overrun" /\ UNCHANGED <<buf, next>>

Zero ==
  /\ conversion = "zero"
  /\ Write("0", "end")
  /\ UNCHANGED <<n, f, base, foundNonzero, number, value, places>>

\* A digit is divided off; those before the first that is not zero are not
\* written.
Divide ==
  /\ conversion = "digits"
  /\ f > 0
  /\ LET r == n \div f
     IN  /\ foundNonzero' = (foundNonzero \/ r > 0)
         /\ IF foundNonzero'
              THEN Write(Digits[r + 1], "digits")
              ELSE UNCHANGED <<buf, next, conversion>>
         /\ n' = n - r * f
  /\ places' = places + 1
  /\ UNCHANGED <<base, number>>

\* Mutants of Iterate: the last place is not left, or left out.
IterateForever ==
  /\ Divide
  /\ f' = IF f = 1 THEN 1 ELSE f \div base
  /\ UNCHANGED value
IterateShort ==
  /\ Divide
  /\ f' = IF f = base THEN 0 ELSE f \div base
  /\ value' = value * base + n \div f

Iterate ==
  /\ Divide
  /\ f' = f \div base
  /\ value' = value * base + n \div f

\* Mutant of End: the text is not terminated.
EndOpen ==
  /\ conversion = "end" \/ (conversion = "digits" /\ f = 0)
  /\ conversion' = "written"
  /\ UNCHANGED <<buf, locals>>

End ==
  /\ conversion = "end" \/ (conversion = "digits" /\ f = 0)
  /\ Write(Null, "written")
  /\ UNCHANGED <<n, f, base, foundNonzero, number, value, places>>

\* The text in buf has been printed, and the console converts another number.
Printed ==
  /\ conversion = "written"
  /\ conversion' = "none"
  /\ UNCHANGED <<buf, locals>>

\* A handler of an interrupt uses the console in between: buf is static.
Disturbed ==
  /\ buf' \in [DOMAIN buf -> {Null, "-"} \cup {Digits[d] : d \in 1 .. 16}]
  /\ UNCHANGED <<locals, conversion>>

XtoaNext ==
  \/ \E i \in Numbers : bsl_itoa(i)
  \/ \E x \in Numbers, b \in Bases : bsl_utoa(x, b)
  \/ Zero
  \/ Iterate
  \/ End
  \/ Printed
  \/ Disturbed

XtoaSpec == XtoaInit /\ [][XtoaNext]_xtoaVars

-----------------------------------------------------------------------------
(* InBuffer: no character is written behind the twelve of buf, "to cover   *)
(* max size (12) on a i32" (bsl_COut.c:29-30), also when a handler of an   *)
(* interrupt writes to buf between two digits.                             *)
InBuffer ==
  /\ conversion # "overrun"
  /\ next <= BufLen
  /\ DOMAIN buf = 0 .. BufLen - 1

(* Exact: each pass of the loop divides a digit off, and when no place is  *)
(* left the digits stand for the number: the loop ends neither too early   *)
(* nor too late.                                                           *)
Exact == conversion = "written" => value = number
=============================================================================
