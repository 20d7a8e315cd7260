---------------------------- MODULE Xtoa_proofs ----------------------------
(***************************************************************************)
(* Proofs about Xtoa, for every width of a word and every length of the    *)
(* buffer that XtoaAssumption allows.                                      *)
(*                                                                         *)
(* The invariant counts the passes of the loop: after places of them f is  *)
(* the value of the next place, at most one character for each of them and *)
(* one for the sign are in buf, and number = value * base * f + n, where   *)
(* the n that is left is smaller than base * f, so that the next digit is  *)
(* smaller than base.                                                      *)
(***************************************************************************)
EXTENDS Xtoa, TLAPS

NoPlaces == Len(Places[base])

Division ==
  IF places < NoPlaces
    THEN f = Places[base][places + 1] /\ n < base * f /\ number = value * (base * f) + n
    ELSE f = 0 /\ n = 0 /\ number = value

XtoaType ==
  /\ conversion \in {"none", "zero", "digits", "end", "written"}
  /\ base \in Bases
  /\ foundNonzero \in BOOLEAN
  /\ number \in Nat /\ value \in Nat /\ places \in Nat
  /\ n \in Nat /\ f \in Nat /\ next \in Nat
  /\ DOMAIN buf = 0 .. BufLen - 1

XtoaInv ==
  /\ XtoaType
  /\ next <= BufLen
  /\ conversion = "digits" => places <= NoPlaces /\ next <= 1 + places /\ Division
  /\ conversion = "zero" => next <= 1 /\ number = value
  /\ conversion = "end" => next <= 2 /\ number = value
  /\ conversion = "written" => number = value

LEMMA Quotient ==
  ASSUME NEW a \in Nat, NEW d \in Nat \ {0}
  PROVE  /\ a \div d \in Nat
         /\ a - (a \div d) * d \in 0 .. d - 1
  OBVIOUS

\* A quotient below the base that the dividend allows.
LEMMA QuotientBelow ==
  ASSUME NEW a \in Nat, NEW d \in Nat \ {0}, NEW b \in Nat, a < b * d
  PROVE  a \div d < b
<1>1. a \div d \in Nat /\ (a \div d) * d <= a
  BY Quotient
<1> DEFINE q == a \div d
<1>2. q >= b => q * d >= b * d
  BY <1>1
<1> QED BY <1>1, <1>2

-----------------------------------------------------------------------------
(* The places of a base.                                                   *)

LEMMA PlacesType ==
  ASSUME NEW b \in Bases
  PROVE  /\ Len(Places[b]) \in Nat \ {0}
         /\ \A k \in 1 .. Len(Places[b]) : Places[b][k] \in Nat \ {0}
         /\ Places[b][Len(Places[b])] = 1
         /\ \A k \in 1 .. Len(Places[b]) - 1 : Places[b][k] = b * Places[b][k + 1]
         /\ Len(Places[b]) + 2 <= BufLen
         /\ BufLen \in Nat
<1>1. Places[b] \in Seq(Nat \ {0}) /\ Len(Places[b]) > 0
  BY XtoaAssumption
<1>2. Len(Places[b]) \in Nat \ {0} /\ Places[b] \in [1 .. Len(Places[b]) -> Nat \ {0}]
  BY <1>1
<1> QED
  BY <1>2, XtoaAssumption

-----------------------------------------------------------------------------
(* A number starts with all of its places to come.                         *)

LEMMA BeginStep ==
  ASSUME XtoaInv, NEW x \in 0 .. Word - 1, NEW b, Begin(x, b),
         next' \in {0, 1}, DOMAIN buf' = DOMAIN buf
  PROVE  XtoaInv'
<1>1. base' \in Bases
  BY DEF Begin, Bases
<1> DEFINE len == Len(Places[base'])
<1>2. /\ len \in Nat \ {0}
      /\ Places[base'][1] \in Nat \ {0}
      /\ Word <= base' * Places[base'][1]
      /\ 3 <= BufLen
      /\ BufLen \in Nat
  BY <1>1, PlacesType, XtoaAssumption
<1>3. x \in Nat /\ x < Word /\ Word \in Nat
  BY XtoaAssumption
<1>4. XtoaType'
  <2>1. DOMAIN buf' = 0 .. BufLen - 1
    BY DEF XtoaInv, XtoaType
  <2>2. conversion' \in {"none", "zero", "digits", "end", "written"}
    BY DEF Begin
  <2>3. foundNonzero' \in BOOLEAN
    BY DEF Begin
  <2>4. /\ number' \in Nat /\ value' \in Nat /\ places' \in Nat
        /\ n' \in Nat /\ f' \in Nat /\ next' \in Nat
    BY <1>2, <1>3 DEF Begin
  <2> QED
    BY <1>1, <2>1, <2>2, <2>3, <2>4 DEF XtoaType
<1>5. Division'
  <2>1. places' = 0 /\ f' = Places[base'][1] /\ n' = x /\ number' = x /\ value' = 0
    BY DEF Begin
  <2>2. 0 * (base' * f') = 0
    BY <1>1, <1>2, <2>1 DEF Bases
  <2>3. x < base' * f'
    BY <1>1, <1>2, <1>3, <2>1 DEF Bases
  <2> QED
    BY <1>2, <1>3, <2>1, <2>2, <2>3 DEF Division, NoPlaces
<1> QED
  BY <1>2, <1>3, <1>4, <1>5 DEF XtoaInv, Begin, NoPlaces

LEMMA ConversionBegins ==
  ASSUME XtoaInv, NEW i \in Numbers, NEW b \in Bases,
         bsl_itoa(i) \/ bsl_utoa(i, b)
  PROVE  XtoaInv'
<1>1. Word \in Nat \ {0} /\ i \in Int /\ i < Word
  BY XtoaAssumption
<1>2. i % Word \in 0 .. Word - 1 /\ (-i) % Word \in 0 .. Word - 1
  BY <1>1
<1>3. CASE bsl_utoa(i, b)
  BY <1>2, <1>3, BeginStep DEF bsl_utoa
<1>4. CASE bsl_itoa(i) /\ i < 0
  BY <1>2, <1>4, BeginStep DEF bsl_itoa
<1>5. CASE bsl_itoa(i) /\ ~(i < 0)
  <2>1. i \in 0 .. Word - 1
    BY <1>1, <1>5
  <2> QED
    BY <1>5, <2>1, BeginStep DEF bsl_itoa
<1> QED
  BY <1>3, <1>4, <1>5

-----------------------------------------------------------------------------
(* A character more.                                                       *)

LEMMA WriteStep ==
  ASSUME XtoaInv, next < BufLen, NEW c, NEW then, Write(c, then)
  PROVE  conversion' = then /\ next' = next + 1 /\ DOMAIN buf' = DOMAIN buf
<1>1. next \in DOMAIN buf
  BY PlacesType DEF XtoaInv, XtoaType
<1> QED
  BY <1>1 DEF Write

LEMMA ZeroStep == ASSUME XtoaInv, Zero PROVE XtoaInv'
<1>1. 3 <= BufLen /\ BufLen \in Nat
  BY PlacesType DEF XtoaInv, XtoaType
<1>2. conversion = "zero" /\ next \in Nat /\ next <= 1 /\ number = value
  BY DEF XtoaInv, XtoaType, Zero
<1>3. conversion' = "end" /\ next' = next + 1 /\ DOMAIN buf' = DOMAIN buf
  BY <1>1, <1>2, WriteStep DEF Zero
<1>4. UNCHANGED <<n, f, base, foundNonzero, number, value, places>>
  BY DEF Zero
<1> QED
  BY <1>1, <1>2, <1>3, <1>4 DEF XtoaInv, XtoaType

LEMMA EndStep == ASSUME XtoaInv, End PROVE XtoaInv'
<1>1. 3 <= BufLen /\ BufLen \in Nat /\ next \in Nat
  BY PlacesType DEF XtoaInv, XtoaType
<1>2. next < BufLen /\ number = value
  <2>1. CASE conversion = "end"
    BY <1>1, <2>1 DEF XtoaInv
  <2>2. CASE conversion = "digits" /\ f = 0
    <3>1. places \in Nat /\ base \in Bases /\ places <= NoPlaces /\ next <= 1 + places /\ Division
      BY <2>2 DEF XtoaInv, XtoaType
    <3>2. NoPlaces + 2 <= BufLen /\ NoPlaces \in Nat
      BY <3>1, PlacesType DEF NoPlaces
    <3>3. ~(places < NoPlaces)
      <4>1. SUFFICES ASSUME places < NoPlaces PROVE FALSE
        OBVIOUS
      <4>2. places + 1 \in 1 .. NoPlaces
        BY <3>1, <3>2, <4>1
      <4>3. Places[base][places + 1] # 0
        BY <3>1, <4>2, PlacesType DEF NoPlaces
      <4> QED
        BY <2>2, <3>1, <4>1, <4>3 DEF Division
    <3> QED
      BY <1>1, <3>1, <3>2, <3>3 DEF Division
  <2> QED
    BY <2>1, <2>2 DEF End
<1>3. conversion' = "written" /\ next' = next + 1 /\ DOMAIN buf' = DOMAIN buf
  BY <1>2, WriteStep DEF End
<1>4. UNCHANGED <<n, f, base, foundNonzero, number, value, places>>
  BY DEF End
<1> QED
  BY <1>1, <1>2, <1>3, <1>4 DEF XtoaInv, XtoaType

-----------------------------------------------------------------------------
(* A pass of the loop.                                                     *)

\* What is left after the digit, as long as places are left.
LEMMA DivisionStep ==
  ASSUME NEW b \in Bases, NEW g \in Nat \ {0}, NEW m \in Nat, NEW v \in Nat,
         NEW x \in Nat, m < b * (b * g), x = v * (b * (b * g)) + m
  PROVE  LET q == m \div (b * g)
             rest == m - q * (b * g)
         IN  /\ q \in 0 .. b - 1
             /\ rest \in 0 .. b * g - 1
             /\ x = (v * b + q) * (b * g) + rest
<1> DEFINE h == b * g
           q == m \div h
           rest == m - q * h
<1>1. b \in Nat \ {0} /\ h \in Nat \ {0}
  BY DEF Bases
<1>2. m < b * h /\ x = v * (b * h) + m
  OBVIOUS
<1> HIDE DEF h
<1>3. q \in Nat /\ rest \in 0 .. h - 1
  BY <1>1, Quotient
<1>4. q < b
  BY <1>1, <1>2, QuotientBelow
<1>5. x = (v * b + q) * h + rest
  <2> HIDE DEF q
  <2>1. v * (b * h) = (v * b) * h
    BY <1>1
  <2>2. (v * b + q) * h = (v * b) * h + q * h
    BY <1>1, <1>3
  <2> QED
    BY <1>1, <1>2, <1>3, <2>1, <2>2
<1> QED
  BY <1>1, <1>3, <1>4, <1>5 DEF h

LEMMA BaseDivides ==
  ASSUME NEW b \in Bases, NEW g \in Nat
  PROVE  (b * g) \div b = g /\ 1 \div b = 0
  BY DEF Bases

LEMMA IterateStep == ASSUME XtoaInv, Iterate PROVE XtoaInv'
<1> DEFINE p == places
           q == n \div f
<1>1. /\ conversion = "digits" /\ f > 0
      /\ base \in Bases /\ p \in Nat /\ n \in Nat /\ f \in Nat /\ next \in Nat
      /\ number \in Nat /\ value \in Nat
      /\ next <= 1 + p /\ p <= NoPlaces
      /\ Division
  BY DEF XtoaInv, XtoaType, Iterate, Divide
<1>2. NoPlaces \in Nat \ {0} /\ NoPlaces + 2 <= BufLen /\ BufLen \in Nat
  BY <1>1, PlacesType DEF NoPlaces
<1>3. /\ p < NoPlaces
      /\ f = Places[base][p + 1]
      /\ n < base * f
      /\ number = value * (base * f) + n
  BY <1>1, <1>2 DEF Division
<1>4. q \in Nat /\ n - q * f \in 0 .. f - 1
  <2>1. f \in Nat \ {0}
    BY <1>1
  <2> QED
    BY <1>1, <2>1, Quotient
<1>5. /\ n' = n - q * f
      /\ f' = f \div base
      /\ value' = value * base + q
      /\ places' = p + 1
      /\ base' = base /\ number' = number
  BY DEF Iterate, Divide
<1>6. conversion' = "digits" /\ next' \in {next, next + 1} /\ DOMAIN buf' = DOMAIN buf
  <2>1. next < BufLen
    BY <1>1, <1>2, <1>3
  <2>2. CASE Write(Digits[q + 1], "digits")
    BY <2>1, <2>2, WriteStep
  <2>3. CASE UNCHANGED <<buf, next, conversion>>
    BY <1>1, <2>3
  <2> QED
    BY <2>2, <2>3 DEF Iterate, Divide
<1>7. foundNonzero' \in BOOLEAN
  BY DEF Iterate, Divide
<1>8. f' \in Nat /\ Division'
  <2>1. NoPlaces' = NoPlaces
    BY <1>5 DEF NoPlaces
  <2>2. CASE p + 1 < NoPlaces
    <3> DEFINE g == Places[base][p + 2]
    <3>1. p + 1 \in 1 .. NoPlaces - 1 /\ p + 2 \in 1 .. NoPlaces /\ (p + 1) + 1 = p + 2
      BY <1>1, <1>2, <2>2
    <3>2. g \in Nat \ {0} /\ f = base * g
      BY <1>1, <1>3, <3>1, PlacesType DEF NoPlaces
    <3> HIDE DEF g
    <3>3. f' = g
      BY <1>1, <1>5, <3>2, BaseDivides
    <3>4. n' \in 0 .. base * g - 1 /\ number = (value * base + q) * (base * g) + n'
      BY <1>1, <1>3, <1>5, <3>2, DivisionStep
    <3>5. n' < base' * f' /\ number' = value' * (base' * f') + n'
      BY <1>1, <1>5, <3>2, <3>3, <3>4 DEF Bases
    <3>6. f' = Places[base'][places' + 1]
      BY <1>5, <3>1, <3>3 DEF g
    <3> QED
      BY <1>5, <2>1, <2>2, <3>2, <3>3, <3>5, <3>6 DEF Division
  <2>3. CASE ~(p + 1 < NoPlaces)
    <3>1. p + 1 = NoPlaces
      BY <1>1, <1>2, <1>3, <2>3
    <3>2. f = 1
      BY <1>1, <1>3, <3>1, PlacesType DEF NoPlaces
    <3>3. f' = 0
      BY <1>1, <1>5, <3>2, BaseDivides
    <3>4. n' = 0 /\ n = q
      BY <1>1, <1>4, <1>5, <3>2
    <3>5. number' = value'
      BY <1>1, <1>3, <1>5, <3>2, <3>4 DEF Bases
    <3> QED
      BY <1>5, <2>1, <2>3, <3>3, <3>4, <3>5 DEF Division
  <2> QED
    BY <2>2, <2>3
<1>9. value' \in Nat /\ n' \in Nat /\ number' \in Nat /\ places' \in Nat
  BY <1>1, <1>4, <1>5 DEF Bases
<1>10. /\ NoPlaces' = NoPlaces /\ places' <= NoPlaces' /\ next' <= 1 + places'
       /\ next' <= BufLen /\ next' \in Nat /\ DOMAIN buf' = 0 .. BufLen - 1
  <2>1. NoPlaces' = NoPlaces
    BY <1>5 DEF NoPlaces
  <2>2. places' <= NoPlaces
    BY <1>1, <1>2, <1>3, <1>5
  <2>3. next' <= 1 + places' /\ next' <= BufLen /\ next' \in Nat
    BY <1>1, <1>2, <1>3, <1>5, <1>6
  <2>4. DOMAIN buf' = 0 .. BufLen - 1
    BY <1>6 DEF XtoaInv, XtoaType
  <2> QED
    BY <2>1, <2>2, <2>3, <2>4
<1>11. XtoaType'
  BY <1>1, <1>5, <1>6, <1>7, <1>8, <1>9, <1>10 DEF XtoaType
<1> QED
  BY <1>6, <1>8, <1>10, <1>11 DEF XtoaInv

-----------------------------------------------------------------------------
(* The theorems.                                                           *)

LEMMA XtoaInitially == XtoaInit => XtoaInv
<1> SUFFICES ASSUME XtoaInit PROVE XtoaInv
  OBVIOUS
<1>1. DOMAIN buf = 0 .. BufLen - 1
  BY DEF XtoaInit
<1>2. foundNonzero \in BOOLEAN
  BY DEF XtoaInit
<1>3. /\ conversion = "none" /\ base \in Bases
      /\ number \in Nat /\ value \in Nat /\ places \in Nat
      /\ n \in Nat /\ f \in Nat /\ next \in Nat /\ next <= BufLen
  BY XtoaAssumption DEF XtoaInit, Bases
<1> QED
  BY <1>1, <1>2, <1>3 DEF XtoaInv, XtoaType

LEMMA XtoaStep == XtoaInv /\ [XtoaNext]_xtoaVars => XtoaInv'
<1> SUFFICES ASSUME XtoaInv, [XtoaNext]_xtoaVars PROVE XtoaInv'
  OBVIOUS
<1>1. CASE \E i \in Numbers : bsl_itoa(i)
  BY <1>1, ConversionBegins DEF Bases
<1>2. CASE \E i \in Numbers, b \in Bases : bsl_utoa(i, b)
  BY <1>2, ConversionBegins
<1>3. CASE Zero
  BY <1>3, ZeroStep
<1>4. CASE Iterate
  BY <1>4, IterateStep
<1>5. CASE End
  BY <1>5, EndStep
<1>6. CASE Printed
  BY <1>6 DEF Printed, XtoaInv, XtoaType, locals
<1>7. CASE Disturbed
  <2>1. DOMAIN buf' = DOMAIN buf
    BY <1>7 DEF Disturbed
  <2> QED
    BY <1>7, <2>1 DEF Disturbed, XtoaInv, XtoaType, Division, NoPlaces, locals
<1>8. CASE UNCHANGED xtoaVars
  BY <1>8 DEF xtoaVars, XtoaInv, XtoaType, Division, NoPlaces, locals
<1> QED
  BY <1>1, <1>2, <1>3, <1>4, <1>5, <1>6, <1>7, <1>8 DEF XtoaNext

\* XtoaInv holds for every sequence of numbers and every interruption.
THEOREM XtoaInvariant == XtoaSpec => []XtoaInv
  BY XtoaInitially, XtoaStep, PTL DEF XtoaSpec

\* BufferNeverLeft: bsl_itoa and bsl_utoa stay within buf (bsl_COut.c:29-30).
THEOREM BufferNeverLeft == XtoaSpec => []InBuffer
<1>1. XtoaInv => InBuffer
  BY DEF XtoaInv, XtoaType, InBuffer
<1> QED
  BY <1>1, XtoaInvariant, PTL

\* DigitsExact: the loop of bsl_utoa ends when the digits stand for the number.
THEOREM DigitsExact == XtoaSpec => []Exact
<1>1. XtoaInv => Exact
  BY DEF XtoaInv, Exact
<1> QED
  BY <1>1, XtoaInvariant, PTL

=============================================================================
