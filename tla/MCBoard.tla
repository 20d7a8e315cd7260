------------------------------- MODULE MCBoard -------------------------------
(***************************************************************************)
(* The four test mains, every kind of number on the console, and sections  *)
(* with interrupts off in a program that a handler interrupts.             *)
(***************************************************************************)
EXTENDS Board, TestMains

MCPlaces ==
  10 :> [k \in 1 .. 9 |-> 10^(9 - k)] @@ 16 :> [k \in 1 .. 7 |-> 16^(7 - k)]

\* Around the powers of each base, with zeros inside, and at the ends.
Values ==
  <<0, 7, 9, 10, 11, 99, 100, 101, 15, 16, 17, 255, 256, 4080, 65537, 1000000,
    9999999, 100000000, 16777216, 234567890, 2^27 - 1, 2^27, 2^28 - 1>>

Conversions ==
  <<<<"Hal_Init">>>>
  \o [i \in 1 .. Len(Values) |-> <<"PutU", Values[i]>>]
  \o [i \in 1 .. Len(Values) |-> <<"PutX", Values[i]>>]
  \o [i \in 1 .. Len(Values) - 2 |-> <<"PutI", Values[i]>>]
  \o [i \in 1 .. Len(Values) - 1 |-> <<"PutI", -Values[i]>>]

Section(calls) ==
  <<<<"Interrupt_SaveAndDisable">>>> \o calls \o <<<<"Interrupt_Restore">>>>

\* A section in a section, with numbers longer and shorter than the handler's,
\* then one while interrupts are disabled anyway, and numbers outside of all.
Sections ==
  <<<<"Hal_Init">>, <<"Interrupt_Enable">>>>
  \o Section(<<<<"PutI", -30705>>>> \o Section(<<<<"PutU", 8>>>>)
             \o <<<<"PutX", \h10A0>>>>)
  \o <<<<"PutU", 90210>>, <<"Interrupt_Disable">>>>
  \o Section(<<<<"PutI", 64>>>>)
  \o <<<<"Interrupt_Enable">>, <<"PutI", -1>>>>

MCTests == {"tvmstack", "tout", "TestCout", "hal_TestInterman0"}

MCPrograms ==
  [p \in MCTests \cup {"Conversions", "Sections"} |->
     CASE p = "tvmstack" -> tvmstack
       [] p = "tout" -> tout
       [] p = "TestCout" -> TestCout
       [] p = "hal_TestInterman0" -> hal_TestInterman0
       [] p = "Conversions" -> Conversions
       [] p = "Sections" -> Sections]

\* What the programs print of numbers, or find on the stack.
MCNumbers ==
  0 .. 9 \cup UNION {{MCPrograms[p][i][2] : i \in
    {j \in 1 .. Len(MCPrograms[p]) : MCPrograms[p][j][1] \in {"PutI", "PutU", "PutX"}}} :
       p \in DOMAIN MCPrograms}

MCEventText == <<"4", "0", "9">>
=============================================================================
