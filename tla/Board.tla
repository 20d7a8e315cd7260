-------------------------------- MODULE Board --------------------------------
(***************************************************************************)
(* A board that runs one of the test mains of the repository, or any other *)
(* sequence of calls to the console, the operand stack and the interrupt   *)
(* manager: hal.c, hal_Out.c and bsl_COut.c over the conversions of Xtoa,  *)
(* Stack_Print over VMStack, and hal_interman.c.                           *)
(*                                                                         *)
(* A call is a pair of its name and its argument.  A call that makes other *)
(* calls puts them in front of those its caller has left.                  *)
(*                                                                         *)
(* A text is a sequence of tokens, cut where the program puts it together: *)
(* a number is one token for each character, a literal may be one token.   *)
(*                                                                         *)
(* No module of the repository has a handler of an interrupt, though the   *)
(* interrupt manager is there to hold handlers off.  Programs in           *)
(* Interrupted have one: it prints a number on the console, which takes it *)
(* as long as main is not running, and so is one step.                     *)
(***************************************************************************)
EXTENDS Xtoa, SequencesExt

CONSTANTS
  SiLen,         \* as in VMStack
  WordBits,      \* as in VMStack and Console
  Programs,      \* for each name, a sequence of calls
  Tests,         \* the names of those whose output AUnit judges
  Interrupted,   \* the names of those that a handler may interrupt
  EventText,     \* the number that the handler prints
  MaxInterrupts  \* bound on the number of interrupts

ASSUME BoardAssumption ==
  /\ Word = 2^WordBits
  /\ SiLen \in 1 .. 127
  /\ EventText \in Seq({"-"} \cup {Digits[d] : d \in 1 .. 16})
  /\ Len(EventText) < BufLen
  /\ \A p \in DOMAIN Programs : Programs[p] \in Seq(Range(Programs[p]))

\* Sections that the first i calls of a program open and do not close.
Opened(calls, i) ==
  Cardinality({j \in 1 .. i : calls[j][1] = "Interrupt_SaveAndDisable"})
  - Cardinality({j \in 1 .. i : calls[j][1] = "Interrupt_Restore"})

\* What a program owes to the interrupt manager, which checks nothing: it
\* restores only what it saved, and enables interrupts outside of sections.
WellPaired(calls) ==
  \A i \in 1 .. Len(calls) :
    /\ calls[i][1] = "Interrupt_Restore" => Opened(calls, i - 1) > 0
    /\ calls[i][1] = "Interrupt_Enable" => Opened(calls, i - 1) = 0

ASSUME SectionsAssumption == \A p \in DOMAIN Programs : WellPaired(Programs[p])

\* The top of the stack after a call, and after the first i calls of a program.
TopAfter(call, top) ==
  IF call = "Stack_New" THEN -1
  ELSE IF call \in {"Stack_Push", "Stack_Push_top", "Stack_dup"} THEN top + 1
  ELSE IF call \in {"Stack_Pop", "Stack_add", "Stack_sub", "Stack_mul"} THEN top - 1
  ELSE top

Tops(calls) ==
  LET top[i \in 0 .. Len(calls)] ==
        IF i = 0 THEN 0 ELSE TopAfter(calls[i][1], top[i - 1])
  IN  top

\* What a program owes to the stack, which checks nothing either: it pushes no
\* more than the cells take and pops no more than it pushed.
WellStacked(calls) ==
  \A i \in 1 .. Len(calls) : Tops(calls)[i] \in -1 .. SiLen - 1

\* The loop of Stack_Print is in Stack_Print only.
ASSUME CellsAssumption ==
  \A p \in DOMAIN Programs :
    /\ WellStacked(Programs[p])
    /\ \A i \in 1 .. Len(Programs[p]) : Programs[p][i][1] # "while_MoveNext"

VARIABLES
  name,          \* the program
  todo,          \* its calls that have not returned
  vmOut,         \* the console has been set up
  s,             \* struct VMStackDesc
  index,         \* of stackEnumtorDesc
  sregI,         \* bit I of SREG: interrupts are enabled
  saves,         \* what main has saved of SREG and not restored
  sent,          \* characters that the call that prints buf has sent
  out,           \* what has gone to the line
  handled        \* number of interrupts

boardVars == <<name, todo, vmOut, s, index, sregI, saves, sent, out, handled>>
vars      == <<xtoaVars, boardVars>>

S   == INSTANCE VMStack
Con == INSTANCE Console WITH Printf <- FALSE

\* The values of f are powers of the base, the ten and the eight that
\* bsl_utoa starts with or the last of them.  Those left out would only
\* divide zeros off a word.
ASSUME PlacesAssumption ==
  \A b \in Bases :
    /\ Len(Places[b]) <= Con!HighestPlace(b) + 1
    /\ \A k \in 0 .. Con!HighestPlace(b) :
         IF k < Len(Places[b]) THEN Places[b][Len(Places[b]) - k] = b^k
                               ELSE Word <= b^k

Unit == INSTANCE AUnit WITH
          MaxCharactersInLine <- 256,
          MaxLinesToTest      <- 9,
          Newline             <- "\n",
          TestWord            <- <<"Test">>,
          Less                <- "<",
          DigitOf             <- [d \in {Digits[k] : k \in 1 .. 10} |->
                                    (CHOOSE k \in 1 .. 10 : Digits[k] = d) - 1]

Init ==
  /\ XtoaInit
  /\ name \in DOMAIN Programs
  /\ todo = Programs[name]
  /\ vmOut = FALSE
  /\ s = [si |-> [i \in 0 .. SiLen - 1 |-> 0], bp |-> 0, sp |-> 0, capacity |-> 0]
  /\ index = 0
  /\ sregI = FALSE
  /\ saves = << >>
  /\ sent = << >>
  /\ out = << >>
  /\ handled = 0

-----------------------------------------------------------------------------
(* Calls.                                                                  *)

Calls(call) ==
  /\ todo # << >>
  /\ Head(todo)[1] = call
  /\ conversion = "none"
  /\ UNCHANGED <<name, handled>>

Arg == Head(todo)[2]

Then(calls) == todo' = calls \o Tail(todo)
Return      == Then(<< >>)

\* The UART is set up, by the first call only.
Out_GetFactory == vmOut' = TRUE

Hal_Init ==
  /\ Calls("Hal_Init")
  /\ Out_GetFactory
  /\ Return
  /\ UNCHANGED <<xtoaVars, s, index, sregI, saves, sent, out>>

\* Sends tokens that need no conversion.
Tx(call, tokens) ==
  /\ Calls(call)
  /\ vmOut
  /\ out' = out \o tokens
  /\ Return
  /\ UNCHANGED <<xtoaVars, vmOut, s, index, sregI, saves, sent>>

Status(bit) == <<IF bit THEN "[e]" ELSE "[d]">>

Put ==
  \/ Tx("PutB", <<IF Arg # 0 THEN "T" ELSE "F">>)
  \/ Tx("PutC", <<Arg>>)
  \/ Tx("PutS", Arg)
  \/ Tx("PutN", <<"\n">>)
  \/ Tx("PutS_GetStatusReg", Status(sregI))
  \/ Tx("PutS_saveStatus", Status(Last(saves)))

-----------------------------------------------------------------------------
(* Numbers: into buf, and from there to the line until a zero is met.      *)

PutNumber ==
  /\ \/ Calls("PutI") /\ bsl_itoa(Arg)
     \/ Calls("PutU") /\ bsl_utoa(Arg, 10)
     \/ Calls("PutX") /\ bsl_utoa(Arg, 16)
  /\ vmOut
  /\ sent' = << >>
  /\ UNCHANGED <<todo, vmOut, s, index, sregI, saves, out>>

Convert == (Zero \/ Iterate \/ End) /\ UNCHANGED boardVars

\* The character of buf that comes next.
Character == buf[Len(sent)]

COut_PutS ==
  /\ conversion = "written"
  /\ IF Character = Null
       THEN Printed /\ Return /\ UNCHANGED <<sent, out>>
       ELSE /\ sent' = Append(sent, Character)
            /\ out' = Append(out, Character)
            /\ UNCHANGED <<xtoaVars, todo>>
  /\ UNCHANGED <<name, vmOut, s, index, sregI, saves, handled>>

-----------------------------------------------------------------------------
(* The operand stack.                                                      *)

Stack(call, t) ==
  /\ Calls(call)
  /\ s' = t
  /\ Return
  /\ UNCHANGED <<xtoaVars, vmOut, index, sregI, saves, sent, out>>

StackFunctions ==
  \/ Stack("Stack_New", S!Stack_New(s, SiLen))
  \/ Stack("Stack_Push", S!Stack_Push(s, Arg))
  \/ Stack("Stack_Push_top", S!Stack_Push(s, S!Stack_top(s) + Arg))
  \/ Stack("Stack_Pop", S!Stack_Pop(s))
  \/ Stack("Stack_dup", S!Stack_dup(s))
  \/ Stack("Stack_add", S!Stack_add(s))
  \/ Stack("Stack_sub", S!Stack_sub(s))
  \/ Stack("Stack_mul", S!Stack_mul(s))

Enumtor(call, i, calls) ==
  /\ Calls(call)
  /\ index' = i
  /\ Then(calls)
  /\ UNCHANGED <<xtoaVars, vmOut, s, sregI, saves, sent, out>>

Stack_GetEnumerator ==
  Enumtor("Stack_GetEnumerator", S!StackEnumtor_Reset(s), << >>)

Stack_Print ==
  \/ Enumtor("Stack_Print", S!StackEnumtor_Reset(s),
             <<<<"PutC", "[">>, <<"while_MoveNext">>>>)
  \/ Enumtor("while_MoveNext", index - 1,
             IF S!StackEnumtor_HasNext(index)
               THEN <<<<"PutS", <<" ">>>>,
                      <<"PutX", S!StackEnumtor_Current(s, index - 1)>>,
                      <<"while_MoveNext">>>>
               ELSE <<<<"PutS", <<" ", "]">>>>>>)

-----------------------------------------------------------------------------
(* The interrupt manager.  Disable and Enable read sixteen bits at SREG    *)
(* and write them back.  Of these only bit I is modelled.  They write it   *)
(* with a constant, whatever they read, so that one step stands for both   *)
(* accesses.  SaveAndDisable keeps what it read: its read is a step, and   *)
(* the call of Disable another.                                            *)

SetI(call, bit, rest, calls) ==
  /\ Calls(call)
  /\ sregI' = bit
  /\ saves' = rest
  /\ Then(calls)
  /\ UNCHANGED <<xtoaVars, vmOut, s, index, sent, out>>

Interrupt_Enable  == SetI("Interrupt_Enable", TRUE, saves, << >>)
Interrupt_Disable == SetI("Interrupt_Disable", FALSE, saves, << >>)

\* Mutant of Interrupt_SaveAndDisable: disabled first, and saved then.
Interrupt_DisableAndSave ==
  SetI("Interrupt_SaveAndDisable", FALSE, Append(saves, FALSE), << >>)

\* Mutant of Interrupt_SaveAndDisable: the other function is called.
Interrupt_SaveAndEnable ==
  SetI("Interrupt_SaveAndDisable", sregI, Append(saves, sregI),
       <<<<"Interrupt_Enable">>>>)

\* Saved, and then disabled by a call of the function for that.
Interrupt_SaveAndDisable ==
  SetI("Interrupt_SaveAndDisable", sregI, Append(saves, sregI),
       <<<<"Interrupt_Disable">>>>)

\* Mutant of Interrupt_Restore: interrupts are enabled whatever was saved.
Interrupt_RestoreEnabled == SetI("Interrupt_Restore", TRUE, Front(saves), << >>)

Interrupt_Restore == SetI("Interrupt_Restore", Last(saves), Front(saves), << >>)

Interman ==
  \/ Interrupt_Enable
  \/ Interrupt_Disable
  \/ Interrupt_SaveAndDisable
  \/ Interrupt_Restore

\* buf after the handler has printed its number.
Overwritten ==
  LET len == Len(EventText)
  IN  [i \in DOMAIN buf |-> IF i < len THEN EventText[i + 1]
                            ELSE IF i = len THEN Null ELSE buf[i]]

HandlerRuns ==
  /\ name \in Interrupted
  /\ todo # << >>
  /\ sregI
  /\ vmOut
  /\ handled < MaxInterrupts
  /\ handled' = handled + 1
  /\ buf' = Overwritten
  /\ out' = out \o EventText
  /\ UNCHANGED <<n, f, base, foundNonzero, number, value, places, conversion,
                 name, todo, vmOut, s, index, sregI, saves, sent>>

\* Mutant of Interrupt: next is static, as buf is, and the handler moves it.
InterruptStatic == HandlerRuns /\ next' = Len(EventText)

Interrupt == HandlerRuns /\ UNCHANGED next

-----------------------------------------------------------------------------

Step ==
  \/ Hal_Init
  \/ Put
  \/ PutNumber
  \/ Convert
  \/ COut_PutS
  \/ StackFunctions
  \/ Stack_GetEnumerator
  \/ Stack_Print
  \/ Interman

Next == Step \/ Interrupt

\* The processor goes on, and the line takes what it is given.
Spec == Init /\ [][Next]_vars /\ WF_vars(Step)

-----------------------------------------------------------------------------
(* TypeOK: the stack and its enumerator stay within the cells, and the     *)
(* manager never restores what was not saved.                              *)
TypeOK ==
  /\ s.sp \in -1 .. SiLen - 1
  /\ index \in -1 .. SiLen
  /\ sregI \in BOOLEAN
  /\ \A i \in 1 .. Len(saves) : saves[i] \in BOOLEAN
  /\ vmOut \in BOOLEAN
  /\ Len(sent) < BufLen

(* MainsPass: each main prints a title, what it should print, and what the *)
(* functions it tests make of it; AUnit finds no difference.               *)
MainsPass == name \in Tests /\ todo = << >> => Unit!OneTestOK(out)

(* Shown: a number has gone to the line when the zero behind it is met.    *)
(* It is the numeral of the number that the call was given, although buf   *)
(* is shared by all calls (bsl_COut.c:29), if nobody interrupts or the     *)
(* call is made between SaveAndDisable and Restore.                        *)
Codes(chars) ==
  [i \in 1 .. Len(chars) |->
     IF chars[i] = "-" THEN 45
     ELSE Con!Digit((CHOOSE k \in 1 .. 16 : Digits[k] = chars[i]) - 1)]

Numeral(call) ==
  CASE call[1] = "PutI" -> Con!PutI(call[2])
    [] call[1] = "PutU" -> Con!PutU(call[2])
    [] call[1] = "PutX" -> Con!PutX(call[2])

Shown ==
  /\ conversion = "written"
  /\ Character = Null
  /\ name \in Interrupted => saves # << >>
  => Codes(sent) = Numeral(Head(todo))

(* CallsProper: what the functions rely on, which check nothing           *)
(* themselves: numbers fit in a word, no call enables interrupts in a      *)
(* section, and none restores what was not saved, also among the calls     *)
(* that functions make of each other (hal_interman.c:23-33).  A negative   *)
(* number in base 16 has eight digits, so it is given to whole words only. *)
NumbersGiven ==
  todo # << >> /\ Head(todo)[1] \in {"PutI", "PutU", "PutX"} =>
    /\ Arg \in Numbers
    /\ Head(todo)[1] = "PutX" /\ Arg < 0 => WordBits = 32

SectionsPaired ==
  todo # << >> =>
    /\ Head(todo)[1] = "Interrupt_Enable" => saves = << >>
    /\ Head(todo)[1] = "Interrupt_Restore" => saves # << >>

CallsProper == NumbersGiven /\ SectionsPaired

(* SectionClosed: from SaveAndDisable to the Restore that belongs to it    *)
(* interrupts stay disabled, also when other sections begin and end in     *)
(* between (hal_interman.c:23-33).                                         *)
SectionClosed ==
  saves # << >> => ~sregI \/ Head(todo)[1] = "Interrupt_Disable"

(* Converts: whatever the board does, the conversion of a number goes on   *)
(* as in Xtoa: what is proved of it holds on the board.  A handler that    *)
(* converts a number of its own has its own locals, and only buf in        *)
(* common.                                                                 *)
Converts == XtoaSpec

(* Ends: every call returns: the loops over the places of a number, over   *)
(* the characters of a text and over the cells of the stack end.           *)
Ends == <>(todo = << >>)
=============================================================================
