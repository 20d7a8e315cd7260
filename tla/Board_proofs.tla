---------------------------- MODULE Board_proofs ----------------------------
(***************************************************************************)
(* Proofs about Board, for every set of programs, every number that a      *)
(* handler prints and every width that the assumptions allow: sections     *)
(* with interrupts disabled, the buffer that all numbers go through and    *)
(* what of it reaches the line, and the registers of the stack.            *)
(***************************************************************************)
EXTENDS Board, Xtoa_proofs, SequenceTheorems, FiniteSetTheorems

-----------------------------------------------------------------------------
(* The calls that are left: each step takes the first one off, or puts     *)
(* those that it makes in its place.  While a number is converted or sent, *)
(* the call that prints it is the first.                                   *)

NumberCalls == {"PutI", "PutU", "PutX"}

Listed == todo \in Seq(Range(todo))

Converting ==
  conversion # "none" => todo # << >> /\ Head(todo)[1] \in NumberCalls

CallInv == Listed /\ Converting

LEMMA ListedAs == ASSUME NEW T, NEW l \in Seq(T) PROVE l \in Seq(Range(l))
<1>1. Len(l) \in Nat /\ DOMAIN l = 1 .. Len(l) /\ l = [i \in 1 .. Len(l) |-> l[i]]
  OBVIOUS
<1>2. l \in [1 .. Len(l) -> Range(l)]
  BY <1>1 DEF Range
<1> QED
  BY <1>1, <1>2

LEMMA ListsJoin ==
  ASSUME NEW T, NEW U, NEW l \in Seq(T), NEW m \in Seq(U)
  PROVE  l \o m \in Seq(Range(l \o m))
<1>1. l \in Seq(T \cup U) /\ m \in Seq(T \cup U)
  OBVIOUS
<1>2. l \o m \in Seq(T \cup U)
  BY <1>1
<1> QED
  BY <1>2, ListedAs

-----------------------------------------------------------------------------
(* Calls that are paired when k sections are open: d counts the sections   *)
(* after each of them.                                                     *)

Pairing == {"Interrupt_SaveAndDisable", "Interrupt_Restore", "Interrupt_Enable"}

Change(call) ==
  IF call = "Interrupt_SaveAndDisable" THEN 1
  ELSE IF call = "Interrupt_Restore" THEN -1 ELSE 0

Counts(l, k, d) ==
  /\ d[0] = k
  /\ \A i \in 1 .. Len(l) :
       /\ d[i] = d[i - 1] + Change(l[i][1])
       /\ l[i][1] = "Interrupt_Restore" => d[i - 1] > 0
       /\ l[i][1] = "Interrupt_Enable" => d[i - 1] = 0

PairedFrom(l, k) == \E d \in [0 .. Len(l) -> Int] : Counts(l, k, d)

UpTo(l, c, m) == {j \in 1 .. m : l[j][1] = c}

LEMMA OneMore ==
  ASSUME NEW l, NEW c, NEW i \in Nat \ {0}
  PROVE  /\ Cardinality(UpTo(l, c, i)) \in Nat
         /\ Cardinality(UpTo(l, c, i - 1)) \in Nat
         /\ Cardinality(UpTo(l, c, i)) =
              Cardinality(UpTo(l, c, i - 1)) + IF l[i][1] = c THEN 1 ELSE 0
<1> DEFINE upTo(m) == UpTo(l, c, m)
<1>1. upTo(i) \subseteq 1 .. i /\ upTo(i - 1) \subseteq 1 .. i
  BY DEF UpTo
<1>2. IsFiniteSet(1 .. i)
  BY FS_Interval
<1>3. IsFiniteSet(upTo(i)) /\ IsFiniteSet(upTo(i - 1))
  BY <1>1, <1>2, FS_Subset
<1>4. Cardinality(upTo(i)) \in Nat /\ Cardinality(upTo(i - 1)) \in Nat
  BY <1>3, FS_CardinalityType
<1>5. CASE l[i][1] = c
  <2>1. upTo(i) = upTo(i - 1) \cup {i} /\ i \notin upTo(i - 1)
    BY <1>5 DEF UpTo
  <2>2. Cardinality(upTo(i - 1) \cup {i}) = Cardinality(upTo(i - 1)) + 1
    BY <1>3, <2>1, FS_AddElement
  <2> QED
    BY <1>4, <1>5, <2>1, <2>2
<1>6. CASE l[i][1] # c
  <2>1. upTo(i) = upTo(i - 1)
    BY <1>6 DEF UpTo
  <2> QED
    BY <1>4, <1>6, <2>1
<1> QED
  BY <1>4, <1>5, <1>6

LEMMA OpenedStep ==
  ASSUME NEW l, NEW i \in Nat \ {0}
  PROVE  /\ Opened(l, i) \in Int
         /\ Opened(l, i - 1) \in Int
         /\ Opened(l, i) = Opened(l, i - 1) + Change(l[i][1])
<1>1. \A m : Opened(l, m) = Cardinality(UpTo(l, "Interrupt_SaveAndDisable", m))
                           - Cardinality(UpTo(l, "Interrupt_Restore", m))
  BY DEF Opened, UpTo
<1>2. "Interrupt_SaveAndDisable" # "Interrupt_Restore"
  OBVIOUS
<1> QED
  BY <1>1, <1>2, OneMore DEF Change

\* Counted from the beginning.
LEMMA PairedProgram ==
  ASSUME NEW T, NEW l \in Seq(T), WellPaired(l)
  PROVE  PairedFrom(l, 0)
<1> DEFINE d == [i \in 0 .. Len(l) |-> Opened(l, i)]
<1>1. Len(l) \in Nat
  OBVIOUS
<1>2. Opened(l, 0) = 0
  <2>1. 1 .. 0 = {}
    OBVIOUS
  <2>2. \A c : {j \in 1 .. 0 : l[j][1] = c} = {}
    BY <2>1
  <2> QED
    BY <2>2, FS_EmptySet DEF Opened
<1>3. \A i \in 0 .. Len(l) : Opened(l, i) \in Int
  BY <1>1, <1>2, OpenedStep
<1>4. d \in [0 .. Len(l) -> Int]
  BY <1>3
<1>5. \A i \in 1 .. Len(l) :
        i - 1 \in 0 .. Len(l) /\ Opened(l, i) = Opened(l, i - 1) + Change(l[i][1])
  BY <1>1, OpenedStep
<1>6. Counts(l, 0, d)
  BY <1>1, <1>2, <1>5 DEF Counts, WellPaired
<1> QED
  BY <1>4, <1>6 DEF PairedFrom

\* Without the first.
LEMMA PairedTail ==
  ASSUME NEW T, NEW l \in Seq(T), l # << >>, NEW k \in Int, PairedFrom(l, k)
  PROVE  /\ PairedFrom(Tail(l), k + Change(Head(l)[1]))
         /\ Head(l)[1] = "Interrupt_Restore" => k > 0
         /\ Head(l)[1] = "Interrupt_Enable" => k = 0
<1>1. PICK d \in [0 .. Len(l) -> Int] : Counts(l, k, d)
  BY DEF PairedFrom
<1>2. /\ Len(l) \in Nat \ {0}
      /\ Len(Tail(l)) = Len(l) - 1
      /\ \A i \in 1 .. Len(l) - 1 : Tail(l)[i] = l[i + 1]
      /\ Head(l) = l[1]
  OBVIOUS
<1> DEFINE e == [i \in 0 .. Len(l) - 1 |-> d[i + 1]]
<1>3. e \in [0 .. Len(Tail(l)) -> Int]
  BY <1>2
<1>4. e[0] = k + Change(Head(l)[1])
  BY <1>1, <1>2 DEF Counts
<1>5. ASSUME NEW i \in 1 .. Len(l) - 1
      PROVE  /\ e[i] = e[i - 1] + Change(Tail(l)[i][1])
             /\ Tail(l)[i][1] = "Interrupt_Restore" => e[i - 1] > 0
             /\ Tail(l)[i][1] = "Interrupt_Enable" => e[i - 1] = 0
  <2>1. i + 1 \in 1 .. Len(l) /\ (i + 1) - 1 = i /\ (i - 1) + 1 = i /\ i - 1 \in 0 .. Len(l) - 1
    BY <1>2
  <2>2. e[i] = d[i + 1] /\ e[i - 1] = d[i] /\ Tail(l)[i] = l[i + 1]
    BY <1>2, <2>1
  <2> QED
    BY <1>1, <2>1, <2>2 DEF Counts
<1>6. Counts(Tail(l), k + Change(Head(l)[1]), e)
  BY <1>2, <1>4, <1>5 DEF Counts
<1>7. PairedFrom(Tail(l), k + Change(Head(l)[1]))
  BY <1>3, <1>6 DEF PairedFrom
<1>8. 1 \in 1 .. Len(l) /\ 1 - 1 = 0 /\ d[0] = k
  BY <1>1, <1>2 DEF Counts
<1> QED
  BY <1>1, <1>2, <1>7, <1>8 DEF Counts

\* Behind others that open and close nothing.
LEMMA PairedJoin ==
  ASSUME NEW T, NEW U, NEW l \in Seq(T), NEW m \in Seq(U), NEW k \in Int,
         PairedFrom(l, k), \A i \in 1 .. Len(m) : m[i][1] \notin Pairing
  PROVE  PairedFrom(m \o l, k)
<1>1. PICK d \in [0 .. Len(l) -> Int] : Counts(l, k, d)
  BY DEF PairedFrom
<1> DEFINE a == Len(m)
           j == m \o l
           e == [i \in 0 .. a + Len(l) |-> IF i <= a THEN k ELSE d[i - a]]
<1>2. /\ Len(l) \in Nat /\ a \in Nat /\ Len(j) = a + Len(l)
      /\ \A i \in 1 .. a : j[i] = m[i]
      /\ \A i \in a + 1 .. a + Len(l) : j[i] = l[i - a]
  OBVIOUS
<1> HIDE DEF a, j
<1>3. e \in [0 .. Len(j) -> Int] /\ e[0] = k
  BY <1>2
<1>4. ASSUME NEW i \in 1 .. a + Len(l)
      PROVE  /\ e[i] = e[i - 1] + Change(j[i][1])
             /\ j[i][1] = "Interrupt_Restore" => e[i - 1] > 0
             /\ j[i][1] = "Interrupt_Enable" => e[i - 1] = 0
  <2>1. CASE i <= a
    <3>1. i \in 1 .. a /\ e[i] = k /\ e[i - 1] = k
      BY <1>2, <2>1
    <3>2. j[i][1] \notin Pairing
      BY <1>2, <3>1 DEF a
    <3> QED
      BY <3>1, <3>2 DEF Pairing, Change
  <2>2. CASE i > a
    <3>1. i - a \in 1 .. Len(l) /\ (i - a) - 1 \in 0 .. Len(l) /\ i - 1 \in 0 .. a + Len(l)
      BY <1>2, <2>2
    <3>2. e[i] = d[i - a] /\ j[i] = l[i - a]
      BY <1>2, <2>2
    <3>3. e[i - 1] = d[(i - a) - 1]
      <4>1. CASE i - 1 = a
        <5>1. (i - a) - 1 = 0
          BY <1>2, <4>1
        <5> QED
          BY <1>1, <1>2, <3>1, <4>1, <5>1 DEF Counts
      <4>2. CASE i - 1 > a
        <5>1. (i - 1) - a = (i - a) - 1
          BY <1>2
        <5> QED
          BY <1>2, <3>1, <4>2, <5>1
      <4> QED
        BY <1>2, <2>2, <4>1, <4>2
    <3> QED
      BY <1>1, <3>1, <3>2, <3>3 DEF Counts
  <2> QED
    BY <1>2, <2>1, <2>2
<1>5. Counts(j, k, e)
  BY <1>2, <1>3, <1>4 DEF Counts
<1> QED
  BY <1>3, <1>5 DEF PairedFrom, j

-----------------------------------------------------------------------------
(* The calls that are left: each step takes the first one off, or puts     *)
(* those that it makes in its place, which open and close no section.      *)

PairingKept ==
  \A k \in Int : PairedFrom(Tail(todo), k) => PairedFrom(todo', k)

Quiet(calls) ==
  /\ \E U : calls \in Seq(U)
  /\ \A i \in 1 .. Len(calls) : calls[i][1] \notin Pairing

LEMMA QuietLists ==
  /\ Quiet(<< >>)
  /\ \A a : a[1] \notin Pairing => Quiet(<<a>>)
  /\ \A a, b : a[1] \notin Pairing /\ b[1] \notin Pairing => Quiet(<<a, b>>)
  /\ \A a, b, c : a[1] \notin Pairing /\ b[1] \notin Pairing /\ c[1] \notin Pairing
                 => Quiet(<<a, b, c>>)
<1>1. Quiet(<< >>)
  <2>1. << >> \in Seq({}) /\ Len(<< >>) = 0
    OBVIOUS
  <2> QED
    BY <2>1 DEF Quiet
<1>2. ASSUME NEW a, a[1] \notin Pairing PROVE Quiet(<<a>>)
  <2>1. <<a>> \in Seq({a}) /\ Len(<<a>>) = 1
    OBVIOUS
  <2>2. \A i \in 1 .. Len(<<a>>) : <<a>>[i] \in {a}
    BY <2>1
  <2>3. \A x \in {a} : x[1] \notin Pairing
    BY <1>2
  <2> QED
    BY <2>1, <2>2, <2>3 DEF Quiet
<1>3. ASSUME NEW a, NEW b, a[1] \notin Pairing, b[1] \notin Pairing
      PROVE  Quiet(<<a, b>>)
  <2>1. <<a, b>> \in Seq({a, b}) /\ Len(<<a, b>>) = 2
    OBVIOUS
  <2>2. \A i \in 1 .. Len(<<a, b>>) : <<a, b>>[i] \in {a, b}
    BY <2>1
  <2>3. \A x \in {a, b} : x[1] \notin Pairing
    BY <1>3
  <2> QED
    BY <2>1, <2>2, <2>3 DEF Quiet
<1>4. ASSUME NEW a, NEW b, NEW c, a[1] \notin Pairing, b[1] \notin Pairing, c[1] \notin Pairing
      PROVE  Quiet(<<a, b, c>>)
  <2>1. <<a, b, c>> \in Seq({a, b, c}) /\ Len(<<a, b, c>>) = 3
    OBVIOUS
  <2>2. \A i \in 1 .. Len(<<a, b, c>>) : <<a, b, c>>[i] \in {a, b, c}
    BY <2>1
  <2>3. \A x \in {a, b, c} : x[1] \notin Pairing
    BY <1>4
  <2> QED
    BY <2>1, <2>2, <2>3 DEF Quiet
<1> QED
  BY <1>1, <1>2, <1>3, <1>4

LEMMA ThenListed ==
  ASSUME Listed, todo # << >>, NEW calls, Quiet(calls), Then(calls)
  PROVE  Listed' /\ PairingKept
<1>0. PICK U : calls \in Seq(U) /\ \A i \in 1 .. Len(calls) : calls[i][1] \notin Pairing
  BY DEF Quiet
<1>1. Tail(todo) \in Seq(Range(todo))
  BY DEF Listed
<1> DEFINE l == calls \o Tail(todo)
<1>2. l \in Seq(Range(l))
  BY <1>0, <1>1, ListsJoin
<1>3. todo' = l
  BY DEF Then
<1>4. \A k \in Int : PairedFrom(Tail(todo), k) => PairedFrom(l, k)
  BY <1>0, <1>1, PairedJoin
<1> QED
  BY <1>2, <1>3, <1>4 DEF Listed, PairingKept

LEMMA ReturnListed ==
  ASSUME Listed, todo # << >>, Return PROVE Listed' /\ PairingKept
  BY QuietLists, ThenListed DEF Return

-----------------------------------------------------------------------------
(* The steps that leave the conversion of numbers alone.                   *)

ManagerCalls == Pairing \cup {"Interrupt_Disable"}

Elsewhere ==
  /\ todo # << >>
  /\ conversion = "none"
  /\ UNCHANGED <<xtoaVars, sent>>
  /\ Listed'
  /\ PairingKept
  /\ \/ Interman
     \/ Head(todo)[1] \notin ManagerCalls /\ UNCHANGED <<sregI, saves>>

LEMMA TxElsewhere ==
  ASSUME Listed, NEW call, call \notin ManagerCalls, NEW tokens, Tx(call, tokens)
  PROVE  Elsewhere
<1>1. Listed' /\ PairingKept
  BY ReturnListed DEF Tx, Calls
<1> QED
  BY <1>1 DEF Tx, Calls, Elsewhere

LEMMA PutElsewhere == ASSUME Listed, Put PROVE Elsewhere
<1>1. CASE \E tokens : Tx("PutB", tokens)
  BY <1>1, TxElsewhere DEF ManagerCalls, Pairing
<1>2. CASE \E tokens : Tx("PutC", tokens)
  BY <1>2, TxElsewhere DEF ManagerCalls, Pairing
<1>3. CASE \E tokens : Tx("PutS", tokens)
  BY <1>3, TxElsewhere DEF ManagerCalls, Pairing
<1>4. CASE \E tokens : Tx("PutN", tokens)
  BY <1>4, TxElsewhere DEF ManagerCalls, Pairing
<1>5. CASE \E tokens : Tx("PutS_GetStatusReg", tokens)
  BY <1>5, TxElsewhere DEF ManagerCalls, Pairing
<1>6. CASE \E tokens : Tx("PutS_saveStatus", tokens)
  BY <1>6, TxElsewhere DEF ManagerCalls, Pairing
<1> QED
  BY <1>1, <1>2, <1>3, <1>4, <1>5, <1>6 DEF Put

LEMMA StackElsewhere ==
  ASSUME Listed, NEW call, call \notin ManagerCalls, NEW t, Stack(call, t)
  PROVE  Elsewhere
<1>1. Listed' /\ PairingKept
  BY ReturnListed DEF Stack, Calls
<1> QED
  BY <1>1 DEF Stack, Calls, Elsewhere

LEMMA FunctionsElsewhere == ASSUME Listed, StackFunctions PROVE Elsewhere
<1>1. PICK call \in {"Stack_New", "Stack_Push", "Stack_Push_top", "Stack_Pop",
                     "Stack_dup", "Stack_add", "Stack_sub", "Stack_mul"} :
        \E t : Stack(call, t)
  BY DEF StackFunctions
<1> QED
  BY <1>1, StackElsewhere DEF ManagerCalls, Pairing

LEMMA EnumtorElsewhere ==
  ASSUME Listed, NEW call, call \notin ManagerCalls, NEW i,
         NEW calls, Quiet(calls), Enumtor(call, i, calls)
  PROVE  Elsewhere
<1>1. Listed' /\ PairingKept
  BY ThenListed DEF Enumtor, Calls
<1> QED
  BY <1>1 DEF Enumtor, Calls, Elsewhere

LEMMA PrintElsewhere ==
  ASSUME Listed, Stack_GetEnumerator \/ Stack_Print PROVE Elsewhere
<1>1. \A c \in {"PutC", "PutS", "PutX", "while_MoveNext"} : c \notin Pairing
  BY DEF Pairing
<1>2. \A call \in {"Stack_GetEnumerator", "Stack_Print", "while_MoveNext"} :
        call \notin ManagerCalls
  BY DEF ManagerCalls, Pairing
<1>3. ASSUME NEW call \in {"Stack_GetEnumerator", "Stack_Print", "while_MoveNext"}, NEW i,
             NEW calls, Quiet(calls), Enumtor(call, i, calls)
      PROVE  Elsewhere
  BY <1>2, <1>3, EnumtorElsewhere
<1>4. ASSUME NEW i, Enumtor("Stack_GetEnumerator", i, << >>) PROVE Elsewhere
  BY <1>3, <1>4, QuietLists
<1>5. ASSUME NEW i, Enumtor("Stack_Print", i, <<<<"PutC", "[">>, <<"while_MoveNext">>>>)
      PROVE  Elsewhere
  <2>1. Quiet(<<<<"PutC", "[">>, <<"while_MoveNext">>>>)
    BY <1>1, QuietLists
  <2> QED
    BY <1>3, <1>5, <2>1
<1>6. ASSUME NEW i, NEW x, Enumtor("while_MoveNext", i,
                             <<<<"PutS", <<" ">>>>, <<"PutX", x>>, <<"while_MoveNext">>>>)
      PROVE  Elsewhere
  <2>1. Quiet(<<<<"PutS", <<" ">>>>, <<"PutX", x>>, <<"while_MoveNext">>>>)
    BY <1>1, QuietLists
  <2> QED
    BY <1>3, <1>6, <2>1
<1>7. ASSUME NEW i, Enumtor("while_MoveNext", i, <<<<"PutS", <<" ", "]">>>>>>)
      PROVE  Elsewhere
  <2>1. Quiet(<<<<"PutS", <<" ", "]">>>>>>)
    BY <1>1, QuietLists
  <2> QED
    BY <1>3, <1>7, <2>1
<1> QED
  BY <1>4, <1>5, <1>6, <1>7 DEF Stack_GetEnumerator, Stack_Print

LEMMA IntermanElsewhere == ASSUME Listed, Interman PROVE Elsewhere
<1>1. Quiet(<< >>) /\ Quiet(<<<<"Interrupt_Disable">>>>)
  BY QuietLists DEF Pairing
<1>2. PICK call, bit, rest, calls : Quiet(calls) /\ SetI(call, bit, rest, calls)
  BY <1>1 DEF Interman, Interrupt_Enable, Interrupt_Disable,
              Interrupt_SaveAndDisable, Interrupt_Restore
<1>3. Listed' /\ PairingKept
  BY <1>2, ThenListed DEF SetI, Calls
<1> QED
  BY <1>2, <1>3 DEF SetI, Calls, Elsewhere

\* The steps, as far as the invariants below tell them apart.
LEMMA StepKinds ==
  ASSUME Listed, [Next]_vars
  PROVE  \/ Elsewhere
         \/ PutNumber
         \/ Convert
         \/ COut_PutS
         \/ Interrupt
         \/ UNCHANGED vars
<1>1. CASE Hal_Init
  <2>1. Listed' /\ PairingKept
    BY <1>1, ReturnListed DEF Hal_Init, Calls
  <2> QED
    BY <1>1, <2>1 DEF Hal_Init, Calls, Elsewhere, ManagerCalls, Pairing
<1> QED
  BY <1>1, PutElsewhere, FunctionsElsewhere, PrintElsewhere, IntermanElsewhere
     DEF Next, Step

-----------------------------------------------------------------------------
(* CallInv holds for every set of programs.                                *)

LEMMA NumberOnWay ==
  ASSUME Listed, Convert \/ COut_PutS \/ Interrupt
  PROVE  /\ UNCHANGED <<sregI, saves>>
         /\ conversion # "none" \/ conversion' = conversion
         /\ \/ UNCHANGED todo
            \/ todo' = << >> \o Tail(todo) /\ conversion = "written" /\ conversion' = "none"
<1>1. CASE Convert
  BY <1>1 DEF Convert, boardVars, Zero, Iterate, Divide, End
<1>2. CASE COut_PutS
  BY <1>2 DEF COut_PutS, xtoaVars, Printed, Return, Then
<1>3. CASE Interrupt
  BY <1>3 DEF Interrupt, HandlerRuns
<1> QED
  BY <1>1, <1>2, <1>3

LEMMA PutNumberBegins ==
  ASSUME PutNumber
  PROVE  /\ UNCHANGED <<todo, sregI, saves>>
         /\ todo # << >>
         /\ Head(todo)[1] \in NumberCalls
         /\ conversion = "none"
         /\ conversion' \in {"zero", "digits"}
         /\ sent' = << >>
  BY DEF PutNumber, Calls, NumberCalls, bsl_itoa, bsl_utoa, Begin

LEMMA CallInitially == Init => CallInv
<1> SUFFICES ASSUME Init PROVE CallInv
  OBVIOUS
<1>1. Programs[name] \in Seq(Range(Programs[name]))
  BY BoardAssumption DEF Init
<1> QED
  BY <1>1 DEF Init, XtoaInit, CallInv, Listed, Converting

LEMMA CallStep == CallInv /\ [Next]_vars => CallInv'
<1> SUFFICES ASSUME CallInv, [Next]_vars PROVE CallInv'
  OBVIOUS
<1>1. Listed /\ Converting
  BY DEF CallInv
<1>2. CASE Elsewhere
  BY <1>2 DEF Elsewhere, CallInv, Converting, xtoaVars
<1>3. CASE PutNumber
  BY <1>1, <1>3, PutNumberBegins DEF CallInv, Listed, Converting
<1>4. CASE Convert \/ COut_PutS \/ Interrupt
  <2>1. CASE UNCHANGED todo
    BY <1>1, <1>4, <2>1, NumberOnWay DEF CallInv, Listed, Converting
  <2>2. CASE todo' = << >> \o Tail(todo) /\ conversion = "written" /\ conversion' = "none"
    <3>1. todo # << >>
      BY <1>1, <2>2 DEF Converting
    <3>2. Listed'
      BY <1>1, <2>2, <3>1, ReturnListed DEF Return, Then
    <3> QED
      BY <2>2, <3>2 DEF CallInv, Converting
  <2> QED
    BY <1>1, <1>4, <2>1, <2>2, NumberOnWay
<1>5. CASE UNCHANGED vars
  BY <1>1, <1>5 DEF vars, boardVars, xtoaVars, CallInv, Listed, Converting
<1> QED
  BY <1>1, <1>2, <1>3, <1>4, <1>5, StepKinds

LEMMA CallInvariant == Spec => []CallInv
  BY CallInitially, CallStep, PTL DEF Spec

-----------------------------------------------------------------------------
(* Sections.                                                               *)

\* Only the outermost section can have found interrupts enabled.
SectionInv ==
  /\ sregI \in BOOLEAN
  /\ saves \in Seq(BOOLEAN)
  /\ \A k \in 2 .. Len(saves) : ~saves[k]
  /\ SectionClosed

\* What is left to call is paired with what is saved.
Balanced == PairedFrom(todo, Len(saves))

LEMMA PairedNow ==
  ASSUME CallInv, SectionInv, Balanced
  PROVE  /\ SectionsPaired
         /\ todo # << >> => PairedFrom(Tail(todo), Len(saves) + Change(Head(todo)[1]))
<1>1. todo \in Seq(Range(todo)) /\ saves \in Seq(BOOLEAN) /\ Len(saves) \in Nat
  BY DEF CallInv, Listed, SectionInv
<1>2. saves = << >> <=> Len(saves) = 0
  BY <1>1
<1> QED
  BY <1>1, <1>2, PairedTail DEF Balanced, SectionsPaired

LEMMA FrontOf ==
  ASSUME NEW T, NEW l \in Seq(T), l # << >>
  PROVE  /\ Front(l) \in Seq(T)
         /\ Len(Front(l)) = Len(l) - 1
         /\ \A k \in 1 .. Len(l) - 1 : Front(l)[k] = l[k]
<1> DEFINE m == Len(l) - 1
<1>1. m \in Nat /\ m <= Len(l)
  OBVIOUS
<1>2. Front(l) = [k \in 1 .. m |-> l[k]]
  BY <1>1 DEF Front
<1>3. \A k \in 1 .. m : l[k] \in T
  BY <1>1
<1> QED
  BY <1>1, <1>2, <1>3

LEMMA ManagerStep ==
  ASSUME Listed, SectionInv, SectionsPaired, Interman PROVE SectionInv'
<1>1. /\ sregI \in BOOLEAN
      /\ saves \in Seq(BOOLEAN)
      /\ \A k \in 2 .. Len(saves) : ~saves[k]
      /\ saves # << >> => ~sregI \/ Head(todo)[1] = "Interrupt_Disable"
      /\ todo # << >>
  BY DEF SectionInv, SectionClosed, Interman, Interrupt_Enable, Interrupt_Disable,
         Interrupt_SaveAndDisable, Interrupt_Restore, SetI, Calls
<1>2. CASE Interrupt_Enable
  <2>1. saves = << >> /\ saves' = saves /\ sregI' = TRUE
    BY <1>1, <1>2 DEF Interrupt_Enable, SetI, Calls, SectionsPaired
  <2> QED
    BY <1>1, <2>1 DEF SectionInv, SectionClosed
<1>3. CASE Interrupt_Disable
  <2>1. saves' = saves /\ sregI' = FALSE
    BY <1>3 DEF Interrupt_Disable, SetI
  <2> QED
    BY <1>1, <2>1 DEF SectionInv, SectionClosed
<1>4. CASE Interrupt_SaveAndDisable
  <2>1. /\ saves' = Append(saves, sregI) /\ sregI' = sregI
        /\ todo' = <<<<"Interrupt_Disable">>>> \o Tail(todo)
        /\ Head(todo)[1] = "Interrupt_SaveAndDisable"
    BY <1>4 DEF Interrupt_SaveAndDisable, SetI, Calls, Then
  <2>2. Head(todo')[1] = "Interrupt_Disable"
    <3>1. Len(Tail(todo)) \in Nat
      BY <1>1 DEF Listed
    <3>2. Head(todo') = <<"Interrupt_Disable">>
      BY <2>1, <3>1
    <3> QED
      BY <3>2
  <2>3. saves' \in Seq(BOOLEAN)
    BY <1>1, <2>1
  <2>4. \A k \in 2 .. Len(saves') : ~saves'[k]
    <3> SUFFICES ASSUME NEW k \in 2 .. Len(saves') PROVE ~saves'[k]
      OBVIOUS
    <3>1. Len(saves) \in Nat /\ Len(saves') = Len(saves) + 1
      BY <1>1, <2>1
    <3>2. CASE k <= Len(saves)
      BY <1>1, <2>1, <3>1, <3>2
    <3>3. CASE k = Len(saves) + 1
      BY <1>1, <2>1, <3>1, <3>3
    <3> QED
      BY <3>1, <3>2, <3>3
  <2> QED
    BY <1>1, <2>1, <2>2, <2>3, <2>4 DEF SectionInv, SectionClosed
<1>5. CASE Interrupt_Restore
  <2>1. /\ saves # << >>
        /\ sregI' = saves[Len(saves)]
        /\ saves' = Front(saves)
    BY <1>1, <1>5 DEF Interrupt_Restore, SetI, Calls, SectionsPaired, Last
  <2>2. Len(saves) \in Nat \ {0}
    BY <1>1, <2>1
  <2>3. /\ saves' \in Seq(BOOLEAN)
        /\ Len(saves') = Len(saves) - 1
        /\ \A k \in 1 .. Len(saves) - 1 : saves'[k] = saves[k]
    BY <1>1, <2>1, FrontOf
  <2>4. sregI' \in BOOLEAN
    BY <1>1, <2>1, <2>2
  <2>5. \A k \in 2 .. Len(saves') : ~saves'[k]
    BY <1>1, <2>2, <2>3
  <2>6. saves' # << >> => ~sregI'
    BY <1>1, <2>1, <2>2, <2>3
  <2> QED
    BY <2>3, <2>4, <2>5, <2>6 DEF SectionInv, SectionClosed
<1> QED
  BY <1>2, <1>3, <1>4, <1>5 DEF Interman

LEMMA SectionInitially == Init => SectionInv /\ Balanced
<1> SUFFICES ASSUME Init PROVE SectionInv /\ Balanced
  OBVIOUS
<1>1. saves = << >> /\ sregI = FALSE
  BY DEF Init
<1>2. saves \in Seq(BOOLEAN) /\ Len(saves) = 0
  BY <1>1
<1>3. \A k \in 2 .. Len(saves) : ~saves[k]
  BY <1>2
<1>4. SectionClosed
  BY <1>1 DEF SectionClosed
<1>5. SectionInv
  BY <1>1, <1>2, <1>3, <1>4 DEF SectionInv
<1>6. PairedFrom(todo, 0)
  BY BoardAssumption, SectionsAssumption, PairedProgram DEF Init
<1> QED
  BY <1>2, <1>5, <1>6 DEF Balanced

LEMMA BalancedStep ==
  ASSUME CallInv, SectionInv, Balanced, [Next]_vars PROVE Balanced'
<1>1. Listed /\ Converting /\ saves \in Seq(BOOLEAN) /\ Len(saves) \in Nat
  BY DEF CallInv, SectionInv
<1> DEFINE rest == Tail(todo)
           head == Head(todo)[1]
<1>2. todo # << >> => PairedFrom(rest, Len(saves) + Change(head))
  BY PairedNow
<1>3. CASE Elsewhere
  <2>1. todo # << >> /\ \A k \in Int : PairedFrom(rest, k) => PairedFrom(todo', k)
    BY <1>3 DEF Elsewhere, PairingKept
  <2>2. CASE head \notin ManagerCalls /\ UNCHANGED <<sregI, saves>>
    <3>1. Change(head) = 0
      BY <2>2 DEF Change, ManagerCalls, Pairing
    <3> QED
      BY <1>1, <1>2, <2>1, <2>2, <3>1 DEF Balanced
  <2>3. CASE Interman
    <3>1. Len(saves') = Len(saves) + Change(head)
      <4>1. CASE Interrupt_Enable \/ Interrupt_Disable
        BY <1>1, <4>1 DEF Interrupt_Enable, Interrupt_Disable, SetI, Calls, Change
      <4>2. CASE Interrupt_SaveAndDisable
        BY <1>1, <4>2 DEF Interrupt_SaveAndDisable, SetI, Calls, Change
      <4>3. CASE Interrupt_Restore
        <5>1. saves # << >> /\ head = "Interrupt_Restore" /\ saves' = Front(saves)
          BY <4>3, PairedNow DEF Interrupt_Restore, SetI, Calls, SectionsPaired
        <5>2. Len(Front(saves)) = Len(saves) - 1
          BY <1>1, <5>1, FrontOf
        <5> QED
          BY <1>1, <5>1, <5>2 DEF Change
      <4> QED
        BY <2>3, <4>1, <4>2, <4>3 DEF Interman
    <3>2. Change(head) \in Int
      BY DEF Change
    <3> QED
      BY <1>1, <1>2, <2>1, <3>1, <3>2 DEF Balanced
  <2> QED
    BY <1>3, <2>2, <2>3 DEF Elsewhere
<1>4. CASE PutNumber
  BY <1>4, PutNumberBegins DEF Balanced
<1>5. CASE Convert \/ COut_PutS \/ Interrupt
  <2>1. UNCHANGED <<sregI, saves>>
    BY <1>1, <1>5, NumberOnWay
  <2>2. CASE UNCHANGED todo
    BY <2>1, <2>2 DEF Balanced
  <2>3. CASE todo' = << >> \o rest /\ conversion = "written"
    <3>1. todo # << >> /\ Change(head) = 0
      BY <1>1, <2>3 DEF Converting, NumberCalls, Change
    <3>2. todo' = rest
      BY <1>1, <2>3, <3>1 DEF Listed
    <3> QED
      BY <1>1, <1>2, <2>1, <3>1, <3>2 DEF Balanced
  <2> QED
    BY <1>1, <1>5, <2>2, <2>3, NumberOnWay
<1>6. CASE UNCHANGED vars
  BY <1>6 DEF vars, boardVars, Balanced
<1> QED
  BY <1>1, <1>3, <1>4, <1>5, <1>6, StepKinds

LEMMA SectionStep ==
  CallInv /\ SectionInv /\ Balanced /\ [Next]_vars => SectionInv' /\ Balanced'
<1> SUFFICES ASSUME CallInv, SectionInv, Balanced, [Next]_vars PROVE SectionInv'
  BY BalancedStep
<1>0. SectionsPaired
  BY PairedNow
<1>1. Listed /\ Converting
  BY DEF CallInv
<1>2. CASE Elsewhere
  <2>1. CASE Head(todo)[1] \notin ManagerCalls /\ UNCHANGED <<sregI, saves>>
    BY <1>2, <2>1 DEF Elsewhere, ManagerCalls, SectionInv, SectionClosed
  <2> QED
    BY <1>0, <1>1, <1>2, <2>1, ManagerStep DEF Elsewhere
<1>3. CASE PutNumber
  BY <1>3, PutNumberBegins DEF SectionInv, SectionClosed
<1>4. CASE Convert \/ COut_PutS \/ Interrupt
  <2>1. UNCHANGED <<sregI, saves>>
    BY <1>1, <1>4, NumberOnWay
  <2>2. CASE UNCHANGED todo
    BY <2>1, <2>2 DEF SectionInv, SectionClosed
  <2>3. CASE conversion = "written"
    <3>1. saves # << >> => ~sregI
      BY <1>1, <2>3 DEF Converting, NumberCalls, SectionInv, SectionClosed
    <3> QED
      BY <2>1, <3>1 DEF SectionInv, SectionClosed
  <2> QED
    BY <1>1, <1>4, <2>2, <2>3, NumberOnWay
<1>5. CASE UNCHANGED vars
  BY <1>5 DEF vars, boardVars, SectionInv, SectionClosed
<1> QED
  BY <1>1, <1>2, <1>3, <1>4, <1>5, StepKinds

LEMMA SectionInvariant == Spec => [](SectionInv /\ Balanced)
  BY CallInvariant, SectionInitially, SectionStep, PTL DEF Spec

\* CallsPaired: what programs owe to the manager is owed in every state, also
\* by the calls that its functions make (hal_interman.c:23-33).
THEOREM CallsPaired == Spec => []SectionsPaired
<1>1. CallInv /\ SectionInv /\ Balanced => SectionsPaired
  BY PairedNow
<1> QED
  BY <1>1, CallInvariant, SectionInvariant, PTL

\* SectionsClosed: for every program whose sections are paired, however deep
\* they are nested, interrupts stay disabled to the end of the outermost
\* (hal_interman.c:23-33).
THEOREM SectionsClosed == Spec => []SectionClosed
<1>1. SectionInv => SectionClosed
  BY DEF SectionInv
<1> QED
  BY <1>1, SectionInvariant, PTL

-----------------------------------------------------------------------------
(* The buffer.                                                             *)

Characters == {Null, "-"} \cup {Digits[d] : d \in 1 .. 16}

Buffers == [0 .. BufLen - 1 -> Characters]

\* A digit is written for a quotient below the base.
LEMMA WriteCharacter ==
  ASSUME buf \in Buffers, NEW c \in Characters, NEW then, Write(c, then)
  PROVE  buf' \in Buffers
  BY DEF Write, Buffers

LEMMA DigitWritten ==
  ASSUME XtoaInv, Divide PROVE Digits[(n \div f) + 1] \in Characters
<1>1. /\ conversion = "digits" /\ f \in Nat \ {0} /\ n \in Nat /\ base \in Nat /\ base <= 16
      /\ places <= NoPlaces /\ Division
  BY DEF Divide, XtoaInv, XtoaType, Bases
<1>2. n < base * f
  <2>1. CASE places < NoPlaces
    BY <1>1, <2>1 DEF Division
  <2>2. CASE ~(places < NoPlaces)
    BY <1>1, <2>2 DEF Division
  <2> QED
    BY <2>1, <2>2
<1> DEFINE q == n \div f
<1>3. q \in Nat /\ q < base
  BY <1>1, <1>2, Quotient, QuotientBelow
<1>4. q + 1 \in 1 .. 16
  BY <1>1, <1>3
<1> QED
  BY <1>4 DEF Characters

LEMMA ConvertBuffer ==
  ASSUME XtoaInv, buf \in Buffers, Convert PROVE buf' \in Buffers
<1>1. CASE Zero
  <2>1. "0" \in Characters
    BY DEF Characters, Digits
  <2> QED
    BY <1>1, <2>1, WriteCharacter DEF Zero
<1>2. CASE End
  <2>1. Null \in Characters
    BY DEF Characters
  <2> QED
    BY <1>2, <2>1, WriteCharacter DEF End
<1>3. CASE Iterate
  <2>1. Divide
    BY <1>3 DEF Iterate
  <2>2. CASE Write(Digits[(n \div f) + 1], "digits")
    BY <2>1, <2>2, DigitWritten, WriteCharacter
  <2>3. CASE UNCHANGED buf
    BY <2>3
  <2> QED
    BY <2>1, <2>2, <2>3 DEF Divide
<1> QED
  BY <1>1, <1>2, <1>3 DEF Convert

LEMMA NumberBuffer ==
  ASSUME buf \in Buffers, PutNumber PROVE buf' \in Buffers
<1>1. buf' = buf \/ buf' = [buf EXCEPT ![0] = "-"]
  BY DEF PutNumber, bsl_itoa, bsl_utoa
<1>2. "-" \in Characters
  BY DEF Characters
<1> QED
  BY <1>1, <1>2 DEF Buffers

\* What the handler leaves: its number, a zero behind it, and what was there.
LEMMA HandlerBuffer ==
  ASSUME buf \in Buffers
  PROVE  /\ Overwritten \in Buffers
         /\ Len(EventText) \in 0 .. BufLen - 1
         /\ Overwritten[Len(EventText)] = Null
         /\ \A i \in Len(EventText) .. BufLen - 1 : buf[i] = Null => Overwritten[i] = Null
<1> DEFINE len == Len(EventText)
<1>1. /\ EventText \in Seq({"-"} \cup {Digits[d] : d \in 1 .. 16})
      /\ len \in Nat /\ len < BufLen /\ BufLen \in Nat
  BY BoardAssumption, XtoaAssumption
<1>2. DOMAIN buf = 0 .. BufLen - 1 /\ \A i \in 0 .. BufLen - 1 : buf[i] \in Characters
  BY DEF Buffers
<1>3. \A i \in 0 .. BufLen - 1 : i < len => EventText[i + 1] \in Characters
  <2> SUFFICES ASSUME NEW i \in 0 .. BufLen - 1, i < len PROVE EventText[i + 1] \in Characters
    OBVIOUS
  <2>1. i + 1 \in 1 .. len
    BY <1>1
  <2>2. EventText[i + 1] \in {"-"} \cup {Digits[d] : d \in 1 .. 16}
    BY <1>1, <2>1
  <2> QED
    BY <2>2 DEF Characters
<1>4. Null \in Characters
  BY DEF Characters
<1>5. Overwritten = [i \in 0 .. BufLen - 1 |->
        IF i < len THEN EventText[i + 1] ELSE IF i = len THEN Null ELSE buf[i]]
  BY <1>2 DEF Overwritten
<1> QED
  BY <1>1, <1>2, <1>3, <1>4, <1>5 DEF Buffers

-----------------------------------------------------------------------------
(* Board implements Xtoa.                                                  *)

LEMMA InterruptDisturbs ==
  ASSUME buf \in Buffers, Interrupt PROVE Disturbed
<1>1. buf' = Overwritten /\ UNCHANGED <<locals, conversion>>
  BY DEF Interrupt, HandlerRuns, locals
<1> QED
  BY <1>1, HandlerBuffer DEF Disturbed, Buffers, Characters

LEMMA BoardConverts ==
  ASSUME Listed, buf \in Buffers, NumbersGiven, [Next]_vars
  PROVE  [XtoaNext]_xtoaVars
<1>1. CASE Elsewhere
  BY <1>1 DEF Elsewhere
<1>2. CASE PutNumber
  <2>1. Arg \in Numbers
    BY <1>2 DEF PutNumber, Calls, NumbersGiven
  <2>2. \/ bsl_itoa(Arg) \/ bsl_utoa(Arg, 10) \/ bsl_utoa(Arg, 16)
    BY <1>2 DEF PutNumber
  <2> QED
    BY <2>1, <2>2 DEF XtoaNext, Bases
<1>3. CASE Convert
  BY <1>3 DEF Convert, XtoaNext
<1>4. CASE COut_PutS
  BY <1>4 DEF COut_PutS, XtoaNext
<1>5. CASE Interrupt
  BY <1>5, InterruptDisturbs DEF XtoaNext
<1>6. CASE UNCHANGED vars
  BY <1>6 DEF vars
<1> QED
  BY <1>1, <1>2, <1>3, <1>4, <1>5, <1>6, StepKinds

BufferInv == XtoaInv /\ buf \in Buffers

LEMMA BufferInitially == Init => XtoaInit /\ BufferInv
<1> SUFFICES ASSUME Init PROVE XtoaInit /\ BufferInv
  OBVIOUS
<1>1. XtoaInit
  BY DEF Init
<1>2. buf \in Buffers
  BY <1>1 DEF XtoaInit, Buffers, Characters
<1> QED
  BY <1>1, <1>2, XtoaInitially DEF BufferInv

LEMMA BufferStep ==
  CallInv /\ BufferInv /\ NumbersGiven /\ [Next]_vars
    => BufferInv' /\ [XtoaNext]_xtoaVars
<1> SUFFICES ASSUME CallInv, BufferInv, NumbersGiven, [Next]_vars
             PROVE  BufferInv' /\ [XtoaNext]_xtoaVars
  OBVIOUS
<1>1. Listed /\ XtoaInv /\ buf \in Buffers
  BY DEF CallInv, BufferInv
<1>2. [XtoaNext]_xtoaVars
  BY <1>1, BoardConverts
<1>3. XtoaInv'
  BY <1>1, <1>2, XtoaStep
<1>4. buf' \in Buffers
  <2>1. CASE Elsewhere
    BY <1>1, <2>1 DEF Elsewhere, xtoaVars
  <2>2. CASE PutNumber
    BY <1>1, <2>2, NumberBuffer
  <2>3. CASE Convert
    BY <1>1, <2>3, ConvertBuffer
  <2>4. CASE COut_PutS
    BY <1>1, <2>4 DEF COut_PutS, Printed, xtoaVars
  <2>5. CASE Interrupt
    BY <1>1, <2>5, HandlerBuffer DEF Interrupt, HandlerRuns
  <2>6. CASE UNCHANGED vars
    BY <1>1, <2>6 DEF vars, xtoaVars
  <2> QED
    BY <1>1, <2>1, <2>2, <2>3, <2>4, <2>5, <2>6, StepKinds
<1> QED
  BY <1>2, <1>3, <1>4 DEF BufferInv

LEMMA BufferInvariant ==
  Spec /\ []NumbersGiven => [](CallInv /\ BufferInv) /\ XtoaSpec
  BY CallInvariant, BufferInitially, BufferStep, PTL DEF Spec, XtoaSpec

\* BoardRefinesXtoa: whatever the board does, and wherever a handler prints,
\* the conversion of a number is one of Xtoa (bsl_COut.c:45-48).
THEOREM BoardRefinesXtoa == Spec /\ []NumbersGiven => Converts
  BY BufferInvariant, PTL DEF Converts

\* BoardInBuffer: no number printed on a board leaves buf (bsl_COut.c:29-30).
THEOREM BoardInBuffer == Spec /\ []NumbersGiven => []InBuffer
  BY BufferInvariant, BufferNeverLeft, PTL

\* BoardExact: the digits printed on a board stand for the number given.
THEOREM BoardExact == Spec /\ []NumbersGiven => []Exact
  BY BufferInvariant, DigitsExact, PTL

-----------------------------------------------------------------------------
(* Printing.                                                               *)

(* Terminated: there is a zero ahead of the character that goes to the     *)
(* line next, also when a handler has overwritten what is in front of it:  *)
(* the loop of COut_PutS over buf ends inside of it (bsl_COut.c:45).       *)
Terminated ==
  conversion = "written" => \E p \in Len(sent) .. BufLen - 1 : buf[p] = Null

PrintInv ==
  /\ sent \in Seq(Characters)
  /\ Len(sent) < BufLen
  /\ conversion \in {"zero", "digits", "end"} => sent = << >>
  /\ Terminated

LEMMA ConvertPrint ==
  ASSUME BufferInv, PrintInv, Convert PROVE PrintInv'
<1>1. sent' = sent /\ sent \in Seq(Characters) /\ Len(sent) < BufLen /\ BufLen \in Nat
  BY XtoaAssumption DEF Convert, boardVars, PrintInv
<1>2. sent = << >> /\ Len(sent) = 0
  <2>1. conversion \in {"zero", "digits", "end"}
    BY DEF Convert, Zero, Iterate, Divide, End
  <2>2. sent = << >>
    BY <2>1 DEF PrintInv
  <2> QED
    BY <2>2
<1>3. CASE Zero \/ Iterate
  <2>1. conversion' # "written"
    BY <1>3 DEF Zero, Iterate, Divide, Write
  <2> QED
    BY <1>1, <1>2, <2>1 DEF PrintInv, Terminated
<1>4. CASE End
  <2>1. XtoaInv' /\ XtoaInv /\ buf \in Buffers
    BY <1>4, EndStep DEF BufferInv
  <2>2. conversion' # "overrun"
    BY <2>1 DEF XtoaInv, XtoaType
  <2>3. next \in DOMAIN buf /\ buf' = [buf EXCEPT ![next] = Null] /\ conversion' = "written"
    BY <1>4, <2>2 DEF End, Write
  <2>4. next \in 0 .. BufLen - 1 /\ buf'[next] = Null
    BY <2>1, <2>3 DEF Buffers
  <2> QED
    BY <1>1, <1>2, <2>3, <2>4 DEF PrintInv, Terminated
<1> QED
  BY <1>3, <1>4 DEF Convert

LEMMA PutSPrint ==
  ASSUME BufferInv, PrintInv, COut_PutS PROVE PrintInv'
<1>1. /\ sent \in Seq(Characters) /\ Len(sent) \in Nat /\ BufLen \in Nat
      /\ Len(sent) < BufLen
      /\ buf \in Buffers
  BY XtoaAssumption DEF PrintInv, BufferInv
<1>2. PICK p \in Len(sent) .. BufLen - 1 : buf[p] = Null
  BY DEF COut_PutS, PrintInv, Terminated
<1>3. Character \in Characters
  BY <1>1 DEF Character, Buffers
<1>4. CASE Character = Null
  <2>1. sent' = sent /\ conversion' = "none"
    BY <1>4 DEF COut_PutS, Printed
  <2> QED
    BY <1>1, <2>1 DEF PrintInv, Terminated
<1>5. CASE Character # Null
  <2>1. sent' = Append(sent, Character) /\ buf' = buf /\ conversion' = "written"
    BY <1>5 DEF COut_PutS, xtoaVars
  <2>2. p # Len(sent)
    BY <1>2, <1>5 DEF Character
  <2>3. sent' \in Seq(Characters) /\ Len(sent') = Len(sent) + 1
    BY <1>1, <1>3, <2>1
  <2>4. p \in Len(sent') .. BufLen - 1 /\ buf'[p] = Null
    BY <1>1, <1>2, <2>1, <2>2, <2>3
  <2>5. Len(sent') < BufLen
    BY <1>1, <2>3, <2>4
  <2> QED
    BY <2>1, <2>3, <2>4, <2>5 DEF PrintInv, Terminated
<1> QED
  BY <1>4, <1>5

LEMMA HandlerPrint ==
  ASSUME BufferInv, PrintInv, Interrupt PROVE PrintInv'
<1> DEFINE len == Len(EventText)
<1>1. /\ sent \in Seq(Characters) /\ Len(sent) \in Nat /\ Len(sent) < BufLen
      /\ BufLen \in Nat /\ buf \in Buffers
  BY XtoaAssumption DEF PrintInv, BufferInv
<1>2. sent' = sent /\ conversion' = conversion /\ buf' = Overwritten
  BY DEF Interrupt, HandlerRuns
<1>3. /\ len \in 0 .. BufLen - 1 /\ buf'[len] = Null
      /\ \A i \in len .. BufLen - 1 : buf[i] = Null => buf'[i] = Null
  BY <1>1, <1>2, HandlerBuffer
<1>4. ASSUME conversion = "written"
      PROVE  \E p \in Len(sent) .. BufLen - 1 : buf'[p] = Null
  <2>1. PICK p \in Len(sent) .. BufLen - 1 : buf[p] = Null
    BY <1>4 DEF PrintInv, Terminated
  <2>2. CASE p < len
    <3>1. len \in Len(sent) .. BufLen - 1
      BY <1>1, <1>3, <2>1, <2>2
    <3> QED
      BY <1>3, <3>1
  <2>3. CASE ~(p < len)
    <3>1. p \in len .. BufLen - 1
      BY <1>1, <1>3, <2>1, <2>3
    <3> QED
      BY <1>3, <2>1, <3>1
  <2> QED
    BY <2>2, <2>3
<1> QED
  BY <1>1, <1>2, <1>4 DEF PrintInv, Terminated

LEMMA PrintInitially == Init => PrintInv
<1> SUFFICES ASSUME Init PROVE PrintInv
  OBVIOUS
<1>1. sent = << >> /\ conversion = "none"
  BY DEF Init, XtoaInit
<1>2. sent \in Seq(Characters) /\ Len(sent) = 0
  BY <1>1
<1>3. 0 < BufLen
  BY BoardAssumption, XtoaAssumption
<1> QED
  BY <1>1, <1>2, <1>3 DEF PrintInv, Terminated

LEMMA PrintStep ==
  CallInv /\ BufferInv /\ PrintInv /\ [Next]_vars => PrintInv'
<1> SUFFICES ASSUME CallInv, BufferInv, PrintInv, [Next]_vars PROVE PrintInv'
  OBVIOUS
<1>1. CASE Elsewhere
  BY <1>1 DEF Elsewhere, xtoaVars, PrintInv, Terminated
<1>2. CASE PutNumber
  <2>1. sent' = << >> /\ conversion' # "written"
    BY <1>2, PutNumberBegins
  <2>2. sent' \in Seq(Characters) /\ Len(sent') = 0
    BY <2>1
  <2>3. 0 < BufLen
    BY BoardAssumption, XtoaAssumption
  <2> QED
    BY <2>1, <2>2, <2>3 DEF PrintInv, Terminated
<1>3. CASE UNCHANGED vars
  BY <1>3 DEF vars, boardVars, xtoaVars, PrintInv, Terminated
<1> QED
  BY <1>1, <1>2, <1>3, ConvertPrint, PutSPrint, HandlerPrint, StepKinds DEF CallInv

\* PrintingEnds: the characters of a number are sent from inside buf, however
\* often a handler prints one of its own in between (bsl_COut.c:29, 45-48).
THEOREM PrintingEnds == Spec /\ []NumbersGiven => []Terminated
<1>1. PrintInv => Terminated
  BY DEF PrintInv
<1> QED
  BY <1>1, BufferInvariant, PrintInitially, PrintStep, PTL DEF Spec

-----------------------------------------------------------------------------
(* Places and digits of a number.                                          *)

PlaceOf(b, k) == Places[b][Len(Places[b]) - k]

DigitAt(x, b, k) == (x \div PlaceOf(b, k)) % b

LEMMA QuotientUnique ==
  ASSUME NEW a \in Nat, NEW d \in Nat \ {0}, NEW q \in Nat, NEW r \in 0 .. d - 1,
         a = q * d + r
  PROVE  a \div d = q
<1> DEFINE p == a \div d
<1>1. p \in Nat /\ a - p * d \in 0 .. d - 1
  BY Quotient
<1> HIDE DEF p
<1>2. CASE p >= q + 1
  <2>1. PICK e \in Nat : p = q + 1 + e
    <3>1. p - q - 1 \in Nat /\ p = q + 1 + (p - q - 1)
      BY <1>1, <1>2
    <3> QED
      BY <3>1
  <2>2. p * d = q * d + d + e * d /\ e * d >= 0
    BY <2>1
  <2> QED
    BY <1>1, <2>2
<1>3. CASE p <= q - 1
  <2>1. PICK e \in Nat : q = p + 1 + e
    <3>1. q - p - 1 \in Nat /\ q = p + 1 + (q - p - 1)
      BY <1>1, <1>3
    <3> QED
      BY <3>1
  <2>2. q * d = p * d + d + e * d /\ e * d >= 0
    BY <1>1, <2>1
  <2> QED
    BY <1>1, <2>2
<1> QED
  BY <1>1, <1>2, <1>3 DEF p

\* The digit that a pass divides off is the one at its place.
LEMMA PassDigit ==
  ASSUME NEW b \in Bases, NEW g \in Nat \ {0}, NEW m \in Nat, NEW v \in Nat,
         NEW x \in Nat, m < b * g, x = v * (b * g) + m
  PROVE  (x \div g) % b = m \div g /\ m \div g \in 0 .. b - 1
<1> DEFINE q == m \div g
           rest == m - q * g
<1>1. b \in Nat \ {0}
  BY DEF Bases
<1>2. q \in Nat /\ rest \in 0 .. g - 1 /\ q < b
  BY <1>1, Quotient, QuotientBelow
<1>3. m = q * g + rest
  BY <1>2
<1> HIDE DEF q, rest
<1>4. v * b + q \in Nat /\ x = (v * b + q) * g + rest
  <2>1. v * (b * g) = (v * b) * g
    BY <1>1
  <2>2. (v * b + q) * g = (v * b) * g + q * g
    BY <1>1, <1>2
  <2>3. v * b \in Nat
    BY <1>1
  <2> QED
    BY <1>2, <1>3, <2>1, <2>2, <2>3
<1>5. x \div g = v * b + q
  BY <1>2, <1>4, QuotientUnique
<1>6. (v * b + q) % b = q
  BY <1>2 DEF Bases
<1> QED
  BY <1>1, <1>2, <1>5, <1>6 DEF q

LEMMA DigitRange ==
  ASSUME NEW x \in Int, NEW b \in Bases, NEW k \in 0 .. Len(Places[b]) - 1
  PROVE  /\ PlaceOf(b, k) \in Nat \ {0}
         /\ x \div PlaceOf(b, k) \in Int
         /\ DigitAt(x, b, k) \in 0 .. b - 1
<1>1. Len(Places[b]) - k \in 1 .. Len(Places[b])
  BY PlacesType
<1>2. PlaceOf(b, k) \in Nat \ {0}
  BY <1>1, PlacesType DEF PlaceOf
<1> DEFINE p == PlaceOf(b, k)
<1> HIDE DEF p
<1>3. x \div p \in Int
  BY <1>2 DEF p
<1>4. (x \div p) % b \in 0 .. b - 1
  BY <1>3 DEF Bases
<1> QED
  BY <1>2, <1>3, <1>4 DEF DigitAt, p

\* The characters of digits.

LEMMA DigitCode ==
  ASSUME NEW d \in 0 .. 15
  PROVE  /\ Digits[d + 1] # "-" /\ Digits[d + 1] # Null
         /\ (CHOOSE k \in 1 .. 16 : Digits[k] = Digits[d + 1]) = d + 1
<1>1. Digits[d + 1] # "-" /\ Digits[d + 1] # Null
  BY DEF Digits, Null
<1>2. \A k \in 1 .. 16 : Digits[k] = Digits[d + 1] => k = d + 1
  BY DEF Digits
<1>3. d + 1 \in 1 .. 16
  OBVIOUS
<1> QED
  BY <1>1, <1>2, <1>3

-----------------------------------------------------------------------------
(* The numeral that the console is to print.                               *)

\* The digit of Console at place k.
Place(x, b, k) == (x \div b^k) % b

LEMMA PowersAre ==
  ASSUME NEW b \in Bases, NEW k \in 0 .. Con!HighestPlace(b)
  PROVE  b^k \in Nat \ {0}
<1>1. CASE b = 10
  <2>0. k \in 0 .. 9
    BY <1>1 DEF Con!HighestPlace
  <2>1. CASE k = 0
    BY <1>1, <2>1
  <2>2. CASE k = 1
    BY <1>1, <2>2
  <2>3. CASE k = 2
    BY <1>1, <2>3
  <2>4. CASE k = 3
    BY <1>1, <2>4
  <2>5. CASE k = 4
    BY <1>1, <2>5
  <2>6. CASE k = 5
    BY <1>1, <2>6
  <2>7. CASE k = 6
    BY <1>1, <2>7
  <2>8. CASE k = 7
    BY <1>1, <2>8
  <2>9. CASE k = 8
    BY <1>1, <2>9
  <2>10. CASE k = 9
    BY <1>1, <2>10
  <2> QED
    BY <2>0, <2>1, <2>2, <2>3, <2>4, <2>5, <2>6, <2>7, <2>8, <2>9, <2>10
<1>2. CASE b = 16
  <2>0. k \in 0 .. 7
    BY <1>2 DEF Con!HighestPlace
  <2>1. CASE k = 0
    BY <1>2, <2>1
  <2>2. CASE k = 1
    BY <1>2, <2>2
  <2>3. CASE k = 2
    BY <1>2, <2>3
  <2>4. CASE k = 3
    BY <1>2, <2>4
  <2>5. CASE k = 4
    BY <1>2, <2>5
  <2>6. CASE k = 5
    BY <1>2, <2>6
  <2>7. CASE k = 6
    BY <1>2, <2>7
  <2>8. CASE k = 7
    BY <1>2, <2>8
  <2> QED
    BY <2>0, <2>1, <2>2, <2>3, <2>4, <2>5, <2>6, <2>7, <2>8
<1> QED
  BY <1>1, <1>2 DEF Bases

LEMMA PlaceDigit ==
  ASSUME NEW b \in Bases, NEW x \in 0 .. Word - 1, NEW k \in 0 .. Con!HighestPlace(b)
  PROVE  Place(x, b, k) = IF k < Len(Places[b]) THEN DigitAt(x, b, k) ELSE 0
<1> DEFINE p == b^k
<1>1. p \in Nat \ {0}
  BY PowersAre
<1>2. IF k < Len(Places[b]) THEN PlaceOf(b, k) = p ELSE Word <= p
  BY PlacesAssumption DEF PlaceOf
<1> HIDE DEF p
<1>3. CASE k < Len(Places[b])
  BY <1>2, <1>3 DEF Place, DigitAt, p
<1>4. CASE ~(k < Len(Places[b]))
  <2>1. x \in Nat /\ x < p
    BY <1>1, <1>2, <1>4, XtoaAssumption
  <2>2. x \div p = 0
    <3>1. x = 0 * p + x /\ x \in 0 .. p - 1
      BY <1>1, <2>1
    <3> QED
      BY <1>1, <2>1, <3>1, QuotientUnique
  <2>3. 0 % b = 0
    BY DEF Bases
  <2> QED
    BY <1>4, <2>2, <2>3 DEF Place, p
<1> QED
  BY <1>3, <1>4

\* The numeral from its first place on.
LEMMA NumeralFrom ==
  ASSUME NEW b \in Bases, NEW x \in Int, NEW t \in 0 .. Con!HighestPlace(b),
         t = 0 \/ Place(x, b, t) # 0,
         \A k \in t + 1 .. Con!HighestPlace(b) : Place(x, b, k) = 0
  PROVE  Con!bsl_utoa(x, b) = [i \in 1 .. t + 1 |-> Con!Digit(Place(x, b, t + 1 - i))]
<1> DEFINE h == Con!HighestPlace(b)
           shown == {0} \cup {k \in 1 .. h : Place(x, b, k) # 0}
<1>1. h \in Nat /\ t \in 0 .. h
  BY DEF Con!HighestPlace
<1> HIDE DEF h
<1>2. t \in shown /\ \A k \in shown : t >= k
  BY <1>1 DEF h
<1>3. Con!Max(shown) = t
  <2>1. \A m \in shown : (\A k \in shown : m >= k) => m = t
    BY <1>1, <1>2
  <2> QED
    BY <1>2, <2>1 DEF Con!Max
<1> QED
  BY <1>3 DEF Con!bsl_utoa, Place, h

\* A negative number and its two's complement have the same eight digits.
LEMMA TwosComplement ==
  ASSUME NEW x \in Int, NEW k \in 0 .. 7, WordBits = 32
  PROVE  Place(x, 16, k) = Place(x % Word, 16, k)
<1>1. Word = 4294967296
  <2>1. 2^32 = 4294967296
    OBVIOUS
  <2> QED
    BY <2>1, BoardAssumption
<1>2. PICK q \in Int, r \in Int : x = q * 4294967296 + r /\ x % 4294967296 = r
  <2>1. x = (x \div 4294967296) * 4294967296 + (x % 4294967296)
    OBVIOUS
  <2> QED
    BY <2>1
<1>3. CASE k = 0
  BY <1>1, <1>2, <1>3 DEF Place
<1>4. CASE k = 1
  BY <1>1, <1>2, <1>4 DEF Place
<1>5. CASE k = 2
  BY <1>1, <1>2, <1>5 DEF Place
<1>6. CASE k = 3
  BY <1>1, <1>2, <1>6 DEF Place
<1>7. CASE k = 4
  BY <1>1, <1>2, <1>7 DEF Place
<1>8. CASE k = 5
  BY <1>1, <1>2, <1>8 DEF Place
<1>9. CASE k = 6
  BY <1>1, <1>2, <1>9 DEF Place
<1>10. CASE k = 7
  BY <1>1, <1>2, <1>10 DEF Place
<1> QED
  BY <1>3, <1>4, <1>5, <1>6, <1>7, <1>8, <1>9, <1>10

-----------------------------------------------------------------------------
(* What is in buf while nobody else writes to it: the sign, and behind it  *)
(* the digits from the first one that is not zero down to the place that   *)
(* the loop has come to.                                                   *)

Alone == name \in Interrupted => saves # << >>

First    == IF Head(todo)[1] = "PutI" /\ Arg < 0 THEN 1 ELSE 0
Given    == IF First = 1 THEN (-Arg) % Word ELSE Arg % Word
CallBase == IF Head(todo)[1] = "PutX" THEN 16 ELSE 10

High == NoPlaces - 1
Left == NoPlaces - places

\* The digits from place t, the first of the numeral, down to place low.
DigitsOn(t, low) ==
  /\ t = 0 \/ DigitAt(number, base, t) # 0
  /\ \A k \in t + 1 .. High : DigitAt(number, base, k) = 0
  /\ \A k \in low .. t : buf[First + t - k] = Digits[DigitAt(number, base, k) + 1]

Begun ==
  \E t \in Left .. High : DigitsOn(t, Left) /\ next = First + t - Left + 1

NotBegun ==
  /\ value = 0
  /\ next = First
  /\ \A k \in Left .. High : DigitAt(number, base, k) = 0

Written ==
  \E t \in 0 .. High :
    /\ DigitsOn(t, 0)
    /\ next = First + t + 2
    /\ buf[First + t + 1] = Null

Text ==
  /\ number = Given
  /\ base = CallBase
  /\ First = 1 => buf[0] = "-"
  /\ conversion = "zero" => number = 0 /\ next = First
  /\ conversion = "digits" => number # 0 /\ IF foundNonzero THEN Begun ELSE NotBegun
  /\ conversion = "end" => DigitsOn(0, 0) /\ next = First + 1
  /\ conversion = "written" => Written

TextInv == Alone /\ conversion # "none" => Text

\* A pass: the digit at its place, and what is left to do.
LEMMA Pass ==
  ASSUME XtoaInv, Iterate
  PROVE  /\ places \in Nat /\ NoPlaces \in Nat /\ places < NoPlaces
         /\ places' = places + 1 /\ NoPlaces' = NoPlaces
         /\ base' = base /\ number' = number
         /\ n \div f = DigitAt(number, base, High - places)
         /\ n \div f \in 0 .. base - 1
<1>1. /\ conversion = "digits" /\ f > 0
      /\ base \in Bases /\ places \in Nat /\ n \in Nat /\ f \in Nat
      /\ number \in Nat /\ value \in Nat /\ places <= NoPlaces
      /\ Division
  BY DEF XtoaInv, XtoaType, Iterate, Divide
<1>2. NoPlaces \in Nat \ {0}
  BY <1>1, PlacesType DEF NoPlaces
<1>3. /\ places < NoPlaces
      /\ f = Places[base][places + 1]
      /\ n < base * f
      /\ number = value * (base * f) + n
  BY <1>1, <1>2 DEF Division
<1>4. (number \div f) % base = n \div f /\ n \div f \in 0 .. base - 1
  <2>1. f \in Nat \ {0}
    BY <1>1
  <2> QED
    BY <1>1, <1>3, <2>1, PassDigit
<1>5. f = PlaceOf(base, High - places)
  <2>1. NoPlaces - (High - places) = places + 1
    BY <1>1, <1>2 DEF High
  <2> QED
    BY <1>3, <2>1 DEF PlaceOf, NoPlaces
<1>6. places' = places + 1 /\ base' = base /\ number' = number
  BY DEF Iterate, Divide
<1> QED
  BY <1>1, <1>2, <1>3, <1>4, <1>5, <1>6 DEF DigitAt, NoPlaces

\* While a number is converted its call stays the first.
LEMMA CallStays ==
  ASSUME todo' = todo
  PROVE  First' = First /\ Given' = Given /\ CallBase' = CallBase /\ First \in {0, 1}
  BY DEF First, Given, CallBase, Arg

LEMMA IterateText ==
  ASSUME XtoaInv, XtoaInv', Text, Iterate, todo' = todo PROVE Text'
<1> DEFINE r == n \div f
           d(k) == DigitAt(number, base, k)
<1>0. PICK low : low = High - places
  OBVIOUS
<1>1. /\ places \in Nat /\ NoPlaces \in Nat /\ places < NoPlaces
      /\ places' = places + 1 /\ NoPlaces' = NoPlaces
      /\ base' = base /\ number' = number
      /\ r = d(low)
      /\ r \in Int /\ 0 <= r
  <2>1. base \in {10, 16}
    BY DEF XtoaInv, XtoaType, Bases
  <2> QED
    BY <1>0, <2>1, Pass
<1>2. /\ Left = low + 1 /\ Left' = low /\ High' = High
      /\ low \in 0 .. High /\ High \in Nat
  BY <1>0, <1>1 DEF Left, High
<1>3. /\ First' = First /\ Given' = Given /\ CallBase' = CallBase /\ First \in {0, 1}
  BY CallStays
<1>4. /\ conversion = "digits" /\ conversion' = "digits"
      /\ value' = value * base + r
      /\ foundNonzero \/ r > 0 =>
           /\ foundNonzero'
           /\ next \in DOMAIN buf
           /\ buf' = [buf EXCEPT ![next] = Digits[r + 1]]
           /\ next' = next + 1
      /\ ~(foundNonzero \/ r > 0) => ~foundNonzero' /\ buf' = buf /\ next' = next
  <2>1. conversion' # "overrun"
    BY DEF XtoaInv, XtoaType
  <2>2. foundNonzero' = (foundNonzero \/ r > 0)
    BY DEF Iterate, Divide
  <2> QED
    BY <2>1, <2>2 DEF Iterate, Divide, Write
<1>5. number = Given /\ base = CallBase /\ number # 0 /\ (First = 1 => buf[0] = "-")
  BY <1>4 DEF Text
<1>6. \A t, l : DigitsOn(t, l)' <=>
        /\ t = 0 \/ d(t) # 0
        /\ \A k \in t + 1 .. High : d(k) = 0
        /\ \A k \in l .. t : buf'[First + t - k] = Digits[d(k) + 1]
  BY <1>1, <1>2, <1>3 DEF DigitsOn
<1>7. next \in Nat /\ DOMAIN buf = 0 .. BufLen - 1 /\ BufLen \in Nat
  BY XtoaAssumption DEF XtoaInv, XtoaType
<1> HIDE DEF r, d
<1>8. CASE foundNonzero
  <2>1. PICK t \in Left .. High : DigitsOn(t, Left) /\ next = First + t - Left + 1
    BY <1>4, <1>8 DEF Text, Begun
  <2>2. next = First + t - low /\ t \in low .. High /\ t \in Int /\ t > low
    BY <1>2, <1>3, <2>1
  <2>0. /\ foundNonzero'
        /\ next \in DOMAIN buf
        /\ buf' = [buf EXCEPT ![next] = Digits[r + 1]]
        /\ next' = next + 1
    BY <1>4, <1>8
  <2>3. /\ t = 0 \/ d(t) # 0
        /\ \A k \in t + 1 .. High : d(k) = 0
        /\ \A k \in Left .. t : buf[First + t - k] = Digits[d(k) + 1]
    BY <2>1 DEF DigitsOn, d
  <2>4. ASSUME NEW k \in low .. t
        PROVE  buf'[First + t - k] = Digits[d(k) + 1]
    <3>1. CASE k = low
      BY <1>1, <2>0, <2>2, <3>1
    <3>2. CASE k # low
      <4>1. k \in Left .. t /\ First + t - k # next
        BY <1>2, <1>3, <2>2, <3>2
      <4> QED
        BY <1>2, <1>3, <1>7, <2>0, <2>2, <2>3, <4>1
    <3> QED
      BY <3>1, <3>2
  <2>5. DigitsOn(t, low)'
    BY <1>6, <2>3, <2>4
  <2>6. next' = First + t - low + 1
    BY <1>3, <2>0, <2>2
  <2>7. Begun'
    BY <1>2, <1>3, <2>2, <2>5, <2>6 DEF Begun
  <2>8. First = 1 => buf'[0] = "-"
    BY <1>2, <1>3, <1>5, <1>7, <2>0, <2>2
  <2> QED
    BY <1>1, <1>3, <1>4, <1>5, <2>0, <2>7, <2>8 DEF Text
<1>9. CASE ~foundNonzero /\ r > 0
  <2>1. next = First /\ \A k \in Left .. High : d(k) = 0
    BY <1>4, <1>9 DEF Text, NotBegun, d
  <2>2. foundNonzero' /\ buf'[First] = Digits[d(low) + 1] /\ next' = First + 1
    BY <1>1, <1>4, <1>9, <2>1
  <2>3. ASSUME NEW k \in low .. low PROVE buf'[First + low - k] = Digits[d(k) + 1]
    <3>1. k = low /\ First + low - k = First
      BY <1>2, <1>3
    <3> QED
      BY <2>2, <3>1
  <2>4. d(low) # 0
    BY <1>1, <1>9
  <2>5. DigitsOn(low, low)'
    BY <1>2, <1>6, <2>1, <2>3, <2>4
  <2>6. Begun'
    <3>1. low \in Left' .. High' /\ next' = First + low - Left' + 1
      BY <1>2, <1>3, <2>2
    <3> QED
      BY <1>2, <1>3, <2>5, <3>1 DEF Begun
  <2>7. First = 1 => buf'[0] = "-"
    BY <1>4, <1>5, <1>7, <2>1, <2>2, <1>9
  <2> QED
    BY <1>1, <1>3, <1>4, <1>5, <2>2, <2>6, <2>7 DEF Text
<1>10. CASE ~foundNonzero /\ ~(r > 0)
  <2>1. value = 0 /\ next = First /\ \A k \in Left .. High : d(k) = 0
    BY <1>4, <1>10 DEF Text, NotBegun, d
  <2>2. r = 0 /\ ~foundNonzero' /\ buf' = buf /\ next' = next
    BY <1>1, <1>4, <1>10
  <2>3. value' = 0
    <3>1. base \in {10, 16}
      BY DEF XtoaInv, XtoaType, Bases
    <3> QED
      BY <1>4, <2>1, <2>2, <3>1
  <2>4. \A k \in low .. High : d(k) = 0
    <3>1. \A k \in low .. High : k = low \/ k \in Left .. High
      BY <1>2
    <3> QED
      BY <1>1, <2>1, <2>2, <3>1
  <2>5. NotBegun'
    BY <1>1, <1>2, <1>3, <2>1, <2>2, <2>3, <2>4 DEF NotBegun, d
  <2> QED
    BY <1>1, <1>3, <1>4, <1>5, <2>2, <2>5 DEF Text
<1> QED
  BY <1>8, <1>9, <1>10

LEMMA ZeroText ==
  ASSUME XtoaInv, XtoaInv', Text, Zero, todo' = todo PROVE Text'
<1>1. First' = First /\ Given' = Given /\ CallBase' = CallBase /\ First \in {0, 1}
  BY CallStays
<1>2. /\ number = Given /\ base = CallBase /\ (First = 1 => buf[0] = "-")
      /\ number = 0 /\ next = First
  BY DEF Text, Zero
<1>3. /\ next \in DOMAIN buf
      /\ buf' = [buf EXCEPT ![next] = "0"]
      /\ next' = next + 1
      /\ conversion' = "end"
      /\ UNCHANGED <<base, number>>
  <2>1. conversion' # "overrun"
    BY DEF XtoaInv, XtoaType
  <2> QED
    BY <2>1 DEF Zero, Write
<1>4. DOMAIN buf = 0 .. BufLen - 1 /\ BufLen \in Nat /\ base \in Bases
  BY XtoaAssumption DEF XtoaInv, XtoaType
<1>5. NoPlaces \in Nat \ {0} /\ \A k \in 0 .. High : PlaceOf(base, k) \in Nat \ {0}
  <2>1. NoPlaces \in Nat \ {0} /\ High = Len(Places[base]) - 1
    BY <1>4, PlacesType DEF NoPlaces, High
  <2>2. \A k \in 0 .. Len(Places[base]) - 1 : PlaceOf(base, k) \in Nat \ {0}
    BY <1>4, DigitRange
  <2> QED
    BY <2>1, <2>2
<1>6. \A k \in 0 .. High : DigitAt(number, base, k) = 0
  <2> SUFFICES ASSUME NEW k \in 0 .. High PROVE DigitAt(number, base, k) = 0
    OBVIOUS
  <2>1. 0 \div PlaceOf(base, k) = 0 /\ 0 % base = 0
    <3>1. \A p \in Nat \ {0} : 0 \div p = 0
      BY QuotientUnique
    <3>2. 0 % base = 0
      BY <1>4 DEF Bases
    <3> QED
      BY <1>5, <3>1, <3>2
  <2> QED
    BY <1>2, <2>1 DEF DigitAt
<1>7. High \in Nat
  BY <1>5 DEF High
<1>8. buf'[First] = Digits[DigitAt(number, base, 0) + 1]
  BY <1>2, <1>3, <1>6, <1>7 DEF Digits
<1>9. \A k \in 0 .. 0 : buf'[First + 0 - k] = Digits[DigitAt(number, base, k) + 1]
  <2>1. \A k \in 0 .. 0 : k = 0 /\ First + 0 - k = First
    BY <1>1
  <2> QED
    BY <1>8, <2>1
<1>10. DigitsOn(0, 0)'
  <2>1. High' = High
    BY <1>3 DEF High, NoPlaces
  <2>2. \A k \in 0 + 1 .. High : DigitAt(number, base, k) = 0
    BY <1>6, <1>7
  <2> QED
    BY <1>1, <1>3, <1>9, <2>1, <2>2 DEF DigitsOn
<1>11. First = 1 => buf'[0] = "-"
  BY <1>2, <1>3, <1>4
<1> QED
  BY <1>1, <1>2, <1>3, <1>10, <1>11 DEF Text

LEMMA EndText ==
  ASSUME XtoaInv, XtoaInv', Text, End, todo' = todo PROVE Text'
<1>1. First' = First /\ Given' = Given /\ CallBase' = CallBase /\ First \in {0, 1}
  BY CallStays
<1>2. number = Given /\ base = CallBase /\ (First = 1 => buf[0] = "-")
  BY DEF Text
<1>3. /\ next \in DOMAIN buf
      /\ buf' = [buf EXCEPT ![next] = Null]
      /\ conversion' = "written"
      /\ next' = next + 1
      /\ UNCHANGED <<base, number>>
  <2>1. conversion' # "overrun"
    BY DEF XtoaInv, XtoaType
  <2> QED
    BY <2>1 DEF End, Write
<1>4. DOMAIN buf = 0 .. BufLen - 1 /\ BufLen \in Nat /\ base \in Bases
  BY XtoaAssumption DEF XtoaInv, XtoaType
<1>5. NoPlaces \in Nat \ {0} /\ High = NoPlaces - 1 /\ High' = High
  BY <1>3, <1>4, PlacesType DEF NoPlaces, High
<1>6. \E t \in 0 .. High : DigitsOn(t, 0) /\ next = First + t + 1
  <2>1. CASE conversion = "end"
    BY <1>1, <1>5, <2>1 DEF Text
  <2>2. CASE conversion = "digits" /\ f = 0
    <3>1. places \in Nat /\ places <= NoPlaces /\ Division
      BY <2>2 DEF XtoaInv, XtoaType
    <3>2. ~(places < NoPlaces)
      <4> SUFFICES ASSUME places < NoPlaces PROVE FALSE
        OBVIOUS
      <4>1. places + 1 \in 1 .. NoPlaces
        BY <1>5, <3>1
      <4>2. Places[base][places + 1] # 0
        BY <1>4, <4>1, PlacesType DEF NoPlaces
      <4> QED
        BY <2>2, <3>1, <4>2 DEF Division
    <3>3. Left = 0 /\ number = value
      BY <1>5, <3>1, <3>2 DEF Left, Division
    <3>4. Begun
      BY <2>2, <3>3 DEF Text, NotBegun
    <3>5. PICK t \in 0 .. High : DigitsOn(t, 0) /\ next = First + t - 0 + 1
      BY <3>3, <3>4 DEF Begun
    <3>6. First + t - 0 + 1 = First + t + 1
      BY <1>1, <1>5
    <3> QED
      BY <3>5, <3>6
  <2> QED
    BY <2>1, <2>2 DEF End
<1>7. PICK t \in 0 .. High : DigitsOn(t, 0) /\ next = First + t + 1
  BY <1>6
<1>8. ASSUME NEW k \in 0 .. t
      PROVE  buf'[First + t - k] = Digits[DigitAt(number, base, k) + 1]
  <2>1. First + t - k \in DOMAIN buf /\ First + t - k # next
    BY <1>1, <1>3, <1>4, <1>5, <1>7
  <2>2. buf[First + t - k] = Digits[DigitAt(number, base, k) + 1]
    BY <1>7 DEF DigitsOn
  <2> QED
    BY <1>3, <2>1, <2>2
<1>9. DigitsOn(t, 0)'
  BY <1>1, <1>3, <1>5, <1>7, <1>8 DEF DigitsOn
<1>10. buf'[First + t + 1] = Null /\ next' = First + t + 2
  BY <1>1, <1>3, <1>4, <1>5, <1>7
<1>11. Written'
  BY <1>1, <1>5, <1>9, <1>10 DEF Written
<1>12. First = 1 => buf'[0] = "-"
  BY <1>1, <1>2, <1>3, <1>4, <1>5, <1>7
<1> QED
  BY <1>1, <1>2, <1>3, <1>11, <1>12 DEF Text

LEMMA BeginText ==
  ASSUME BufferInv, NumbersGiven, PutNumber PROVE Text'
<1>1. /\ todo # << >> /\ todo' = todo
      /\ Head(todo)[1] \in NumberCalls
      /\ Arg \in Numbers /\ Arg \in Int /\ Arg < Word /\ Word \in Nat \ {0}
  <2>1. todo # << >> /\ todo' = todo /\ Head(todo)[1] \in NumberCalls
    BY PutNumberBegins
  <2>2. Arg \in Numbers
    BY <2>1 DEF NumbersGiven, NumberCalls
  <2> QED
    BY <2>1, <2>2, XtoaAssumption
<1>2. First' = First /\ Given' = Given /\ CallBase' = CallBase /\ First \in {0, 1}
  BY <1>1, CallStays
<1>3. 0 \in DOMAIN buf
  BY BoardAssumption, XtoaAssumption DEF BufferInv, XtoaInv, XtoaType
<1>4. /\ Begin(Given, CallBase)
      /\ next' = First
      /\ First = 1 => buf'[0] = "-"
  <2>1. CASE Calls("PutI") /\ bsl_itoa(Arg)
    <3>1. Head(todo)[1] = "PutI" /\ CallBase = 10
      BY <2>1 DEF Calls, CallBase
    <3>2. CASE Arg < 0
      BY <1>3, <2>1, <3>1, <3>2 DEF bsl_itoa, First, Given
    <3>3. CASE ~(Arg < 0)
      <4>1. Arg % Word = Arg
        BY <1>1, <3>3
      <4> QED
        BY <2>1, <3>1, <3>3, <4>1 DEF bsl_itoa, First, Given
    <3> QED
      BY <3>2, <3>3
  <2>2. CASE Calls("PutU") /\ bsl_utoa(Arg, 10)
    BY <2>2 DEF Calls, CallBase, bsl_utoa, First, Given
  <2>3. CASE Calls("PutX") /\ bsl_utoa(Arg, 16)
    BY <2>3 DEF Calls, CallBase, bsl_utoa, First, Given
  <2> QED
    BY <2>1, <2>2, <2>3 DEF PutNumber
<1>5. /\ number' = Given /\ base' = CallBase
      /\ conversion' = IF Given = 0 THEN "zero" ELSE "digits"
      /\ ~foundNonzero' /\ value' = 0 /\ places' = 0
  <2>1. CallBase \in {10, 16}
    BY DEF CallBase
  <2> QED
    BY <1>4, <2>1 DEF Begin
<1>6. NotBegun'
  <2>1. NoPlaces' \in Nat
    <3>1. CallBase \in Bases
      BY DEF CallBase, Bases
    <3> QED
      BY <1>5, <3>1, PlacesType DEF NoPlaces
  <2>2. Left' = NoPlaces' - places' /\ High' = NoPlaces' - 1
    BY DEF Left, High
  <2>3. Left' > High' /\ Left' \in Int /\ High' \in Int
    <3>1. Left' = NoPlaces' - 0 /\ High' = NoPlaces' - 1
      BY <1>5, <2>2
    <3>2. PICK m \in Nat : m = NoPlaces'
      BY <2>1
    <3>3. Left' = m - 0 /\ High' = m - 1
      BY <3>1, <3>2
    <3> QED
      BY <3>3
  <2>4. Left' .. High' = {}
    BY <2>3
  <2> QED
    BY <1>2, <1>4, <1>5, <2>4 DEF NotBegun
<1> QED
  BY <1>2, <1>4, <1>5, <1>6 DEF Text

LEMMA TextStep ==
  CallInv /\ SectionInv /\ BufferInv /\ BufferInv' /\ NumbersGiven /\ TextInv /\ [Next]_vars
    => TextInv'
<1> SUFFICES ASSUME CallInv, SectionInv, BufferInv, BufferInv', NumbersGiven, TextInv,
                    [Next]_vars
             PROVE  TextInv'
  OBVIOUS
<1>1. Listed /\ Converting /\ XtoaInv /\ XtoaInv'
  BY DEF CallInv, BufferInv
<1>2. CASE Elsewhere
  BY <1>2 DEF Elsewhere, xtoaVars, TextInv
<1>3. CASE PutNumber
  BY <1>3, BeginText DEF TextInv
<1>4. CASE Convert
  <2>1. todo' = todo /\ Alone' = Alone /\ conversion # "none"
    BY <1>4 DEF Convert, boardVars, Alone, Zero, Iterate, Divide, End
  <2>2. Alone' => Text
    BY <2>1 DEF TextInv
  <2> QED
    BY <1>1, <1>4, <2>1, <2>2, ZeroText, IterateText, EndText DEF Convert, TextInv
<1>5. CASE COut_PutS
  <2>1. Alone' = Alone /\ conversion = "written"
    BY <1>5 DEF COut_PutS, Alone
  <2>2. CASE Character = Null
    BY <1>5, <2>2 DEF COut_PutS, Printed, TextInv
  <2>3. CASE Character # Null
    <3>1. UNCHANGED <<xtoaVars, todo>>
      BY <1>5, <2>3 DEF COut_PutS
    <3>2. Text' = Text
      BY <3>1 DEF xtoaVars, locals, Text, Begun, NotBegun, Written, DigitsOn, First,
                  Given, CallBase, Arg, Left, High, NoPlaces
    <3> QED
      BY <2>1, <3>1, <3>2 DEF TextInv, xtoaVars
  <2> QED
    BY <2>2, <2>3
<1>6. CASE Interrupt
  <2>1. name \in Interrupted /\ sregI /\ UNCHANGED <<name, saves, todo, conversion>>
    BY <1>6 DEF Interrupt, HandlerRuns
  <2>2. CASE conversion = "none"
    BY <2>1, <2>2 DEF TextInv
  <2>3. CASE conversion # "none"
    <3>1. saves = << >>
      BY <1>1, <2>1, <2>3 DEF Converting, NumberCalls, SectionInv, SectionClosed
    <3> QED
      BY <2>1, <3>1 DEF TextInv, Alone
  <2> QED
    BY <2>2, <2>3
<1>7. CASE UNCHANGED vars
  <2>1. Text' = Text /\ Alone' = Alone /\ conversion' = conversion
    BY <1>7 DEF vars, boardVars, xtoaVars, locals, Text, Begun, NotBegun, Written, DigitsOn,
                First, Given, CallBase, Arg, Left, High, NoPlaces, Alone
  <2> QED
    BY <2>1 DEF TextInv
<1> QED
  BY <1>1, <1>2, <1>3, <1>4, <1>5, <1>6, <1>7, StepKinds

\* What the call has sent is what buf starts with.
SentInv ==
  Alone /\ conversion = "written" =>
    \A i \in 1 .. Len(sent) : sent[i] = buf[i - 1] /\ sent[i] # Null

LEMMA SentStep ==
  CallInv /\ SectionInv /\ BufferInv /\ PrintInv /\ SentInv /\ [Next]_vars => SentInv'
<1> SUFFICES ASSUME CallInv, SectionInv, BufferInv, PrintInv, SentInv, [Next]_vars
             PROVE  SentInv'
  OBVIOUS
<1>1. Listed /\ Converting /\ sent \in Seq(Characters) /\ Len(sent) \in Nat
  BY DEF CallInv, PrintInv
<1>2. CASE Elsewhere
  BY <1>2 DEF Elsewhere, xtoaVars, SentInv
<1>3. CASE PutNumber
  BY <1>3, PutNumberBegins DEF SentInv
<1>4. CASE Convert
  <2>1. sent' = << >>
    BY <1>4 DEF PrintInv, Convert, boardVars, Zero, Iterate, Divide, End
  <2>2. Len(sent') = 0
    BY <2>1
  <2> QED
    BY <2>2 DEF SentInv
<1>5. CASE COut_PutS
  <2>1. Alone' = Alone /\ conversion = "written"
    BY <1>5 DEF COut_PutS, Alone
  <2>2. CASE Character = Null
    BY <1>5, <2>2 DEF COut_PutS, Printed, SentInv
  <2>3. CASE Character # Null
    <3>1. sent' = Append(sent, Character) /\ UNCHANGED buf
      BY <1>5, <2>3 DEF COut_PutS, xtoaVars
    <3>2. ASSUME Alone, NEW i \in 1 .. Len(sent')
          PROVE  sent'[i] = buf'[i - 1] /\ sent'[i] # Null
      <4>1. Len(sent') = Len(sent) + 1
        BY <1>1, <3>1
      <4>2. CASE i = Len(sent) + 1
        <5>1. sent'[i] = Character /\ i - 1 = Len(sent)
          BY <1>1, <3>1, <4>2
        <5> QED
          BY <2>3, <3>1, <5>1 DEF Character
      <4>3. CASE i # Len(sent) + 1
        <5>1. i \in 1 .. Len(sent) /\ sent'[i] = sent[i]
          BY <1>1, <3>1, <4>1, <4>3
        <5> QED
          BY <2>1, <3>1, <3>2, <5>1 DEF SentInv
      <4> QED
        BY <4>2, <4>3
    <3> QED
      BY <2>1, <3>2 DEF SentInv
  <2> QED
    BY <2>2, <2>3
<1>6. CASE Interrupt
  <2>1. name \in Interrupted /\ sregI /\ UNCHANGED <<name, saves, todo, conversion>>
    BY <1>6 DEF Interrupt, HandlerRuns
  <2>2. CASE conversion = "none"
    BY <2>1, <2>2 DEF SentInv
  <2>3. CASE conversion # "none"
    <3>1. saves = << >>
      BY <1>1, <2>1, <2>3 DEF Converting, NumberCalls, SectionInv, SectionClosed
    <3> QED
      BY <2>1, <3>1 DEF SentInv, Alone
  <2> QED
    BY <2>2, <2>3
<1>7. CASE UNCHANGED vars
  BY <1>7 DEF vars, boardVars, xtoaVars, SentInv, Alone
<1> QED
  BY <1>1, <1>2, <1>3, <1>4, <1>5, <1>6, <1>7, StepKinds

-----------------------------------------------------------------------------
(* What has gone to the line when the zero is met.                         *)

\* The digits of the word that is converted are those of the number given.
LEMMA GivenDigits ==
  ASSUME NEW b \in Bases, NEW x \in Int, NEW k \in 0 .. Con!HighestPlace(b),
         x \in 0 .. Word - 1 \/ (b = 16 /\ WordBits = 32)
  PROVE  Place(x, b, k) = IF k < Len(Places[b]) THEN DigitAt(x % Word, b, k) ELSE 0
<1>1. Word \in Nat \ {0}
  BY XtoaAssumption
<1>2. x % Word \in 0 .. Word - 1
  BY <1>1
<1>3. Place(x % Word, b, k) = IF k < Len(Places[b]) THEN DigitAt(x % Word, b, k) ELSE 0
  BY <1>2, PlaceDigit
<1>4. Place(x, b, k) = Place(x % Word, b, k)
  <2>1. CASE x \in 0 .. Word - 1
    <3>1. x % Word = x
      BY <1>1, <2>1
    <3> QED
      BY <3>1
  <2>2. CASE b = 16 /\ WordBits = 32
    <3>1. k \in 0 .. 7
      BY <2>2 DEF Con!HighestPlace
    <3> QED
      BY <2>2, <3>1, TwosComplement
  <2> QED
    BY <2>1, <2>2
<1> QED
  BY <1>3, <1>4

\* The code of a digit in buf.
LEMMA CodeOf ==
  ASSUME NEW d \in 0 .. 15, NEW chars, NEW i \in 1 .. Len(chars), chars[i] = Digits[d + 1]
  PROVE  Codes(chars)[i] = Con!Digit(d)
<1>1. chars[i] # "-" /\ (CHOOSE k \in 1 .. 16 : Digits[k] = chars[i]) = d + 1
  BY DigitCode
<1>2. (d + 1) - 1 = d
  <2>1. \A e \in Int : (e + 1) - 1 = e
    OBVIOUS
  <2> QED
    BY <2>1
<1>3. Codes(chars)[i] = Con!Digit((CHOOSE k \in 1 .. 16 : Digits[k] = chars[i]) - 1)
  BY <1>1 DEF Codes
<1> QED
  BY <1>1, <1>2, <1>3

\* What the console makes of the number that the call was given.
Shape(x) ==
  IF First = 1 THEN <<45>> \o Con!bsl_utoa(x, CallBase) ELSE Con!bsl_utoa(x, CallBase)

LEMMA NumeralIs ==
  ASSUME Head(todo)[1] \in NumberCalls, NumbersGiven, todo # << >>
  PROVE  \E x \in Int :
           /\ Numeral(Head(todo)) = Shape(x)
           /\ x % Word = Given
           /\ x \in 0 .. Word - 1 \/ (CallBase = 16 /\ WordBits = 32)
<1>1. Arg \in Int /\ Arg < Word /\ Word \in Nat \ {0} /\ 2^WordBits = Word
  <2>1. Arg \in Numbers
    BY DEF NumbersGiven, NumberCalls
  <2>2. Word = 2^WordBits
    BY BoardAssumption
  <2> QED
    BY <2>1, <2>2, XtoaAssumption
<1>2. \A z \in Int : \E y \in Int :
        y = z % Word /\ y \in 0 .. Word - 1 /\ y % Word = y
  <2>1. \A z \in Int : z % Word \in 0 .. Word - 1 /\ (z % Word) % Word = z % Word
    BY <1>1
  <2>2. \A y \in 0 .. Word - 1 : y \in Int
    BY <1>1
  <2> QED
    BY <2>1, <2>2, Zenon
<1>3. CASE Head(todo)[1] = "PutI" /\ Arg < 0
  <2>1. First = 1 /\ CallBase = 10 /\ Given = (-Arg) % Word
    BY <1>3 DEF First, CallBase, Given
  <2>2. Numeral(Head(todo)) = <<45>> \o Con!bsl_utoa((-Arg) % Word, 10)
    BY <1>1, <1>3 DEF Numeral, Con!PutI, Con!bsl_itoa, Con!Unsigned, Arg
  <2>3. PICK y \in Int : y = (-Arg) % Word /\ y \in 0 .. Word - 1 /\ y % Word = y
    <3>1. -Arg \in Int
      BY <1>1
    <3> QED
      BY <1>2, <3>1
  <2>4. Numeral(Head(todo)) = Shape(y)
    BY <2>1, <2>2, <2>3 DEF Shape
  <2> QED
    BY <2>1, <2>3, <2>4
<1>4. CASE Head(todo)[1] = "PutI" /\ ~(Arg < 0)
  <2>1. First = 0 /\ CallBase = 10 /\ Given = Arg % Word
    BY <1>4 DEF First, CallBase, Given
  <2>2. Numeral(Head(todo)) = Con!bsl_utoa(Arg, 10)
    BY <1>4 DEF Numeral, Con!PutI, Con!bsl_itoa, Arg
  <2>3. Arg \in 0 .. Word - 1
    BY <1>1, <1>4
  <2> QED
    BY <1>1, <2>1, <2>2, <2>3 DEF Shape
<1>5. CASE Head(todo)[1] = "PutU"
  <2>1. First = 0 /\ CallBase = 10 /\ Given = Arg % Word
    BY <1>5 DEF First, CallBase, Given
  <2>2. Numeral(Head(todo)) = Con!bsl_utoa(Arg % Word, 10)
    BY <1>1, <1>5 DEF Numeral, Con!PutU, Con!Unsigned, Arg
  <2>3. PICK y \in Int : y = Arg % Word /\ y \in 0 .. Word - 1 /\ y % Word = y
    BY <1>1, <1>2
  <2>4. Numeral(Head(todo)) = Shape(y)
    BY <2>1, <2>2, <2>3 DEF Shape
  <2> QED
    BY <2>1, <2>3, <2>4
<1>6. CASE Head(todo)[1] = "PutX"
  <2>1. First = 0 /\ CallBase = 16 /\ Given = Arg % Word
    BY <1>6 DEF First, CallBase, Given
  <2>2. Numeral(Head(todo)) = Con!bsl_utoa(Arg, 16)
    BY <1>6 DEF Numeral, Con!PutX, Arg
  <2>3. Arg \in 0 .. Word - 1 \/ WordBits = 32
    BY <1>1, <1>6 DEF NumbersGiven, NumberCalls
  <2> QED
    BY <1>1, <2>1, <2>2, <2>3 DEF Shape
<1> QED
  BY <1>3, <1>4, <1>5, <1>6 DEF NumberCalls

\* The codes of the digits that were sent, from place t of the word down.
LEMMA SentNumeral ==
  ASSUME XtoaInv, Text, NEW t \in 0 .. High, DigitsOn(t, 0),
         NEW x \in Int, x % Word = Given,
         x \in 0 .. Word - 1 \/ (CallBase = 16 /\ WordBits = 32),
         sent \in Seq(Characters), Len(sent) = First + t + 1,
         \A i \in 1 .. Len(sent) : sent[i] = buf[i - 1]
  PROVE  Codes(sent) = Shape(x)
<1> DEFINE h == Con!HighestPlace(base)
<1>1. /\ base = CallBase /\ base \in Bases /\ number = Given /\ First \in {0, 1}
      /\ High = Len(Places[base]) - 1 /\ High \in Nat
      /\ Len(Places[base]) <= h + 1 /\ h \in Nat
  <2>1. base \in Bases /\ base = CallBase /\ number = Given
    BY DEF XtoaInv, XtoaType, Text
  <2>2. Len(Places[base]) \in Nat \ {0}
    BY <2>1, PlacesType
  <2>3. High = Len(Places[base]) - 1 /\ First \in {0, 1}
    BY DEF High, NoPlaces, First
  <2>4. h \in Nat
    BY DEF Con!HighestPlace
  <2> HIDE DEF h
  <2>5. Len(Places[base]) <= h + 1
    BY <2>1, PlacesAssumption DEF h
  <2> QED
    BY <2>1, <2>2, <2>3, <2>4, <2>5
<1>2. \A k \in 0 .. h : Place(x, base, k) = IF k <= High THEN DigitAt(number, base, k) ELSE 0
  <2> SUFFICES ASSUME NEW k \in 0 .. h
               PROVE  Place(x, base, k) = IF k <= High THEN DigitAt(number, base, k) ELSE 0
    OBVIOUS
  <2>1. Place(x, base, k) = IF k < Len(Places[base]) THEN DigitAt(x % Word, base, k) ELSE 0
    BY <1>1, GivenDigits
  <2>2. k < Len(Places[base]) <=> k <= High
    BY <1>1
  <2> QED
    BY <1>1, <2>1, <2>2
<1> HIDE DEF h
<1>3. /\ t \in 0 .. h
      /\ t = 0 \/ DigitAt(number, base, t) # 0
      /\ \A k \in t + 1 .. High : DigitAt(number, base, k) = 0
      /\ \A k \in 0 .. t : buf[First + t - k] = Digits[DigitAt(number, base, k) + 1]
  BY <1>1 DEF DigitsOn
<1>4. t = 0 \/ Place(x, base, t) # 0
  BY <1>1, <1>2, <1>3
<1>5. \A k \in t + 1 .. h : Place(x, base, k) = 0
  <2> SUFFICES ASSUME NEW k \in t + 1 .. h PROVE Place(x, base, k) = 0
    OBVIOUS
  <2>1. k \in 0 .. h /\ (k <= High => k \in t + 1 .. High)
    BY <1>1, <1>3
  <2> QED
    BY <1>2, <1>3, <2>1
<1>6. Con!bsl_utoa(x, base) = [i \in 1 .. t + 1 |-> Con!Digit(Place(x, base, t + 1 - i))]
  BY <1>1, <1>3, <1>4, <1>5, NumeralFrom DEF h
<1>7. ASSUME NEW k \in 0 .. t
      PROVE  /\ First + t + 1 - k \in 1 .. Len(sent)
             /\ Codes(sent)[First + t + 1 - k] = Con!Digit(Place(x, base, k))
  <2> DEFINE j == First + t + 1 - k
             d == DigitAt(number, base, k)
  <2>1. j \in 1 .. Len(sent) /\ j - 1 = First + t - k
    BY <1>1, <1>3
  <2>2. k \in 0 .. High /\ k \in 0 .. h
    BY <1>1, <1>3
  <2>3. sent[j] = Digits[d + 1]
    BY <1>3, <2>1
  <2>4. d \in 0 .. 15
    <3>1. number \in Int
      BY DEF XtoaInv, XtoaType
    <3>2. d \in 0 .. base - 1
      BY <1>1, <2>2, <3>1, DigitRange
    <3>3. base = 10 \/ base = 16
      BY <1>1 DEF Bases
    <3>4. \A e \in 0 .. base - 1 : e \in 0 .. 15
      BY <3>3
    <3> QED
      BY <3>2, <3>4, Zenon
  <2>5. Place(x, base, k) = d
    BY <1>1, <1>2, <2>2
  <2> HIDE DEF j, d
  <2>6. Codes(sent)[j] = Con!Digit(d)
    BY <2>1, <2>3, <2>4, CodeOf
  <2> QED
    BY <2>1, <2>5, <2>6 DEF j
<1>8. Codes(sent) = [i \in 1 .. First + t + 1 |-> Codes(sent)[i]]
  BY DEF Codes
<1>9. CASE First = 0
  <2>1. Codes(sent) = [i \in 1 .. t + 1 |-> Codes(sent)[i]]
    <3>1. First + t + 1 = t + 1
      BY <1>3, <1>9
    <3> QED
      BY <1>8, <3>1
  <2>2. ASSUME NEW i \in 1 .. t + 1
        PROVE  Codes(sent)[i] = Con!Digit(Place(x, base, t + 1 - i))
    <3>1. t + 1 - i \in 0 .. t /\ First + t + 1 - (t + 1 - i) = i
      BY <1>3, <1>9
    <3> QED
      BY <1>7, <3>1
  <2>3. Codes(sent) = Con!bsl_utoa(x, base)
    BY <1>6, <2>1, <2>2
  <2> QED
    BY <1>1, <1>9, <2>3 DEF Shape
<1>10. CASE First = 1
  <2> DEFINE m == Con!bsl_utoa(x, base)
  <2>1. m = [i \in 1 .. t + 1 |-> Con!Digit(Place(x, base, t + 1 - i))] /\ t + 1 \in Nat
    BY <1>3, <1>6
  <2>2. <<45>> \o m = [i \in 1 .. t + 2 |-> IF i = 1 THEN 45 ELSE m[i - 1]]
    BY <2>1
  <2> HIDE DEF m
  <2>3. Codes(sent) = [i \in 1 .. t + 2 |-> Codes(sent)[i]]
    <3>1. First + t + 1 = t + 2
      BY <1>3, <1>10
    <3> QED
      BY <1>8, <3>1
  <2>4. Codes(sent)[1] = 45
    <3>1. 1 \in 1 .. Len(sent) /\ 1 - 1 = 0
      BY <1>3, <1>10
    <3>2. sent[1] = "-"
      BY <1>10, <3>1 DEF Text
    <3> QED
      BY <3>1, <3>2 DEF Codes
  <2>5. ASSUME NEW i \in 2 .. t + 2
        PROVE  Codes(sent)[i] = m[i - 1]
    <3>1. t + 2 - i \in 0 .. t /\ First + t + 1 - (t + 2 - i) = i
      BY <1>3, <1>10
    <3>2. i - 1 \in 1 .. t + 1 /\ t + 1 - (i - 1) = t + 2 - i
      BY <1>3
    <3>3. m[i - 1] = Con!Digit(Place(x, base, t + 2 - i))
      BY <2>1, <3>2
    <3> QED
      BY <1>7, <3>1, <3>3
  <2>6. \A i \in 1 .. t + 2 : Codes(sent)[i] = IF i = 1 THEN 45 ELSE m[i - 1]
    <3>1. \A i \in 1 .. t + 2 : i = 1 \/ i \in 2 .. t + 2
      BY <1>3
    <3> QED
      BY <2>4, <2>5, <3>1
  <2>7. Codes(sent) = <<45>> \o m
    BY <2>2, <2>3, <2>6
  <2> QED
    BY <1>1, <1>10, <2>7 DEF Shape, m
<1> QED
  BY <1>1, <1>9, <1>10

LEMMA ShownNow ==
  ASSUME CallInv, BufferInv, PrintInv, TextInv, SentInv, NumbersGiven PROVE Shown
<1> SUFFICES ASSUME conversion = "written", Character = Null, Alone
             PROVE  Codes(sent) = Numeral(Head(todo))
  BY DEF Shown, Alone
<1>1. /\ Text /\ XtoaInv
      /\ todo # << >> /\ Head(todo)[1] \in NumberCalls
      /\ sent \in Seq(Characters) /\ Len(sent) \in Nat
      /\ \A i \in 1 .. Len(sent) : sent[i] = buf[i - 1] /\ sent[i] # Null
      /\ buf[Len(sent)] = Null
  BY DEF CallInv, Converting, BufferInv, PrintInv, TextInv, SentInv, Character
<1>2. PICK t \in 0 .. High : DigitsOn(t, 0) /\ buf[First + t + 1] = Null
  BY <1>1 DEF Text, Written
<1>3. /\ base \in Bases /\ number \in Int /\ First \in {0, 1}
      /\ High = Len(Places[base]) - 1 /\ High \in Nat
  <2>1. base \in Bases /\ number \in Int
    BY <1>1 DEF XtoaInv, XtoaType
  <2>2. Len(Places[base]) \in Nat \ {0}
    BY <2>1, PlacesType
  <2>3. High = Len(Places[base]) - 1 /\ First \in {0, 1}
    BY DEF High, NoPlaces, First
  <2> QED
    BY <2>1, <2>2, <2>3
<1>4. \A j \in 0 .. First + t : buf[j] # Null
  <2> SUFFICES ASSUME NEW j \in 0 .. First + t PROVE buf[j] # Null
    OBVIOUS
  <2>1. CASE j < First
    <3>1. j = 0 /\ First = 1
      BY <1>2, <1>3, <2>1
    <3> QED
      BY <1>1, <3>1 DEF Text, Null
  <2>2. CASE ~(j < First)
    <3>1. First + t - j \in 0 .. t /\ First + t - (First + t - j) = j
      BY <1>2, <1>3, <2>2
    <3>2. PICK k \in 0 .. t : k = First + t - j
      BY <3>1
    <3>3. k \in 0 .. Len(Places[base]) - 1
      BY <1>2, <1>3, <3>2
    <3>4. PICK d \in 0 .. base - 1 : d = DigitAt(number, base, k)
      BY <1>3, <3>3, DigitRange
    <3>5. d \in 0 .. 15
      <4>1. base = 10 \/ base = 16
        BY <1>3 DEF Bases
      <4> QED
        BY <4>1
    <3>6. buf[j] = Digits[d + 1]
      BY <1>2, <3>1, <3>2, <3>4 DEF DigitsOn
    <3> QED
      BY <3>5, <3>6, DigitCode
  <2> QED
    BY <2>1, <2>2
<1>5. Len(sent) = First + t + 1
  <2>1. ~(Len(sent) <= First + t)
    BY <1>1, <1>2, <1>3, <1>4
  <2>2. ~(Len(sent) > First + t + 1)
    <3> SUFFICES ASSUME Len(sent) > First + t + 1 PROVE FALSE
      OBVIOUS
    <3>1. First + t + 2 \in 1 .. Len(sent) /\ (First + t + 2) - 1 = First + t + 1
      BY <1>1, <1>2, <1>3
    <3> QED
      BY <1>1, <1>2, <3>1
  <2> QED
    BY <1>1, <1>2, <1>3, <2>1, <2>2
<1>6. PICK x \in Int :
        /\ Numeral(Head(todo)) = Shape(x)
        /\ x % Word = Given
        /\ x \in 0 .. Word - 1 \/ (CallBase = 16 /\ WordBits = 32)
  BY <1>1, NumeralIs
<1> QED
  BY <1>1, <1>2, <1>5, <1>6, SentNumeral

LEMMA ShownInitially == Init => TextInv /\ SentInv
  BY DEF Init, XtoaInit, TextInv, SentInv

LEMMA PrintInvariant == Spec /\ []NumbersGiven => []PrintInv
  BY BufferInvariant, PrintInitially, PrintStep, PTL DEF Spec

\* NumbersShown: a number that nobody interrupts, or that is printed in a
\* section, reaches the line as the numeral that Console gives for it: every
\* digit of it, none before the first that is not zero, and the sign in front,
\* whatever the call before left in the shared buf (bsl_COut.c:29, 45-48;
\* bsl_xtoa.c:10-52).
THEOREM NumbersShown == Spec /\ []NumbersGiven => []Shown
<1>1. CallInv /\ BufferInv /\ PrintInv /\ TextInv /\ SentInv /\ NumbersGiven => Shown
  BY ShownNow
<1> QED
  BY <1>1, CallInvariant, SectionInvariant, BufferInvariant, PrintInvariant,
     ShownInitially, TextStep, SentStep, PTL DEF Spec

-----------------------------------------------------------------------------
(* The registers of the stack.  As with the sections, the tops that are    *)
(* still to come become a function on the calls that are left.             *)

TopRange == -1 .. SiLen - 1

Follows(l, k, h) ==
  /\ h[0] = k
  /\ \A i \in 1 .. Len(l) : h[i] = TopAfter(l[i][1], h[i - 1])

StackedFrom(l, k) == \E h \in [0 .. Len(l) -> TopRange] : Follows(l, k, h)

StackCalls ==
  {"Stack_New", "Stack_Push", "Stack_Push_top", "Stack_dup",
   "Stack_Pop", "Stack_add", "Stack_sub", "Stack_mul"}

LEMMA OtherCall ==
  ASSUME NEW call, call \notin StackCalls, NEW k PROVE TopAfter(call, k) = k
<1>1. /\ call # "Stack_New"
      /\ call \notin {"Stack_Push", "Stack_Push_top", "Stack_dup"}
      /\ call \notin {"Stack_Pop", "Stack_add", "Stack_sub", "Stack_mul"}
  BY DEF StackCalls
<1> QED BY <1>1 DEF TopAfter

LEMMA CallsOrdered == IsWellFoundedOn({ss \in Nat \X Nat : ss[1] < ss[2]}, Nat)
  BY Zenon, NatLessThanWellFounded DEF OpToRel

LEMMA LeastCall ==
  ASSUME NEW T, T \subseteq Nat, T # {}
  PROVE  \E x \in T : \A y \in T : x <= y
<1> DEFINE before == {ss \in Nat \X Nat : ss[1] < ss[2]}
<1>1. PICK x \in T : \A y \in T : ~ (<<y, x>> \in before)
  <2>1. IsWellFoundedOn(before, Nat)
    BY CallsOrdered
  <2> HIDE DEF before
  <2> QED BY <2>1, WFMin
<1>2. \A y \in T : ~ (y < x)
  BY <1>1
<1> QED BY <1>2

\* Tops is defined: a least sequence of calls for which it were not would have
\* one call more than one for which it is.
TopAt(l, h, i) == IF i = 0 THEN 0 ELSE TopAfter(l[i][1], h[i - 1])

TopsTo(l, m) == \E h : h = [i \in 0 .. m |-> TopAt(l, h, i)]

LEMMA TopsExtend ==
  ASSUME NEW l, NEW m \in Nat, TopsTo(l, m)
  PROVE  TopsTo(l, m + 1)
<1>1. PICK h : h = [i \in 0 .. m |-> TopAt(l, h, i)]
  BY DEF TopsTo
<1> DEFINE g == [i \in 0 .. m + 1 |-> IF i = m + 1 THEN TopAt(l, h, i) ELSE h[i]]
<1>2. ASSUME NEW i \in 0 .. m + 1
      PROVE  TopAt(l, g, i) = TopAt(l, h, i)
  <2>1. CASE i = 0
    BY <2>1 DEF TopAt
  <2>2. CASE i # 0
    <3>1. i - 1 \in 0 .. m + 1 /\ i - 1 # m + 1
      BY <2>2
    <3>2. g[i - 1] = h[i - 1]
      BY <3>1
    <3> HIDE DEF g
    <3> QED BY <2>2, <3>2 DEF TopAt
  <2> QED BY <2>1, <2>2
<1>3. ASSUME NEW i \in 0 .. m + 1
      PROVE  g[i] = TopAt(l, h, i)
  <2>1. CASE i = m + 1
    BY <2>1
  <2>2. CASE i # m + 1
    <3>1. i \in 0 .. m
      BY <2>2
    <3>2. h[i] = TopAt(l, h, i)
      BY <1>1, <3>1
    <3> QED BY <2>2, <3>2
  <2> QED BY <2>1, <2>2
<1>4. g = [i \in 0 .. m + 1 |-> g[i]]
  OBVIOUS
<1>5. g = [i \in 0 .. m + 1 |-> TopAt(l, g, i)]
  <2> HIDE DEF g
  <2> QED BY <1>2, <1>3, <1>4
<1> QED BY <1>5 DEF TopsTo

LEMMA TopsExist == ASSUME NEW l, NEW m \in Nat PROVE TopsTo(l, m)
<1> DEFINE bad == {k \in Nat : ~ TopsTo(l, k)}
<1>1. SUFFICES ASSUME bad # {} PROVE FALSE
  OBVIOUS
<1>2. PICK k \in bad : \A y \in bad : k <= y
  <2>1. bad \subseteq Nat
    OBVIOUS
  <2> HIDE DEF bad
  <2> QED BY <1>1, <2>1, LeastCall
<1>3. TopsTo(l, 0)
  <2> DEFINE h == [i \in 0 .. 0 |-> 0]
  <2>1. h = [i \in 0 .. 0 |-> TopAt(l, h, i)]
    BY DEF TopAt
  <2> QED BY <2>1 DEF TopsTo
<1>4. k # 0 /\ k - 1 \in Nat
  BY <1>3
<1>5. TopsTo(l, k - 1)
  BY <1>2, <1>4
<1>6. TopsTo(l, (k - 1) + 1)
  BY <1>4, <1>5, TopsExtend
<1> QED BY <1>4, <1>6

LEMMA StackedProgram ==
  ASSUME NEW T, NEW l \in Seq(T), WellStacked(l)
  PROVE  StackedFrom(l, 0)
<1>1. Len(l) \in Nat
  OBVIOUS
<1> DEFINE h == Tops(l)
<1>2. h = [i \in 0 .. Len(l) |-> TopAt(l, h, i)]
  <2> DEFINE tops == CHOOSE g : g = [i \in 0 .. Len(l) |-> TopAt(l, g, i)]
  <2>1. tops = [i \in 0 .. Len(l) |-> TopAt(l, tops, i)]
    BY <1>1, TopsExist DEF TopsTo
  <2>2. h = tops
    BY DEF Tops, TopAt
  <2> QED BY <2>1, <2>2
<1>3. \A i \in 1 .. Len(l) : h[i] \in TopRange
  BY DEF WellStacked, TopRange
<1> HIDE DEF h
<1>4. h[0] = 0 /\ 0 \in TopRange
  BY <1>1, <1>2, BoardAssumption DEF TopAt, TopRange
<1>5. \A i \in 0 .. Len(l) : h[i] \in TopRange
  BY <1>1, <1>3, <1>4
<1>6. h \in [0 .. Len(l) -> TopRange]
  <2>1. h = [i \in 0 .. Len(l) |-> h[i]]
    BY <1>2
  <2> QED BY <1>5, <2>1
<1>7. \A i \in 1 .. Len(l) : h[i] = TopAfter(l[i][1], h[i - 1])
  BY <1>2 DEF TopAt
<1> QED BY <1>4, <1>6, <1>7 DEF StackedFrom, Follows

LEMMA StackedTail ==
  ASSUME NEW T, NEW l \in Seq(T), l # << >>, NEW k, StackedFrom(l, k)
  PROVE  /\ k \in TopRange
         /\ TopAfter(Head(l)[1], k) \in TopRange
         /\ StackedFrom(Tail(l), TopAfter(Head(l)[1], k))
<1>1. PICK h \in [0 .. Len(l) -> TopRange] : Follows(l, k, h)
  BY DEF StackedFrom
<1>2. /\ Len(l) \in Nat \ {0}
      /\ Len(Tail(l)) = Len(l) - 1
      /\ \A i \in 1 .. Len(l) - 1 : Tail(l)[i] = l[i + 1]
      /\ Head(l) = l[1]
  OBVIOUS
<1> DEFINE e == [i \in 0 .. Len(l) - 1 |-> h[i + 1]]
<1>3. e \in [0 .. Len(Tail(l)) -> TopRange]
  BY <1>2
<1>4. h[0] = k /\ h[1] = TopAfter(Head(l)[1], k) /\ h[0] \in TopRange /\ h[1] \in TopRange
  <2>1. 1 \in 1 .. Len(l) /\ 1 - 1 = 0 /\ 0 \in 0 .. Len(l) /\ 1 \in 0 .. Len(l)
    BY <1>2
  <2> QED BY <1>1, <1>2, <2>1 DEF Follows
<1>5. e[0] = TopAfter(Head(l)[1], k)
  BY <1>2, <1>4
<1>6. ASSUME NEW i \in 1 .. Len(l) - 1
      PROVE  e[i] = TopAfter(Tail(l)[i][1], e[i - 1])
  <2>1. i + 1 \in 1 .. Len(l) /\ (i + 1) - 1 = i /\ (i - 1) + 1 = i /\ i - 1 \in 0 .. Len(l) - 1
    BY <1>2
  <2>2. e[i] = h[i + 1] /\ e[i - 1] = h[i] /\ Tail(l)[i] = l[i + 1]
    BY <1>2, <2>1
  <2> QED
    BY <1>1, <2>1, <2>2 DEF Follows
<1>7. Follows(Tail(l), TopAfter(Head(l)[1], k), e)
  BY <1>2, <1>5, <1>6 DEF Follows
<1> HIDE DEF e
<1>8. StackedFrom(Tail(l), TopAfter(Head(l)[1], k))
  BY <1>3, <1>7 DEF StackedFrom
<1> QED
  BY <1>4, <1>8

LEMMA StackedJoin ==
  ASSUME NEW T, NEW U, NEW l \in Seq(T), NEW m \in Seq(U), NEW k,
         StackedFrom(l, k), \A i \in 1 .. Len(m) : m[i][1] \notin StackCalls
  PROVE  StackedFrom(m \o l, k)
<1>1. PICK h \in [0 .. Len(l) -> TopRange] : Follows(l, k, h)
  BY DEF StackedFrom
<1> DEFINE a == Len(m)
           j == m \o l
           e == [i \in 0 .. a + Len(l) |-> IF i <= a THEN k ELSE h[i - a]]
<1>2. /\ Len(l) \in Nat /\ a \in Nat /\ Len(j) = a + Len(l)
      /\ \A i \in 1 .. a : j[i] = m[i]
      /\ \A i \in a + 1 .. a + Len(l) : j[i] = l[i - a]
  OBVIOUS
<1>3. \A i \in 1 .. a : j[i][1] \notin StackCalls
  BY <1>2
<1> HIDE DEF a, j
<1>4. h[0] = k /\ k \in TopRange
  <2>1. 0 \in 0 .. Len(l)
    BY <1>2
  <2> QED BY <1>1, <2>1 DEF Follows
<1>5. e \in [0 .. Len(j) -> TopRange] /\ e[0] = k
  BY <1>2, <1>4
<1>6. ASSUME NEW i \in 1 .. a + Len(l)
      PROVE  e[i] = TopAfter(j[i][1], e[i - 1])
  <2>1. CASE i <= a
    <3>1. i \in 1 .. a /\ e[i] = k /\ e[i - 1] = k
      BY <1>2, <2>1
    <3> HIDE DEF e
    <3> QED BY <1>3, <3>1, OtherCall
  <2>2. CASE i > a
    <3>1. i - a \in 1 .. Len(l) /\ (i - a) - 1 \in 0 .. Len(l) /\ i - 1 \in 0 .. a + Len(l)
      BY <1>2, <2>2
    <3>2. e[i] = h[i - a] /\ j[i] = l[i - a]
      <4>1. i \in a + 1 .. a + Len(l) /\ i \in 0 .. a + Len(l) /\ ~(i <= a)
        BY <1>2, <2>2
      <4>2. j[i] = l[i - a]
        BY <1>2, <4>1
      <4>3. e[i] = h[i - a]
        BY <4>1
      <4> QED BY <4>2, <4>3
    <3>3. e[i - 1] = h[(i - a) - 1]
      <4>1. CASE i - 1 = a
        <5>1. (i - a) - 1 = 0
          BY <1>2, <4>1
        <5> QED BY <1>2, <1>4, <3>1, <4>1, <5>1
      <4>2. CASE i - 1 > a
        <5>1. (i - 1) - a = (i - a) - 1
          BY <1>2
        <5> QED BY <1>2, <3>1, <4>2, <5>1
      <4> QED BY <1>2, <2>2, <4>1, <4>2
    <3> HIDE DEF e
    <3> QED BY <1>1, <3>1, <3>2, <3>3 DEF Follows
  <2> QED BY <1>2, <2>1, <2>2
<1> HIDE DEF e
<1>7. Follows(j, k, e)
  BY <1>2, <1>5, <1>6 DEF Follows
<1> QED BY <1>5, <1>7 DEF StackedFrom, j

\* The loop of Stack_Print is behind what it prints, and the index it moves is
\* that of a cell or the one below the first.
Printing == {"PutC", "PutS", "PutX"}

Looping(l, i) ==
  \A k \in 1 .. Len(l) :
    l[k][1] = "while_MoveNext" =>
      i >= 0 /\ \A j \in 1 .. k - 1 : l[j][1] \in Printing

Unlooped(l) == \A k \in 1 .. Len(l) : l[k][1] # "while_MoveNext"

LEMMA LoopTail ==
  ASSUME NEW T, NEW l \in Seq(T), l # << >>, NEW i, Looping(l, i)
  PROVE  /\ Looping(Tail(l), i)
         /\ Head(l)[1] \notin Printing => Unlooped(Tail(l))
<1>1. /\ Len(l) \in Nat \ {0}
      /\ Len(Tail(l)) = Len(l) - 1
      /\ \A k \in 1 .. Len(l) - 1 : Tail(l)[k] = l[k + 1]
      /\ Head(l) = l[1]
  OBVIOUS
<1>2. ASSUME NEW k \in 1 .. Len(l) - 1, Tail(l)[k][1] = "while_MoveNext"
      PROVE  /\ i >= 0
             /\ \A j \in 1 .. k : l[j][1] \in Printing
  <2>1. k + 1 \in 1 .. Len(l) /\ (k + 1) - 1 = k /\ Tail(l)[k] = l[k + 1]
    BY <1>1
  <2> QED
    BY <1>2, <2>1 DEF Looping
<1>3. Looping(Tail(l), i)
  <2> SUFFICES ASSUME NEW k \in 1 .. Len(l) - 1, Tail(l)[k][1] = "while_MoveNext",
                      NEW j \in 1 .. k - 1
               PROVE  i >= 0 /\ Tail(l)[j][1] \in Printing
    BY <1>1, <1>2 DEF Looping
  <2>1. j + 1 \in 1 .. k /\ j \in 1 .. Len(l) - 1
    BY <1>1
  <2> QED
    BY <1>1, <1>2, <2>1
<1>4. ASSUME Head(l)[1] \notin Printing, NEW k \in 1 .. Len(l) - 1
      PROVE  Tail(l)[k][1] # "while_MoveNext"
  <2>1. 1 \in 1 .. k
    BY <1>1
  <2> QED
    BY <1>1, <1>2, <1>4, <2>1
<1> QED
  BY <1>1, <1>3, <1>4 DEF Unlooped

LEMMA LoopJoin ==
  ASSUME NEW T, NEW U, NEW l \in Seq(T), NEW m \in Seq(U), NEW i,
         Unlooped(l), Looping(m, i)
  PROVE  Looping(m \o l, i)
<1> DEFINE a == Len(m)
           q == m \o l
<1>1. /\ Len(l) \in Nat /\ a \in Nat /\ Len(q) = a + Len(l)
      /\ \A k \in 1 .. a : q[k] = m[k]
      /\ \A k \in a + 1 .. a + Len(l) : q[k] = l[k - a]
  OBVIOUS
<1>2. \A k \in 1 .. a : m[k][1] = "while_MoveNext" =>
        i >= 0 /\ \A j \in 1 .. k - 1 : m[j][1] \in Printing
  BY DEF Looping
<1> HIDE DEF a, q
<1>3. ASSUME NEW k \in 1 .. a + Len(l), q[k][1] = "while_MoveNext"
      PROVE  i >= 0 /\ \A j \in 1 .. k - 1 : q[j][1] \in Printing
  <2>1. k \in 1 .. a
    <3>1. SUFFICES ASSUME k \notin 1 .. a PROVE FALSE
      OBVIOUS
    <3>2. k \in a + 1 .. a + Len(l) /\ k - a \in 1 .. Len(l)
      BY <1>1, <3>1
    <3> QED
      BY <1>1, <1>3, <3>2 DEF Unlooped
  <2>2. \A j \in 1 .. k - 1 : j \in 1 .. a
    BY <1>1, <2>1
  <2> QED
    BY <1>1, <1>2, <1>3, <2>1, <2>2
<1>4. Looping(q, i)
  BY <1>1, <1>3 DEF Looping
<1> QED
  BY <1>4 DEF q

\* What a call puts in front of the others.
Within(calls, i) ==
  /\ \E U : calls \in Seq(U)
  /\ \A k \in 1 .. Len(calls) : calls[k][1] \notin StackCalls
  /\ Looping(calls, i)

LEMMA WithinLists ==
  ASSUME NEW i
  PROVE  /\ Within(<< >>, i)
         /\ \A a : a[1] \notin StackCalls \cup {"while_MoveNext"} => Within(<<a>>, i)
         /\ i >= 0 => \A a : a[1] \in Printing => Within(<<a, <<"while_MoveNext">>>>, i)
         /\ i >= 0 => \A a, b : a[1] \in Printing /\ b[1] \in Printing
                                  => Within(<<a, b, <<"while_MoveNext">>>>, i)
<1>0. /\ "while_MoveNext" \notin StackCalls
      /\ \A x \in Printing : x \notin StackCalls /\ x # "while_MoveNext"
  BY DEF StackCalls, Printing
<1>1. Within(<< >>, i)
  <2>1. << >> \in Seq({}) /\ Len(<< >>) = 0
    OBVIOUS
  <2> QED
    BY <2>1 DEF Within, Looping
<1>2. ASSUME NEW a, a[1] \notin StackCalls \cup {"while_MoveNext"} PROVE Within(<<a>>, i)
  <2>1. <<a>> \in Seq({a}) /\ Len(<<a>>) = 1
    OBVIOUS
  <2>2. \A k \in 1 .. Len(<<a>>) : <<a>>[k] = a
    BY <2>1
  <2> QED
    BY <1>2, <2>1, <2>2 DEF Within, Looping
<1>3. ASSUME i >= 0, NEW a, a[1] \in Printing
      PROVE  Within(<<a, <<"while_MoveNext">>>>, i)
  <2> DEFINE w == <<"while_MoveNext">>
             l == <<a, w>>
  <2>1. l \in Seq({a, w}) /\ Len(l) = 2
    OBVIOUS
  <2>2. l[1] = a /\ l[2] = w /\ w[1] = "while_MoveNext"
    OBVIOUS
  <2> HIDE DEF l, w
  <2>3. \A k \in 1 .. Len(l) : k = 1 \/ k = 2
    BY <2>1
  <2>4. \A j \in 1 .. 2 - 1 : j = 1
    OBVIOUS
  <2>5. \A k \in 1 .. Len(l) : l[k][1] \notin StackCalls
    BY <1>0, <1>3, <2>2, <2>3
  <2>6. Looping(l, i)
    BY <1>0, <1>3, <2>2, <2>3, <2>4 DEF Looping
  <2> QED
    BY <2>1, <2>5, <2>6 DEF Within, l, w
<1>4. ASSUME i >= 0, NEW a, NEW b, a[1] \in Printing, b[1] \in Printing
      PROVE  Within(<<a, b, <<"while_MoveNext">>>>, i)
  <2> DEFINE w == <<"while_MoveNext">>
             l == <<a, b, w>>
  <2>1. l \in Seq({a, b, w}) /\ Len(l) = 3
    OBVIOUS
  <2>2. l[1] = a /\ l[2] = b /\ l[3] = w /\ w[1] = "while_MoveNext"
    OBVIOUS
  <2> HIDE DEF l, w
  <2>3. \A k \in 1 .. Len(l) : k = 1 \/ k = 2 \/ k = 3
    BY <2>1
  <2>4. \A j \in 1 .. 3 - 1 : j = 1 \/ j = 2
    OBVIOUS
  <2>5. \A k \in 1 .. Len(l) : l[k][1] \notin StackCalls
    BY <1>0, <1>4, <2>2, <2>3
  <2>6. Looping(l, i)
    BY <1>0, <1>4, <2>2, <2>3, <2>4 DEF Looping
  <2> QED
    BY <2>1, <2>5, <2>6 DEF Within, l, w
<1> QED
  BY <1>1, <1>2, <1>3, <1>4

-----------------------------------------------------------------------------
(* TypeOK: the registers, by the calls that are left.                      *)

RegInv ==
  /\ StackedFrom(todo, s.sp)
  /\ Looping(todo, index)
  /\ index \in -1 .. SiLen
  /\ vmOut \in BOOLEAN

LEMMA TopType ==
  ASSUME Listed, StackedFrom(todo, s.sp) PROVE s.sp \in TopRange
<1>1. PICK h \in [0 .. Len(todo) -> TopRange] : Follows(todo, s.sp, h)
  BY DEF StackedFrom
<1>2. 0 \in 0 .. Len(todo)
  <2>1. Len(todo) \in Nat
    BY DEF Listed
  <2> QED
    BY <2>1
<1> QED
  BY <1>1, <1>2 DEF Follows

\* A call that returns and does to the top what is counted for it.
LEMMA RegReturn ==
  ASSUME Listed, RegInv, todo # << >>, Return,
         s.sp' = TopAfter(Head(todo)[1], s.sp), UNCHANGED index, vmOut' \in BOOLEAN
  PROVE  RegInv'
<1>1. todo \in Seq(Range(todo)) /\ Tail(todo) \in Seq(Range(todo))
  BY DEF Listed
<1>2. todo' = Tail(todo)
  BY <1>1 DEF Return, Then
<1>3. StackedFrom(Tail(todo), s.sp')
  BY <1>1, StackedTail DEF RegInv
<1>4. Looping(Tail(todo), index)
  BY <1>1, LoopTail DEF RegInv
<1> QED
  BY <1>2, <1>3, <1>4 DEF RegInv

\* A call that puts others in front of those its caller has left.
LEMMA RegCalls ==
  ASSUME Listed, RegInv, todo # << >>, Head(todo)[1] \notin Printing \cup StackCalls,
         NEW calls, Within(calls, index'), Then(calls),
         UNCHANGED <<s, vmOut>>, index' \in -1 .. SiLen
  PROVE  RegInv'
<1>1. todo \in Seq(Range(todo)) /\ Tail(todo) \in Seq(Range(todo))
  BY DEF Listed
<1>2. PICK U : calls \in Seq(U)
  BY DEF Within
<1>3. \A k \in 1 .. Len(calls) : calls[k][1] \notin StackCalls
  BY DEF Within
<1>4. Looping(calls, index')
  BY DEF Within
<1>5. StackedFrom(Tail(todo), s.sp)
  <2>1. TopAfter(Head(todo)[1], s.sp) = s.sp
    BY OtherCall
  <2>2. StackedFrom(Tail(todo), TopAfter(Head(todo)[1], s.sp))
    BY <1>1, StackedTail DEF RegInv
  <2> QED
    BY <2>1, <2>2
<1>6. Unlooped(Tail(todo))
  BY <1>1, LoopTail DEF RegInv
<1>7. StackedFrom(calls \o Tail(todo), s.sp)
  BY <1>1, <1>2, <1>3, <1>5, StackedJoin
<1>8. Looping(calls \o Tail(todo), index')
  BY <1>1, <1>2, <1>4, <1>6, LoopJoin
<1> QED
  BY <1>7, <1>8 DEF RegInv, Then

LEMMA TxReg ==
  ASSUME Listed, RegInv, NEW call, call \notin StackCalls, NEW tokens, Tx(call, tokens)
  PROVE  RegInv'
<1>1. /\ todo # << >> /\ Head(todo)[1] = call /\ Return
      /\ UNCHANGED <<s, index, vmOut>>
  BY DEF Tx, Calls
<1>2. s.sp' = TopAfter(Head(todo)[1], s.sp)
  BY <1>1, OtherCall
<1>3. vmOut' \in BOOLEAN
  BY <1>1 DEF RegInv
<1> QED
  BY <1>1, <1>2, <1>3, RegReturn

LEMMA PutReg == ASSUME Listed, RegInv, Put PROVE RegInv'
<1>1. \A call \in {"PutB", "PutC", "PutS", "PutN", "PutS_GetStatusReg", "PutS_saveStatus"} :
        call \notin StackCalls
  BY DEF StackCalls
<1>2. PICK call \in {"PutB", "PutC", "PutS", "PutN", "PutS_GetStatusReg", "PutS_saveStatus"} :
        \E tokens : Tx(call, tokens)
  BY DEF Put
<1> QED
  BY <1>1, <1>2, TxReg

LEMMA StackReg ==
  ASSUME Listed, RegInv, NEW call, NEW t, Stack(call, t), t.sp = TopAfter(call, s.sp)
  PROVE  RegInv'
<1>1. /\ todo # << >> /\ Head(todo)[1] = call /\ Return /\ s' = t
      /\ UNCHANGED <<index, vmOut>>
  BY DEF Stack, Calls
<1>2. s.sp' = TopAfter(Head(todo)[1], s.sp)
  BY <1>1
<1>3. vmOut' \in BOOLEAN
  BY <1>1 DEF RegInv
<1> QED
  BY <1>1, <1>2, <1>3, RegReturn

\* What VMStack does to the top is what is counted.
LEMMA TopCounted ==
  /\ S!Stack_New(s, SiLen).sp = TopAfter("Stack_New", s.sp)
  /\ \A x : /\ S!Stack_Push(s, x).sp = TopAfter("Stack_Push", s.sp)
            /\ S!Stack_Push(s, x).sp = TopAfter("Stack_Push_top", s.sp)
  /\ S!Stack_Pop(s).sp = TopAfter("Stack_Pop", s.sp)
  /\ S!Stack_dup(s).sp = TopAfter("Stack_dup", s.sp)
  /\ S!Stack_add(s).sp = TopAfter("Stack_add", s.sp)
  /\ S!Stack_sub(s).sp = TopAfter("Stack_sub", s.sp)
  /\ S!Stack_mul(s).sp = TopAfter("Stack_mul", s.sp)
<1>1. SiLen # 0
  BY BoardAssumption
<1>2. S!Stack_New(s, SiLen).sp = -1
  BY <1>1 DEF S!Stack_New
<1>3. \A x : S!Stack_Push(s, x).sp = s.sp + 1
  BY DEF S!Stack_Push, S!Desc
<1>4. S!Stack_dup(s).sp = s.sp + 1
  BY <1>3 DEF S!Stack_dup
<1>5. S!Stack_Pop(s).sp = s.sp - 1
  BY DEF S!Stack_Pop, S!Desc
<1>6. \A x : S!Combine(s, x).sp = s.sp - 1
  BY DEF S!Combine, S!Desc
<1>7. S!Stack_add(s).sp = s.sp - 1 /\ S!Stack_sub(s).sp = s.sp - 1 /\ S!Stack_mul(s).sp = s.sp - 1
  BY <1>6 DEF S!Stack_add, S!Stack_sub, S!Stack_mul
<1>8. /\ TopAfter("Stack_New", s.sp) = -1
      /\ \A c \in {"Stack_Push", "Stack_Push_top", "Stack_dup"} : TopAfter(c, s.sp) = s.sp + 1
      /\ \A c \in {"Stack_Pop", "Stack_add", "Stack_sub", "Stack_mul"} : TopAfter(c, s.sp) = s.sp - 1
  BY DEF TopAfter
<1> QED
  BY <1>2, <1>3, <1>4, <1>5, <1>7, <1>8

LEMMA FunctionsReg == ASSUME Listed, RegInv, StackFunctions PROVE RegInv'
<1>1. PICK call, t : Stack(call, t) /\ t.sp = TopAfter(call, s.sp)
  BY TopCounted DEF StackFunctions
<1> QED
  BY <1>1, StackReg

LEMMA EnumtorReg ==
  ASSUME Listed, RegInv, NEW call, call \notin Printing \cup StackCalls,
         NEW i \in -1 .. SiLen, NEW calls, Within(calls, i), Enumtor(call, i, calls)
  PROVE  RegInv'
<1>1. /\ todo # << >> /\ Head(todo)[1] = call /\ Then(calls) /\ index' = i
      /\ UNCHANGED <<s, vmOut>>
  BY DEF Enumtor, Calls
<1> QED
  BY <1>1, RegCalls

LEMMA PrintReg == ASSUME Listed, RegInv, Stack_GetEnumerator \/ Stack_Print PROVE RegInv'
<1>1. \A call \in {"Stack_GetEnumerator", "Stack_Print", "while_MoveNext"} :
        call \notin Printing \cup StackCalls
  BY DEF Printing, StackCalls
<1>2. "PutC" \in Printing /\ "PutX" \in Printing /\ "PutS" \in Printing
  BY DEF Printing
<1>3. \A x \in Printing : x \notin StackCalls \cup {"while_MoveNext"}
  BY DEF Printing, StackCalls
<1>4. S!StackEnumtor_Reset(s) \in -1 .. SiLen /\ S!StackEnumtor_Reset(s) >= 0
  <2>1. s.sp \in -1 .. SiLen - 1
    BY TopType DEF TopRange, RegInv
  <2> QED
    BY <2>1, BoardAssumption DEF S!StackEnumtor_Reset
<1>5. ASSUME NEW call \in {"Stack_GetEnumerator", "Stack_Print", "while_MoveNext"},
             NEW i \in -1 .. SiLen, NEW calls, Within(calls, i), Enumtor(call, i, calls)
      PROVE  RegInv'
  BY <1>1, <1>5, EnumtorReg
<1>6. CASE Stack_GetEnumerator
  BY <1>4, <1>5, <1>6, WithinLists DEF Stack_GetEnumerator
<1>7. ASSUME Enumtor("Stack_Print", S!StackEnumtor_Reset(s),
                     <<<<"PutC", "[">>, <<"while_MoveNext">>>>)
      PROVE  RegInv'
  <2> DEFINE i == S!StackEnumtor_Reset(s)
             a == <<"PutC", "[">>
  <2>1. a[1] \in Printing
    BY <1>2
  <2> HIDE DEF i, a
  <2>2. i \in -1 .. SiLen /\ i >= 0
    BY <1>4 DEF i
  <2>3. Within(<<a, <<"while_MoveNext">>>>, i)
    BY <2>1, <2>2, WithinLists
  <2>4. Enumtor("Stack_Print", i, <<a, <<"while_MoveNext">>>>)
    BY <1>7 DEF i, a
  <2> QED
    BY <1>5, <2>2, <2>3, <2>4
<1>8. ASSUME NEW calls, Enumtor("while_MoveNext", index - 1, calls)
      PROVE  index >= 0 /\ index - 1 \in -1 .. SiLen
  <2>1. todo # << >> /\ Head(todo)[1] = "while_MoveNext"
    BY <1>8 DEF Enumtor, Calls
  <2>2. Len(todo) \in Nat \ {0} /\ Head(todo) = todo[1]
    BY <2>1 DEF Listed
  <2>3. 1 \in 1 .. Len(todo)
    BY <2>2
  <2>4. index >= 0 /\ index \in -1 .. SiLen
    BY <2>1, <2>2, <2>3 DEF RegInv, Looping
  <2> QED
    BY <2>4, BoardAssumption
<1>9. ASSUME S!StackEnumtor_HasNext(index), NEW chars, NEW x,
             Enumtor("while_MoveNext", index - 1,
                     <<<<"PutS", chars>>, <<"PutX", x>>, <<"while_MoveNext">>>>)
      PROVE  RegInv'
  <2> DEFINE i == index - 1
             a == <<"PutS", chars>>
             b == <<"PutX", x>>
  <2>1. a[1] \in Printing /\ b[1] \in Printing
    BY <1>2
  <2>2. i >= 0 /\ i \in -1 .. SiLen
    BY <1>8, <1>9 DEF S!StackEnumtor_HasNext
  <2> HIDE DEF i, a, b
  <2>3. Within(<<a, b, <<"while_MoveNext">>>>, i)
    BY <2>1, <2>2, WithinLists
  <2>4. Enumtor("while_MoveNext", i, <<a, b, <<"while_MoveNext">>>>)
    BY <1>9 DEF i, a, b
  <2> QED
    BY <1>5, <2>2, <2>3, <2>4
<1>10. ASSUME NEW chars, Enumtor("while_MoveNext", index - 1, <<<<"PutS", chars>>>>)
       PROVE  RegInv'
  <2> DEFINE i == index - 1
             a == <<"PutS", chars>>
  <2>1. a[1] \in Printing
    BY <1>2
  <2>2. i \in -1 .. SiLen
    BY <1>8, <1>10
  <2> HIDE DEF i, a
  <2>3. Within(<<a>>, i)
    BY <1>3, <2>1, WithinLists
  <2>4. Enumtor("while_MoveNext", i, <<a>>)
    BY <1>10 DEF i, a
  <2> QED
    BY <1>5, <2>2, <2>3, <2>4
<1> QED
  BY <1>6, <1>7, <1>9, <1>10, Zenon DEF Stack_Print

LEMMA ManagerReg == ASSUME Listed, RegInv, Interman PROVE RegInv'
<1>1. \A call \in {"Interrupt_Enable", "Interrupt_Disable",
                   "Interrupt_SaveAndDisable", "Interrupt_Restore"} :
        call \notin Printing \cup StackCalls \cup {"while_MoveNext"}
  BY DEF Printing, StackCalls
<1>2. Within(<< >>, index) /\ Within(<<<<"Interrupt_Disable">>>>, index)
  BY <1>1, WithinLists
<1>3. PICK call \in {"Interrupt_Enable", "Interrupt_Disable",
                     "Interrupt_SaveAndDisable", "Interrupt_Restore"} :
        \E bit, rest, calls : Within(calls, index) /\ SetI(call, bit, rest, calls)
  BY <1>2 DEF Interman, Interrupt_Enable, Interrupt_Disable,
              Interrupt_SaveAndDisable, Interrupt_Restore
<1>4. PICK bit, rest, calls : Within(calls, index) /\ SetI(call, bit, rest, calls)
  BY <1>3
<1>5. /\ todo # << >> /\ Head(todo)[1] = call /\ Then(calls)
      /\ UNCHANGED <<s, index, vmOut>>
  BY <1>4 DEF SetI, Calls
<1>6. index' \in -1 .. SiLen /\ Within(calls, index')
  BY <1>4, <1>5 DEF RegInv
<1>7. Head(todo)[1] \notin Printing \cup StackCalls
  BY <1>1, <1>5
<1> QED
  BY <1>5, <1>6, <1>7, RegCalls

LEMMA RegInitially == Init => RegInv
<1> SUFFICES ASSUME Init PROVE RegInv
  OBVIOUS
<1>1. Programs[name] \in Seq(Range(Programs[name])) /\ SiLen \in 1 .. 127
  BY BoardAssumption DEF Init
<1>2. WellStacked(Programs[name]) /\ Unlooped(Programs[name])
  BY CellsAssumption DEF Init, Unlooped
<1>3. StackedFrom(Programs[name], 0)
  BY <1>1, <1>2, StackedProgram
<1>4. Looping(Programs[name], 0)
  BY <1>2 DEF Unlooped, Looping
<1>5. todo = Programs[name] /\ s.sp = 0 /\ index = 0 /\ vmOut = FALSE
  BY DEF Init
<1>6. StackedFrom(todo, s.sp) /\ Looping(todo, index)
  BY <1>3, <1>4, <1>5
<1>7. index \in -1 .. SiLen
  BY <1>1, <1>5
<1>8. vmOut \in BOOLEAN
  BY <1>5
<1> QED
  BY <1>6, <1>7, <1>8 DEF RegInv

LEMMA RegStep == CallInv /\ RegInv /\ [Next]_vars => RegInv'
<1> SUFFICES ASSUME CallInv, RegInv, [Next]_vars PROVE RegInv'
  OBVIOUS
<1>0. Listed /\ Converting
  BY DEF CallInv
<1>1. CASE Hal_Init
  <2>1. /\ todo # << >> /\ Head(todo)[1] = "Hal_Init" /\ Return
        /\ UNCHANGED <<s, index>> /\ vmOut' \in BOOLEAN
    BY <1>1 DEF Hal_Init, Calls, Out_GetFactory
  <2>2. s.sp' = TopAfter(Head(todo)[1], s.sp)
    <3>1. "Hal_Init" \notin StackCalls
      BY DEF StackCalls
    <3> QED
      BY <2>1, <3>1, OtherCall
  <2> QED
    BY <1>0, <2>1, <2>2, RegReturn
<1>2. CASE COut_PutS
  <2>1. /\ conversion # "none" /\ UNCHANGED <<s, index, vmOut>>
        /\ Return \/ UNCHANGED todo
    BY <1>2 DEF COut_PutS
  <2>2. CASE Return
    <3>1. todo # << >> /\ Head(todo)[1] \in NumberCalls
      BY <1>0, <2>1 DEF Converting
    <3>2. Head(todo)[1] \notin StackCalls
      BY <3>1 DEF NumberCalls, StackCalls
    <3>3. s.sp' = TopAfter(Head(todo)[1], s.sp)
      BY <2>1, <3>2, OtherCall
    <3>4. vmOut' \in BOOLEAN
      BY <2>1 DEF RegInv
    <3> QED
      BY <1>0, <2>1, <2>2, <3>1, <3>3, <3>4, RegReturn
  <2>3. CASE UNCHANGED todo
    BY <2>1, <2>3 DEF RegInv
  <2> QED
    BY <2>1, <2>2, <2>3
<1>3. CASE PutNumber \/ Convert \/ Interrupt \/ UNCHANGED vars
  <2>1. UNCHANGED <<todo, s, index, vmOut>>
    BY <1>3 DEF PutNumber, Convert, Interrupt, HandlerRuns, vars, boardVars
  <2> QED
    BY <2>1 DEF RegInv
<1> QED
  BY <1>0, <1>1, <1>2, <1>3, PutReg, FunctionsReg, PrintReg, ManagerReg DEF Next, Step

\* BoardTyped: whatever is pushed, popped and printed, the stack and its
\* enumerator stay within the cells, every saved status is one that was read,
\* and no number is longer than buf: programs that count their pushes and pops
\* rightly need no check in the functions (vmstack.c:33-74; hal_interman.c:23-33;
\* bsl_COut.c:29).
THEOREM BoardTyped == Spec /\ []NumbersGiven => []TypeOK
<1>1. CallInv /\ SectionInv /\ PrintInv /\ RegInv => TypeOK
  <2> SUFFICES ASSUME CallInv, SectionInv, PrintInv, RegInv PROVE TypeOK
    OBVIOUS
  <2>1. s.sp \in -1 .. SiLen - 1
    BY TopType DEF CallInv, RegInv, TopRange
  <2>2. index \in -1 .. SiLen /\ vmOut \in BOOLEAN
    BY DEF RegInv
  <2>3. sregI \in BOOLEAN /\ \A i \in 1 .. Len(saves) : saves[i] \in BOOLEAN
    BY DEF SectionInv
  <2>4. Len(sent) < BufLen
    BY DEF PrintInv
  <2> QED
    BY <2>1, <2>2, <2>3, <2>4 DEF TypeOK
<1> QED
  BY <1>1, CallInvariant, SectionInvariant, PrintInvariant, RegInitially, RegStep,
     PTL DEF Spec
=============================================================================
