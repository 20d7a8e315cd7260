------------------------- MODULE SerialLink_proofs -------------------------
(***************************************************************************)
(* Theorems about SerialLink, for every number of commands, all programs,  *)
(* every depth of the receiver, every width of the positions, and every    *)
(* order in which the threads, the line and the target take their turns.   *)
(***************************************************************************)
EXTENDS SerialLink, SequenceTheorems, WellFoundedInduction, TLAPS

TP == INSTANCE HalLoader_proofs WITH Bytes <- 0 .. 255

Byte == 0 .. 255

-----------------------------------------------------------------------------
(* The target of the link is the loader of HalLoader.                      *)

TargetInv == TP!IInv

TargetMoves ==
  \/ \E c \in Byte : T!Receive(c)
  \/ T!Executed
  \/ T!Exited
  \/ T!Restart
  \/ UNCHANGED T!vars

LEMMA TargetInitially == T!Init => TargetInv
<1>1. TP!Init => TP!IInv
  BY LinkAssumption, TP!InitIInv DEF TP!InitIInv, TP!LoaderAssumption
<1>2. T!Init <=> TP!Init
  BY DEF T!Init, TP!Init, T!Empty, TP!Empty
<1> QED
  BY <1>1, <1>2 DEF TargetInv

LEMMA ReceiveSame == ASSUME NEW c PROVE T!Receive(c) <=> TP!Receive(c)
<1>1. T!EndOfPacket(c) <=> TP!EndOfPacket(c)
  BY DEF T!EndOfPacket, TP!EndOfPacket, T!Return, TP!Return, T!Success, TP!Success
<1>2. T!Store(c) <=> TP!Store(c)
  BY DEF T!Store, TP!Store
<1>3. T!Command(c) <=> TP!Command(c)
  BY DEF T!Command, TP!Command, T!Return, TP!Return, T!Success, TP!Success,
         T!Download, TP!Download, T!Ping, TP!Ping, T!Run, TP!Run,
         T!InvalidAddr, TP!InvalidAddr
<1>4. T!Fill(c) <=> TP!Fill(c)
  BY <1>3 DEF T!Fill, TP!Fill
<1> QED
  BY <1>1, <1>2, <1>4 DEF T!Receive, TP!Receive

LEMMA TargetStep == ASSUME TargetInv, TargetMoves PROVE TargetInv'
<1>1. TP!IInv /\ [TP!Next]_(TP!vars) => TP!IInv'
  BY LinkAssumption, TP!NextIInv DEF TP!LoaderAssumption, TP!NextIInv
<1>2. (\E c \in Byte : T!Receive(c)) => \E c \in 0 .. 255 : TP!Receive(c)
  BY ReceiveSame DEF Byte
<1>3. T!Executed => TP!Executed
  BY DEF T!Executed, TP!Executed
<1>4. T!Exited => TP!Exited
  BY DEF T!Exited, TP!Exited
<1>5. T!Restart => TP!Restart
  BY DEF T!Restart, TP!Restart, T!Empty, TP!Empty
<1>6. UNCHANGED T!vars => UNCHANGED TP!vars
  BY DEF T!vars, TP!vars
<1> QED
  BY <1>1, <1>2, <1>3, <1>4, <1>5, <1>6 DEF TargetInv, TargetMoves, TP!Next

LEMMA TargetTypes == TargetInv => T!TypeOK
  BY DEF TargetInv, TP!IInv, TP!TypeOK, T!TypeOK

-----------------------------------------------------------------------------
(* The packets of the host are bytes and end with a zero.                  *)

LEMMA Modulo == ASSUME NEW x \in Nat PROVE x % 256 \in Byte
  BY DEF Byte

LEMMA Joined ==
  ASSUME NEW l \in Seq(Byte), NEW m \in Seq(Byte)
  PROVE  l \o m \in Seq(Byte) /\ Len(l \o m) = Len(l) + Len(m)
  OBVIOUS

\* The sum of the bytes of a program is a number.  It folds over the indices
\* from the highest down; a least number of indices for which there were no
\* such fold, or its value no number, would be one more than one for which all
\* is well.
Highest(t) == CHOOSE x \in t : \A y \in t : x >= y

SumAt(l, h, t) == IF t = {} THEN 0 ELSE h[t \ {Highest(t)}] + l[Highest(t)]

IsSum(l, h, m) == h = [t \in SUBSET (1 .. m) |-> SumAt(l, h, t)]

SumsTo(l, m) == \E h : IsSum(l, h, m)

LEMMA Least ==
  ASSUME NEW U, U \subseteq Nat, U # {}
  PROVE  \E x \in U : \A y \in U : x <= y
<1> DEFINE less == {ss \in Nat \X Nat : ss[1] < ss[2]}
<1>1. IsWellFoundedOn(less, Nat)
  BY Zenon, NatLessThanWellFounded DEF OpToRel
<1>2. PICK x \in U : \A y \in U : ~ (<<y, x>> \in less)
  <2> HIDE DEF less
  <2> QED
    BY <1>1, WFMin
<1>3. \A y \in U : ~ (y < x)
  BY <1>2
<1> QED
  BY <1>3

LEMMA HighestIs ==
  ASSUME NEW m \in Nat \ {0}, NEW t \in SUBSET (1 .. m), m \in t
  PROVE  Highest(t) = m
<1>1. m \in t /\ \A y \in t : m >= y
  OBVIOUS
<1>2. \A x \in t : (\A y \in t : x >= y) => x = m
  BY <1>1
<1> QED
  BY <1>1, <1>2 DEF Highest

LEMMA SumExtends ==
  ASSUME NEW l, NEW m \in Nat, SumsTo(l, m)
  PROVE  SumsTo(l, m + 1)
<1>1. PICK h : IsSum(l, h, m)
  BY DEF SumsTo
<1> DEFINE g == [t \in SUBSET (1 .. m + 1) |-> IF m + 1 \in t THEN SumAt(l, h, t) ELSE h[t]]
<1>2. ASSUME NEW t \in SUBSET (1 .. m + 1)
      PROVE  g[t] = SumAt(l, h, t)
  <2>1. CASE m + 1 \in t
    BY <2>1
  <2>2. CASE m + 1 \notin t
    <3>1. t \in SUBSET (1 .. m)
      BY <2>2
    <3>2. h[t] = SumAt(l, h, t)
      BY <1>1, <3>1 DEF IsSum
    <3> QED
      BY <2>2, <3>2
  <2> QED
    BY <2>1, <2>2
<1>3. ASSUME NEW t \in SUBSET (1 .. m + 1)
      PROVE  SumAt(l, g, t) = SumAt(l, h, t)
  <2>1. CASE t = {}
    BY <2>1 DEF SumAt
  <2>2. CASE t # {}
    <3> DEFINE r == t \ {Highest(t)}
    <3>1. r \in SUBSET (1 .. m + 1) /\ m + 1 \notin r
      <4>1. m + 1 \in t => Highest(t) = m + 1
        BY HighestIs
      <4> QED
        BY <4>1
    <3>2. g[r] = h[r]
      <4> HIDE DEF r
      <4> QED
        BY <3>1
    <3> HIDE DEF g
    <3> QED
      BY <2>2, <3>2 DEF SumAt
  <2> QED
    BY <2>1, <2>2
<1>4. g = [t \in SUBSET (1 .. m + 1) |-> g[t]]
  OBVIOUS
<1> HIDE DEF g
<1>5. IsSum(l, g, m + 1)
  BY <1>2, <1>3, <1>4 DEF IsSum
<1> QED
  BY <1>5 DEF SumsTo

LEMMA SumExists == ASSUME NEW l, NEW m \in Nat PROVE SumsTo(l, m)
<1> DEFINE bad == {k \in Nat : ~ SumsTo(l, k)}
<1>1. SUFFICES ASSUME bad # {} PROVE FALSE
  OBVIOUS
<1>2. PICK k \in bad : \A y \in bad : k <= y
  <2>1. bad \subseteq Nat
    OBVIOUS
  <2> HIDE DEF bad
  <2> QED
    BY <1>1, <2>1, Least
<1>3. SumsTo(l, 0)
  <2> DEFINE h == [t \in SUBSET (1 .. 0) |-> 0]
  <2>1. \A t \in SUBSET (1 .. 0) : t = {}
    OBVIOUS
  <2>2. h = [t \in SUBSET (1 .. 0) |-> SumAt(l, h, t)]
    BY <2>1 DEF SumAt
  <2> QED
    BY <2>2 DEF SumsTo, IsSum
<1>4. k # 0 /\ k - 1 \in Nat /\ (k - 1) + 1 = k
  BY <1>3
<1>5. SumsTo(l, k - 1)
  BY <1>2, <1>4
<1> QED
  BY <1>4, <1>5, SumExtends

LEMMA SumIsNumber ==
  ASSUME NEW l \in Seq(Byte)
  PROVE  H!Sum(l) \in Nat
<1> DEFINE N == Len(l)
           h == CHOOSE g : IsSum(l, g, N)
<1>1. N \in Nat /\ DOMAIN l = 1 .. N
  OBVIOUS
<1>2. H!Sum(l) = h[1 .. N]
  BY <1>1 DEF IsSum, SumAt, Highest, H!Sum, H!FoldLeft, H!MapThenFoldSet, H!Max
<1>3. IsSum(l, h, N)
  BY <1>1, SumExists DEF SumsTo
<1>4. \A i \in 1 .. N : l[i] \in Nat
  <2>1. \A i \in 1 .. N : l[i] \in Byte
    OBVIOUS
  <2>2. \A b \in Byte : b \in Nat
    BY DEF Byte
  <2> QED
    BY <2>1, <2>2
<1> HIDE DEF N, h
<1> DEFINE bad == {k \in 0 .. N : h[1 .. k] \notin Nat}
<1>5. SUFFICES ASSUME bad # {} PROVE FALSE
  BY <1>1, <1>2
<1>6. PICK k \in bad : \A y \in bad : k <= y
  <2>1. bad \subseteq Nat
    BY <1>1
  <2> HIDE DEF bad
  <2> QED
    BY <1>5, <2>1, Least
<1>7. k \in 0 .. N /\ h[1 .. k] \notin Nat
  OBVIOUS
<1>8. h[1 .. k] = SumAt(l, h, 1 .. k)
  <2>1. 1 .. k \in SUBSET (1 .. N)
    BY <1>1, <1>7
  <2> QED
    BY <1>3, <2>1 DEF IsSum
<1>9. k # 0
  <2>1. k = 0 => 1 .. k = {}
    OBVIOUS
  <2> QED
    BY <1>7, <1>8, <2>1 DEF SumAt
<1>10. k \in 1 .. k /\ k \in Nat \ {0}
  BY <1>1, <1>7, <1>9
<1>11. Highest(1 .. k) = k /\ (1 .. k) \ {k} = 1 .. k - 1
  BY <1>10, HighestIs
<1>12. h[1 .. k - 1] \in Nat
  <2>1. k - 1 \in 0 .. N /\ ~(k <= k - 1)
    BY <1>1, <1>7, <1>10
  <2> QED
    BY <1>6, <2>1
<1>13. h[1 .. k] = h[1 .. k - 1] + l[k]
  BY <1>8, <1>10, <1>11 DEF SumAt
<1> QED
  BY <1>1, <1>4, <1>7, <1>10, <1>12, <1>13

LEMMA CodePacket ==
  ASSUME NEW p \in Programs
  PROVE  /\ H!GetCode(p) \in Seq(Byte)
         /\ Len(H!GetCode(p)) \in Nat \ {0}
         /\ H!GetCode(p)[Len(H!GetCode(p))] = 0
<1>1. p \in Seq(Byte) /\ Len(p) \in Nat /\ H!Sum(p) \in Nat
  <2>1. p \in Seq(Byte)
    BY LinkAssumption DEF Byte
  <2> QED
    BY <2>1, SumIsNumber
<1> DEFINE head == <<(Len(p) + 4) % 256, (H!SEND_DATA + H!Sum(p)) % 256, H!SEND_DATA>>
<1>2. (Len(p) + 4) % 256 \in Byte /\ (36 + H!Sum(p)) % 256 \in Byte /\ 36 \in Byte /\ 0 \in Byte
  <2>1. Len(p) + 4 \in Nat /\ 36 + H!Sum(p) \in Nat
    BY <1>1
  <2>2. (Len(p) + 4) % 256 \in Byte /\ (36 + H!Sum(p)) % 256 \in Byte
    BY <2>1, Modulo
  <2>3. 36 \in Byte /\ 0 \in Byte
    BY DEF Byte
  <2> QED
    BY <2>2, <2>3
<1>3. head \in Seq(Byte) /\ Len(head) = 3
  BY <1>2 DEF H!SEND_DATA
<1> HIDE DEF head
<1>4. head \o p \in Seq(Byte) /\ Len(head \o p) = 3 + Len(p)
  BY <1>1, <1>3, Joined
<1> DEFINE front == head \o p
<1> HIDE DEF front
<1>5. front \in Seq(Byte) /\ Len(front) = 3 + Len(p)
  BY <1>4 DEF front
<1>6. <<0>> \in Seq(Byte) /\ Len(<<0>>) = 1
  BY <1>2
<1>7. /\ front \o <<0>> \in Seq(Byte)
      /\ Len(front \o <<0>>) = Len(front) + 1
      /\ (front \o <<0>>)[Len(front) + 1] = 0
  BY <1>1, <1>5, <1>6
<1> QED
  BY <1>1, <1>5, <1>7 DEF H!GetCode, front, head

LEMMA PacketEnds ==
  ASSUME pgm \in Programs, NEW cmd
  PROVE  /\ H!Packet(cmd) \in Seq(Byte)
         /\ Len(H!Packet(cmd)) \in Nat \ {0}
         /\ H!Packet(cmd)[Len(H!Packet(cmd))] = 0
<1>1. \A a, b, c \in Byte : /\ <<a, b, c, 0>> \in Seq(Byte)
                            /\ Len(<<a, b, c, 0>>) = 4
                            /\ <<a, b, c, 0>>[4] = 0
  BY DEF Byte
<1>2. CASE H!Packet(cmd) = H!GetCode(pgm)
  BY <1>2, CodePacket
<1>3. CASE \E a, b, c \in Byte : H!Packet(cmd) = <<a, b, c, 0>>
  BY <1>1, <1>3
<1>4. {3, 32, 238, 35, 34} \subseteq Byte
  BY DEF Byte
<1> QED
  BY <1>2, <1>3, <1>4
  DEF H!Packet, H!pingPacket, H!pingPacketChecksumInvalid, H!getStatusPacket,
      H!runPacket, H!PING, H!GET_STATUS, H!RUN

-----------------------------------------------------------------------------
(* Types.                                                                  *)

LinkInv ==
  /\ TargetInv
  /\ pgm \in Programs
  /\ run \in BOOLEAN /\ continue \in BOOLEAN
  /\ reader \in {"top", "running?", "end", "done"} \cup H!Reading
  /\ main \in {"prompt", "sent", "joining", "closed"}
  /\ fifo \in Seq(Byte) /\ Len(fifo) <= RxDepth
  /\ toTarget \in Seq(Byte)
  /\ toHost \in Seq(Byte)

\* What a step of the reader does to what is on the way to it.
TakesNone ==
  toHost' = toHost /\ reader' \in {"top", "first", "show", "done"}

TakesOne ==
  /\ toHost # << >> /\ toHost' = Tail(toHost)
  /\ \/ reader \in {"first", "skip"} /\ reader' = H!Answer(Head(toHost))
     \/ reader = "zero" /\ reader' = "running?"
     \/ reader = "show" /\ reader' = H!Display(Head(toHost))
     \/ reader = "last" /\ reader' = "end"

LEMMA ReaderStep ==
  ASSUME H!ReadByte
  PROVE  /\ UNCHANGED <<pgm, continue, main, toTarget>>
         /\ run' = run \/ run' = FALSE
         /\ TakesNone \/ TakesOne
<1>1. CASE H!Top
  BY <1>1 DEF H!Top, H!Goto, TakesNone
<1>2. CASE H!Reads
  <2>1. CASE H!Read("first", H!Answer)
    BY <2>1 DEF H!Read, H!Goto, TakesOne
  <2>2. CASE H!Read("skip", H!Answer)
    BY <2>2 DEF H!Read, H!Goto, TakesOne
  <2>3. CASE H!Read("zero", H!ToRun)
    BY <2>3 DEF H!Read, H!Goto, H!ToRun, TakesOne
  <2>4. CASE H!Read("show", H!Display)
    BY <2>4 DEF H!Read, H!Goto, TakesOne
  <2>5. CASE H!Read("last", H!ToEnd)
    BY <2>5 DEF H!Read, H!Goto, H!ToEnd, TakesOne
  <2> QED
    BY <1>2, <2>1, <2>2, <2>3, <2>4, <2>5 DEF H!Reads
<1>3. CASE H!Running
  BY <1>3 DEF H!Running, H!Goto, TakesNone
<1>4. CASE H!EndRun
  BY <1>4 DEF H!EndRun, H!Goto, TakesNone
<1>5. CASE H!Timeout
  BY <1>5 DEF H!Timeout, H!Goto, TakesNone
<1> QED
  BY <1>1, <1>2, <1>3, <1>4, <1>5 DEF H!ReadByte

LEMMA ReaderTypes ==
  ASSUME LinkInv, H!ReadByte
  PROVE  reader' \in {"top", "running?", "end", "done"} \cup H!Reading
<1>1. CASE TakesNone
  BY <1>1 DEF TakesNone, H!Reading
<1>2. CASE TakesOne
  BY <1>2 DEF TakesOne, H!Answer, H!Display, H!Reading
<1> QED
  BY <1>1, <1>2, ReaderStep

LEMMA Shorter ==
  ASSUME NEW l \in Seq(Byte), l # << >>
  PROVE  /\ Head(l) \in Byte
         /\ Tail(l) \in Seq(Byte)
         /\ Len(Tail(l)) = Len(l) - 1
         /\ \A i \in 1 .. Len(l) - 1 : Tail(l)[i] = l[i + 1]
         /\ Head(l) = l[1] /\ Len(l) \in Nat \ {0}
  OBVIOUS

LEMMA Longer ==
  ASSUME NEW l \in Seq(Byte), NEW b \in Byte
  PROVE  /\ Append(l, b) \in Seq(Byte)
         /\ Len(Append(l, b)) = Len(l) + 1
         /\ \A i \in 1 .. Len(l) : Append(l, b)[i] = l[i]
         /\ Append(l, b)[Len(l) + 1] = b
         /\ Len(l) \in Nat
  OBVIOUS

LEMMA Constants ==
  Text \in Byte /\ H!ACK \in Byte /\ 0 \in Byte /\ Text # H!ACK /\ 0 # H!ACK
  BY DEF Text, H!ACK, Byte

\* The acknowledgement of main, in two steps.
LEMMA TwoMore ==
  ASSUME NEW l \in Seq(Byte), NEW a \in Byte, NEW b \in Byte
  PROVE  l \o <<a, b>> = Append(Append(l, a), b)
  OBVIOUS

LEMMA PrintedBytes ==
  ASSUME LinkInv, NEW b \in Printed[pgm] PROVE b \in Byte
  BY LinkAssumption DEF LinkInv, Byte

LEMMA LinkInitially == Init => LinkInv
<1> SUFFICES ASSUME Init PROVE LinkInv
  OBVIOUS
<1>1. TargetInv
  BY TargetInitially DEF Init
<1>2. << >> \in Seq(Byte) /\ Len(<< >>) <= RxDepth
  BY LinkAssumption
<1> QED
  BY <1>1, <1>2 DEF Init, H!Init, LinkInv

LEMMA LinkStep == LinkInv /\ [Next]_vars => LinkInv'
<1> SUFFICES ASSUME LinkInv, [Next]_vars PROVE LinkInv'
  OBVIOUS
<1>0. /\ fifo \in Seq(Byte) /\ Len(fifo) \in Nat /\ RxDepth \in Nat
      /\ toTarget \in Seq(Byte) /\ toHost \in Seq(Byte)
  BY LinkAssumption DEF LinkInv
<1>1. CASE Arrive
  <2>1. TargetInv'
    BY <1>1, TargetStep DEF Arrive, target, TargetMoves, T!vars, LinkInv
  <2>2. toTarget' \in Seq(Byte) /\ Head(toTarget) \in Byte
    BY <1>0, <1>1, Shorter DEF Arrive
  <2>3. fifo' \in Seq(Byte) /\ Len(fifo') <= RxDepth
    <3>1. CASE Len(fifo) < RxDepth /\ fifo' = Append(fifo, Head(toTarget))
      BY <1>0, <2>2, <3>1, Longer
    <3>2. CASE fifo' = fifo
      BY <3>2 DEF LinkInv
    <3> QED
      BY <1>1, <3>1, <3>2 DEF Arrive
  <2> QED
    BY <1>1, <2>1, <2>2, <2>3 DEF Arrive, host, LinkInv
<1>2. CASE Receive
  <2>1. Head(fifo) \in Byte /\ fifo' \in Seq(Byte) /\ Len(fifo') <= RxDepth
    BY <1>0, <1>2, Shorter DEF Receive, LinkInv
  <2>2. TargetInv'
    BY <1>2, <2>1, TargetStep DEF Receive, TargetMoves, LinkInv
  <2>3. toHost' \in Seq(Byte)
    BY <1>0, <1>2, Constants, Longer DEF Receive
  <2> QED
    BY <1>2, <2>1, <2>2, <2>3 DEF Receive, host, LinkInv
<1>3. CASE Interrupt
  <2>1. TargetInv'
    BY <1>3, TargetStep DEF Interrupt, TargetMoves, LinkInv
  <2> QED
    BY <1>3, <2>1 DEF Interrupt, host, LinkInv
<1>4. CASE Prints
  <2>1. TargetInv'
    BY <1>4, TargetStep DEF Prints, target, TargetMoves, T!vars, LinkInv
  <2>2. toHost' \in Seq(Byte)
    BY <1>0, <1>4, PrintedBytes, Longer DEF Prints
  <2> QED
    BY <1>4, <2>1, <2>2 DEF Prints, host, LinkInv
<1>5. CASE Executed
  <2>1. TargetInv'
    BY <1>5, TargetStep DEF Executed, TargetMoves, LinkInv
  <2>2. toHost' = Append(Append(toHost, H!ACK), 0)
    BY <1>0, <1>5, Constants, TwoMore DEF Executed
  <2>3. toHost' \in Seq(Byte)
    BY <1>0, <2>2, Constants, Longer
  <2> QED
    BY <1>5, <2>1, <2>3 DEF Executed, host, LinkInv
<1>6. CASE Exited
  <2>1. TargetInv'
    BY <1>6, TargetStep DEF Exited, TargetMoves, LinkInv
  <2>2. toHost' \in Seq(Byte)
    BY <1>0, <1>6, Constants, Longer DEF Exited
  <2> QED
    BY <1>6, <2>1, <2>2 DEF Exited, host, LinkInv
<1>7. CASE Type
  <2>1. TargetInv'
    BY <1>7, TargetStep DEF Type, target, TargetMoves, T!vars, LinkInv
  <2>2. toTarget' \in Seq(Byte)
    BY <1>0, <1>7, PacketEnds, Joined DEF Type, H!Send, LinkInv
  <2> QED
    BY <1>7, <2>1, <2>2 DEF Type, H!Send, LinkInv
<1>8. CASE SetRun \/ Quit \/ Close
  <2>1. TargetInv'
    BY <1>8, TargetStep DEF SetRun, Quit, Close, Apart, target, TargetMoves, T!vars, LinkInv
  <2> QED
    BY <1>8, <2>1 DEF SetRun, Quit, Close, H!SetRun, H!Quit, H!Close, Apart, LinkInv
<1>9. CASE ReadByte
  <2>1. TargetInv'
    BY <1>9, TargetStep DEF ReadByte, Apart, target, TargetMoves, T!vars, LinkInv
  <2>2. toHost' \in Seq(Byte)
    BY <1>0, <1>9, ReaderStep, Shorter DEF ReadByte, TakesNone, TakesOne
  <2>3. reader' \in {"top", "running?", "end", "done"} \cup H!Reading
    BY <1>9, ReaderTypes DEF ReadByte
  <2>4. /\ UNCHANGED <<pgm, continue, main, toTarget, fifo>>
        /\ run' = run \/ run' = FALSE
    BY <1>9, ReaderStep DEF ReadByte, Apart
  <2> QED
    BY <2>1, <2>2, <2>3, <2>4 DEF LinkInv
<1>10. CASE UNCHANGED vars
  <2>1. TargetInv'
    BY <1>10, TargetStep DEF vars, target, TargetMoves, T!vars, LinkInv
  <2> QED
    BY <1>10, <2>1 DEF vars, host, LinkInv
<1> QED
  BY <1>1, <1>2, <1>3, <1>4, <1>5, <1>6, <1>7, <1>8, <1>9, <1>10 DEF Next

LEMMA LinkInvariant == Spec => []LinkInv
  BY LinkInitially, LinkStep, PTL DEF Spec

\* LinkTypeCorrect: only bytes are on the line, the receiver holds what it can,
\* and the loader stores inside the memory, whatever the host sends.
THEOREM LinkTypeCorrect == Spec => []TypeOK
<1>1. ASSUME LinkInv PROVE TypeOK
  <2>1. /\ \A i \in 1 .. Len(toTarget) : toTarget[i] \in 0 .. 255
        /\ \A i \in 1 .. Len(toHost) : toHost[i] \in 0 .. 255
    <3>1. toTarget \in Seq(0 .. 255) /\ toHost \in Seq(0 .. 255)
      BY <1>1 DEF LinkInv, Byte
    <3> QED
      BY <3>1, ElementOfSeq
  <2> QED
    BY <1>1, <2>1, TargetTypes DEF LinkInv, TypeOK
<1> QED
  BY <1>1, LinkInvariant, PTL

-----------------------------------------------------------------------------
(* Alignment: the last byte on the way to the loader is the zero that ends *)
(* a packet, or the loader has just read it.                               *)

Afresh == packetReadPos = 0 /\ memWritePos = 0

AlignInv ==
  ~lost =>
    /\ toTarget # << >> => toTarget[Len(toTarget)] = 0
    /\ toTarget = << >> /\ fifo # << >> => fifo[Len(fifo)] = 0
    /\ toTarget = << >> /\ fifo = << >> => Afresh

\* The end of a queue after its first byte has left it.
LEMMA LastStays ==
  ASSUME NEW l \in Seq(Byte), l # << >>, l[Len(l)] = 0
  PROVE  IF Tail(l) = << >> THEN Head(l) = 0 ELSE Tail(l)[Len(Tail(l))] = 0
<1>1. /\ Len(l) \in Nat \ {0} /\ Len(Tail(l)) = Len(l) - 1 /\ Head(l) = l[1]
      /\ Tail(l) \in Seq(Byte)
      /\ \A i \in 1 .. Len(l) - 1 : Tail(l)[i] = l[i + 1]
  BY Shorter
<1>0. Tail(l) = << >> <=> Len(Tail(l)) = 0
  BY <1>1, EmptySeq
<1>2. CASE Len(l) = 1
  <2>1. l[1] = 0 /\ Tail(l) = << >>
    BY <1>0, <1>1, <1>2
  <2> QED
    BY <1>1, <2>1
<1>3. CASE Len(l) # 1
  <2>1. Len(l) - 1 \in 1 .. Len(l) - 1 /\ (Len(l) - 1) + 1 = Len(l)
    BY <1>1, <1>3
  <2>2. Tail(l)[Len(l) - 1] = 0
    BY <1>1, <2>1
  <2>3. Tail(l) # << >>
    BY <1>0, <1>1, <1>3
  <2> QED
    BY <1>1, <2>2, <2>3
<1> QED
  BY <1>2, <1>3

LEMMA ZeroRead ==
  ASSUME T!Receive(0) PROVE Afresh'
  BY DEF T!Receive, T!EndOfPacket, T!Store, T!Fill, Afresh

\* Steps that neither write to the line nor read from it.
LEMMA AlignKept ==
  ASSUME AlignInv, lost' = lost, UNCHANGED <<toTarget, fifo>>,
         UNCHANGED <<packetReadPos, memWritePos>> \/ Afresh'
  PROVE  AlignInv'
  BY DEF AlignInv, Afresh

LEMMA AlignStep == LinkInv /\ AlignInv /\ [Next]_vars => AlignInv'
<1> SUFFICES ASSUME LinkInv, AlignInv, [Next]_vars PROVE AlignInv'
  OBVIOUS
<1>0. fifo \in Seq(Byte) /\ toTarget \in Seq(Byte)
  BY DEF LinkInv
<1>1. CASE Arrive
  <2>1. CASE lost'
    BY <2>1 DEF AlignInv
  <2>2. CASE fifo' = Append(fifo, Head(toTarget)) /\ lost' = lost
    <3>1. toTarget # << >> /\ toTarget' = Tail(toTarget) /\ Head(toTarget) \in Byte
      BY <1>0, <1>1, Shorter DEF Arrive
    <3>2. ~lost => IF toTarget' = << >> THEN Head(toTarget) = 0
                   ELSE toTarget'[Len(toTarget')] = 0
      BY <1>0, <3>1, LastStays DEF AlignInv
    <3>3. /\ fifo'[Len(fifo')] = Head(toTarget) /\ fifo' # << >>
      BY <1>0, <2>2, <3>1, Longer
    <3> QED
      BY <2>2, <3>2, <3>3 DEF AlignInv
  <2> QED
    BY <1>1, <2>1, <2>2 DEF Arrive
<1>2. CASE Receive
  <2>1. /\ fifo # << >> /\ fifo' = Tail(fifo) /\ T!Receive(Head(fifo))
        /\ UNCHANGED <<toTarget, lost>>
    BY <1>2 DEF Receive
  <2>2. CASE toTarget # << >>
    BY <2>1, <2>2 DEF AlignInv
  <2>3. CASE toTarget = << >> /\ ~lost
    <3>1. IF fifo' = << >> THEN Head(fifo) = 0 ELSE fifo'[Len(fifo')] = 0
      BY <1>0, <2>1, <2>3, LastStays DEF AlignInv
    <3>2. fifo' = << >> => Afresh'
      BY <2>1, <3>1, ZeroRead
    <3> QED
      BY <2>1, <2>3, <3>1, <3>2 DEF AlignInv
  <2> QED
    BY <2>1, <2>2, <2>3 DEF AlignInv
<1>3. CASE Interrupt
  BY <1>3, AlignKept DEF Interrupt, T!Restart, Afresh
<1>4. CASE Prints
  BY <1>4, AlignKept DEF Prints, target
<1>5. CASE Executed
  BY <1>5, AlignKept DEF Executed, T!Executed
<1>6. CASE Exited
  BY <1>6, AlignKept DEF Exited, T!Exited
<1>7. CASE Type
  <2>1. PICK cmd : toTarget' = toTarget \o H!Packet(cmd) /\ UNCHANGED <<fifo, lost>>
    BY <1>7 DEF Type, H!Send
  <2> DEFINE m == H!Packet(cmd)
  <2>2. m \in Seq(Byte) /\ Len(m) \in Nat \ {0} /\ m[Len(m)] = 0
    BY PacketEnds DEF LinkInv
  <2> HIDE DEF m
  <2>3. toTarget' # << >> /\ toTarget'[Len(toTarget')] = 0
    <3>1. toTarget' = toTarget \o m
      BY <2>1 DEF m
    <3>2. /\ Len(toTarget \o m) = Len(toTarget) + Len(m)
          /\ (toTarget \o m)[Len(toTarget) + Len(m)] = m[Len(m)]
          /\ Len(toTarget) + Len(m) # 0
      BY <1>0, <2>2
    <3> QED
      BY <2>2, <3>1, <3>2
  <2> QED
    BY <2>1, <2>3 DEF AlignInv
<1>8. CASE SetRun \/ Quit \/ Close
  BY <1>8, AlignKept DEF SetRun, Quit, Close, H!SetRun, H!Quit, H!Close, Apart, target
<1>9. CASE ReadByte
  BY <1>9, ReaderStep, AlignKept DEF ReadByte, Apart, target
<1>10. CASE UNCHANGED vars
  BY <1>10, AlignKept DEF vars, target
<1> QED
  BY <1>1, <1>2, <1>3, <1>4, <1>5, <1>6, <1>7, <1>8, <1>9, <1>10 DEF Next

\* PacketsAligned: after whatever the host has sent the loader is at the start
\* of a packet again, unless a byte was dropped (hal_Loader.c:53-54).
THEOREM PacketsAligned == Spec => []Aligned
<1>1. Init => AlignInv
  BY DEF Init, T!Init, H!Init, AlignInv, Afresh
<1>2. AlignInv => Aligned
  BY DEF AlignInv, Aligned, Quiet, Afresh
<1> QED
  BY <1>1, <1>2, LinkInvariant, AlignStep, PTL DEF Spec

-----------------------------------------------------------------------------
(* Acknowledgements.  counts[i] is the number of those that the reader     *)
(* will have seen when it has taken i more bytes.                          *)

IsAck(b) == IF b = H!ACK THEN 1 ELSE 0

Counts(l, from, counts) ==
  /\ counts[0] = from
  /\ \A i \in 1 .. Len(l) : counts[i] = counts[i - 1] + IsAck(l[i])

Counted(l, from, to) ==
  \E counts \in [0 .. Len(l) -> Int] : Counts(l, from, counts) /\ counts[Len(l)] = to

LEMMA CountedNone ==
  ASSUME NEW from \in Int PROVE Counted(<< >>, from, from)
<1> DEFINE counts == [i \in 0 .. 0 |-> from]
<1>1. counts \in [0 .. 0 -> Int] /\ counts[0] = from /\ Len(<< >>) = 0
  OBVIOUS
<1>2. Counts(<< >>, from, counts)
  BY <1>1 DEF Counts
<1> QED
  BY <1>1, <1>2 DEF Counted

LEMMA NoneCounted ==
  ASSUME NEW from, NEW to, Counted(<< >>, from, to) PROVE from = to
  BY EmptySeq DEF Counted, Counts

LEMMA CountedTail ==
  ASSUME NEW l \in Seq(Byte), l # << >>, NEW from, NEW to, Counted(l, from, to)
  PROVE  Counted(Tail(l), from + IsAck(Head(l)), to)
<1>1. /\ Len(l) \in Nat \ {0} /\ Len(Tail(l)) = Len(l) - 1 /\ Head(l) = l[1]
      /\ \A i \in 1 .. Len(l) - 1 : Tail(l)[i] = l[i + 1]
  BY Shorter
<1>2. PICK counts \in [0 .. Len(l) -> Int] : Counts(l, from, counts) /\ counts[Len(l)] = to
  BY DEF Counted
<1> DEFINE rest == [i \in 0 .. Len(l) - 1 |-> counts[i + 1]]
<1>3. rest \in [0 .. Len(Tail(l)) -> Int] /\ rest[Len(Tail(l))] = to
  BY <1>1, <1>2
<1>4. 1 \in 1 .. Len(l) /\ 1 - 1 = 0
  BY <1>1
<1>5. rest[0] = from + IsAck(Head(l))
  BY <1>1, <1>2, <1>4 DEF Counts
<1>6. ASSUME NEW i \in 1 .. Len(l) - 1
      PROVE  rest[i] = rest[i - 1] + IsAck(Tail(l)[i])
  <2>1. i + 1 \in 1 .. Len(l) /\ (i + 1) - 1 = i /\ (i - 1) + 1 = i /\ i - 1 \in 0 .. Len(l) - 1
    BY <1>1
  <2>2. counts[i + 1] = counts[i] + IsAck(l[i + 1])
    BY <1>2, <2>1 DEF Counts
  <2> QED
    BY <1>1, <2>1, <2>2
<1>7. Counts(Tail(l), from + IsAck(Head(l)), rest)
  BY <1>1, <1>5, <1>6 DEF Counts
<1> QED
  BY <1>3, <1>7 DEF Counted

LEMMA CountedAppend ==
  ASSUME NEW l \in Seq(Byte), NEW b \in Byte, NEW from, NEW to, Counted(l, from, to)
  PROVE  Counted(Append(l, b), from, to + IsAck(b))
<1>1. /\ Len(Append(l, b)) = Len(l) + 1
      /\ \A i \in 1 .. Len(l) : Append(l, b)[i] = l[i]
      /\ Append(l, b)[Len(l) + 1] = b
      /\ Len(l) \in Nat
  BY Longer
<1>2. PICK counts \in [0 .. Len(l) -> Int] : Counts(l, from, counts) /\ counts[Len(l)] = to
  BY DEF Counted
<1> DEFINE more == [i \in 0 .. Len(l) + 1 |->
                      IF i <= Len(l) THEN counts[i] ELSE to + IsAck(b)]
<1>3. to \in Int /\ IsAck(b) \in Int
  BY <1>1, <1>2 DEF IsAck
<1>4. more \in [0 .. Len(Append(l, b)) -> Int] /\ more[Len(Append(l, b))] = to + IsAck(b)
  BY <1>1, <1>3
<1>5. more[0] = from
  BY <1>1, <1>2 DEF Counts
<1>6. ASSUME NEW i \in 1 .. Len(l) + 1
      PROVE  more[i] = more[i - 1] + IsAck(Append(l, b)[i])
  <2>1. CASE i <= Len(l)
    <3>1. i \in 1 .. Len(l) /\ more[i] = counts[i] /\ more[i - 1] = counts[i - 1]
      BY <1>1, <2>1
    <3> QED
      BY <1>1, <1>2, <3>1 DEF Counts
  <2>2. CASE i = Len(l) + 1
    <3>1. more[i] = to + IsAck(b) /\ more[i - 1] = counts[Len(l)]
      BY <1>1, <2>2
    <3> QED
      BY <1>1, <1>2, <2>2, <3>1
  <2> QED
    BY <1>1, <2>1, <2>2
<1>7. Counts(Append(l, b), from, more)
  BY <1>1, <1>5, <1>6 DEF Counts
<1> QED
  BY <1>4, <1>7 DEF Counted

\* Main sends an acknowledgement and its zero together, and programs send none:
\* so the zero is there when the reader waits for it.
FollowedByZero(l) ==
  \A i \in 1 .. Len(l) : l[i] = H!ACK => i < Len(l) /\ l[i + 1] = 0

ZeroNext ==
  reader \in {"zero", "last"} => toHost # << >> /\ Head(toHost) = 0

AckInv ==
  /\ seen \in Int
  /\ acks \in Int
  /\ ~garbled => FollowedByZero(toHost) /\ ZeroNext /\ Counted(toHost, seen, acks)

LEMMA FollowedTail ==
  ASSUME NEW l \in Seq(Byte), l # << >>, FollowedByZero(l)
  PROVE  /\ FollowedByZero(Tail(l))
         /\ Head(l) = H!ACK => Tail(l) # << >> /\ Head(Tail(l)) = 0
<1>1. /\ Len(l) \in Nat \ {0} /\ Len(Tail(l)) = Len(l) - 1 /\ Head(l) = l[1]
      /\ Tail(l) \in Seq(Byte)
      /\ \A i \in 1 .. Len(l) - 1 : Tail(l)[i] = l[i + 1]
  BY Shorter
<1>2. ASSUME NEW i \in 1 .. Len(l) - 1, Tail(l)[i] = H!ACK
      PROVE  i < Len(l) - 1 /\ Tail(l)[i + 1] = 0
  <2>1. i + 1 \in 1 .. Len(l) /\ l[i + 1] = H!ACK
    BY <1>1, <1>2
  <2>2. i + 1 < Len(l) /\ l[(i + 1) + 1] = 0
    BY <2>1 DEF FollowedByZero
  <2>3. i + 1 \in 1 .. Len(l) - 1
    BY <1>1, <2>1, <2>2
  <2> QED
    BY <1>1, <2>2, <2>3
<1>3. ASSUME Head(l) = H!ACK PROVE Tail(l) # << >> /\ Head(Tail(l)) = 0
  <2>1. 1 < Len(l) /\ l[1 + 1] = 0
    BY <1>1, <1>3 DEF FollowedByZero
  <2>2. 1 \in 1 .. Len(l) - 1 /\ Len(Tail(l)) # 0
    BY <1>1, <2>1
  <2>3. Tail(l) # << >>
    BY <2>2, EmptySeq
  <2>4. Head(Tail(l)) = Tail(l)[1]
    BY <1>1, <2>3, Shorter
  <2> QED
    BY <1>1, <2>1, <2>2, <2>3, <2>4
<1> QED
  BY <1>1, <1>2, <1>3 DEF FollowedByZero

LEMMA FollowedAppend ==
  ASSUME NEW l \in Seq(Byte), FollowedByZero(l), NEW b \in Byte, b # H!ACK
  PROVE  FollowedByZero(Append(l, b))
<1>1. /\ Len(Append(l, b)) = Len(l) + 1
      /\ \A i \in 1 .. Len(l) : Append(l, b)[i] = l[i]
      /\ Append(l, b)[Len(l) + 1] = b
      /\ Len(l) \in Nat
  BY Longer
<1>2. ASSUME NEW i \in 1 .. Len(l) + 1, Append(l, b)[i] = H!ACK
      PROVE  i < Len(l) + 1 /\ Append(l, b)[i + 1] = 0
  <2>1. i \in 1 .. Len(l) /\ l[i] = H!ACK
    BY <1>1, <1>2
  <2>2. i < Len(l) /\ l[i + 1] = 0
    BY <2>1 DEF FollowedByZero
  <2>3. i + 1 \in 1 .. Len(l)
    BY <1>1, <2>1, <2>2
  <2> QED
    BY <1>1, <2>1, <2>2, <2>3
<1> QED
  BY <1>1, <1>2 DEF FollowedByZero

LEMMA FollowedAnswer ==
  ASSUME NEW l \in Seq(Byte), FollowedByZero(l)
  PROVE  FollowedByZero(Append(Append(l, H!ACK), 0))
<1> DEFINE m == Append(l, H!ACK)
<1>1. /\ m \in Seq(Byte)
      /\ Len(m) = Len(l) + 1
      /\ \A i \in 1 .. Len(l) : m[i] = l[i]
      /\ m[Len(l) + 1] = H!ACK
      /\ Len(l) \in Nat
  BY Longer, Constants
<1> HIDE DEF m
<1>2. /\ Len(Append(m, 0)) = Len(l) + 2
      /\ \A i \in 1 .. Len(l) + 1 : Append(m, 0)[i] = m[i]
      /\ Append(m, 0)[Len(l) + 2] = 0
  <2>1. /\ Len(Append(m, 0)) = Len(m) + 1
        /\ \A i \in 1 .. Len(m) : Append(m, 0)[i] = m[i]
        /\ Append(m, 0)[Len(m) + 1] = 0
    BY <1>1, Longer, Constants
  <2> QED
    BY <1>1, <2>1
<1>3. ASSUME NEW i \in 1 .. Len(l) + 2, Append(m, 0)[i] = H!ACK
      PROVE  i < Len(l) + 2 /\ Append(m, 0)[i + 1] = 0
  <2>1. CASE i \in 1 .. Len(l)
    <3>1. l[i] = H!ACK
      BY <1>1, <1>2, <1>3, <2>1
    <3>2. i < Len(l) /\ l[i + 1] = 0
      BY <2>1, <3>1 DEF FollowedByZero
    <3>3. i + 1 \in 1 .. Len(l)
      BY <1>1, <2>1, <3>2
    <3> QED
      BY <1>1, <1>2, <3>2, <3>3
  <2>2. CASE i = Len(l) + 1
    BY <1>1, <1>2, <2>2
  <2>3. CASE i = Len(l) + 2
    BY <1>2, <1>3, <2>3, Constants
  <2> QED
    BY <1>1, <2>1, <2>2, <2>3
<1> QED
  BY <1>2, <1>3 DEF FollowedByZero, m

\* A byte more on its way to the reader, which stays where it is.
LEMMA ZeroStays ==
  ASSUME ZeroNext, toHost \in Seq(Byte), NEW b \in Byte,
         toHost' = Append(toHost, b), reader' = reader
  PROVE  ZeroNext'
<1>1. /\ toHost' \in Seq(Byte) /\ Len(toHost') = Len(toHost) + 1 /\ Len(toHost) \in Nat
      /\ \A i \in 1 .. Len(toHost) : toHost'[i] = toHost[i]
  BY Longer
<1>2. ASSUME toHost # << >> PROVE toHost' # << >> /\ Head(toHost') = Head(toHost)
  <2>1. Len(toHost) # 0 /\ Len(toHost') # 0
    BY <1>1, <1>2, EmptySeq
  <2>2. toHost' # << >>
    BY <2>1, EmptySeq
  <2>3. Head(toHost') = toHost'[1] /\ Head(toHost) = toHost[1]
    BY <1>1, <1>2, <2>2, Shorter
  <2> QED
    BY <1>1, <2>1, <2>2, <2>3
<1> QED
  BY <1>2 DEF ZeroNext

LEMMA AckKept ==
  ASSUME AckInv, UNCHANGED <<toHost, reader, acks, seen, garbled>>
  PROVE  AckInv'
  BY DEF AckInv, ZeroNext

LEMMA OtherByte ==
  ASSUME LinkInv, AckInv, NEW b \in Byte, ~garbled' => b # H!ACK,
         toHost' = Append(toHost, b), UNCHANGED <<reader, acks>>,
         seen' \in Int, ~garbled' => ~garbled /\ seen' = seen
  PROVE  AckInv'
<1>1. toHost \in Seq(Byte) /\ acks \in Int /\ seen \in Int
  BY DEF LinkInv, AckInv
<1>2. CASE garbled'
  BY <1>1, <1>2 DEF AckInv
<1>3. CASE ~garbled'
  <2>1. FollowedByZero(toHost) /\ ZeroNext /\ Counted(toHost, seen, acks) /\ b # H!ACK
    BY <1>3 DEF AckInv
  <2>2. FollowedByZero(toHost')
    BY <1>1, <2>1, FollowedAppend
  <2>3. ZeroNext'
    BY <1>1, <2>1, ZeroStays
  <2>4. Counted(toHost', seen, acks + IsAck(b))
    BY <1>1, <2>1, CountedAppend
  <2>5. IsAck(b) = 0
    BY <2>1 DEF IsAck
  <2> QED
    BY <1>1, <1>3, <2>2, <2>3, <2>4, <2>5 DEF AckInv
<1> QED
  BY <1>2, <1>3

LEMMA AnswerSent ==
  ASSUME LinkInv, AckInv, Executed PROVE AckInv'
<1> DEFINE more == Append(toHost, H!ACK)
<1>1. toHost \in Seq(Byte) /\ acks \in Int /\ seen \in Int
  BY DEF LinkInv, AckInv
<1>2. more \in Seq(Byte)
  BY <1>1, Longer, Constants
<1>3. toHost' = Append(more, 0) /\ acks' = acks + 1 /\ UNCHANGED <<reader, seen, garbled>>
  BY <1>1, TwoMore, Constants DEF Executed, host
<1>4. CASE garbled
  BY <1>1, <1>3, <1>4 DEF AckInv
<1>5. CASE ~garbled
  <2>1. FollowedByZero(toHost) /\ ZeroNext /\ Counted(toHost, seen, acks)
    BY <1>5 DEF AckInv
  <2>2. FollowedByZero(toHost')
    BY <1>1, <1>3, <2>1, FollowedAnswer
  <2>3. ZeroNext'
    <3>1. CASE reader \in {"zero", "last"}
      <4>1. toHost # << >> /\ Head(toHost) = 0 /\ Len(toHost) \in Nat \ {0} /\ toHost[1] = 0
        BY <1>1, <2>1, <3>1, Shorter DEF ZeroNext
      <4>2. /\ Len(more) = Len(toHost) + 1 /\ more[1] = toHost[1]
        BY <1>1, <4>1, Longer, Constants
      <4>3. /\ toHost' \in Seq(Byte) /\ Len(toHost') = Len(toHost) + 2
            /\ toHost'[1] = 0
        BY <1>2, <1>3, <4>1, <4>2, Longer, Constants
      <4>4. toHost' # << >>
        BY <4>1, <4>3, EmptySeq
      <4> QED
        BY <4>3, <4>4, Shorter DEF ZeroNext
    <3>2. CASE reader \notin {"zero", "last"}
      BY <1>3, <3>2 DEF ZeroNext
    <3> QED
      BY <3>1, <3>2
  <2>4. Counted(toHost', seen, acks + 1)
    <3>1. Counted(more, seen, acks + IsAck(H!ACK))
      BY <1>1, <2>1, CountedAppend, Constants
    <3>2. IsAck(H!ACK) = 1 /\ IsAck(0) = 0
      BY Constants DEF IsAck
    <3>3. Counted(Append(more, 0), seen, (acks + 1) + IsAck(0))
      BY <1>2, <3>1, <3>2, CountedAppend, Constants
    <3> QED
      BY <1>1, <1>3, <3>2, <3>3
  <2> QED
    BY <1>1, <1>3, <2>2, <2>3, <2>4 DEF AckInv
<1> QED
  BY <1>4, <1>5

LEMMA AnswerTaken ==
  ASSUME LinkInv, AckInv, ReadByte PROVE AckInv'
<1>1. toHost \in Seq(Byte) /\ acks \in Int /\ seen \in Int
  BY DEF LinkInv, AckInv
<1>2. /\ acks' = acks /\ garbled' = garbled
      /\ TakesNone \/ TakesOne
      /\ seen' = IF ~garbled /\ toHost' # toHost /\ reader' \in {"zero", "last"}
                   THEN seen + 1 ELSE seen
  BY ReaderStep DEF ReadByte, Apart, history
<1>3. seen' \in Int
  BY <1>1, <1>2
<1>4. CASE garbled
  BY <1>1, <1>2, <1>3, <1>4 DEF AckInv
<1>5. CASE ~garbled /\ TakesNone
  BY <1>1, <1>2, <1>5 DEF TakesNone, AckInv, ZeroNext
<1>6. CASE ~garbled /\ TakesOne
  <2>1. FollowedByZero(toHost) /\ ZeroNext /\ Counted(toHost, seen, acks)
    BY <1>6 DEF AckInv
  <2>2. toHost # << >> /\ toHost' = Tail(toHost)
    BY <1>6 DEF TakesOne
  <2>3. toHost' # toHost
    <3>1. Len(toHost) \in Nat \ {0} /\ Len(toHost') = Len(toHost) - 1
      BY <1>1, <2>2, Shorter
    <3>2. Len(toHost') # Len(toHost)
      BY <3>1
    <3> QED
      BY <3>2
  <2>4. /\ FollowedByZero(toHost')
        /\ Head(toHost) = H!ACK => toHost' # << >> /\ Head(toHost') = 0
    BY <1>1, <2>1, <2>2, FollowedTail
  <2>5. reader' \in {"zero", "last"} <=> Head(toHost) = H!ACK
    BY <1>6, <2>1, Constants DEF TakesOne, ZeroNext, H!Answer, H!Display
  <2>6. seen' = seen + IsAck(Head(toHost))
    BY <1>1, <1>2, <1>6, <2>3, <2>5 DEF IsAck
  <2>7. Counted(toHost', seen', acks)
    BY <1>1, <2>1, <2>2, <2>6, CountedTail
  <2> QED
    BY <1>1, <1>2, <1>3, <2>4, <2>5, <2>7 DEF AckInv, ZeroNext
<1> QED
  BY <1>2, <1>4, <1>5, <1>6

LEMMA AckInitially == Init => AckInv
<1> SUFFICES ASSUME Init PROVE AckInv
  OBVIOUS
<1>1. toHost = << >> /\ reader = "top" /\ seen = 0 /\ acks = 0 /\ garbled = FALSE
  BY DEF Init, H!Init
<1>2. FollowedByZero(toHost)
  BY <1>1, EmptySeq DEF FollowedByZero
<1> QED
  BY <1>1, <1>2, CountedNone DEF AckInv, ZeroNext

LEMMA AckStep == LinkInv /\ AckInv /\ [Next]_vars => AckInv'
<1> SUFFICES ASSUME LinkInv, AckInv, [Next]_vars PROVE AckInv'
  OBVIOUS
<1>0. seen \in Int
  BY DEF AckInv
<1>1. CASE Arrive
  BY <1>1, AckKept DEF Arrive, host, history
<1>2. CASE Receive
  <2>1. CASE toHost' = toHost
    BY <1>2, <2>1, AckKept DEF Receive, host, history
  <2>2. CASE toHost' = Append(toHost, Text)
    BY <1>0, <1>2, <2>2, OtherByte, Constants DEF Receive, host, history
  <2> QED
    BY <1>2, <2>1, <2>2 DEF Receive
<1>3. CASE Interrupt
  BY <1>3, AckKept DEF Interrupt, host, history
<1>4. CASE Prints
  <2>1. PICK b \in Printed[pgm] :
          /\ toHost' = Append(toHost, b)
          /\ garbled' = (garbled \/ b = H!ACK)
          /\ seen' = IF garbled' THEN 0 ELSE seen
    BY <1>4 DEF Prints
  <2>2. b \in Byte
    BY PrintedBytes
  <2>3. UNCHANGED <<reader, acks>>
    BY <1>4 DEF Prints, host, history
  <2>4. seen' \in Int
    BY <1>0, <2>1
  <2>5. ~garbled' => ~garbled /\ b # H!ACK /\ seen' = seen
    BY <2>1, Zenon
  <2> QED
    BY <2>1, <2>2, <2>3, <2>4, <2>5, OtherByte
<1>5. CASE Executed
  BY <1>5, AnswerSent
<1>6. CASE Exited
  BY <1>0, <1>6, OtherByte, Constants DEF Exited, host, history
<1>7. CASE Type
  BY <1>7, AckKept DEF Type, H!Send
<1>8. CASE SetRun \/ Quit \/ Close
  BY <1>8, AckKept DEF SetRun, Quit, Close, H!SetRun, H!Quit, H!Close, Apart, history
<1>9. CASE ReadByte
  BY <1>9, AnswerTaken
<1>10. CASE UNCHANGED vars
  BY <1>10, AckKept DEF vars, host, history
<1> QED
  BY <1>1, <1>2, <1>3, <1>4, <1>5, <1>6, <1>7, <1>8, <1>9, <1>10 DEF Next

\* AcknowledgementsSeen: wherever the reader was in its loops, and whenever Main
\* set _run, it has taken every acknowledgement for one and nothing else
\* (SerialLoader.cs:86-125, 200).
THEOREM AcknowledgementsSeen == Spec => []AcksSeen
<1>1. ASSUME AckInv PROVE AcksSeen
  BY <1>1, NoneCounted DEF AckInv, AcksSeen, Quiet
<1> QED
  BY <1>1, AckInitially, LinkInvariant, AckStep, PTL DEF Spec

-----------------------------------------------------------------------------
(* One answer.  A packet that is no Ping is acknowledged for its zero, and *)
(* once more if its third byte is read as the second byte of a packet and  *)
(* is that of a Ping.  This needs a loader that has already read all bytes *)
(* but one of a full turn of packetReadPos, and bytes that are dropped     *)
(* while a program runs never leave it so far when the receiver is short.  *)

\* Two bytes and one being shifted in, and 256 positions.
ReceiverShort == RxDepth # 0 /\ RxDepth + 4 <= PosRange

Single    == {"s", "x", "r"}
Answering == phase \in {"loading", "executing"}
Stream    == fifo \o toTarget

\* With the interrupt on, the loader never reads anything.
Deaf == rxInterrupt => phase = "loading" /\ packetReadPos = 0

EndsInZero(l) == l # << >> /\ l[Len(l)] = 0

\* How far into a packet without an end the loader can be.
CutShort ==
  /\ ~downloading /\ phase = "executing" => packetReadPos <= 2
  /\ toTarget # << >> => EndsInZero(toTarget)
  /\ Answering /\ ~downloading /\ toTarget = << >>
       => EndsInZero(fifo) \/ packetReadPos + Len(fifo) <= 2 + RxDepth

\* The first k bytes of the packet have been read.
Remains(k) ==
  /\ Len(Stream) = 4 - k
  /\ \A i \in 1 .. 4 - k : Stream[i] = H!Packet(command)[k + i]

\* The third byte of the packet will not be read as a second one.
NotEarly(k) ==
  \/ downloading
  \/ /\ k = 0 => packetReadPos # PosRange - 1
     /\ k = 1 => packetReadPos # 0
     /\ k = 2 => packetReadPos # 1

Unread   == phase = "loading" /\ acks = asked /\ \E k \in 0 .. 3 : Remains(k) /\ NotEarly(k)
Answered == phase = "executing" /\ acks = asked /\ Stream = << >>
Done     == phase = "loading" /\ acks = asked + 1 /\ Stream = << >>

Progress ==
  patient /\ command \in Single /\ Answering =>
    IF rxInterrupt THEN Stream # << >> ELSE Unread \/ Answered \/ Done

OneInv == Deaf /\ CutShort /\ Progress /\ acks \in Int

LEMMA Positions ==
  ASSUME LinkInv
  PROVE  /\ packetReadPos \in 0 .. PosRange - 1
         /\ PosRange \in Nat \ {0, 1, 2} /\ RxDepth \in Nat
         /\ downloading \in BOOLEAN
         /\ phase \in {"loading", "executing", "ended", "exited"}
         /\ fifo \in Seq(Byte) /\ toTarget \in Seq(Byte)
         /\ Len(fifo) \in Nat /\ Len(fifo) <= RxDepth
         /\ pgm \in Programs
  BY TargetTypes, LinkAssumption DEF LinkInv, T!TypeOK

\* The streams of bytes that the steps see.
LEMMA StreamEmpty ==
  ASSUME LinkInv
  PROVE  Stream = << >> <=> fifo = << >> /\ toTarget = << >>
<1>1. /\ fifo \in Seq(Byte) /\ toTarget \in Seq(Byte) /\ Len(fifo) \in Nat /\ Len(toTarget) \in Nat
      /\ Stream \in Seq(Byte) /\ Len(Stream) = Len(fifo) + Len(toTarget)
  BY Joined DEF LinkInv, Stream
<1>2. /\ Stream = << >> <=> Len(Stream) = 0
      /\ fifo = << >> <=> Len(fifo) = 0
      /\ toTarget = << >> <=> Len(toTarget) = 0
  BY <1>1, EmptySeq
<1> QED
  BY <1>1, <1>2

LEMMA Moved ==
  ASSUME NEW l \in Seq(Byte), NEW m \in Seq(Byte), m # << >>
  PROVE  Append(l, Head(m)) \o Tail(m) = l \o m
  OBVIOUS

LEMMA Taken ==
  ASSUME NEW l \in Seq(Byte), NEW m \in Seq(Byte), l # << >>
  PROVE  /\ l \o m \in Seq(Byte) /\ l \o m # << >>
         /\ Tail(l) \o m = Tail(l \o m)
         /\ Head(l) = Head(l \o m)
  OBVIOUS

LEMMA SinglePackets ==
  ASSUME NEW cmd \in Single
  PROVE  /\ H!Packet(cmd) \in Seq(Byte) /\ Len(H!Packet(cmd)) = 4
         /\ H!Packet(cmd)[1] = 3
         /\ H!Packet(cmd)[2] \in {238, 35, 34}
         /\ H!Packet(cmd)[3] \in {32, 35, 34}
         /\ H!Packet(cmd)[4] = 0
<1>1. ASSUME NEW b \in {238, 35, 34}, NEW c \in {32, 35, 34}
      PROVE  /\ <<3, b, c, 0>> \in Seq(Byte) /\ Len(<<3, b, c, 0>>) = 4
             /\ <<3, b, c, 0>>[1] = 3 /\ <<3, b, c, 0>>[2] = b
             /\ <<3, b, c, 0>>[3] = c /\ <<3, b, c, 0>>[4] = 0
  BY <1>1 DEF Byte
<1>2. \E b \in {238, 35, 34}, c \in {32, 35, 34} : H!Packet(cmd) = <<3, b, c, 0>>
  BY DEF Single, H!Packet, H!pingPacketChecksumInvalid, H!getStatusPacket,
         H!runPacket, H!PING, H!GET_STATUS, H!RUN
<1> QED
  BY <1>1, <1>2

LEMMA DeafStep == LinkInv /\ Deaf /\ [Next]_vars => Deaf'
<1> SUFFICES ASSUME LinkInv, Deaf, [Next]_vars PROVE Deaf'
  OBVIOUS
<1>1. CASE UNCHANGED target
  BY <1>1 DEF Deaf, target
<1>2. CASE Receive
  BY <1>2 DEF Deaf, Receive
<1>3. CASE Interrupt
  BY <1>3 DEF Deaf, Interrupt, T!Restart
<1>4. CASE Executed
  BY <1>4 DEF Deaf, Executed, T!Executed
<1>5. CASE Exited
  BY <1>5 DEF Deaf, Exited, T!Exited
<1> QED
  BY <1>1, <1>2, <1>3, <1>4, <1>5
  DEF Next, Arrive, Prints, Type, SetRun, Quit, Close, ReadByte, Apart, vars

\* One more position, which may be the first one again.
LEMMA Further ==
  ASSUME NEW p \in 0 .. PosRange - 1
  PROVE  /\ (p + 1) % PosRange = IF p = PosRange - 1 THEN 0 ELSE p + 1
         /\ (p + 1) % PosRange <= p + 1
  BY LinkAssumption

\* What a byte does to the loader.
LEMMA ByteTaken ==
  ASSUME LinkInv, NEW c \in Byte, T!Receive(c)
  PROVE  /\ phase = "loading"
         /\ \/ c = 0 /\ packetReadPos' = 0 /\ phase' = "executing" /\ downloading' = downloading
            \/ c # 0 /\ downloading /\ UNCHANGED <<downloading, packetReadPos, phase>>
            \/ /\ c # 0 /\ ~downloading
               /\ packetReadPos' = (packetReadPos + 1) % PosRange
               /\ packetReadPos' # 2 => UNCHANGED <<downloading, phase>>
               /\ packetReadPos' = 2 =>
                    \/ c = T!Ping /\ phase' = "executing"
                    \/ c = T!Run /\ phase' = "ended"
                    \/ c \notin {T!Ping, T!Run} /\ phase' = phase
<1>1. phase = "loading"
  BY DEF T!Receive
<1>2. CASE T!EndOfPacket(c)
  BY <1>1, <1>2 DEF T!EndOfPacket, T!Return
<1>3. CASE T!Store(c)
  BY <1>1, <1>3 DEF T!Store
<1>4. CASE T!Fill(c)
  <2>1. memWritePos = 0
    BY <1>4 DEF T!Fill, LinkInv, TargetInv, TP!IInv, TP!Untouched
  <2> QED
    BY <1>1, <1>4, <2>1
    DEF T!Fill, T!Command, T!Return, T!Success, T!InvalidAddr, T!Ping, T!Run
<1> QED
  BY <1>1, <1>2, <1>3, <1>4 DEF T!Receive

LEMMA CutShortStep ==
  ASSUME ReceiverShort, LinkInv, Deaf, CutShort, [Next]_vars PROVE CutShort'
<1>0. /\ fifo \in Seq(Byte) /\ toTarget \in Seq(Byte) /\ Len(fifo) \in Nat
      /\ Len(fifo) <= RxDepth /\ RxDepth \in Nat /\ packetReadPos \in Nat
  BY Positions
<1>1. CASE Arrive
  <2>1. /\ toTarget # << >> /\ toTarget' = Tail(toTarget) /\ Head(toTarget) \in Byte
        /\ UNCHANGED <<downloading, packetReadPos, phase>>
    BY <1>0, <1>1, Shorter DEF Arrive, target
  <2>2. IF toTarget' = << >> THEN Head(toTarget) = 0 ELSE EndsInZero(toTarget')
    BY <1>0, <2>1, LastStays DEF CutShort, EndsInZero
  <2>3. CASE fifo' = Append(fifo, Head(toTarget))
    <3>1. fifo' # << >> /\ fifo'[Len(fifo')] = Head(toTarget)
      BY <1>0, <2>1, <2>3, Longer
    <3> QED
      BY <2>1, <2>2, <3>1 DEF CutShort, EndsInZero
  <2>4. CASE /\ Len(fifo) = RxDepth /\ fifo' = fifo
             /\ phase # "loading" \/ rxInterrupt
    <3>1. Answering /\ ~downloading => packetReadPos + Len(fifo) <= 2 + RxDepth
      BY <1>0, <2>4 DEF Answering, CutShort, Deaf
    <3> QED
      BY <2>1, <2>2, <2>4, <3>1 DEF CutShort, Answering
  <2> QED
    BY <1>1, <2>3, <2>4 DEF Arrive
<1>2. CASE Receive
  <2>1. /\ fifo # << >> /\ fifo' = Tail(fifo) /\ T!Receive(Head(fifo))
        /\ UNCHANGED toTarget /\ Head(fifo) \in Byte
        /\ Len(fifo') = Len(fifo) - 1
    BY <1>0, <1>2, Shorter DEF Receive
  <2>2. EndsInZero(fifo) => IF fifo' = << >> THEN Head(fifo) = 0 ELSE EndsInZero(fifo')
    BY <1>0, <2>1, LastStays DEF EndsInZero
  <2>3. CASE Head(fifo) = 0 /\ packetReadPos' = 0
    <3>1. packetReadPos' <= 2 /\ packetReadPos' + Len(fifo') <= 2 + RxDepth
      BY <1>0, <2>1, <2>3
    <3> QED
      BY <2>1, <3>1 DEF CutShort
  <2>4. CASE Head(fifo) # 0 /\ downloading /\ UNCHANGED downloading
    BY <2>1, <2>4 DEF CutShort
  <2>5. CASE /\ Head(fifo) # 0 /\ ~downloading /\ phase = "loading"
             /\ packetReadPos' = (packetReadPos + 1) % PosRange
             /\ packetReadPos' # 2 => UNCHANGED <<downloading, phase>>
    <3>1. packetReadPos' \in Nat /\ packetReadPos' <= packetReadPos + 1
      BY <2>5, Positions, Further
    <3>2. phase' = "executing" => packetReadPos' <= 2
      BY <2>5
    <3>3. toTarget = << >> =>
            \/ EndsInZero(fifo')
            \/ packetReadPos' + Len(fifo') <= 2 + RxDepth
      <4>1. CASE EndsInZero(fifo)
        BY <2>2, <2>5, <4>1
      <4>2. CASE packetReadPos + Len(fifo) <= 2 + RxDepth
        BY <1>0, <2>1, <3>1, <4>2
      <4> QED
        BY <2>5, <4>1, <4>2 DEF CutShort, Answering
    <3> QED
      BY <2>1, <3>2, <3>3 DEF CutShort
  <2> QED
    BY <2>1, <2>3, <2>4, <2>5, ByteTaken
<1>3. CASE Interrupt
  <2>1. UNCHANGED <<fifo, toTarget>> /\ packetReadPos' = 0 /\ phase' = "loading"
    BY <1>3 DEF Interrupt, T!Restart
  <2>2. packetReadPos' + Len(fifo') <= 2 + RxDepth
    BY <1>0, <2>1
  <2> QED
    BY <2>1, <2>2 DEF CutShort
<1>4. CASE Executed
  BY <1>4 DEF CutShort, Executed, T!Executed, Answering
<1>5. CASE Exited
  BY <1>5 DEF CutShort, Exited, T!Exited, Answering
<1>6. CASE Type
  <2>1. PICK cmd : toTarget' = toTarget \o H!Packet(cmd)
                   /\ UNCHANGED <<fifo, packetReadPos, phase, downloading>>
    BY <1>6 DEF Type, H!Send, target
  <2>2. EndsInZero(toTarget')
    <3> DEFINE m == H!Packet(cmd)
    <3>1. m \in Seq(Byte) /\ Len(m) \in Nat \ {0} /\ m[Len(m)] = 0
      BY PacketEnds, Positions
    <3>2. toTarget' = toTarget \o m
      BY <2>1
    <3> HIDE DEF m
    <3>3. /\ Len(toTarget \o m) = Len(toTarget) + Len(m)
          /\ (toTarget \o m)[Len(toTarget) + Len(m)] = m[Len(m)]
          /\ Len(toTarget) + Len(m) # 0
      BY <1>0, <3>1
    <3> QED
      BY <3>1, <3>2, <3>3 DEF EndsInZero
  <2> QED
    BY <2>1, <2>2 DEF CutShort, EndsInZero
<1>7. CASE UNCHANGED <<fifo, toTarget, packetReadPos, phase, downloading>>
  BY <1>7 DEF CutShort, Answering, EndsInZero
<1>8. CASE Prints \/ SetRun \/ Quit \/ Close \/ ReadByte \/ UNCHANGED vars
  BY <1>7, <1>8, ReaderStep
  DEF Prints, SetRun, Quit, Close, ReadByte, H!SetRun, H!Quit, H!Close, Apart, target, vars, host
<1> QED
  BY <1>1, <1>2, <1>3, <1>4, <1>5, <1>6, <1>8 DEF Next

\* One byte of the packet read.
LEMMA OneLess ==
  ASSUME LinkInv, command \in Single, NEW k \in 0 .. 3, Remains(k),
         fifo # << >>, fifo' = Tail(fifo), UNCHANGED <<toTarget, command, pgm>>
  PROVE  /\ Head(fifo) = H!Packet(command)[k + 1]
         /\ k # 3 => Remains(k + 1)'
         /\ k = 3 => Stream' = << >>
<1>1. fifo \in Seq(Byte) /\ toTarget \in Seq(Byte)
  BY DEF LinkInv
<1>2. /\ Stream \in Seq(Byte) /\ Stream # << >>
      /\ Stream' = Tail(Stream) /\ Head(fifo) = Head(Stream)
  BY <1>1, Taken DEF Stream
<1>3. /\ Len(Stream') = Len(Stream) - 1 /\ Stream' \in Seq(Byte)
      /\ \A i \in 1 .. Len(Stream) - 1 : Stream'[i] = Stream[i + 1]
      /\ Head(fifo) = Stream[1]
  BY <1>2, Shorter
<1>4. H!Packet(command)' = H!Packet(command)
  BY DEF H!Packet, H!GetCode
<1>5. Len(Stream) = 4 - k /\ \A i \in 1 .. 4 - k : Stream[i] = H!Packet(command)[k + i]
  BY DEF Remains
<1>6. Head(fifo) = H!Packet(command)[k + 1]
  BY <1>3, <1>5
<1>7. ASSUME k # 3 PROVE Remains(k + 1)'
  <2>1. Len(Stream') = 4 - (k + 1)
    BY <1>3, <1>5
  <2>2. ASSUME NEW i \in 1 .. 4 - (k + 1) PROVE Stream'[i] = H!Packet(command)[(k + 1) + i]
    <3>1. i \in 1 .. Len(Stream) - 1 /\ i + 1 \in 1 .. 4 - k /\ k + (i + 1) = (k + 1) + i
      BY <1>5, <2>2
    <3> QED
      BY <1>3, <1>5, <3>1
  <2> QED
    BY <1>4, <2>1, <2>2 DEF Remains
<1>8. ASSUME k = 3 PROVE Stream' = << >>
  <2>1. Len(Stream') = 0
    BY <1>3, <1>5, <1>8
  <2> QED
    BY <1>3, <2>1, EmptySeq
<1> QED
  BY <1>6, <1>7, <1>8

\* The packet is written when nothing is on the way.
LEMMA AllRemains ==
  ASSUME LinkInv, command' \in Single, Stream = << >>, UNCHANGED <<fifo, pgm>>,
         toTarget' = toTarget \o H!Packet(command')
  PROVE  Remains(0)' /\ Stream' # << >>
<1> DEFINE m == H!Packet(command')
<1>1. /\ fifo = << >> /\ toTarget = << >>
  BY StreamEmpty
<1>2. m = H!Packet(command)'
  BY DEF H!Packet, H!GetCode
<1>3. m \in Seq(Byte) /\ Len(m) = 4
  BY SinglePackets
<1> HIDE DEF m
<1>4. Stream' = m
  <2>1. toTarget' = toTarget \o m
    BY DEF m
  <2>2. << >> \o m = m
    BY <1>3
  <2> QED
    BY <1>1, <2>1, <2>2 DEF Stream
<1>5. Len(Stream') = 4 - 0
  BY <1>3, <1>4
<1>6. \A i \in 1 .. 4 - 0 : Stream'[i] = H!Packet(command)'[0 + i]
  <2>1. \A i \in 1 .. 4 - 0 : 0 + i = i
    OBVIOUS
  <2> QED
    BY <1>2, <1>4, <2>1
<1>7. Stream' # << >>
  BY <1>3, <1>4, EmptySeq
<1> QED
  BY <1>5, <1>6, <1>7 DEF Remains

\* A byte that is read takes the packet on, or ends the run of main.
LEMMA ProgressReceive ==
  ASSUME ReceiverShort, LinkInv, Deaf, Progress, Receive PROVE Progress'
<1> SUFFICES ASSUME patient, command \in Single, Answering' PROVE Progress'
  BY DEF Progress, Receive, host, history
<1>0. /\ fifo \in Seq(Byte) /\ fifo # << >> /\ fifo' = Tail(fifo)
      /\ Head(fifo) \in Byte /\ T!Receive(Head(fifo)) /\ ~rxInterrupt
      /\ UNCHANGED <<toTarget, command, pgm, patient, rxInterrupt, acks, asked>>
  BY Positions, Shorter DEF Receive, host, history
<1>1. Stream # << >> /\ phase = "loading"
  BY <1>0, StreamEmpty, ByteTaken
<1>2. PICK k \in 0 .. 3 : Remains(k) /\ NotEarly(k)
  BY <1>0, <1>1 DEF Progress, Answering, Unread, Answered, Done
<1>3. acks = asked
  BY <1>0, <1>1 DEF Progress, Answering, Unread, Answered, Done
<1>4. /\ Head(fifo) = H!Packet(command)[k + 1]
      /\ k # 3 => Remains(k + 1)'
      /\ k = 3 => Stream' = << >>
  BY <1>0, <1>2, OneLess
<1>5. CASE k = 3
  <2>1. Head(fifo) = 0
    BY <1>4, <1>5, SinglePackets
  <2>2. phase' = "executing"
    BY <1>0, <2>1, ByteTaken
  <2> QED
    BY <1>0, <1>3, <1>4, <1>5, <2>2 DEF Progress, Answered
<1>6. CASE k # 3
  <2>1. /\ Head(fifo) # 0
        /\ k = 0 => Head(fifo) \notin {T!Ping, T!Run}
        /\ k = 1 => Head(fifo) # T!Ping
    BY <1>2, <1>4, <1>6, SinglePackets DEF T!Ping, T!Run
  <2>2. k + 1 \in 0 .. 3 /\ packetReadPos \in 0 .. PosRange - 1 /\ PosRange \in Nat \ {0, 1, 2}
    BY <1>6, Positions
  <2>3. phase' = "loading" /\ NotEarly(k + 1)'
    <3>1. CASE downloading /\ UNCHANGED <<downloading, packetReadPos, phase>>
      BY <1>1, <3>1 DEF NotEarly
    <3>2. CASE /\ ~downloading
               /\ packetReadPos' = (packetReadPos + 1) % PosRange
               /\ packetReadPos' # 2 => UNCHANGED <<downloading, phase>>
               /\ packetReadPos' = 2 =>
                    \/ Head(fifo) = T!Ping /\ phase' = "executing"
                    \/ Head(fifo) = T!Run /\ phase' = "ended"
                    \/ Head(fifo) \notin {T!Ping, T!Run} /\ phase' = phase
      <4>1. packetReadPos' = IF packetReadPos = PosRange - 1 THEN 0 ELSE packetReadPos + 1
        BY <2>2, <3>2, Further
      <4>2. /\ k = 0 => packetReadPos # PosRange - 1
            /\ k = 1 => packetReadPos # 0
            /\ k = 2 => packetReadPos # 1
        BY <1>2, <3>2 DEF NotEarly
      <4>3. NotEarly(k + 1)'
        BY <1>6, <2>2, <4>1, <4>2 DEF NotEarly
      <4>4. CASE packetReadPos' # 2
        BY <1>1, <3>2, <4>3, <4>4
      <4>5. CASE packetReadPos' = 2
        <5>1. k = 0 \/ k = 1
          BY <1>6, <2>2, <4>1, <4>2, <4>5
        <5>2. phase' \in {"loading", "executing"}
          BY DEF Answering
        <5> QED
          BY <1>1, <2>1, <3>2, <4>3, <4>5, <5>1, <5>2
      <4> QED
        BY <4>4, <4>5
    <3> QED
      BY <1>0, <2>1, <3>1, <3>2, ByteTaken
  <2>4. Unread'
    BY <1>0, <1>3, <1>4, <1>6, <2>2, <2>3 DEF Unread
  <2> QED
    BY <1>0, <2>4 DEF Progress
<1> QED
  BY <1>5, <1>6

LEMMA ProgressType ==
  ASSUME ReceiverShort, LinkInv, Deaf, CutShort, Progress, Type PROVE Progress'
<1> SUFFICES ASSUME patient, command' \in Single PROVE Progress'
  BY DEF Progress, Type, H!Send
<1>1. PICK cmd \in Commands : H!Send(cmd) /\ command' = cmd
  BY DEF Type
<1>2. /\ UNCHANGED <<fifo, pgm, patient, rxInterrupt, acks, packetReadPos, phase, downloading>>
      /\ toTarget' = toTarget \o H!Packet(command') /\ asked' = acks
  BY <1>1 DEF Type, H!Send, target
<1>3. fifo = << >> /\ toTarget = << >> /\ phase = "loading"
  BY DEF Type, Quiet
<1>4. Remains(0)' /\ Stream' # << >>
  BY <1>2, <1>3, StreamEmpty, AllRemains
<1>5. NotEarly(0)'
  <2>1. Len(fifo) = 0 /\ ~EndsInZero(fifo)
    BY <1>3, EmptySeq DEF EndsInZero
  <2>2. ~downloading => packetReadPos <= 2 + RxDepth
    BY <1>3, <2>1, Positions DEF CutShort, Answering
  <2>3. ~downloading => packetReadPos # PosRange - 1
    BY <2>2, Positions DEF ReceiverShort
  <2> QED
    BY <1>2, <2>3 DEF NotEarly
<1>6. Unread'
  <2>1. 0 \in 0 .. 3
    OBVIOUS
  <2> QED
    BY <1>2, <1>3, <1>4, <1>5, <2>1 DEF Unread
<1> QED
  BY <1>2, <1>4, <1>6 DEF Progress

LEMMA ProgressArrive ==
  ASSUME ReceiverShort, LinkInv, Deaf, Progress, Arrive PROVE Progress'
<1>0. /\ fifo \in Seq(Byte) /\ toTarget \in Seq(Byte) /\ toTarget # << >>
      /\ toTarget' = Tail(toTarget)
      /\ UNCHANGED <<command, pgm, patient, rxInterrupt, acks, asked,
                     packetReadPos, phase, downloading>>
  BY Positions DEF Arrive, target, host, history
<1>1. CASE fifo' = Append(fifo, Head(toTarget))
  <2>1. Stream' = Stream
    BY <1>0, <1>1, Moved DEF Stream
  <2>2. H!Packet(command)' = H!Packet(command)
    BY <1>0 DEF H!Packet, H!GetCode
  <2>3. \A k \in 0 .. 3 : Remains(k) /\ NotEarly(k) => (Remains(k) /\ NotEarly(k))'
    BY <1>0, <2>1, <2>2 DEF Remains, NotEarly
  <2> QED
    BY <1>0, <2>1, <2>3 DEF Progress, Answering, Unread, Answered, Done
<1>2. CASE /\ Len(fifo) = RxDepth /\ fifo' = fifo
           /\ phase # "loading" \/ rxInterrupt
  <2>1. CASE rxInterrupt
    <3>1. Len(fifo) # 0 /\ fifo # << >>
      BY <1>0, <1>2, EmptySeq DEF ReceiverShort
    <3>2. fifo' \o toTarget' # << >>
      BY <1>0, <1>2, <3>1, Shorter, Taken
    <3> QED
      BY <1>0, <2>1, <3>2 DEF Progress, Stream
  <2>2. CASE ~rxInterrupt
    <3>1. Stream # << >>
      BY <1>0, StreamEmpty
    <3> QED
      BY <1>0, <1>2, <2>2, <3>1 DEF Progress, Answering, Unread, Answered, Done
  <2> QED
    BY <2>1, <2>2
<1> QED
  BY <1>1, <1>2 DEF Arrive

LEMMA ProgressKept ==
  ASSUME Progress,
         UNCHANGED <<fifo, toTarget, command, pgm, patient, rxInterrupt, acks,
                     asked, packetReadPos, phase, downloading>>
  PROVE  Progress'
<1>1. H!Packet(command)' = H!Packet(command) /\ Stream' = Stream
  BY DEF H!Packet, H!GetCode, Stream
<1>2. \A k \in 0 .. 3 : Remains(k) /\ NotEarly(k) => (Remains(k) /\ NotEarly(k))'
  BY <1>1 DEF Remains, NotEarly
<1> QED
  BY <1>1, <1>2 DEF Progress, Answering, Unread, Answered, Done

LEMMA ProgressStep ==
  ASSUME ReceiverShort, LinkInv, OneInv, [Next]_vars PROVE Progress'
<1> USE DEF OneInv
<1>1. CASE Arrive
  BY <1>1, ProgressArrive
<1>2. CASE Receive
  BY <1>2, ProgressReceive
<1>3. CASE Interrupt
  <2>1. /\ UNCHANGED <<fifo, toTarget, command, patient, rxInterrupt>>
        /\ rxInterrupt /\ phase \notin {"ended", "exited"}
    BY <1>3 DEF Interrupt, host, history
  <2>2. phase \in {"loading", "executing"}
    BY <2>1, Positions
  <2> QED
    BY <2>1, <2>2 DEF Progress, Stream, Answering
<1>4. CASE Executed
  <2>1. /\ UNCHANGED <<fifo, toTarget, command, patient, rxInterrupt, asked>>
        /\ phase = "executing" /\ phase' = "loading" /\ acks' = acks + 1
    BY <1>4 DEF Executed, T!Executed, host
  <2>2. ~rxInterrupt
    BY <2>1 DEF Deaf
  <2> QED
    BY <2>1, <2>2 DEF Progress, Answering, Stream, Unread, Answered, Done
<1>5. CASE Exited
  BY <1>5 DEF Progress, Exited, T!Exited, Answering
<1>6. CASE Type
  BY <1>6, ProgressType
<1>7. CASE Prints \/ SetRun \/ Quit \/ Close \/ ReadByte \/ UNCHANGED vars
  BY <1>7, ProgressKept, ReaderStep
  DEF Prints, SetRun, Quit, Close, ReadByte, H!SetRun, H!Quit, H!Close, Apart,
      target, host, history, vars
<1> QED
  BY <1>1, <1>2, <1>3, <1>4, <1>5, <1>6, <1>7 DEF Next

LEMMA OneStep ==
  ASSUME ReceiverShort PROVE LinkInv /\ OneInv /\ [Next]_vars => OneInv'
<1> SUFFICES ASSUME LinkInv, OneInv, [Next]_vars PROVE OneInv'
  OBVIOUS
<1>1. Deaf' /\ CutShort' /\ Progress'
  BY DeafStep, CutShortStep, ProgressStep DEF OneInv
<1>2. acks' \in Int
  BY DEF OneInv, Next, Arrive, Receive, Interrupt, Prints, Executed, Exited,
         Type, SetRun, Quit, Close, ReadByte, Apart, history, vars
<1> QED
  BY <1>1, <1>2 DEF OneInv

LEMMA OneInitially == Init => OneInv
<1> SUFFICES ASSUME Init PROVE OneInv
  OBVIOUS
<1>1. /\ phase = "loading" /\ packetReadPos = 0 /\ command = "none" /\ acks = 0
      /\ fifo = << >> /\ toTarget = << >>
  BY DEF Init, T!Init, H!Init
<1>2. packetReadPos + Len(fifo) <= 2 + RxDepth
  BY <1>1, LinkAssumption
<1> QED
  BY <1>1, <1>2 DEF OneInv, Deaf, CutShort, Progress, Single

\* OneAnswerGiven: a user who waits for the answer gets one for every packet
\* that is no Ping, whatever a download or a command of the loader left in the
\* positions (hal_Loader.c:12-60, SerialLoader.cs:91-95).
THEOREM OneAnswerGiven == ASSUME ReceiverShort PROVE Spec => []OneAnswer
<1>1. LinkInv /\ OneInv => OneAnswer
  <2> SUFFICES ASSUME LinkInv, OneInv, Quiet, patient, command \in Single
               PROVE  acks = asked + 1
    BY DEF OneAnswer, Single
  <2>1. Stream = << >> /\ Len(Stream) = 0 /\ phase = "loading"
    BY StreamEmpty, EmptySeq DEF Quiet
  <2>2. ~Unread
    BY <2>1 DEF Unread, Remains
  <2> QED
    BY <2>1, <2>2 DEF OneInv, Progress, Answering, Answered, Done
<1>2. LinkInv /\ OneInv /\ [Next]_vars => OneInv'
  BY OneStep
<1> QED
  BY <1>1, <1>2, OneInitially, LinkInvariant, PTL DEF Spec
=============================================================================
