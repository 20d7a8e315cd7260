---------------------------- MODULE AUnit_proofs ----------------------------
(***************************************************************************)
(* What AUnit's verdict on a file means, for every file, length of a line  *)
(* and word a title starts with.                                           *)
(*                                                                         *)
(* The lines of a file and the verdict on them are recursive functions.    *)
(* What they compute is proved by looking at the least number for which it *)
(* would be something else.                                                *)
(***************************************************************************)
EXTENDS AUnit, WellFoundedInduction, TLAPS

-----------------------------------------------------------------------------
(* Natural numbers: a set of them that is not empty has a least element.   *)

LEMMA LessWellFounded == IsWellFoundedOn({ss \in Nat \X Nat : ss[1] < ss[2]}, Nat)
  BY Zenon, NatLessThanWellFounded DEF OpToRel

LEMMA Least ==
  ASSUME NEW T, T \subseteq Nat, T # {}
  PROVE  \E x \in T : \A y \in T : x <= y
<1> DEFINE R == {ss \in Nat \X Nat : ss[1] < ss[2]}
<1>1. IsWellFoundedOn(R, Nat) BY LessWellFounded
<1>2. PICK x \in T : \A y \in T : ~ (<<y, x>> \in R)
  <2> HIDE DEF R
  <2> QED BY <1>1, WFMin
<1>3. \A y \in T : ~ (y < x)
  BY <1>2
<1> QED BY <1>3

LEMMA MinIs ==
  ASSUME NEW T, T \subseteq Nat, T # {}
  PROVE  Min(T) \in T /\ \A y \in T : Min(T) <= y
  BY Least DEF Min

-----------------------------------------------------------------------------
(* Lines.  fgets stores a character and the zero at least.                 *)

LineRoom == MaxCharactersInLine \in Nat /\ MaxCharactersInLine >= 2

LEMMA LineEndIs ==
  ASSUME LineRoom, NEW S, NEW file \in Seq(S), NEW p \in 1 .. Len(file)
  PROVE  /\ LineEnd(file, p) \in p .. Len(file)
         /\ LineEnd(file, p) <= p + MaxCharactersInLine - 2
         /\ \A i \in p .. LineEnd(file, p) - 1 : file[i] # Newline
         /\ \/ file[LineEnd(file, p)] = Newline
            \/ LineEnd(file, p) = Len(file)
            \/ LineEnd(file, p) = p + MaxCharactersInLine - 2
<1> DEFINE ends == {Len(file), p + MaxCharactersInLine - 2}
           last == Min(ends)
           T    == {last} \cup {i \in p .. last : file[i] = Newline}
<1>1. Len(file) \in Nat /\ p \in Nat /\ p + MaxCharactersInLine - 2 \in Nat
  BY DEF LineRoom
<1>2. last \in ends /\ \A y \in ends : last <= y
  <2>1. ends \subseteq Nat /\ ends # {} BY <1>1
  <2> HIDE DEF ends
  <2> QED BY <2>1, MinIs
<1>3. last \in p .. Len(file) /\ last <= p + MaxCharactersInLine - 2
  BY <1>1, <1>2 DEF LineRoom
<1>4. last = Len(file) \/ last = p + MaxCharactersInLine - 2
  BY <1>2
<1> HIDE DEF last
<1>5. Min(T) \in T /\ \A y \in T : Min(T) <= y
  <2>1. T \subseteq Nat /\ T # {} BY <1>1, <1>3
  <2> HIDE DEF T
  <2> QED BY <2>1, MinIs
<1>6. LineEnd(file, p) = Min(T)
  BY DEF LineEnd, last
<1>7. PICK e \in p .. last : e = Min(T)
  <2>1. last \in p .. last BY <1>1, <1>3
  <2>2. T \subseteq p .. last BY <2>1
  <2> HIDE DEF T
  <2> QED BY <1>5, <2>2
<1>8. \A i \in p .. e - 1 : file[i] # Newline
  <2>1. e \in Nat /\ \A y \in T : e <= y BY <1>1, <1>5, <1>7
  <2>2. \A i \in p .. last : file[i] = Newline => i \in T OBVIOUS
  <2> HIDE DEF T
  <2> QED BY <1>1, <1>3, <1>7, <2>1, <2>2
<1>9. file[e] = Newline \/ e = last
  BY <1>5, <1>7
<1> QED BY <1>1, <1>3, <1>4, <1>6, <1>7, <1>8, <1>9

\* The body of LinesFrom, for what follows the line at p in a function h.
LinesAt(file, h, p) ==
  IF p > Len(file) THEN << >>
  ELSE <<SubSeq(file, p, LineEnd(file, p))>> \o h[LineEnd(file, p) + 1]

\* A function on the positions from q on that is what the body says.
LinesBehind(file, q) ==
  \E h : h = [p \in q .. Len(file) + 1 |-> LinesAt(file, h, p)]

LEMMA LinesExtend ==
  ASSUME LineRoom, NEW S, NEW file \in Seq(S), NEW q \in 1 .. Len(file) + 1,
         LinesBehind(file, q + 1)
  PROVE  LinesBehind(file, q)
<1>1. PICK h : h = [p \in q + 1 .. Len(file) + 1 |-> LinesAt(file, h, p)]
  BY DEF LinesBehind
<1> DEFINE g == [p \in q .. Len(file) + 1 |->
                   IF p = q THEN LinesAt(file, h, q) ELSE h[p]]
<1>2. ASSUME NEW p \in q .. Len(file) + 1
      PROVE  LinesAt(file, g, p) = LinesAt(file, h, p)
  <2>1. CASE p > Len(file)
    BY <2>1 DEF LinesAt
  <2>2. CASE p <= Len(file)
    <3>1. p \in 1 .. Len(file) BY <2>2
    <3>2. LineEnd(file, p) \in p .. Len(file) BY <3>1, LineEndIs
    <3>3. LineEnd(file, p) + 1 \in q + 1 .. Len(file) + 1 BY <3>2
    <3>4. g[LineEnd(file, p) + 1] = h[LineEnd(file, p) + 1] BY <3>3
    <3> HIDE DEF g
    <3> QED BY <3>4 DEF LinesAt
  <2> QED BY <2>1, <2>2
<1>3. ASSUME NEW p \in q .. Len(file) + 1
      PROVE  g[p] = LinesAt(file, h, p)
  <2>1. CASE p = q
    BY <2>1
  <2>2. CASE p # q
    <3>1. p \in q + 1 .. Len(file) + 1 BY <2>2
    <3> QED BY <1>1, <2>2, <3>1
  <2> QED BY <2>1, <2>2
<1>4. g = [p \in q .. Len(file) + 1 |-> g[p]]
  OBVIOUS
<1>5. g = [p \in q .. Len(file) + 1 |-> LinesAt(file, g, p)]
  <2> HIDE DEF g
  <2> QED BY <1>2, <1>3, <1>4
<1> QED BY <1>5 DEF LinesBehind

LEMMA LinesExist ==
  ASSUME LineRoom, NEW S, NEW file \in Seq(S)
  PROVE  LinesBehind(file, 1)
<1> DEFINE N   == Len(file)
           bad == {k \in 0 .. N + 1 : ~ LinesBehind(file, N + 2 - k)}
<1>1. N \in Nat OBVIOUS
<1>2. SUFFICES ASSUME bad # {} PROVE FALSE
  <2>1. N + 1 \notin bad => LinesBehind(file, N + 2 - (N + 1)) BY <1>1
  <2>2. N + 2 - (N + 1) = 1 BY <1>1
  <2> HIDE DEF bad
  <2> QED BY <2>1, <2>2
<1>3. PICK k \in bad : \A y \in bad : k <= y
  <2>1. bad \subseteq Nat BY <1>1
  <2> HIDE DEF bad
  <2> QED BY <1>2, <2>1, Least
<1>4. k \in 0 .. N + 1 /\ ~ LinesBehind(file, N + 2 - k)
  OBVIOUS
<1>5. k # 0
  <2>1. [p \in N + 2 .. N + 1 |-> << >>]
          = [p \in N + 2 .. N + 1 |-> LinesAt(file, [i \in N + 2 .. N + 1 |-> << >>], p)]
    <3>1. N + 2 .. N + 1 = {} BY <1>1
    <3> QED BY <3>1
  <2>2. LinesBehind(file, N + 2)
    BY <2>1 DEF LinesBehind
  <2>3. N + 2 - 0 = N + 2 BY <1>1
  <2> QED BY <1>4, <2>2, <2>3
<1>6. k - 1 \in 0 .. N + 1 /\ k - 1 \notin bad
  BY <1>3, <1>4, <1>5, <1>1
<1>7. LinesBehind(file, N + 2 - (k - 1))
  BY <1>6
<1>8. N + 2 - k \in 1 .. N + 1 /\ N + 2 - (k - 1) = (N + 2 - k) + 1
  BY <1>1, <1>4, <1>5
<1>9. LinesBehind(file, N + 2 - k)
  BY <1>7, <1>8, LinesExtend
<1> QED BY <1>4, <1>9

\* LinesFrom is what its body says: the recursion ends.
LEMMA LinesFromIs ==
  ASSUME LineRoom, NEW S, NEW file \in Seq(S)
  PROVE  LinesFrom(file) = [p \in 1 .. Len(file) + 1 |-> LinesAt(file, LinesFrom(file), p)]
<1>1. PICK h : h = [p \in 1 .. Len(file) + 1 |-> LinesAt(file, h, p)]
  BY LinesExist DEF LinesBehind
<1>2. LinesFrom(file) = CHOOSE f : f = [p \in 1 .. Len(file) + 1 |-> LinesAt(file, f, p)]
  BY DEF LinesFrom, LinesAt
<1> QED BY <1>1, <1>2

\* A line that fgets did not have to stop inside of because the file ended: it
\* ends at its first newline, or fills the buffer.
WholeLines(S) ==
  {l \in Seq(S) :
     /\ Len(l) \in 1 .. MaxCharactersInLine - 1
     /\ \A i \in 1 .. Len(l) - 1 : l[i] # Newline
     /\ l[Len(l)] = Newline \/ Len(l) = MaxCharactersInLine - 1}

LEMMA LineWhole ==
  ASSUME LineRoom, NEW S, NEW file \in Seq(S), NEW p \in 1 .. Len(file),
         file[Len(file)] = Newline
  PROVE  SubSeq(file, p, LineEnd(file, p)) \in WholeLines(S)
<1>1. PICK e \in p .. Len(file) : e = LineEnd(file, p)
  BY LineEndIs
<1>2. /\ e <= p + MaxCharactersInLine - 2
      /\ \A i \in p .. e - 1 : file[i] # Newline
      /\ file[e] = Newline \/ e = p + MaxCharactersInLine - 2
  BY <1>1, LineEndIs
<1>3. MaxCharactersInLine \in Nat /\ MaxCharactersInLine >= 2 /\ Len(file) \in Nat
  BY DEF LineRoom
<1> DEFINE l == SubSeq(file, p, e)
<1>4. l \in Seq(S) /\ Len(l) = e - p + 1
  BY <1>1, <1>3
<1>5. \A i \in 1 .. e - p + 1 : l[i] = file[p + i - 1]
  BY <1>1, <1>3
<1>6. Len(l) \in 1 .. MaxCharactersInLine - 1
  BY <1>1, <1>2, <1>3, <1>4
<1>7. \A i \in 1 .. Len(l) - 1 : l[i] # Newline
  <2> TAKE i \in 1 .. Len(l) - 1
  <2>1. p + i - 1 \in p .. e - 1 /\ i \in 1 .. e - p + 1
    BY <1>1, <1>3, <1>4
  <2> HIDE DEF l
  <2> QED BY <1>2, <1>5, <2>1
<1>8. l[Len(l)] = Newline \/ Len(l) = MaxCharactersInLine - 1
  <2>1. l[Len(l)] = file[e]
    <3>1. e - p + 1 \in 1 .. e - p + 1 /\ p + (e - p + 1) - 1 = e
      BY <1>1, <1>3
    <3> HIDE DEF l
    <3> QED BY <1>4, <1>5, <3>1
  <2>2. e = p + MaxCharactersInLine - 2 => e - p + 1 = MaxCharactersInLine - 1
    BY <1>1, <1>3
  <2> HIDE DEF l
  <2> QED BY <1>2, <1>4, <2>1, <2>2
<1> HIDE DEF l
<1>9. l \in WholeLines(S)
  BY <1>4, <1>6, <1>7, <1>8 DEF WholeLines
<1> QED BY <1>1, <1>9 DEF l

LEMMA LinesWhole ==
  ASSUME LineRoom, NEW S, NEW file \in Seq(S), file # << >>,
         file[Len(file)] = Newline
  PROVE  Lines(file) \in Seq(WholeLines(S))
<1> DEFINE N   == Len(file)
           W   == WholeLines(S)
           F   == LinesFrom(file)
           bad == {k \in 0 .. N : F[N + 1 - k] \notin Seq(W)}
<1>1. N \in Nat OBVIOUS
<1>2. SUFFICES ASSUME bad # {} PROVE FALSE
  <2>1. N \notin bad => F[N + 1 - N] \in Seq(W) BY <1>1
  <2>2. N + 1 - N = 1 BY <1>1
  <2> HIDE DEF bad
  <2> QED BY <2>1, <2>2 DEF Lines
<1>3. PICK k \in bad : \A y \in bad : k <= y
  <2>1. bad \subseteq Nat BY <1>1
  <2> HIDE DEF bad
  <2> QED BY <1>2, <2>1, Least
<1>4. k \in 0 .. N /\ F[N + 1 - k] \notin Seq(W)
  OBVIOUS
<1> DEFINE q == N + 1 - k
<1>5. q \in 1 .. N + 1
  BY <1>1, <1>4
<1>6. F[q] = LinesAt(file, F, q)
  <2> HIDE DEF F, q
  <2>1. F = [p \in 1 .. N + 1 |-> LinesAt(file, F, p)]
    BY LinesFromIs DEF F
  <2> HIDE DEF N
  <2> QED BY <1>5, <2>1
<1>7. q <= N
  <2>1. q > N => F[q] = << >>
    BY <1>6 DEF LinesAt
  <2>2. << >> \in Seq(W) OBVIOUS
  <2>3. ~(q > N)
    <3> HIDE DEF F, W
    <3> QED BY <1>4, <2>1, <2>2
  <2> HIDE DEF F, W, q, N
  <2> QED BY <1>1, <1>5, <2>3
<1>8. PICK e \in q .. N : e = LineEnd(file, q)
  <2>1. q \in 1 .. Len(file)
    BY <1>1, <1>5, <1>7
  <2> HIDE DEF q
  <2> QED BY <2>1, LineEndIs
<1>9. F[e + 1] \in Seq(W)
  <2>1. N - e \in 0 .. N /\ N - e < k /\ N + 1 - (N - e) = e + 1
    BY <1>1, <1>4, <1>5, <1>8
  <2>2. N - e \notin bad
    <3> HIDE DEF bad
    <3> QED BY <1>3, <1>4, <2>1, <1>1
  <2>3. F[N + 1 - (N - e)] \in Seq(W)
    <3> HIDE DEF F, W
    <3> QED BY <2>1, <2>2
  <2> HIDE DEF F, W
  <2> QED BY <2>1, <2>3
<1>10. SubSeq(file, q, e) \in W
  BY <1>5, <1>7, <1>8, LineWhole
<1>11. F[q] = <<SubSeq(file, q, e)>> \o F[e + 1]
  BY <1>6, <1>7, <1>8, <1>5 DEF LinesAt
<1>12. F[q] \in Seq(W)
  <2> HIDE DEF F, W, q
  <2> QED BY <1>9, <1>10, <1>11
<1> QED BY <1>4, <1>12

\* strncmp compares as much as the expected line has: of whole lines, all.
LEMMA PrefixIsLine ==
  ASSUME LineRoom, NEW S, NEW a \in WholeLines(S), NEW b \in WholeLines(S)
  PROVE  StartsWith(a, b) <=> a = b
<1>1. /\ MaxCharactersInLine \in Nat
      /\ a \in Seq(S) /\ b \in Seq(S)
      /\ Len(a) \in 1 .. MaxCharactersInLine - 1
      /\ Len(b) \in 1 .. MaxCharactersInLine - 1
      /\ \A i \in 1 .. Len(a) - 1 : a[i] # Newline
      /\ b[Len(b)] = Newline \/ Len(b) = MaxCharactersInLine - 1
  BY DEF WholeLines, LineRoom
<1>2. StartsWith(a, b) <=> Len(b) <= Len(a) /\ SubSeq(b, 1, Len(b)) = SubSeq(a, 1, Len(b))
  BY DEF StartsWith, IsPrefix
<1>3. ASSUME StartsWith(a, b) PROVE a = b
  <2>1. \A i \in 1 .. Len(b) : a[i] = b[i]
    <3> TAKE i \in 1 .. Len(b)
    <3>1. SubSeq(b, 1, Len(b))[i] = b[i] BY <1>1
    <3>2. SubSeq(a, 1, Len(b))[i] = a[i] BY <1>1, <1>2, <1>3
    <3> QED BY <1>2, <1>3, <3>1, <3>2
  <2>2. Len(b) = Len(a)
    <3>1. Len(b) < Len(a) => a[Len(b)] # Newline
      BY <1>1
    <3>2. a[Len(b)] = b[Len(b)]
      BY <1>1, <2>1
    <3> QED BY <1>1, <1>2, <1>3, <3>1, <3>2
  <2> QED BY <1>1, <2>1, <2>2
<1>4. ASSUME a = b PROVE StartsWith(a, b)
  BY <1>1, <1>2, <1>4
<1> QED BY <1>3, <1>4

-----------------------------------------------------------------------------
(* The verdict.                                                            *)

\* The body of VerdictFrom, for what follows the test at i in a function h.
Stopped(code) == [code |-> code, passed |-> << >>]

Judged(lines, h, i, n) ==
  IF n \notin 1 .. MaxLinesToTest THEN Stopped("MoreThanMaxLinesToTest")
  ELSE IF i + 2 * n > Len(lines) THEN Stopped("FileFormat")
  ELSE [h[i + 2 * n + 1] EXCEPT !.passed = <<Passed(lines, i, n)>> \o @]

VerdictAt(lines, h, i) ==
  IF i > Len(lines) THEN Stopped("Reported")
  ELSE IF ~StartsWith(lines[i], TestWord) THEN Stopped("NoTest")
  ELSE Judged(lines, h, i, LinesToTest(lines[i]))

VerdictsBehind(lines, q) ==
  \E h : h = [i \in q .. Len(lines) + 1 |-> VerdictAt(lines, h, i)]

LEMMA JudgedDepends ==
  ASSUME NEW L, NEW lines \in Seq(L), MaxLinesToTest \in Nat,
         NEW i \in 1 .. Len(lines) + 1, NEW g, NEW h, NEW n,
         \A j \in i + 1 .. Len(lines) + 1 : g[j] = h[j]
  PROVE  Judged(lines, g, i, n) = Judged(lines, h, i, n)
<1>1. CASE n \in 1 .. MaxLinesToTest /\ ~(i + 2 * n > Len(lines))
  <2>1. i + 2 * n + 1 \in i + 1 .. Len(lines) + 1
    BY <1>1
  <2>2. g[i + 2 * n + 1] = h[i + 2 * n + 1]
    BY <2>1
  <2> QED BY <2>2 DEF Judged
<1>2. CASE n \notin 1 .. MaxLinesToTest \/ i + 2 * n > Len(lines)
  BY <1>2 DEF Judged
<1> QED BY <1>1, <1>2

LEMMA VerdictsExtend ==
  ASSUME NEW L, NEW lines \in Seq(L), MaxLinesToTest \in Nat,
         NEW q \in 1 .. Len(lines) + 1, VerdictsBehind(lines, q + 1)
  PROVE  VerdictsBehind(lines, q)
<1>1. PICK h : h = [i \in q + 1 .. Len(lines) + 1 |-> VerdictAt(lines, h, i)]
  BY DEF VerdictsBehind
<1> DEFINE g == [i \in q .. Len(lines) + 1 |->
                   IF i = q THEN VerdictAt(lines, h, q) ELSE h[i]]
<1>2. \A j \in q + 1 .. Len(lines) + 1 : g[j] = h[j]
  OBVIOUS
<1>3. ASSUME NEW i \in q .. Len(lines) + 1
      PROVE  VerdictAt(lines, g, i) = VerdictAt(lines, h, i)
  <2>1. i \in 1 .. Len(lines) + 1 /\ \A j \in i + 1 .. Len(lines) + 1 : g[j] = h[j]
    <3> HIDE DEF g
    <3> QED BY <1>2
  <2> HIDE DEF g
  <2>2. Judged(lines, g, i, LinesToTest(lines[i])) = Judged(lines, h, i, LinesToTest(lines[i]))
    BY <2>1, JudgedDepends
  <2> QED BY <2>2 DEF VerdictAt
<1>4. ASSUME NEW i \in q .. Len(lines) + 1
      PROVE  g[i] = VerdictAt(lines, h, i)
  <2>1. CASE i = q
    BY <2>1
  <2>2. CASE i # q
    <3>1. i \in q + 1 .. Len(lines) + 1 BY <2>2
    <3> QED BY <1>1, <2>2, <3>1
  <2> QED BY <2>1, <2>2
<1>5. g = [i \in q .. Len(lines) + 1 |-> g[i]]
  OBVIOUS
<1>6. g = [i \in q .. Len(lines) + 1 |-> VerdictAt(lines, g, i)]
  <2> HIDE DEF g
  <2> QED BY <1>3, <1>4, <1>5
<1> QED BY <1>6 DEF VerdictsBehind

LEMMA VerdictsExist ==
  ASSUME NEW L, NEW lines \in Seq(L), MaxLinesToTest \in Nat
  PROVE  VerdictsBehind(lines, 1)
<1> DEFINE N   == Len(lines)
           bad == {k \in 0 .. N + 1 : ~ VerdictsBehind(lines, N + 2 - k)}
<1>1. N \in Nat OBVIOUS
<1>2. SUFFICES ASSUME bad # {} PROVE FALSE
  <2>1. N + 1 \notin bad => VerdictsBehind(lines, N + 2 - (N + 1)) BY <1>1
  <2>2. N + 2 - (N + 1) = 1 BY <1>1
  <2> HIDE DEF bad
  <2> QED BY <2>1, <2>2
<1>3. PICK k \in bad : \A y \in bad : k <= y
  <2>1. bad \subseteq Nat BY <1>1
  <2> HIDE DEF bad
  <2> QED BY <1>2, <2>1, Least
<1>4. k \in 0 .. N + 1 /\ ~ VerdictsBehind(lines, N + 2 - k)
  OBVIOUS
<1>5. k # 0
  <2>1. [i \in N + 2 .. N + 1 |-> << >>]
          = [i \in N + 2 .. N + 1 |-> VerdictAt(lines, [j \in N + 2 .. N + 1 |-> << >>], i)]
    <3>1. N + 2 .. N + 1 = {} BY <1>1
    <3> QED BY <3>1
  <2>2. VerdictsBehind(lines, N + 2)
    BY <2>1 DEF VerdictsBehind
  <2>3. N + 2 - 0 = N + 2 BY <1>1
  <2> QED BY <1>4, <2>2, <2>3
<1>6. k - 1 \in 0 .. N + 1 /\ k - 1 \notin bad
  BY <1>3, <1>4, <1>5, <1>1
<1>7. VerdictsBehind(lines, N + 2 - (k - 1))
  BY <1>6
<1>8. N + 2 - k \in 1 .. N + 1 /\ N + 2 - (k - 1) = (N + 2 - k) + 1
  BY <1>1, <1>4, <1>5
<1>9. VerdictsBehind(lines, N + 2 - k)
  BY <1>7, <1>8, VerdictsExtend
<1> QED BY <1>4, <1>9

LEMMA VerdictFromIs ==
  ASSUME NEW L, NEW lines \in Seq(L), MaxLinesToTest \in Nat
  PROVE  VerdictFrom(lines)
           = [i \in 1 .. Len(lines) + 1 |-> VerdictAt(lines, VerdictFrom(lines), i)]
<1>1. PICK h : h = [i \in 1 .. Len(lines) + 1 |-> VerdictAt(lines, h, i)]
  BY VerdictsExist DEF VerdictsBehind
<1>2. VerdictFrom(lines)
        = CHOOSE f : f = [i \in 1 .. Len(lines) + 1 |-> VerdictAt(lines, f, i)]
  BY DEF VerdictFrom, VerdictAt, Judged, Stopped
<1> QED BY <1>1, <1>2

\* How main can return, with the results of the tests before that.
Endings == {"Reported", "NoTest", "MoreThanMaxLinesToTest", "FileFormat"}

Verdicts == [code : Endings, passed : Seq(BOOLEAN)]

LEMMA VerdictType ==
  ASSUME NEW L, NEW lines \in Seq(L), MaxLinesToTest \in Nat,
         NEW i \in 1 .. Len(lines) + 1
  PROVE  VerdictFrom(lines)[i] \in Verdicts
<1> DEFINE N   == Len(lines)
           V   == VerdictFrom(lines)
           bad == {k \in 0 .. N : V[N + 1 - k] \notin Verdicts}
<1>1. N \in Nat OBVIOUS
<1>2. SUFFICES ASSUME bad # {} PROVE FALSE
  <2>1. N + 1 - i \in 0 .. N /\ N + 1 - (N + 1 - i) = i BY <1>1
  <2>2. N + 1 - i \notin bad => V[N + 1 - (N + 1 - i)] \in Verdicts
    <3> HIDE DEF V
    <3> QED BY <2>1
  <2> HIDE DEF bad
  <2> QED BY <2>1, <2>2
<1>3. PICK k \in bad : \A y \in bad : k <= y
  <2>1. bad \subseteq Nat BY <1>1
  <2> HIDE DEF bad
  <2> QED BY <1>2, <2>1, Least
<1>4. k \in 0 .. N /\ V[N + 1 - k] \notin Verdicts
  OBVIOUS
<1>5. PICK q \in 1 .. N + 1 : q = N + 1 - k
  BY <1>1, <1>4
<1> DEFINE n == LinesToTest(lines[q])
<1>6. V[q] = VerdictAt(lines, V, q)
  <2>1. V = [p \in 1 .. N + 1 |-> VerdictAt(lines, V, p)]
    BY VerdictFromIs
  <2> HIDE DEF V, N
  <2> QED BY <2>1
<1>7. \A e \in Endings : Stopped(e) \in Verdicts
  BY DEF Stopped, Verdicts
<1>8. VerdictAt(lines, V, q) \in Verdicts \/ VerdictAt(lines, V, q) = Judged(lines, V, q, n)
  <2> HIDE DEF V, n
  <2>1. VerdictAt(lines, V, q) \in {Stopped("Reported"), Stopped("NoTest"), Judged(lines, V, q, n)}
    BY DEF VerdictAt, n
  <2> QED BY <1>7, <2>1 DEF Endings
<1>9. Judged(lines, V, q, n) \in Verdicts
  <2>1. CASE ~(n \in 1 .. MaxLinesToTest /\ ~(q + 2 * n > N))
    <3> HIDE DEF V, n
    <3>1. Judged(lines, V, q, n) \in {Stopped("MoreThanMaxLinesToTest"), Stopped("FileFormat")}
      BY <2>1 DEF Judged
    <3> QED BY <1>7, <3>1 DEF Endings
  <2>2. CASE n \in 1 .. MaxLinesToTest /\ ~(q + 2 * n > N)
    <3>1. PICK j \in q + 1 .. N + 1 : j = q + 2 * n + 1
      <4> HIDE DEF n
      <4> QED BY <1>1, <2>2
    <3>2. N + 1 - j \in 0 .. N /\ N + 1 - j < k /\ N + 1 - (N + 1 - j) = j
      <4> HIDE DEF N, bad, V
      <4> QED BY <1>1, <1>4, <1>5, <3>1
    <3>3. N + 1 - j \notin bad
      <4>1. N + 1 - j \in Nat /\ k \in Nat BY <1>1, <1>4, <3>2
      <4> HIDE DEF bad, N
      <4> QED BY <1>3, <3>2, <4>1
    <3>4. V[j] \in Verdicts
      <4>1. V[N + 1 - (N + 1 - j)] \in Verdicts
        <5> HIDE DEF V
        <5> QED BY <3>2, <3>3
      <4> HIDE DEF V
      <4> QED BY <3>2, <4>1
    <3>5. Judged(lines, V, q, n) = [V[j] EXCEPT !.passed = <<Passed(lines, q, n)>> \o @]
      <4> HIDE DEF V, n
      <4> QED BY <2>2, <3>1 DEF Judged
    <3>6. <<Passed(lines, q, n)>> \o V[j].passed \in Seq(BOOLEAN)
      <4>1. Passed(lines, q, n) \in BOOLEAN BY DEF Passed
      <4>2. V[j].passed \in Seq(BOOLEAN)
        <5> HIDE DEF V
        <5> QED BY <3>4 DEF Verdicts
      <4>3. <<Passed(lines, q, n)>> \in Seq(BOOLEAN)
        BY <4>1
      <4> HIDE DEF V, n
      <4> QED BY <4>2, <4>3
    <3> HIDE DEF V, n
    <3> QED BY <3>4, <3>5, <3>6 DEF Verdicts
  <2> QED BY <2>1, <2>2
<1> QED BY <1>4, <1>5, <1>6, <1>8, <1>9

\* A title, as many lines to test as it says, and as many expected ones.
OneTest(lines) ==
  /\ Len(lines) > 0
  /\ StartsWith(lines[1], TestWord)
  /\ LinesToTest(lines[1]) \in 1 .. MaxLinesToTest
  /\ Len(lines) = 1 + 2 * LinesToTest(lines[1])

LEMMA Reported ==
  ASSUME NEW L, NEW lines \in Seq(L), MaxLinesToTest \in Nat,
         NEW i \in 1 .. Len(lines) + 1,
         VerdictFrom(lines)[i] = [code |-> "Reported", passed |-> << >>]
  PROVE  i > Len(lines)
<1> DEFINE V == VerdictFrom(lines)
           n == LinesToTest(lines[i])
<1>1. SUFFICES ASSUME ~(i > Len(lines)) PROVE FALSE
  OBVIOUS
<1>2. V[i] = VerdictAt(lines, V, i)
  <2>1. V = [p \in 1 .. Len(lines) + 1 |-> VerdictAt(lines, V, p)]
    BY VerdictFromIs
  <2> HIDE DEF V
  <2> QED BY <2>1
<1>3. V[i].code = "Reported" /\ V[i].passed = << >>
  OBVIOUS
<1>4. V[i] # Stopped("NoTest") /\ V[i] # Stopped("MoreThanMaxLinesToTest")
      /\ V[i] # Stopped("FileFormat")
  <2> HIDE DEF V
  <2> QED BY <1>3 DEF Stopped
<1>5. /\ V[i] = Judged(lines, V, i, n)
      /\ n \in 1 .. MaxLinesToTest /\ ~(i + 2 * n > Len(lines))
  <2> HIDE DEF V, n
  <2>1. V[i] = Judged(lines, V, i, n)
    BY <1>1, <1>2, <1>4 DEF VerdictAt, n
  <2> QED BY <1>4, <2>1 DEF Judged
<1>6. PICK j \in i + 1 .. Len(lines) + 1 : j = i + 2 * n + 1
  <2> HIDE DEF n
  <2> QED BY <1>5
<1>7. V[j] \in Verdicts
  <2>1. j \in 1 .. Len(lines) + 1 OBVIOUS
  <2> QED BY <2>1, VerdictType
<1>8. V[i] = [V[j] EXCEPT !.passed = <<Passed(lines, i, n)>> \o @]
  <2> HIDE DEF V, n
  <2> QED BY <1>5, <1>6 DEF Judged
<1>9. V[i].passed = <<Passed(lines, i, n)>> \o V[j].passed
  <2> HIDE DEF V, n
  <2> QED BY <1>7, <1>8 DEF Verdicts
<1>10. V[j].passed \in Seq(BOOLEAN) /\ Passed(lines, i, n) \in BOOLEAN
  <2>1. Passed(lines, i, n) \in BOOLEAN BY DEF Passed
  <2> HIDE DEF V, n
  <2> QED BY <1>7, <2>1 DEF Verdicts
<1>11. Len(V[i].passed) = 1 + Len(V[j].passed)
  <2> HIDE DEF V, n
  <2> QED BY <1>9, <1>10
<1> HIDE DEF V, n
<1> QED BY <1>3, <1>10, <1>11

LEMMA OneTestIs ==
  ASSUME NEW L, NEW lines \in Seq(L), MaxLinesToTest \in Nat
  PROVE  VerdictFrom(lines)[1] = [code |-> "Reported", passed |-> <<TRUE>>]
           <=> OneTest(lines) /\ Passed(lines, 1, LinesToTest(lines[1]))
<1> DEFINE V == VerdictFrom(lines)
           n == LinesToTest(lines[1])
<1>1. Len(lines) \in Nat /\ 1 \in 1 .. Len(lines) + 1
  OBVIOUS
<1>2. \A i \in 1 .. Len(lines) + 1 : V[i] = VerdictAt(lines, V, i)
  <2>1. V = [p \in 1 .. Len(lines) + 1 |-> VerdictAt(lines, V, p)]
    BY VerdictFromIs
  <2> HIDE DEF V
  <2> QED BY <2>1
<1>3. V[1] = VerdictAt(lines, V, 1)
  <2> HIDE DEF V
  <2> QED BY <1>1, <1>2
<1>4. ASSUME V[1] = [code |-> "Reported", passed |-> <<TRUE>>]
      PROVE  OneTest(lines) /\ Passed(lines, 1, n)
  <2>1. V[1].passed = <<TRUE>> /\ V[1].code = "Reported"
    <3> DEFINE t == <<TRUE>>
    <3>1. V[1] = [code |-> "Reported", passed |-> t] BY <1>4
    <3> HIDE DEF V, t
    <3>2. V[1].passed = t /\ V[1].code = "Reported" BY <3>1
    <3> QED BY <3>2 DEF t
  <2>2. \A e \in Endings : V[1] # Stopped(e)
    <3>1. \A e \in Endings : Stopped(e).passed = << >>
      BY DEF Stopped
    <3>2. V[1].passed # << >>
      <4>1. Len(<<TRUE>>) = 1 /\ Len(<< >>) = 0 OBVIOUS
      <4> HIDE DEF V
      <4> QED BY <2>1, <4>1
    <3> HIDE DEF V
    <3> QED BY <3>1, <3>2
  <2>3. /\ Len(lines) > 0 /\ StartsWith(lines[1], TestWord)
        /\ V[1] = Judged(lines, V, 1, n)
    <3> HIDE DEF V, n
    <3> QED BY <1>1, <1>3, <2>2 DEF VerdictAt, Endings, n
  <2>4. n \in 1 .. MaxLinesToTest /\ ~(1 + 2 * n > Len(lines))
    <3> HIDE DEF V, n
    <3> QED BY <2>2, <2>3 DEF Judged, Endings
  <2>5. PICK j \in 1 .. Len(lines) + 1 : j = 1 + 2 * n + 1
    <3> HIDE DEF n
    <3> QED BY <1>1, <2>4
  <2>6. V[1] = [V[j] EXCEPT !.passed = <<Passed(lines, 1, n)>> \o @]
    <3> HIDE DEF V, n
    <3> QED BY <2>3, <2>4, <2>5 DEF Judged
  <2>7. V[j] \in Verdicts
    BY VerdictType
  <2>8. V[1].passed = <<Passed(lines, 1, n)>> \o V[j].passed /\ V[1].code = V[j].code
    <3> HIDE DEF V, n
    <3> QED BY <2>6, <2>7 DEF Verdicts
  <2>9. V[j].passed \in Seq(BOOLEAN) /\ Passed(lines, 1, n) \in BOOLEAN
    <3>1. Passed(lines, 1, n) \in BOOLEAN BY DEF Passed
    <3> HIDE DEF V, n
    <3> QED BY <2>7, <3>1 DEF Verdicts
  <2>10. V[j].passed = << >> /\ Passed(lines, 1, n)
    <3>1. ASSUME NEW b \in BOOLEAN, NEW r \in Seq(BOOLEAN), <<TRUE>> = <<b>> \o r
          PROVE  r = << >> /\ b
      <4>1. Len(<<b>> \o r) = 1 + Len(r) OBVIOUS
      <4>2. (<<b>> \o r)[1] = b OBVIOUS
      <4>3. Len(<<TRUE>>) = 1 /\ <<TRUE>>[1] = TRUE OBVIOUS
      <4>4. Len(r) = 0
        <5>1. Len(<<b>> \o r) = 1 BY <3>1, <4>3
        <5>2. Len(r) \in Nat OBVIOUS
        <5> QED BY <4>1, <5>1, <5>2
      <4>5. b = TRUE
        BY <3>1, <4>2, <4>3, Zenon
      <4>6. r = << >> BY <4>4
      <4> QED BY <4>5, <4>6
    <3> HIDE DEF V, n
    <3> QED BY <2>1, <2>8, <2>9, <3>1
  <2>11. V[j] = [code |-> "Reported", passed |-> << >>]
    <3> HIDE DEF V
    <3> QED BY <2>1, <2>7, <2>8, <2>10 DEF Verdicts
  <2>12. j > Len(lines)
    <3> QED BY <2>11, Reported
  <2>13. Len(lines) = 1 + 2 * n
    <3> HIDE DEF n
    <3> QED BY <1>1, <2>4, <2>5, <2>12
  <2> QED BY <2>3, <2>4, <2>10, <2>13 DEF OneTest
<1>5. ASSUME OneTest(lines), Passed(lines, 1, n)
      PROVE  V[1] = [code |-> "Reported", passed |-> <<TRUE>>]
  <2>1. /\ Len(lines) > 0 /\ StartsWith(lines[1], TestWord)
        /\ n \in 1 .. MaxLinesToTest /\ Len(lines) = 1 + 2 * n
    BY <1>5 DEF OneTest
  <2>2. V[1] = Judged(lines, V, 1, n)
    <3> HIDE DEF V
    <3> QED BY <1>1, <1>3, <2>1 DEF VerdictAt
  <2>3. PICK j \in 1 .. Len(lines) + 1 : j = 1 + 2 * n + 1 /\ j > Len(lines)
    <3> HIDE DEF n
    <3> QED BY <1>1, <2>1
  <2>4. V[1] = [V[j] EXCEPT !.passed = <<Passed(lines, 1, n)>> \o @]
    <3>1. ~(1 + 2 * n > Len(lines))
      <4> HIDE DEF n
      <4> QED BY <1>1, <2>1
    <3> HIDE DEF V, n
    <3> QED BY <2>1, <2>2, <2>3, <3>1 DEF Judged
  <2>5. V[j] = [code |-> "Reported", passed |-> << >>]
    <3> HIDE DEF V
    <3> QED BY <1>2, <2>3 DEF VerdictAt, Stopped
  <2>6. Passed(lines, 1, n) = TRUE
    BY <1>5 DEF Passed
  <2>7. <<TRUE>> \o << >> = <<TRUE>>
    OBVIOUS
  <2> DEFINE t == <<TRUE>>
  <2>8. V[1] = [V[j] EXCEPT !.passed = t \o V[j].passed]
    <3> HIDE DEF V, n
    <3> QED BY <2>4, <2>6, Zenon
  <2>9. t \o V[j].passed = t
    <3> HIDE DEF V
    <3>1. V[j].passed = << >> BY <2>5
    <3> QED BY <2>7, <3>1, Zenon
  <2>10. V[1] = [code |-> "Reported", passed |-> t]
    <3> HIDE DEF V, t
    <3> QED BY <2>5, <2>8, <2>9
  <2> QED BY <2>10
<1> QED BY <1>4, <1>5

(* VerdictExact: of a file that ends with a newline, AUnit says that its   *)
(* one test is OK if and only if it is one test, and each line to test is  *)
(* the line expected of it, to its end (AUnit_v1.0.9e.c:73-131).  That the *)
(* comparison stops where the expected line does makes no difference then, *)
(* nor does it that fgets cuts long lines into pieces.                     *)
THEOREM VerdictExact ==
  ASSUME LineRoom, MaxLinesToTest \in Nat, NEW S, NEW file \in Seq(S),
         file # << >>, file[Len(file)] = Newline
  PROVE  LET lines == Lines(file)
             n     == LinesToTest(lines[1])
         IN  OneTestOK(file)
               <=> OneTest(lines) /\ \A k \in 2 .. n + 1 : lines[k] = lines[k + n]
<1> DEFINE lines == Lines(file)
           n     == LinesToTest(lines[1])
<1>1. lines \in Seq(WholeLines(S))
  BY LinesWhole
<1>2. OneTestOK(file) <=> OneTest(lines) /\ Passed(lines, 1, n)
  <2>1. OneTestOK(file)
          <=> VerdictFrom(lines)[1] = [code |-> "Reported", passed |-> <<TRUE>>]
    BY DEF OneTestOK, Verdict
  <2> HIDE DEF lines
  <2> QED BY <1>1, <2>1, OneTestIs
<1>3. OneTest(lines) => (Passed(lines, 1, n) <=> \A k \in 2 .. n + 1 : lines[k] = lines[k + n])
  <2> HIDE DEF lines
  <2>1. SUFFICES ASSUME OneTest(lines)
                 PROVE  Passed(lines, 1, n) <=> \A k \in 2 .. n + 1 : lines[k] = lines[k + n]
    OBVIOUS
  <2>2. MaxLinesToTest \in Nat /\ n \in 1 .. MaxLinesToTest /\ Len(lines) = 1 + 2 * n
    BY <2>1 DEF OneTest
  <2> HIDE DEF n
  <2>3. ASSUME NEW k \in 2 .. n + 1
        PROVE  lines[k] \in WholeLines(S) /\ lines[k + n] \in WholeLines(S)
    BY <1>1, <2>2
  <2>4. \A k \in 2 .. n + 1 : StartsWith(lines[k], lines[k + n]) <=> lines[k] = lines[k + n]
    BY <2>3, PrefixIsLine
  <2>5. 1 + 1 .. 1 + n = 2 .. n + 1
    BY <2>2
  <2>6. Passed(lines, 1, n) <=> \A k \in 2 .. n + 1 : StartsWith(lines[k], lines[k + n])
    BY <2>5, Zenon DEF Passed
  <2> QED BY <2>4, <2>6
<1> QED BY <1>2, <1>3
=============================================================================
