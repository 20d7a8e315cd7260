-------------------------------- MODULE AUnit --------------------------------
(***************************************************************************)
(* AUnit (src/AUnit_v1.0.9e.c), the judge of every test of the repository: *)
(* what it reports for a file, as a function of the characters in it.      *)
(*                                                                         *)
(* A test is a title, the lines to test, and as many expected lines; "<n"  *)
(* in the title says how many.  The texts of the report, the names of the  *)
(* tests and the options are left out.  No line holds a zero character.    *)
(***************************************************************************)
EXTENDS Integers, Sequences, SequencesExt

CONSTANTS
  MaxCharactersInLine, \* bytes of a line in memory, its zero included (256)
  MaxLinesToTest,      \* (9)
  Newline,             \* the character that ends a line
  TestWord,            \* what a title starts with, as a sequence: Test
  Less,                \* the character <
  DigitOf              \* for each character, its distance from '0'

\* fgets: from position p up to a newline, as many characters as the buffer
\* takes, or the end of the file.
LineEnd(file, p) ==
  LET last == Min({Len(file), p + MaxCharactersInLine - 2})
  IN  Min({last} \cup {i \in p .. last : file[i] = Newline})

\* What fgets returns from each position on, call after call, until it returns
\* NULL, and what it returns of the whole file.
LinesFrom(file) ==
  LET from[p \in 1 .. Len(file) + 1] ==
        IF p > Len(file) THEN << >>
        ELSE <<SubSeq(file, p, LineEnd(file, p))>> \o from[LineEnd(file, p) + 1]
  IN  from

Lines(file) == LinesFrom(file)[1]

\* Mutant of StartsWith: the last character is not compared.
StartsWithShort(line, with) == IsPrefix(SubSeq(with, 1, Len(with) - 1), line)

\* strncmp with the length of the second: also how lines are compared.
StartsWith(line, with) == IsPrefix(with, line)

\* The character after the first <, at the end of the line the zero after it.
LinesToTest(title) ==
  LET at == {i \in 1 .. Len(title) : title[i] = Less}
  IN  IF at = {} THEN 1
      ELSE IF Min(at) = Len(title) THEN -1
      ELSE DigitOf[title[Min(at) + 1]]

\* For each line to test, the expected line n lines below it.
Passed(lines, title, n) ==
  \A k \in title + 1 .. title + n : StartsWith(lines[k], lines[k + n])

\* How main returns, and which of the tests before that have passed, when the
\* next line it reads is line i.
VerdictFrom(lines) ==
  LET stop(code) == [code |-> code, passed |-> << >>]
      from[i \in 1 .. Len(lines) + 1] ==
        IF i > Len(lines) THEN stop("Reported")
        ELSE IF ~StartsWith(lines[i], TestWord) THEN stop("NoTest")
        ELSE LET n == LinesToTest(lines[i])
             IN  IF n \notin 1 .. MaxLinesToTest THEN stop("MoreThanMaxLinesToTest")
                 ELSE IF i + 2 * n > Len(lines) THEN stop("FileFormat")
                 ELSE LET rest == from[i + 2 * n + 1]
                      IN  [rest EXCEPT !.passed = <<Passed(lines, i, n)>> \o @]
  IN  from

Verdict(file) == VerdictFrom(Lines(file))[1]

\* "1 tests OK".
OneTestOK(file) == Verdict(file) = [code |-> "Reported", passed |-> <<TRUE>>]
=============================================================================
