---------------------------- MODULE SerialLoader ----------------------------
(***************************************************************************)
(* The loader of the host (src/src/loader/SerialLoader.cs): the thread of  *)
(* Main, which turns commands into packets, and the thread ReadByte, which *)
(* reads what the target sends.  They share _continue and _run without a   *)
(* lock.                                                                   *)
(*                                                                         *)
(* Between two reads of the port, or of _run and _continue, a thread does  *)
(* nothing the other can see, so each action is one of those accesses with *)
(* the local steps after it.  reader and main say where the threads are.   *)
(*                                                                         *)
(* The port is two queues of bytes.  A read of an empty queue can time out *)
(* (ReadTimeout); a write does not wait (there is no handshake).           *)
(***************************************************************************)
EXTENDS Integers, Sequences, SequencesExt

CONSTANTS
  Programs,    \* contents of executables, without the two bytes of their size
  Commands     \* what the user may type: p, s, d, r, q, or something else

VARIABLES
  pgm,         \* the program of the file named when the loader was started
  continue,    \* _continue
  run,         \* _run
  buffer,      \* buffer[0]
  reader,      \* where ReadByte is
  main,        \* where Main is
  toTarget,    \* bytes written to the port
  toHost       \* bytes received by the port

vars == <<pgm, continue, run, buffer, reader, main, toTarget, toHost>>

ACK == \hCC

\* enum Cmd, and the packets: size, checksum, command, a program, and a zero.
PING       == \h20
RUN        == \h22
GET_STATUS == \h23
SEND_DATA  == \h24

pingPacket                == <<3, 32, PING, 0>>
pingPacketChecksumInvalid == <<3, 238, PING, 0>>
getStatusPacket           == <<3, 35, GET_STATUS, 0>>
runPacket                 == <<3, 34, RUN, 0>>

Sum(bytes) == FoldLeft(LAMBDA x, y : x + y, 0, bytes)

GetCode(code) ==
  <<(Len(code) + 4) % 256, (SEND_DATA + Sum(code)) % 256, SEND_DATA>>
    \o code \o <<0>>

Packet(cmd) ==
  CASE cmd = "p" -> pingPacket
    [] cmd = "s" -> getStatusPacket
    [] cmd = "d" -> GetCode(pgm)
    [] cmd = "r" -> runPacket
    [] OTHER -> pingPacketChecksumInvalid

Init ==
  /\ pgm \in Programs
  /\ continue = TRUE
  /\ run = FALSE
  /\ buffer = 0
  /\ reader = "top"
  /\ main = "prompt"
  /\ toTarget = << >>
  /\ toHost = << >>

-----------------------------------------------------------------------------
(* Main.                                                                   *)

Send(cmd) ==
  /\ main = "prompt"
  /\ cmd # "q"
  /\ toTarget' = toTarget \o Packet(cmd)
  /\ main' = IF cmd = "r" THEN "sent" ELSE "prompt"
  /\ UNCHANGED <<pgm, continue, run, buffer, reader, toHost>>

\* _run is set once the packet is on its way.
SetRun ==
  /\ main = "sent"
  /\ run' = TRUE
  /\ main' = "prompt"
  /\ UNCHANGED <<pgm, continue, buffer, reader, toTarget, toHost>>

Quit ==
  /\ main = "prompt"
  /\ "q" \in Commands
  /\ continue' = FALSE
  /\ main' = "joining"
  /\ UNCHANGED <<pgm, run, buffer, reader, toTarget, toHost>>

\* Main waits for the reader and closes the port.
Close ==
  /\ main = "joining"
  /\ reader = "done"
  /\ main' = "closed"
  /\ UNCHANGED <<pgm, continue, run, buffer, reader, toTarget, toHost>>

-----------------------------------------------------------------------------
(* ReadByte.                                                               *)

Goto(pc) == reader' = pc /\ UNCHANGED <<pgm, continue, main, toTarget>>

Top ==
  /\ reader = "top"
  /\ Goto(IF continue THEN "first" ELSE "done")
  /\ UNCHANGED <<run, buffer, toHost>>

\* One byte at a time; next says where the reader goes with it.
Read(pc, next(_)) ==
  /\ reader = pc
  /\ toHost # << >>
  /\ buffer' = Head(toHost)
  /\ toHost' = Tail(toHost)
  /\ Goto(next(Head(toHost)))
  /\ UNCHANGED run

\* Mutant of Answer: an acknowledgement only counts once _run is set.
AnswerRun(b) ==
  IF b = 0 THEN "running?" ELSE IF b = ACK /\ run THEN "zero" ELSE "skip"

Answer(b)  == IF b = 0 THEN "running?" ELSE IF b = ACK THEN "zero" ELSE "skip"
ToRun(b)   == "running?"
Display(b) == IF b = ACK THEN "last" ELSE "show"
ToEnd(b)   == "end"

\* An answer is skipped up to its zero or to an acknowledgement, and then a
\* program's output is shown up to the next acknowledgement if _run is set.
Reads ==
  \/ Read("first", Answer)
  \/ Read("skip", Answer)
  \/ Read("zero", ToRun)
  \/ Read("show", Display)
  \/ Read("last", ToEnd)

Running ==
  /\ reader = "running?"
  /\ Goto(IF run THEN "show" ELSE "top")
  /\ UNCHANGED <<run, buffer, toHost>>

EndRun ==
  /\ reader = "end"
  /\ run' = FALSE
  /\ Goto("top")
  /\ UNCHANGED <<buffer, toHost>>

Reading == {"first", "skip", "zero", "show", "last"}

\* Mutant of Timeout: the loop that shows output tries again.
TimeoutInPlace ==
  /\ reader \in Reading
  /\ toHost = << >>
  /\ Goto(IF reader = "show" THEN "show" ELSE "top")
  /\ UNCHANGED <<run, buffer, toHost>>

Timeout ==
  /\ reader \in Reading
  /\ toHost = << >>
  /\ Goto("top")
  /\ UNCHANGED <<run, buffer, toHost>>

ReadByte == Top \/ Reads \/ Running \/ EndRun \/ Timeout
=============================================================================
