----------------------------- MODULE SerialLink -----------------------------
(***************************************************************************)
(* Host and target on one serial line: SerialLoader at one end, HalLoader  *)
(* and main at the other, and between them the receiver of the UART, which *)
(* holds a few bytes while nobody reads and then drops what comes.         *)
(*                                                                         *)
(* The program that VM_execute runs is seen from outside (CmVM is the      *)
(* inside): it prints bytes and returns, exits, or never does; a memory    *)
(* that starts with HALT returns at once, and one that starts with a       *)
(* reserved opcode never does.  One byte stands for a text of main.        *)
(*                                                                         *)
(* typed, command, acks, asked, seen, garbled and lost are history         *)
(* variables.                                                              *)
(***************************************************************************)
EXTENDS Integers, Sequences

CONSTANTS
  Programs,    \* executables
  Commands,    \* what the user may type
  PosRange,    \* number of values of a u8 (256)
  MemMax,      \* bytes of memory for a program (4096)
  Printed,     \* bytes that each program may print
  RxDepth,     \* bytes the receiver holds: two, and one being shifted in
  RxInterrupts, \* values of rxInterrupt to look at
  Patience,    \* values of patient to look at
  MaxTyped,    \* bound on the number of commands
  MaxPending   \* bound on the bytes on the way to the host while a program prints

VARIABLES
  downloading, memWritePos, packetReadPos, mem, phase,              \* target
  pgm, continue, run, buffer, reader, main, toTarget, toHost,       \* host
  rxInterrupt, \* a byte received interrupts, as VMIn_Init has it (RXCIE0)
  fifo,        \* bytes in the receiver of the target
  patient,     \* the user waits until nothing moves any more
  lost,        \* a byte was dropped
  typed,       \* number of commands typed
  command,     \* the last command of a patient user
  acks,        \* number of acknowledgements the target has sent
  asked,       \* acks when it was typed
  seen,        \* number of bytes the reader has taken for an acknowledgement
  garbled      \* a program has printed such a byte, and seen is given up

target  == <<downloading, memWritePos, packetReadPos, mem, phase, rxInterrupt>>
host    == <<pgm, continue, run, buffer, reader, main, patient>>
history == <<typed, command, acks, asked>>
vars    == <<target, host, toTarget, toHost, fifo, lost, history, seen, garbled>>

T == INSTANCE HalLoader WITH Bytes <- 0 .. 255
H == INSTANCE SerialLoader
O == INSTANCE Opcodes

\* Programs and what they print are bytes.
ASSUME LinkAssumption ==
  /\ PosRange \in Nat \ {0, 1, 2}
  /\ MemMax \in Nat
  /\ PosRange <= MemMax
  /\ RxDepth \in Nat
  /\ \A p \in Programs :
       /\ p \in Seq(0 .. 255)
       /\ Printed[p] \subseteq 0 .. 255

Init ==
  /\ T!Init
  /\ H!Init
  /\ rxInterrupt \in RxInterrupts
  /\ fifo = << >>
  /\ patient \in Patience
  /\ lost = FALSE
  /\ typed = 0
  /\ command = "none"
  /\ acks = 0
  /\ asked = 0
  /\ seen = 0
  /\ garbled = FALSE

\* Nothing is on the way, and the target waits for a packet.
Quiet ==
  /\ toTarget = << >>
  /\ fifo = << >>
  /\ toHost = << >>
  /\ phase = "loading"
  /\ main = "prompt"

-----------------------------------------------------------------------------
(* The target and its receiver.                                            *)

Text == 84

\* hal_Loader reads much faster than bytes arrive, so that the receiver only
\* overflows while nobody reads.
Arrive ==
  /\ toTarget # << >>
  /\ toTarget' = Tail(toTarget)
  /\ \/ /\ Len(fifo) < RxDepth
        /\ fifo' = Append(fifo, Head(toTarget))
        /\ UNCHANGED lost
     \/ /\ Len(fifo) = RxDepth
        /\ phase # "loading" \/ rxInterrupt
        /\ lost' = TRUE
        /\ UNCHANGED fifo
  /\ UNCHANGED <<target, host, toHost, history, seen, garbled>>

\* VMIn_GetByte gives hal_Loader the next byte; main prints its banner, or the
\* error, when that makes hal_Loader return.
Receive ==
  /\ ~rxInterrupt
  /\ fifo # << >>
  /\ T!Receive(Head(fifo))
  /\ fifo' = Tail(fifo)
  /\ toHost' = IF phase' = "loading" THEN toHost ELSE Append(toHost, Text)
  /\ UNCHANGED <<rxInterrupt, host, toTarget, lost, history, seen, garbled>>

\* The interrupt has no handler: the processor starts at the reset vector, and
\* the byte stays unread.
Interrupt ==
  /\ rxInterrupt
  /\ fifo # << >>
  /\ phase \notin {"ended", "exited"}
  /\ T!Restart
  /\ UNCHANGED <<rxInterrupt, host, toTarget, toHost, fifo, lost, history, seen, garbled>>

\* A program that is more than HALT, and does not spin from the start.
Works == phase = "executing" /\ mem[0] \notin {O!HALT} \cup O!RFU

Prints ==
  /\ Works
  /\ Len(toHost) < MaxPending
  /\ \E b \in Printed[pgm] :
       /\ toHost' = Append(toHost, b)
       /\ garbled' = (garbled \/ b = H!ACK)
       /\ seen' = IF garbled' THEN 0 ELSE seen
  /\ UNCHANGED <<target, host, toTarget, fifo, lost, history>>

Executed ==
  /\ Works \/ mem[0] = O!HALT
  /\ T!Executed
  /\ toHost' = toHost \o <<H!ACK, 0>>
  /\ acks' = acks + 1
  /\ UNCHANGED <<rxInterrupt, host, toTarget, fifo, lost, typed, command, asked, seen, garbled>>

Exited ==
  /\ Works
  /\ T!Exited
  /\ toHost' = Append(toHost, Text)
  /\ UNCHANGED <<rxInterrupt, host, toTarget, fifo, lost, history, seen, garbled>>

-----------------------------------------------------------------------------
(* The host.                                                               *)

Type ==
  /\ typed < MaxTyped
  /\ patient => Quiet
  /\ \E cmd \in Commands :
       /\ H!Send(cmd)
       /\ command' = IF patient THEN cmd ELSE command
  /\ typed' = typed + 1
  /\ asked' = IF patient THEN acks ELSE asked
  /\ UNCHANGED <<target, patient, fifo, lost, acks, seen, garbled>>

Apart == UNCHANGED <<target, patient, fifo, lost, history, garbled>>

SetRun == H!SetRun /\ Apart /\ UNCHANGED seen
Quit   == H!Quit /\ Apart /\ UNCHANGED seen
Close  == H!Close /\ Apart /\ UNCHANGED seen

\* An acknowledgement is the byte after which the reader waits for its zero.
ReadByte ==
  /\ H!ReadByte
  /\ Apart
  /\ seen' = IF ~garbled /\ toHost' # toHost /\ reader' \in {"zero", "last"}
               THEN seen + 1 ELSE seen

Next ==
  \/ Arrive
  \/ Receive
  \/ Interrupt
  \/ Prints
  \/ Executed
  \/ Exited
  \/ Type
  \/ SetRun
  \/ Quit
  \/ Close
  \/ ReadByte

\* Both processors and both threads go on, and bytes arrive.  Nothing is
\* assumed of the user, nor that a program ever returns.
Spec ==
  /\ Init
  /\ [][Next]_vars
  /\ WF_vars(Arrive)
  /\ WF_vars(Receive)
  /\ WF_vars(Interrupt)
  /\ WF_vars(SetRun)
  /\ WF_vars(Close)
  /\ WF_vars(ReadByte)

-----------------------------------------------------------------------------
(* TypeOK: positions and memory of the target stay in range, the receiver  *)
(* never holds more than its depth, and only bytes are on the line.        *)
TypeOK ==
  /\ T!TypeOK
  /\ run \in BOOLEAN /\ continue \in BOOLEAN
  /\ reader \in {"top", "running?", "end", "done"} \cup H!Reading
  /\ main \in {"prompt", "sent", "joining", "closed"}
  /\ Len(fifo) <= RxDepth
  /\ \A i \in 1 .. Len(toTarget) : toTarget[i] \in 0 .. 255
  /\ \A i \in 1 .. Len(toHost) : toHost[i] \in 0 .. 255

(* Aligned: a packet ends with a zero and the loader starts afresh at every *)
(* zero.  So whatever was sent, also a program with zeros in it or a Ping  *)
(* the loader answered too early, the next packet is read from its start,  *)
(* unless a byte was dropped.                                              *)
Aligned == Quiet /\ ~lost => packetReadPos = 0 /\ memWritePos = 0

(* OneAnswer: the loader of the host reads one acknowledgement for each    *)
(* packet (SerialLoader.cs:91-95).  A packet that is no Ping is            *)
(* acknowledged exactly once, whatever a download before it left, if the   *)
(* user waits for the answer; a download itself is executed and            *)
(* acknowledged once for each of its zeros.                                *)
OneAnswer ==
  Quiet /\ patient /\ command \in {"s", "x", "r"} => acks = asked + 1

(* AcksSeen: the reader may be anywhere in its two loops, may have timed   *)
(* out in the middle of an answer, and may see _run before or after Main   *)
(* has set it (SerialLoader.cs:200); still it takes every acknowledgement  *)
(* the target sent for one and nothing else, if no program prints the byte *)
(* 0xCC.                                                                   *)
AcksSeen == Quiet /\ ~garbled => seen = acks

(* PingOnce: "If pinging, simply return success" (hal_Loader.c:29): a Ping *)
(* is acknowledged once.                                                   *)
PingOnce == Quiet /\ patient /\ command = "p" => acks = asked + 1

(* Stored: "If downloading, fill the memory with program contents"         *)
(* (hal_Loader.c:13).  When the target starts to execute what was          *)
(* downloaded, the program is in memory.                                   *)
Stored ==
  command = "d" /\ ~lost /\ phase = "executing"
    => \A i \in 1 .. Len(pgm) : mem[i - 1] = pgm[i]

(* ByteRead: a byte received is read by VMIn_GetByte, "Function for        *)
(* receiving transmitted byte/char from the serial port" (hal_Loader.c:68).*)
ByteRead == fifo # << >> ~> (fifo = << >> \/ phase # "loading")

(* QuitCloses: q ends the loader whatever the reader is doing, if the      *)
(* target falls silent in the end.                                         *)
QuitCloses == <>[](toHost = << >>) => (main = "joining" ~> main = "closed")
=============================================================================
