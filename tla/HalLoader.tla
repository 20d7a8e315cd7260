----------------------------- MODULE HalLoader -----------------------------
(***************************************************************************)
(* The loader of the target (src/src/hal_Loader.c) and what main           *)
(* (src/src/admin.c) does with its result: hal_Loader reads one byte after *)
(* the other, from anybody, until a packet asks for execution; main runs   *)
(* the program in memory and calls it again, or ends.                      *)
(*                                                                         *)
(* The file names an array packet and a constant Sucess that nothing       *)
(* declares.  Here packet takes every byte stored to it (no byte of it is  *)
(* ever read) and Sucess is Success.                                       *)
(***************************************************************************)
EXTENDS Integers

CONSTANTS
  Bytes,       \* the bytes that may arrive
  PosRange,    \* number of values of a u8 position (256)
  MemMax       \* bytes of memory for a program (4096)

ASSUME LoaderAssumption ==
  /\ Bytes \subseteq 0 .. 255
  /\ PosRange \in Nat \ {0, 1, 2}
  /\ MemMax \in Nat
  /\ PosRange <= MemMax

VARIABLES
  downloading,     \* bytes are stored to the memory from now on
  memWritePos,     \* where the next of them goes
  packetReadPos,   \* number of bytes of the packet read so far
  mem,             \* memory of the program
  phase            \* main: in hal_Loader ("loading"), in VM_execute, returned
                   \* ("ended"), or ended by VM_execute ("exited")

vars == <<downloading, memWritePos, packetReadPos, mem, phase>>

\* enum Command and enum Status.
Ping        == \h20
Download    == \h21
Run         == \h22
GetStatus   == \h23
SendData    == \h24
Success     == \h40
InvalidAddr == \h43

Empty == [a \in 0 .. MemMax - 1 |-> 0]

Init ==
  /\ downloading = FALSE
  /\ memWritePos = 0
  /\ packetReadPos = 0
  /\ mem = Empty
  /\ phase = "loading"

\* main executes the program if hal_Loader returns Success, and ends if not.
Return(status) == phase' = IF status = Success THEN "executing" ELSE "ended"

-----------------------------------------------------------------------------
(* One byte c for the loop of hal_Loader.                                  *)

\* Mutants of EndOfPacket: downloading is reset, and memWritePos is or is not.
EndOfPacketDownload(c) ==
  /\ c = 0
  /\ downloading' = FALSE
  /\ memWritePos' = 0
  /\ packetReadPos' = 0
  /\ Return(Success)
  /\ UNCHANGED mem
EndOfPacketKept(c) ==
  /\ c = 0
  /\ downloading' = FALSE
  /\ packetReadPos' = 0
  /\ Return(Success)
  /\ UNCHANGED <<memWritePos, mem>>
\* Mutant of EndOfPacket: packetReadPos goes on in the next packet.
EndOfPacketMisaligned(c) ==
  /\ c = 0
  /\ memWritePos' = 0
  /\ Return(Success)
  /\ UNCHANGED <<downloading, packetReadPos, mem>>

EndOfPacket(c) ==
  /\ c = 0
  /\ packetReadPos' = 0
  /\ memWritePos' = 0
  /\ Return(Success)
  /\ UNCHANGED <<downloading, mem>>

\* Mutant of Store: the position is wider than the u8 it is.
StoreWide(c) ==
  /\ c # 0
  /\ downloading
  /\ mem' = [mem EXCEPT ![memWritePos] = c]
  /\ memWritePos' = memWritePos + 1
  /\ UNCHANGED <<downloading, packetReadPos, phase>>

Store(c) ==
  /\ c # 0
  /\ downloading
  /\ mem' = [mem EXCEPT ![memWritePos] = c]
  /\ memWritePos' = (memWritePos + 1) % PosRange
  /\ UNCHANGED <<downloading, packetReadPos, phase>>

\* Mutant of Command: a status is answered as early as a Ping.
CommandStatus(c) ==
  /\ downloading' = (c = Download)
  /\ \/ c \in {Ping, GetStatus} /\ Return(Success)
     \/ c = Run /\ Return(IF memWritePos # 0 THEN Success ELSE InvalidAddr)
     \/ c \notin {Ping, GetStatus, Run} /\ UNCHANGED phase

\* What the loader looks at is the second byte of a packet.
Command(c) ==
  /\ downloading' = (c = Download)
  /\ \/ c = Ping /\ Return(Success)
     \/ c = Run /\ Return(IF memWritePos # 0 THEN Success ELSE InvalidAddr)
     \/ c \notin {Ping, Run} /\ UNCHANGED phase

Fill(c) ==
  /\ c # 0
  /\ ~downloading
  /\ packetReadPos' = (packetReadPos + 1) % PosRange
  /\ IF packetReadPos' = 2 THEN Command(c) ELSE UNCHANGED <<downloading, phase>>
  /\ UNCHANGED <<memWritePos, mem>>

Receive(c) ==
  /\ phase = "loading"
  /\ EndOfPacket(c) \/ Store(c) \/ Fill(c)

\* VM_execute returns: main acknowledges and waits for the next packet.
Executed ==
  /\ phase = "executing"
  /\ phase' = "loading"
  /\ UNCHANGED <<downloading, memWritePos, packetReadPos, mem>>

\* exitOnInvalidOpcode ends the process from inside VM_execute.
Exited ==
  /\ phase = "executing"
  /\ phase' = "exited"
  /\ UNCHANGED <<downloading, memWritePos, packetReadPos, mem>>

\* A reset: the start-up code sets all static data again, the memory included.
Restart ==
  /\ downloading' = FALSE
  /\ memWritePos' = 0
  /\ packetReadPos' = 0
  /\ mem' = Empty
  /\ phase' = "loading"

Next ==
  \/ \E c \in Bytes : Receive(c)
  \/ Executed
  \/ Exited
  \/ Restart

Spec == Init /\ [][Next]_vars

-----------------------------------------------------------------------------
(* TypeOK: the two u8 positions stay in range, so that no byte is stored   *)
(* beside the memory.                                                      *)
TypeOK ==
  /\ downloading \in BOOLEAN
  /\ memWritePos \in 0 .. PosRange - 1
  /\ packetReadPos \in 0 .. PosRange - 1
  /\ mem \in [0 .. MemMax - 1 -> 0 .. 255]
  /\ phase \in {"loading", "executing", "ended", "exited"}

(* RunAlwaysRefused: the test of Run (line 38) asks memWritePos whether    *)
(* there is a program.  Wherever the test is reached memWritePos is 0: the *)
(* branch that returns Success (line 40) is dead, whatever bytes arrive.   *)
RunAlwaysRefused == ~downloading => memWritePos = 0

(* RefusedEmpty: "Check if memory contains contents, else return           *)
(* InvalidAddr" (line 35).  Main returns only while the memory is empty: a    *)
(* Run that finds a program is never answered with InvalidAddr.            *)
RefusedEmpty == phase = "ended" => mem = Empty
=============================================================================
