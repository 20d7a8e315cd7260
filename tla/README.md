# The Cm virtual machine in TLA+

The repository is a virtual machine for the bytecode of the Cm language, written
in C for an ATmega328p (an Arduino Nano) and, with another console, for a PC. A
program is sent over the serial line by a host tool, or was linked in by a test;
the interpreter runs it over an operand stack of 32 cells; what it prints goes
back over the line. This directory holds TLA+ modules translated from that
source, the configurations that check them with TLC, and proofs checked by
TLAPS. Paths below are relative to the repository; `vmstack.c:255` is line 255 of
`src/vmstack.c`.

## 1. The system

| Part | State | Operations | Works with |
|---|---|---|---|
| Operand stack, `vmstack.c` | `si[32]`, `bp`, `sp` (both `i8`), `capacity` | `Stack_New`, push and pop, 22 inherent operations, `enterU5`/`enterU8`, `exit`, three variable accesses | called by the interpreter only |
| Interpreter, `vm.c`, `opcode.h` | `ip`, `opcode`, and the stack | `VM_Init`, one case of `VM_execute` per instruction, `Kernel_IO` | the stack, program memory, `VMOut` |
| Program memory and main loop, `admin.c` | `mem` (4096 bytes in `memAllocated`), `status` | `main`: load, print the banner, initialise, execute, acknowledge, again | loader, interpreter, console |
| Console, `hal_Out.c`, `bsl_COut.c`, `_cout.c`, `bsl_xtoa.c` | one conversion buffer of 12 characters, `init` | `PutB/C/I/U/S/X/N`, `bsl_itoa`, `bsl_utoa` | interpreter and main; UART or printf |
| Target loader, `hal_Loader.c` | `downloading`, `memWritePos`, `packetReadPos` | `hal_Loader`: one byte after the other until a command is complete | UART, program memory; main acts on what it returns |
| Host loader, `loader/SerialLoader.cs` | `_continue`, `_run`, one shared `buffer` | command thread (`p s d r q`), reader thread | the serial line |
| Interrupt management, `hal_interman.c`, `bsl_interman.c` | the status register | disable, enable, save and disable, restore | its test main; traps that no build compiles in |
| I/O registers, `bsl_IOReg.c` | the registers | read, write | as above |
| AUnit, `AUnit_v1.0.9e.c` | the lines of a test, which tests failed | reads a title, the lines to test and the expected lines, and compares them | reads what the programs printed |
| Test mains, `tvmstack.c`, `tout.c`, `hal_TestInterman0.c` | that of the parts they call | print a title, what they should print, and what the functions under test make of it | console, operand stack, interrupt management; judged by AUnit |

What is hard here is seldom a single function:

* **One array for everything.** Operands, arguments, locals, saved `bp`, return
  addresses and the packed frame sizes lie in the same 32 cells, and no access is
  checked. `EXIT` works out where the caller's operands end from a cell that the
  callee could have overwritten. A mistake shows many calls later.
* **Hand-written encodings.** Five-bit and three-bit operands are sign-extended
  by hand, sizes are packed into two or three bits, `bp = -1` travels through a
  32-bit cell and comes back through a cast to `u8`.
* **What one program leaves for the next.** `VM_Init` resets two registers and
  nothing else; memory and cells stay as they were.
* **Instructions nobody tests**: reserved opcodes, unknown traps, division and
  remainder by zero, frames of more than seven variables.
* **One conversion buffer for all.** Every number goes through the same twelve
  characters and leaves them one by one while the line is busy; the buffer is
  just long enough, and nothing compares an index with its length.
* **Sections with interrupts disabled** nest by hand: each saves the status
  register and writes it back later, whatever happened in between.
* **The line between host and target**: packets that are told apart by position
  only, an early return in the middle of a packet, a flag that is never reset, and
  on the host two threads that share `_run`.

What makes each part correct:

* *Stack*: a call finds its arguments, sees no other function's cells, and
  returns to its caller with the caller's operands as they were and the result on
  top; the registers never leave the array.
* *Interpreter*: programs compute what the language says, end, and leave the
  stack as they found it, whatever ran before; an opcode it does not know is
  reported.
* *Console*: both consoles print what the tests of the repository expect; a
  conversion stays in its buffer and ends with the digits of its number.
* *Interrupt management*: a section is closed from its beginning to its end, also
  when it has others inside, and leaves the register as it found it.
* *AUnit*: a right program passes, and a wrong one does not.
* *Target loader*: what was sent is what is run; one command, one answer; after a
  command the loader is ready for the next one.
* *Host loader*: the answer it waits for is the answer to the command it sent;
  what a program prints is shown; `q` ends it.

`PROJECT.json` lists the hazards one by one, each at its line, with the property
that covers it or the step of the plan that will.

## 2. The modules

```
VMStack        operators: struct VMStackDesc and every function that changes it
  CmCalls      any compiled program, driving the stack        implements  ActivationStack
    CmCalls_proofs   theorems about CmCalls, checked by TLAPS
    CmCalls_refinement   the proof that CmCalls implements ActivationStack
    MCCmCalls        small programs for TLC
  CmVM         the interpreter on real bytecode               implements  CmCalls!Spec
    Opcodes    the instruction set
    Console    the characters that the Put calls print
    AUnit      the verdict on what a test printed
      AUnit_proofs   what the verdict means, for every file
    CmVM_proofs      theorems about CmVM: returns, types and verdicts
    MCCmVM           the programs for TLC
  Xtoa         the conversion of a number, digit by digit, in the shared buffer
    Xtoa_proofs      theorems about Xtoa
    Board      console, enumerator and interrupts under any sequence of calls
      uses VMStack, Console and AUnit                         implements  Xtoa
      Board_proofs   theorems about Board, and that it implements Xtoa
      TestMains      the test mains of the repository as sequences of calls
      MCBoard        the programs for TLC
  HalLoader    the loader of the target, and what main does with its result
    HalLoader_proofs theorems about HalLoader
    MCHalLoader      every stream of the bytes that matter
  SerialLoader the two threads of the host loader
  SerialLink   HalLoader and SerialLoader on one line with the receiver
    SerialLink_proofs  theorems about SerialLink
    MCSerialLink     the programs for TLC
```

**VMStack** (`vmstack.c`). The struct is a record; a function that changes it is
an operator from record to record with the function's name. It has no
variables, so both state machines use the same text and the proofs can cite it.
No C function compares an index with the bounds, so no operator does: the sets
`PushCells`, `EnterCells`, `ExitCells`, `VariableCells` name the cells a call reads
or writes, and the state machines stop, in mode `fault`, where one of them does
not exist. `U8`, `I8`, `I32` are the conversions of the C types; `WordBits` is the
width of a cell.

**CmCalls** (one action per instruction of `vm.c` that works on the stack). Which
instruction comes next is free, within what a compiler emits: an instruction
takes operands its own function pushed, names a variable its function has, calls
with the arguments pushed, makes a frame first or not at all, and ends with `EXIT`
(exactly the result on the stack) or `RET` (nothing). The variable `act` is a
history variable that says what the compiler knows of every activation; guards
and properties use it, the cells and registers never depend on it. `Restart` is
the end of a program with `VM_Init` before the next one.

**ActivationStack** is what the stack promises: a sequence of activations, each
with its variables, its operands and the address its caller goes on at. No array
and no pointer occur in it. `CmCalls!frames` reads this sequence off the cells,
and `Implements` says that every step of CmCalls is a step, or a stutter, of it:
an instruction changes the current activation only, `ENTER` turns the top operands
of the caller into variables, `EXIT` hands exactly the result over and continues
where the call said.

**CmVM** (`VM_execute`, `Kernel_IO`, the loop of `main`). Bytes, operands in
big-endian order, sign extension and pointers of 16 bits, one action per group of
cases. `Load` copies the next program over the one before, exactly as far as it is
long (`Loaded` is the store of `hal_Loader` taken for a whole program; what becomes of a
packet on the way is HalLoader's subject), prints the two lines of `DisplayBanner`, each by its first
word, calls `Stack_New` and starts at the beginning. Status `fault` is an access
outside the cells or an operation C leaves undefined, `lost` an `ip` outside
program memory (`memAllocated` aligned by `GetBaseAddr`) or a string that begins or ends there, `exited` the call of `exit`, `idle` the return of `VM_execute` and
the acknowledgement that `main` sends. `out` is all that goes to the console while a program is the
current one, so it begins with the banner and, at `idle`, ends with the acknowledgement;
`Printed` is the part in between, what the program itself has printed.

**Console** gives the characters of each `Put` call, for the console with printf
and for the one of the target, as functions: which digits of a number the loop of
`bsl_utoa` lets through.

**AUnit** (`AUnit_v1.0.9e.c`) is a function of the characters of a file: the lines
that `fgets` returns, the number of lines to test from the title, the comparison of
each with the line so many below it, and how `main` returns. It is instantiated
with the codes of characters in CmVM and with tokens in Board.

**Xtoa** (`bsl_xtoa.c`) is the same conversion as a state machine: a step is a pass
of the loop, which divides a digit off and writes at most one character to `buf`.
A write behind the end of `buf` leads to the conversion `overrun`. `number`, `value`
and `places` are history variables: the argument, what the digits so far stand for,
and the number of passes. `Disturbed` lets a handler of an interrupt change `buf` between any two
passes.

**Board** is a board that runs a main without the virtual machine. Its program is a
sequence of calls; `todo` is what is left of it, and a call that makes others
(`Stack_Print`, `Interrupt_SaveAndDisable`) puts them in front. A number goes into
`buf` in the steps of Xtoa and from there to the line character by character until
the zero is met; `sent` is what has left `buf`. The operand stack is the record of
VMStack with the enumerator's `index`. Of the status register the bit I is
modelled, and `saves` holds what main has saved and not restored. `Interrupt` is a
handler that prints a number; it runs while I is set, in the programs named in
`Interrupted`. The repository has no handler; it has the functions that hold
handlers off, and this is what there is to hold off. `Converts` says that whatever
the board does, the variables of Xtoa take steps of Xtoa.

**TestMains** translates `tvmstack.c`, `tout.c`, `hal_TestInterman0.c` and the private
test of `bsl_COut.c` (one pass of its endless loop), call by call. A text is a sequence of tokens, cut
where the program puts it together.

**Opcodes** is the enumeration of `opcode.h`.

**HalLoader** (`hal_Loader.c`, the loop of `main`). One action per byte, split by
the branches of the loop: `EndOfPacket` for a zero, `Store` while `downloading`,
`Fill` and, at the second byte, `Command`. `phase` says whether `main` is in
`hal_Loader`, in `VM_execute`, or over. `Restart` is a reset, after which the
start-up code has cleared all static data. The file does not compile as it
stands: nothing declares `packet` or `Sucess`, and `cmMake.bat` leaves it out of the
target's build although `admin.c` calls it. The module reads `packet` as an array
that takes every byte stored to it (no byte of it is ever read) and `Sucess` as
`Success`; everything else is as written.

**SerialLoader** (`SerialLoader.cs`). One action for each access of a thread to
the port, to `_run` or to `_continue`, with the local steps after it. `reader` is
the place of `ReadByte`: reading the first byte of an answer, skipping the
answer, reading the zero after an acknowledgement, testing `_run`, showing
output, reading the last zero, clearing `_run`. A read of an empty queue may
time out, which takes the reader back to its outer loop.

**SerialLink** composes the two with the line. `toTarget` and `toHost` are the bytes
under way; `fifo` is the receiver of the UART, which holds three bytes and drops
what comes while nobody reads (a byte takes a millisecond at 9600 baud, so
`hal_Loader` itself is always in time). The program that runs is seen from
outside: it prints, returns, exits or never ends; a memory that starts with
`HALT` returns at once and one that starts with a reserved opcode never does, as
in CmVM. `rxInterrupt` says whether the receive interrupt is on, as `VMIn_Init`
sets it; then a byte received restarts the target, because no module has a
handler. With it off, the module shows what the loader itself does.

### Correspondence in detail

| TLA+ | C |
|---|---|
| `s.si`, `s.bp`, `s.sp`, `s.capacity` | `struct VMStackDesc`, `vmstack.c:10-18` |
| `Stack_exit`, `ExitBase`, `ExitCells` | `vmstack.c:238-260`, with the second subtraction of `nl` at 255 |
| `getFrameOffset`, `VariableCell` | `vmstack.c:262-267` and its three callers |
| `CmCalls!Calls`, `EnterFunction`, `ExitFunction`, `Ret` | `vm.c:287-293`, `155-158` and `207-211`, `121`, `122` |
| `CmVM!Inherent`, `Constants`, `Variables`, `Branches`, `Trap` | the branches of `VM_execute`, `vm.c:117-311` |
| `CmVM!Reserved` | the missing default of the switch at `vm.c:118` |
| `CmVM!InvalidOpcode` | `vm.c:312` and `99-102` |
| `CmVM!Load`, `Halt` | the loop at `admin.c:143-157` |
| `CmVM!DisplayBanner`, `Loaded` | `admin.c:34-44`, called at 145; `hal_Loader.c:14-17` |
| `CmVM!GetBaseAddr`, `BaseAddr` | `admin.c:58-67`, `138` |
| `AUnit!LinesToTest`, `Passed`, `VerdictFrom` | `AUnit_v1.0.9e.c:80-90`, `106-117`, `73-124` |
| `Xtoa!Begin`, `Zero`, `Iterate`, `End`, `bsl_itoa` | `bsl_xtoa.c:10-22`, `24`, `26-37`, `39`, `43-50` |
| `Board!PutNumber`, `COut_PutS` | `bsl_COut.c:46-48`, `45` |
| `Board!Stack_Print`, `VMStack!StackEnumtor_...` | `vmstack.c:82-113` |
| `Board!Interrupt_...` | `hal_interman.c:13-33` |
| `HalLoader!Receive`, `Executed` | `hal_Loader.c:11-57`, `admin.c:144-151` |
| `SerialLoader!Send`, `SetRun`, `Quit`, `Close` | `SerialLoader.cs:178-210` |
| `SerialLoader!Top`, `Reads`, `Running`, `EndRun`, `Timeout` | `SerialLoader.cs:82`, `86-116`, `108`, `121`, `125` |
| `SerialLink!Interrupt` | `hal_Loader.c:62-66` without a handler |

## 3. The runs

| Run | Question | Result |
|---|---|---|
| `calls` | Does every well-formed program keep its linkage, free exactly its frames, and see separate activations? | holds |
| `exit` | The same for a procedure with more than seven variables | violated: finding |
| `capacity` | Does a full stack refuse a push? | violated: finding |
| `programs` | Do programs print what they should, end, leave a clean stack, return to where they were called from and keep to the discipline, whatever ran before? Does AUnit see it when they do not? | holds, on both consoles |
| `tests_on_target` | Do the repository's own tests print on the target the lines they expect? | violated: finding |
| `reserved` | Is a reserved opcode reported? | violated: finding |
| `loader` | What do the loader's variables guarantee, whatever bytes arrive? | holds |
| `link` | Is the loader at the start of a packet whenever the line is quiet? Is every packet but a Ping and a download acknowledged exactly once? Does the host take each acknowledgement for one, and nothing else? Does `q` always close the host? | holds |
| `ping` | Is a Ping acknowledged once? | violated: finding |
| `download` | Is the program in memory when it is started? | violated: finding |
| `interrupt` | Is a byte received ever read? | violated: finding |
| `board` | Do the test mains print what they expect? Do conversions stay in the buffer and end? Does every call get what it relies on? Does a section keep a handler from the shared buffer? | holds |

**Properties.** `TypeOK`: `bp` and `sp` stay between -1 and the last cell, so the
`i8` fields never wrap. `FramesLinked`: the cells the code steers by (saved `bp`,
packed sizes) say what the compiler knows, and activations lie one above the
other. `ExitFreesFrame`: a return leaves the caller's operands below the
arguments, and the result, and nothing else. `Implements`: the refinement above.
`AUnitPasses`: what a program that halts has itself printed is, by AUnit's rules, one test,
which has passed. `VerdictSound` is the other direction: AUnit compares the
printed line over the length of the other only, and still does not pass a program
whose lines differ, if it was stopped between two lines of its own. (One stopped in the
middle of a line that is right so far does pass: the newline is what makes the
comparison strict.) `CleanHalt`: at `HALT` both
registers are -1. `Disciplined`: every behaviour of CmVM is one of CmCalls, so
that what is proved of CmCalls holds for these programs. `ReturnsToCalls`: a `RET`
or `EXIT` goes on right behind a `CALLS` that is in memory; no operand, variable or
cell of an earlier program is ever taken for a return address. `Terminates`: a program
does not run for ever. `OverflowPrevented` and `ReservedReported` state what the
source says of capacity and reserved opcodes.

**What is judged of the output.** main prints its banner before every program and an
acknowledgement after it (`admin.c:145`, `150-151`), on the console the program uses; both are in `out`.
`AUnitPasses` and `VerdictSound` judge `Printed`, the part in between, which is the output of
the program under test. They do not say that the chain of tools of the repository
reports a test as OK, and at this commit it does not: `runCodePatterns.bat` hands everything that `cm`
prints to AUnit, which takes the first line for a title, finds the banner, and returns with `Test #1
should start with "Test ..."` before it compares a line (`AUnit_v1.0.9e.c:119-121`, code `NoTest` of
the module AUnit). This is so for every program, right or wrong, and would hide all that the programs have to show;
what the tests of the repository say of the machine is in the lines they print for comparison. `tests_on_target` is
to be read in the same way: T04 prints `F|T` below the line `false|true` that it prints as
expected. (Nor does main open the file that the script calls it with: its arguments are not
read, and a program comes through `hal_Loader`.)

`RunAlwaysRefused` says that `memWritePos` is 0 wherever `hal_Loader` looks at a
Run, so that the branch which accepts it is dead. `RefusedEmpty` is what the
comment at `hal_Loader.c:35` says, and holds: main gives up only while the memory
is empty. `Aligned`: positions are 0 again when the line is quiet, although a
Ping is answered in the middle of its packet and a program is cut at its zeros.
`OneAnswer` is about the packets that are read to their end: a status request, a
packet with a wrong checksum, and a Run that main does not refuse (a download
before it has set `downloading`). `AcksSeen` counts on both sides: whenever the line is quiet, the reader thread has taken as many
bytes for acknowledgements as the target has sent, although it may have timed out
anywhere, may have been in either of its loops, and may have seen `_run` before or
after Main set it; only a program that prints 0xCC spoils the count. `PingOnce`, `Stored` and `ByteRead` state
what the comments of `hal_Loader.c` say. `QuitCloses` is about the two host threads; it supposes
that the target falls silent in the end, because a reader that shows the output
of a program which prints for ever never looks at `_continue`.

`InBuffer`: no character is written behind `buf`. `Exact`: a conversion ends with
digits that stand for its argument. `Shown`: what has gone to the line is the
numeral of the call's argument, as Console defines it, although `buf` is shared,
in programs that nobody interrupts and in sections of those that are. `SectionClosed`:
while anything is saved and not restored, interrupts are disabled. `CallsProper`:
what the functions of the console and the interrupt manager rely on holds of the calls
that are left in every state, those that the functions make themselves included: a number
fits in a word (`NumbersGiven`), and a section is restored only when one is open and
interrupts are enabled only when none is (`SectionsPaired`). `MainsPass`:
AUnit passes the output of each test main. `Converts` is the refinement of Xtoa, and
`Ends` says that every call returns.

Taken together the findings on the loader say that no program can be
downloaded and run by this commit: with the receive interrupt on nothing is read;
without it, a Run before a download ends main, a download is recognised for one
checksum in 256, is stored one byte too far, and makes the next Run part of
the program.

**Bounds of `calls`, `exit`, `capacity`.** Eight cells hold a caller's operands,
a complete frame of the larger shape (five cells) and part of a second call, so
that frames are nested, freed and the array overflows; the proofs cover the
other sizes. Words of eight bits wrap, and -1 becomes 255 in the cast of the
saved `bp`, as with 32. Two shapes: a function with result, argument and local in the
form of `ENTER_U5`, and a procedure with an argument in the form of `ENTER_U8`.
`MCBound` limits a state to three activations, two operands for each (as many as
an instruction takes) and cells with values from a set that contains truth values,
the address and the linkage. For `exit` the shape is one argument and seven locals in 20 cells.

**Bounds of `programs`.** The cells and their number are those of the
source (32). Programs are the repository's T01 .. T12 without T07, which prints
integers of 32 bits: TLC computes with 32-bit integers itself, so words have 24
bits here. Sixteen more programs use what the tests do not: all inherent
operations with operands of both signs, both ends of the ranges of the
constants, nested loops, a recursive factorial, division by zero, undefined
remainders and shifts, a stack overflow, a jump out of memory, a string out of memory, an
unimplemented and a reserved opcode, a wrong line, and a line cut off by an opcode
that ends the process. `MaxRuns = 2` runs every program after every other one of the same console. On
the console with printf (`printf = TRUE`) all programs run; on the one of the
target those run that print no truth value and no hexadecimal number, which the
two consoles print differently (`tests_on_target`).
`MemMax = 272` holds the longest test and an `ip` offset that needs nine bits. The
memory is allocated at an address that is not aligned, with an increment of 16.

**Bounds of `loader`.** Four positions instead of 256, so that both of them wrap;
the bytes are the zero, three commands and one without a meaning.

**Bounds of the runs of `MCSerialLink`.** Eight positions and eight bytes of memory,
so that the write position wraps when two commands run into each other. Two commands (one, where a
violation needs no more) out of all the host has, each of two programs for a
download: one whose checksum is 0x21, and one with a zero in the middle and the
byte 0x21 two bytes after it, which `hal_Loader` takes for a Download. What a
command leaves behind is met by the next one, and two under way at once are
enough to overflow the receiver. A running program prints 0xCC, the byte the
host takes for an acknowledgement, or nothing, with one byte pending; zeros and
other bytes come from main itself. `RxInterrupts` and `Patience` take both
values in `link`. `patient` is a user who types only when nothing moves: a violation
found under it does not depend on haste.

**Bounds of `board`.** Words have 28 bits, because TLC's integers have 32 with the
sign: like 32 they give whole digits in base 16 and equally long numerals for the
lowest signed and the highest unsigned number, and `BufLen = 11` is to them
what 12 is to 32. The numbers are those around the powers of both bases, with
zeros inside, and the ends of the ranges. The handler's numeral is shorter than
some of those it interrupts and longer than others, and it runs twice at most. The
proofs cover the other widths and numbers.

**Deadlock** is checked in `loader` only. In the other runs the system really
stops: a process that exited, an outcome C does not define, the last program or
the last command of a bounded behaviour.

**Fairness.** `WF_vars(Instruction)` and `WF_vars(Stray)`: a processor that is on
executes its next instruction; there is no other process on the target and no
interrupt handler. Nothing is assumed of the arrival of programs. In
`SerialLink` each thread, the line, the receiver and the restart go on; nothing is
assumed of the user, nor that a program returns. In `Board`, `WF_vars(Step)`: the
processor executes main, and the UART gets ready for the next character, which
`TxChar` waits for.

## 4. The proofs

All theorems are proved by TLAPS from the named assumptions on constants, which TLC
evaluates in the runs. A theorem with a hypothesis says what the hypothesis is for.

Some of them need induction over data: the numeral of a number, the lines of a
file, the cells a list of calls leaves, the sum of a program's bytes. No prover here instantiates the library's
theorems on induction, which take an operator; but a set of numbers can be given to the theorem that
a set which is not empty has a least element (`WFMin` with
`NatLessThanWellFounded`). So these proofs look at the least number for which a recursive
function or a fold would be something else, and find that it cannot be. The functions are
recursive functions, not recursive operators.

### The stack: CmCalls_proofs, CmCalls_refinement

For every number of cells up to 127, every word size, capacity, set of constants and
addresses, and every program whose shapes satisfy `FramesFit` (`np + nl <= 7`, beyond
which the run `exit` is a counterexample):

| Theorem | Statement |
|---|---|
| `TypeCorrect` | `Spec => []TypeOK` |
| `LinkageIntact` | `Spec => []FramesLinked` |
| `ExitExact` | `Spec => ExitFreesFrame` |
| `Refinement` | `Spec => Implements` |

The inductive invariant is `IInv == TypeOK /\ FramesLinked /\ ActivationsFit`.
`TypeOK` is not inductive: that `EXIT` sets `sp` and `bp` to something in range depends on
what the cells hold. `FramesLinked` supplies it, and is itself preserved only
because activations do not overlap: a store to a variable or an operand hits a
cell strictly between the linkage of two activations. `ActivationsFit` says that
an activation's shape is that of a function of the program, from which
`FramesFit` gives that the size `EXIT` frees is the size `ENTER` took. The proof
has one lemma per group of instructions: those that change operands only, the
variable accesses, `CALLS`, `ENTER`, `RET`, `EXIT`, restart, and the step to
`fault`. The lemmas about packing (`FctInfo` and its three projections, the
conversions of a saved `bp`) are stated once and cited.

The refinement reads the activations off the cells. `Bounds` says where the three
parts of an activation lie; `HeadKept`, `VariablesKept` and `OperandsKept` say
what is left of an activation when the cells that a step writes miss its part, and
`CallersKept` puts them together for all activations below the current one. With
these every instruction is a step of ActivationStack: most are `Body`, with
`Evaluate` or `Update` of the current activation. `ENTER` is the hard one:
the cells of the arguments do not move, but leave the caller's operands and become
the callee's variables, and the return address moves to the other side of the
locals. For `EXIT` the lemma `ExitFrees` says which cells it copies, and `Joined` that
the caller's operands with the result behind them are the operands it has afterwards.

### The interpreter: CmVM_proofs

| Theorem | Statement |
|---|---|
| `ReturnsHome` | `Spec /\ Disciplined => ReturnsToCalls` |
| `TypeCorrect` | `Spec /\ Disciplined => []TypeOK` |
| `VerdictsSound` | `Spec => []VerdictSound` |

for all programs, every place and size of the memory and every stack. The hypothesis
of the first two is what the run `programs` checks of the repository's programs; without it the
statement is false, since bytecode that no compiler emits can push any number and
return to it. The discipline makes a behaviour of CmVM one of CmCalls, so that `IInv`
holds and its steps are steps of ActivationStack. `ResumesKept` takes from there that a return
address stays what it is while its activation lasts and that a return goes there;
`CallResumes` that it is the address the `CALLS` pushed. CmVM adds what CmCalls leaves
free: which address that is. The invariant `Marked` says that in front of every return address
there is a `CALLS` in memory; a program changes no byte of it, and the one step that does, `Load`,
leaves no activation behind. An address in memory also survives the pointer of 16 bits,
from `MachineAssumption`.

`TypeCorrect` takes the two registers from `IInv`. The rest needs no discipline and is the
invariant `Typed` of every behaviour: cells hold words, memory holds bytes, `ip` has 16
bits, the line has got characters, and `bp` is in the range of its `i8` field, which is all that an
undisciplined `EXIT` leaves of it. Part of it is `TailHalts`: in the last four bytes of the memory, which no
program reaches, there are zeros whatever was loaded before, so that no instruction is cut off and every operand is read
from memory. The preservation lemmas go by groups of instructions: what an operator
of VMStack leaves is a record of words, because each result is wrapped by `I32` or is a
truth value, a quotient or a remainder of words; what a `Put` call prints is characters.

`VerdictsSound` needs the last part of that: a line of characters is a file AUnit can read, and
`VerdictExact` says what its verdict on such a file means.

### The judge: AUnit_proofs

For every length of a line of at least two characters, every limit of lines to test, and every
word that a title starts with:

| Theorem | Statement |
|---|---|
| `VerdictExact` | a file that ends with a newline is one test that is OK if and only if it is one test whose lines to test are the lines expected |

The comparison stops where the expected line does, so that by itself it accepts longer lines.
`LinesWhole` says that what `fgets` returns of such a file are whole lines: each ends at its
first newline or fills the buffer. A whole line that begins with another one is that line
(`PrefixIsLine`). `OneTestIs` is about the way main goes through the lines.

### The console: Xtoa_proofs, Board_proofs

For every width of a word, every buffer with room for a sign, the
places of a number and the zero, every sequence of numbers, and whatever a handler
writes into the buffer between two passes:

| Theorem | Statement |
|---|---|
| `BufferNeverLeft` | `XtoaSpec => []InBuffer` |
| `DigitsExact` | `XtoaSpec => []Exact` |

The invariant `XtoaInv` counts the passes of the loop. After `places` passes `f` is the
value of the next place, at most `1 + places` characters are in `buf`, and
`number = value * base * f + n` with `n < base * f`; after the last pass `f` and `n` are zero.
Neither theorem's formula is inductive: `InBuffer` depends on how many passes are left and
`Exact` on what the digits mean before the loop ends. The lemmas are about division:
the quotient is below the base, and the remainder below the place.

For every program of a board that satisfies `SectionsAssumption`, whatever it
calls, and every numeral that a handler prints:

| Theorem | Statement |
|---|---|
| `CallsPaired` | `Spec => []SectionsPaired` |
| `SectionsClosed` | `Spec => []SectionClosed` |
| `BoardRefinesXtoa` | `Spec /\ []NumbersGiven => Converts` |
| `BoardInBuffer` | `Spec /\ []NumbersGiven => []InBuffer` |
| `BoardExact` | `Spec /\ []NumbersGiven => []Exact` |
| `PrintingEnds` | `Spec /\ []NumbersGiven => []Terminated` |
| `NumbersShown` | `Spec /\ []NumbersGiven => []Shown` |
| `BoardTyped` | `Spec /\ []NumbersGiven => []TypeOK` |

`SectionsAssumption` asks of each program what a reader of `hal_interman.c` would: it
restores what it has saved, and enables interrupts outside of sections only. It is stated by counting
calls. For the proof the count becomes a function `d` that gives the number
of open sections after each call that is left (`PairedFrom`); a call that puts others in its
place extends `d`, and a call that is done takes its first value off. The invariant
`SectionInv` relates that number to `saves`: all but the outermost of the saved
registers have interrupts disabled, so that only the last restore can enable them.

`NumbersGiven` says that a number handed to the console fits in a word, as it does in C,
where it is the parameter's type; here it is a value some programs take from cells of
the stack, and TLC checks it as part of `CallsProper`. Given it, a step of the board is
a step of Xtoa, a handler's numeral is a `Disturbed` one, and the two theorems about Xtoa
hold on a board. `Terminated` says that a zero is at or after the character that is
sent next: it needs that a conversion leaves one behind its digits, and that a handler, which
writes a zero behind its own numeral, can move the end forward but not out of the buffer.

`NumbersShown` compares what a loop wrote to a buffer and another loop took out of it with a
numeral defined in one expression. `TextInv` says what is in `buf` after each pass: the sign, and
the digits from the first that is not zero on, each of which is the digit at its
place of the number (`DigitsOn`, `DigitAt`); `SentInv` that what has been sent is what
`buf` held. Both hold while no handler can come: in programs without one, and while a register
is saved, by `SectionInv`. `PlacesAssumption` says of the table of powers that it has
every power of the base below the word, which makes the digits of the loop (by division)
those of the numeral (by remainders). For a negative number in base 16 the two agree
in words of 32 bits only, which `NumbersGiven` asks for.

`BoardTyped` follows the stack through calls that nothing checks. `CellsAssumption`
asks of each program that it pushes no more than there are cells and pops no more than
there is, counted from its beginning by `Tops`. In the proof the count becomes a function
on the calls that are left, as with the sections (`StackedFrom`). The index of
the enumerator depends on a loop that puts itself in front of those calls again and again:
`Looping` says that nothing but the calls it makes is ever in front of the loop, so that
no other enumerator moves its index, and that the index is still not below zero there.

### The loader and the line: HalLoader_proofs, SerialLink_proofs

For every stream of bytes, every width of the positions and every memory they fit in:

| Theorem | Statement |
|---|---|
| `LoaderTypeCorrect` | `Spec => []TypeOK` |
| `RunNeverAccepted` | `Spec => []RunAlwaysRefused` |
| `RefusedOnlyEmpty` | `Spec => []RefusedEmpty` |

Here the invariant is `IInv == TypeOK /\ Untouched /\ Refused`: without
`downloading` neither `memWritePos` nor the memory has moved, and main has
returned only without `downloading`. `RefusedEmpty` alone is not inductive: it
needs that the step which ends main finds the memory untouched.

For every number and order of commands, all programs, every depth of the receiver
and every order in which the threads, the line and the target take their turns:

| Theorem | Statement |
|---|---|
| `LinkTypeCorrect` | `Spec => []TypeOK` |
| `PacketsAligned` | `Spec => []Aligned` |
| `AcknowledgementsSeen` | `Spec => []AcksSeen` |
| `OneAnswerGiven` | `ReceiverShort` implies `Spec => []OneAnswer` |

`Aligned` speaks of a quiet line only. Its invariant `AlignInv` looks at the last byte on the
way: while anything is on the way, that byte is the zero that ends every packet, and a
zero takes both positions back to 0 wherever they were. `AckInv` rests on what main
sends: behind each 0xCC comes a zero (`FollowedByZero`), so that a reader which has met an
acknowledgement, in either loop, finds the zero it waits for (`ZeroNext`) and never takes
the next acknowledgement in its place; the
acknowledgements that are still on the way are the difference of the two counts (`Counted`).

`OneAnswer` needs to know how far the loader is in a packet, also when bytes of it
were dropped. `Progress` follows the packet of a user who waits: not read so far, answered, or
over; `CutShort` bounds the position when the end of an earlier packet was lost, and
`Deaf` is the case of the receive interrupt, where nothing is ever read. The theorem has the hypothesis
`ReceiverShort == RxDepth # 0 /\ RxDepth + 4 <= PosRange` because it is false without it: a
receiver of five bytes with eight positions holds so much of a packet without an end that
the position wraps, and the next command is taken for the middle of it; TLC finds the
behaviour. In the source the receiver holds three bytes and there are 256 positions.

### Assumptions

| Module | Assumption | Why the code justifies it |
|---|---|---|
| `CmCalls` | `SiLenAssumption`, `WordAssumption`, `CapacityAssumption`, `ShapesAssumption` | `bp` and `sp` are `i8`; a capacity is a `u8`; an `ENTER` operand has two or three bits for each size |
| `CmVM` | `MachineAssumption`, `StackAssumption` | an increment that is a power of two; memory below 2^15, as the data memory of the processor is, so that an address is the same as a signed word; programs of bytes that fit; what CmCalls asks, `FramesFit`, and cells of 17 to 32 bits, which take an address and every constant of 16 bits |
| `Xtoa` | `XtoaAssumption` | the buffer has room for a sign, the places of a number and a zero |
| `Board` | `BoardAssumption` | the same word for numbers and cells; a handler's numeral is digits and fits |
| `Board` | `SectionsAssumption` | the test main pairs its calls |
| `Board` | `PlacesAssumption` | the values the divisor takes in `bsl_utoa` are the powers of the base, up to the largest that fits in a word |
| `Board` | `CellsAssumption` | the test mains push at most what they pop or leave on 32 cells, and call `Stack_Print`, never the inside of its loop |
| `HalLoader` | `LoaderAssumption` | positions are a `u8` and smaller than the memory |
| `SerialLink` | `LinkAssumption` | the same; programs, and what they print, are bytes |

### Only model-checked

* `Disciplined`, `AUnitPasses` and `CleanHalt` of CmVM, and `MainsPass` of Board: they are
  about the programs at hand and false of others. What they rest on is proved for every program.
* The part `NumbersGiven` of `CallsProper`: whether a number that a main takes from the stack
  fits in a word depends on that main.
* `Terminates`, `QuitCloses` and `Ends`, which are liveness under fairness.
* What the runs that expect a violation show.

## 5. What is not modelled

* `InterruptManager` and the I/O register traps of `vm.c`: neither
  `InterruptManagerOn` nor `IORegOn` is defined in any build of the repository.
* The rest of the two bytes that `hal_interman.c` reads and writes back, of which bit I is
  modelled. `Disable` and `Enable` write that bit with a constant, whatever they read, so that
  their read and their write are one step of Board; that a handler comes between the two and
  what it did to the other bits is undone is not covered. The read of `SaveAndDisable`,
  which is kept, is a step, and a handler may come before the `Disable` it calls. `Interrupt_SetVector` and `Interrupt_GetVector` do
  nothing in the source.
* The UART registers; options, file names and usage text in `admin.c`; `loadObjFile`,
  which is never called.
* `bsl_IOReg.c` and `bsl_TestIOReg0.c`: two one-line accesses to an address of the
  processor's, and a LED that blinks.
* What the host prints around the output of a program: nothing in the repository
  says what it should be. Which bytes it takes for acknowledgements is `AcksSeen`, which
  counts them and does not look at the bytes between them: the reader shows output only behind an
  acknowledgement of the Run (`SerialLoader.cs:98-120`), while main sends its only one when the
  program is done (`admin.c:149-151`), so that the output is skipped. No property says so.
* A target that downloads a program and executes it with CmVM inside SerialLink:
  as the findings show, no program of the repository can be downloaded by this
  commit, so that the composition would not reach one instruction of them. SerialLink
  shows everything a target may print and do from outside.
* The report AUnit prints, `dumpFile.c`, `_console.c`, the scripts: pure I/O.

## 6. Plan

1. `VMStack`, `CmCalls`, `ActivationStack`, their runs and first theorems: done.
2. `CmVM`, `Opcodes`, `Console` with the repository's programs: done.
3. `HalLoader`, `SerialLoader`, `SerialLink` and the theorems about the loader: done.
4. `AUnit`, `Xtoa` with its theorems, `Board` with the test mains and the interrupt
   manager, and the acknowledgements the host sees: done.
5. Proofs: CmCalls implements ActivationStack, and programs return behind their calls;
   Board implements Xtoa, so that `InBuffer` and `Exact` hold on every board;
   `SectionClosed` for every program whose sections are paired; `Aligned`, `AcksSeen` and
   `OneAnswer` of SerialLink for every number of commands: done.
6. Proofs over data: what reaches the line of a board (`NumbersShown`), what a verdict of AUnit
   means (`VerdictExact`, `VerdictsSound`); with them the lemmas about what the operators of VMStack and
   Console return: done.
7. The registers of Board and the types of CmVM (`BoardTyped`, `TypeCorrect`): done.
8. The host alone: what SerialLoader guarantees whatever the target answers. Not begun; within
   SerialLink `AcksSeen` says it for the targets of this repository.
