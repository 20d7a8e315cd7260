-------------------------- MODULE ActivationStack --------------------------
(***************************************************************************)
(* What the operand stack of the Cm virtual machine promises to compiled   *)
(* code: a stack of activations.  Each activation owns its variables       *)
(* (arguments, then locals) and its operands, and remembers the address    *)
(* its caller continues at.  An instruction sees and changes the current   *)
(* activation only.  A call starts an activation without variables; ENTER  *)
(* makes the arguments on top of the caller's operands its variables.  A   *)
(* return removes the activation, hands its result to the caller and       *)
(* continues at the remembered address.                                    *)
(*                                                                         *)
(* No array, stack pointer or frame pointer appears here: the layout of    *)
(* the cells is what CmCalls adds, and CmCalls is shown to implement this. *)
(* What an arithmetic instruction computes is not said here either, only   *)
(* how many operands it takes and gives.                                   *)
(***************************************************************************)
EXTENDS Integers, Sequences

CONSTANT Outside     \* the address the outermost activation returns to: none

VARIABLES
  frames,      \* the activations, outermost first
  target,      \* the address the last return continued at
  mode         \* "run" or "fault"

vars == <<frames, target, mode>>

Depth   == Len(frames)
Current == frames[Depth]
Caller  == frames[Depth - 1]

Activation(framed, returns, resume, variables, operands) ==
  [framed |-> framed, returns |-> returns, resume |-> resume,
   variables |-> variables, operands |-> operands]

Outermost == Activation(TRUE, 0, Outside, << >>, << >>)

Init ==
  /\ frames = <<Outermost>>
  /\ target = Outside
  /\ mode = "run"

-----------------------------------------------------------------------------
(* Instructions of a body: every activation but the current one is left    *)
(* alone, nobody is entered and nobody returns.                            *)

\* seq with its last n elements replaced by m others.
Rewritten(seq, next, n, m) ==
  /\ Len(seq) >= n
  /\ Len(next) = Len(seq) - n + m
  /\ \A j \in 1 .. Len(seq) - n : next[j] = seq[j]

\* A constant, a pop, a one-operand or a two-operand instruction, from the
\* activation a to b.
Evaluate(a, b) ==
  /\ b.variables = a.variables
  /\ \E n \in 0 .. 2, m \in 0 .. 1 : Rewritten(a.operands, b.operands, n, m)

\* Variable i changes and no other: the operand goes to it or is added to it,
\* or it is stepped.
Update(a, b) ==
  /\ Len(b.variables) = Len(a.variables)
  /\ \E i \in 1 .. Len(a.variables) :
       \A j \in 1 .. Len(a.variables) : j # i => b.variables[j] = a.variables[j]
  /\ \E n \in 0 .. 1 : Rewritten(a.operands, b.operands, n, 0)

Body ==
  /\ mode = "run"
  /\ Len(frames') = Depth
  /\ \A k \in 1 .. Depth - 1 : frames'[k] = frames[k]
  /\ LET next == frames'[Depth]
     IN  /\ next.framed = Current.framed
         /\ next.returns = Current.returns
         /\ next.resume = Current.resume
         /\ Evaluate(Current, next) \/ Update(Current, next)
  /\ UNCHANGED <<target, mode>>

-----------------------------------------------------------------------------
(* Calls and returns.                                                      *)

Call ==
  /\ mode = "run"
  /\ Len(frames') = Depth + 1
  /\ \A k \in 1 .. Depth : frames'[k] = frames[k]
  /\ frames'[Depth + 1] =
       Activation(FALSE, 0, frames'[Depth + 1].resume, << >>, << >>)
  /\ UNCHANGED <<target, mode>>

\* The arguments become the first variables; the locals hold anything.
Enter ==
  /\ mode = "run"
  /\ ~Current.framed
  /\ Current.operands = << >>
  /\ Len(frames') = Depth
  /\ \A k \in 1 .. Depth - 2 : frames'[k] = frames[k]
  /\ LET callee == frames'[Depth]
         args   == Len(Caller.operands) - Len(frames'[Depth - 1].operands)
     IN  /\ args \in 0 .. Len(callee.variables)
         /\ callee = Activation(TRUE, callee.returns, Current.resume,
                                callee.variables, << >>)
         /\ frames'[Depth - 1].operands \o SubSeq(callee.variables, 1, args) =
              Caller.operands
         /\ frames'[Depth - 1] =
              [Caller EXCEPT !.operands = frames'[Depth - 1].operands]
  /\ UNCHANGED <<target, mode>>

\* The current activation ends and gives its operands to its caller.
Leave ==
  /\ mode = "run"
  /\ Depth > 1
  /\ Len(Current.operands) = Current.returns
  /\ frames' =
       [k \in 1 .. Depth - 1 |->
          IF k = Depth - 1
            THEN [Caller EXCEPT !.operands = Caller.operands \o Current.operands]
            ELSE frames[k]]
  /\ target' = Current.resume
  /\ UNCHANGED mode

\* The program is over and the machine is prepared for the next one.
Restart ==
  /\ mode = "run"
  /\ Depth = 1
  /\ frames' = <<Outermost>>
  /\ UNCHANGED <<target, mode>>

\* The storage is used up: nothing is promised of the other variables.
Exhaust ==
  /\ mode # "fault"
  /\ mode' = "fault"

Next ==
  \/ Body
  \/ Call
  \/ Enter
  \/ Leave
  \/ Restart
  \/ Exhaust

Spec == Init /\ [][Next]_vars
=============================================================================
