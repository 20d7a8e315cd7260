----------------------------- MODULE MCCmCalls -----------------------------
(***************************************************************************)
(* Small programs for CmCalls: the functions they have, and bounds on what *)
(* their cells hold and on how deep they go.                               *)
(***************************************************************************)
EXTENDS CmCalls

\* A function with a result, an argument and a local, and a procedure with
\* an argument, in the two forms of ENTER.
MCShapes == {[form |-> "U5", v |-> 1, np |-> 1, nl |-> 1],
             [form |-> "U8", v |-> 0, np |-> 1, nl |-> 0]}

\* A procedure whose frame is one the code treats separately: np + nl > 7.
MCLargeShapes == {[form |-> "U8", v |-> 0, np |-> 1, nl |-> 7]}

\* Values a cell may hold: truth values, the address, and the linkage of the
\* frames that fit (their fi and the bp values -1 and 3).
MCCells ==
  {-1, 0, 1, 3} \cup Addresses \cup {FctInfo(f.v, f.np, f.nl) : f \in Shapes}

MCBound(operands) ==
  /\ Depth <= 3
  /\ \A i \in Index : s.si[i] \in MCCells
  /\ \A k \in 1 .. Depth : NumOperands(k) <= operands

\* Two operands for each activation: enough for every instruction.
MCFewOperands == MCBound(2)

\* Enough operands of the caller for EXIT to take some of them.
MCManyOperands == MCBound(8)
=============================================================================
