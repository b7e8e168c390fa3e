------------------------------- MODULE Recent -------------------------------
(***************************************************************************)
(* What the instruction trace promises: when the simulation ends on a      *)
(* difference, it shows the last instructions executed, at most N of them, *)
(* in the order they were executed, the offending one last and marked.     *)
(***************************************************************************)
EXTENDS Naturals, Sequences

CONSTANTS N,       \* the number of instructions shown
          Entry    \* what an instruction leaves in the trace

VARIABLES
  recent,   \* the last instructions
  shown     \* the lines printed: [entry, marked]; << >> while running

vars == <<recent, shown>>

Lines == [k \in 1 .. Len(recent) |-> [entry |-> recent[k], marked |-> k = Len(recent)]]

Init == recent = << >> /\ shown = << >>

Execute(e) ==
  /\ shown = << >>
  /\ recent' = IF Len(recent) < N THEN Append(recent, e) ELSE Append(Tail(recent), e)
  /\ shown' \in {shown, Lines'}

Next == \E e \in Entry : Execute(e)

Spec == Init /\ [][Next]_vars
=============================================================================
