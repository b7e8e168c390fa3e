----------------------------- MODULE FetchUnit -----------------------------
(***************************************************************************)
(* What the front end of a core promises: the instructions of memory, one  *)
(* after the other from where the last jump went, each handed to execute   *)
(* once, as memory holds it at that time.                                  *)
(***************************************************************************)
EXTENDS Integers

CONSTANT N           \* memory has the words 0 .. N - 1

VARIABLES mem,       \* how often each word has been written, modulo 2
          next,      \* the word to be handed over next
          out        \* the instruction handed over last: its word and content

vars == <<mem, next, out>>

Init == /\ mem = [w \in 0 .. N - 1 |-> 0]
        /\ next = 0
        /\ out = <<>>

Hand == /\ out' = <<next, mem[next]>>
        /\ next' = (next + 1) % N

Redirect == next' \in 0 .. N - 1 /\ UNCHANGED out

Wait == UNCHANGED <<next, out>>

Write == \E w \in 0 .. N - 1 : mem' = [mem EXCEPT ![w] = 1 - @]

Next == /\ Hand \/ Redirect \/ Wait
        /\ Write \/ UNCHANGED mem

Spec == Init /\ [][Next]_vars
=============================================================================
