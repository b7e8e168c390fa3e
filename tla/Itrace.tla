------------------------------- MODULE Itrace -------------------------------
(***************************************************************************)
(* The instruction trace of the simulator, trace/instr_trace.c: a ring of  *)
(* N entries that instr_itrace fills once per committed instruction and    *)
(* instr_itrace_display prints when difftest_step finds a difference.      *)
(* One step is what an iteration of execute does to it: the entry, then    *)
(* difftest_step, which may end the simulation.                            *)
(***************************************************************************)
EXTENDS Integers, Sequences

CONSTANTS N,       \* ITRACE_POOL_SIZE, 30
          Entry,   \* the pairs of pc and instruction
          Blank    \* the entry of zeroes of a static array

ASSUME NAssumption == N \in Nat \ {0}

VARIABLES
  itrace_pool,
  itrace_ptr,   \* where the next entry goes
  pool_full,    \* the ring has wrapped
  shown         \* what was printed; << >> while the simulation runs

vars == <<itrace_pool, itrace_ptr, pool_full, shown>>

(* The ring index never leaves the array.                                  *)
TypeOK ==
  /\ itrace_pool \in [0 .. N - 1 -> Entry \cup {Blank}]
  /\ itrace_ptr \in 0 .. N - 1
  /\ pool_full \in BOOLEAN

Init ==
  /\ itrace_pool = [i \in 0 .. N - 1 |-> Blank]
  /\ itrace_ptr = 0
  /\ pool_full = FALSE
  /\ shown = << >>

-----------------------------------------------------------------------------
(* instr_itrace_display.                                                   *)

(* Mutants: the count before the ring has wrapped; the marked line is the  *)
(* one the next entry will overwrite.                                      *)
MutTotal == N
MutLast  == itrace_ptr

Total == IF pool_full THEN N ELSE itrace_ptr
First == IF pool_full THEN itrace_ptr ELSE 0
Last  == (itrace_ptr + N - 1) % N

Index(k) == (First + k - 1) % N

Display ==
  [k \in 1 .. Total |-> [entry  |-> itrace_pool[Index(k)],
                         marked |-> Index(k) = Last]]

-----------------------------------------------------------------------------
(* Mutant: the ring has one slot too many.                                 *)
MutNextPtr == (itrace_ptr + 1) % (N + 1)

NextPtr == (itrace_ptr + 1) % N

InstrItrace(e) ==
  /\ itrace_pool' = [itrace_pool EXCEPT ![itrace_ptr] = e]
  /\ itrace_ptr' = NextPtr
  /\ pool_full' = (pool_full \/ itrace_ptr' = 0)

(* display_diff_error prints the trace and exits.                          *)
Execute(e) ==
  /\ shown = << >>
  /\ InstrItrace(e)
  /\ \/ UNCHANGED shown
     \/ shown' = Display'

Next == \E e \in Entry : Execute(e)

Spec == Init /\ [][Next]_vars

-----------------------------------------------------------------------------
Contents == [k \in 1 .. Total |-> itrace_pool[Index(k)]]

LastN == INSTANCE Recent WITH recent <- Contents

(* The report shows the last N instructions, oldest first and each once,   *)
(* and marks the one that differs, whether the ring has wrapped or not.    *)
ShowsTheLastInstructions == LastN!Spec
=============================================================================
