------------------------------ MODULE Snapshot ------------------------------
(***************************************************************************)
(* snapshot.c: the state of the simulated machine is saved to one file and *)
(* restored from it.  The machine's state is a row of units, those of      *)
(* CPU_state before those of pmem, and the file a sequence of them.  The   *)
(* disk may be full, the process may be killed at any time, and what       *)
(* fwrite accepts reaches the file in order, at the latest in fclose,      *)
(* whose result nobody looks at.  No function of the simulator calls these *)
(* two, so when they are called is free.                                   *)
(***************************************************************************)
EXTENDS Integers, Sequences

CONSTANTS
  CpuUnits, MemUnits,
  Value          \* what a unit may hold

ASSUME UnitsAssumption == CpuUnits \in Nat \ {0} /\ MemUnits \in Nat \ {0}

Total == CpuUnits + MemUnits
State == [1 .. Total -> Value]

NoFile == [exists |-> FALSE]
File(units) == [exists |-> TRUE, units |-> units]
Idle == "none"

VARIABLES
  live,     \* state and mem
  file,     \* SNAPSHOT_FILE
  last,     \* the call that returned last, and what: Idle once the machine ran
  saved,    \* history: the state given to the last save that opened the file
  before    \* history: the state before the last restore

vars == <<live, file, last, saved, before>>

TypeOK ==
  /\ {live, saved, before} \subseteq State
  /\ file.exists => file.units \in UNION {[1 .. k -> Value] : k \in 0 .. Total}
  /\ last \in {Idle, "saved", "not saved", "restored", "not restored"}

Init ==
  /\ live \in State
  /\ file = NoFile
  /\ last = Idle
  /\ saved = live /\ before = live

Run ==
  /\ live' \in State
  /\ last' = Idle
  /\ UNCHANGED <<file, saved, before>>

-----------------------------------------------------------------------------
(* What is in the file when k units have reached it: "wb" empties it.      *)
(* Mutant: the units are written over the old ones.                        *)
MutWritten(k) ==
  LET old == IF file.exists THEN file.units ELSE <<>>
  IN  SubSeq(live, 1, k) \o SubSeq(old, k + 1, Len(old))

(* Mutant: the file is opened for appending.                               *)
MutWrittenBehind(k) ==
  (IF file.exists THEN file.units ELSE <<>>) \o SubSeq(live, 1, k)

Written(k) == SubSeq(live, 1, k)

(* fopen fails, and nothing has happened.                                  *)
SaveCannotOpen ==
  /\ last' = "not saved"
  /\ UNCHANGED <<live, file, saved, before>>

(* The two calls of fwrite accept so many units, of which k reach the      *)
(* file; only a short count of fwrite is an error.                         *)
take_arch_snapshot ==
  \E accepted \in 0 .. Total : \E k \in 0 .. accepted :
    /\ file' = File(Written(k))
    /\ saved' = live
    /\ last' = IF accepted = Total THEN "saved" ELSE "not saved"
    /\ UNCHANGED <<live, before>>

(* The process is killed during a save and started again.                  *)
SaveKilled ==
  \E k \in 0 .. Total :
    /\ file' = File(Written(k))
    /\ saved' = live
    /\ live' \in State
    /\ last' = Idle
    /\ UNCHANGED before

-----------------------------------------------------------------------------
RestoreNoFile ==
  /\ ~file.exists
  /\ last' = "not restored"
  /\ before' = live
  /\ UNCHANGED <<live, file, saved>>

(* fread copies what there is, before it is found to be too little.        *)
(* Mutant: the memory is cleared first.                                    *)
MutReadInto(s) ==
  [i \in 1 .. Total |-> IF i \in DOMAIN file.units THEN file.units[i]
                        ELSE IF i > CpuUnits THEN CHOOSE v \in Value : TRUE ELSE s[i]]

ReadInto(s) ==
  [i \in 1 .. Total |-> IF i \in DOMAIN file.units THEN file.units[i] ELSE s[i]]

restore_arch_snapshot ==
  /\ file.exists
  /\ live' = ReadInto(live)
  /\ last' = IF Len(file.units) < Total THEN "not restored" ELSE "restored"
  /\ before' = live
  /\ UNCHANGED <<file, saved>>

Next ==
  \/ Run
  \/ SaveCannotOpen \/ take_arch_snapshot \/ SaveKilled
  \/ RestoreNoFile \/ restore_arch_snapshot

Spec == Init /\ [][Next]_vars

-----------------------------------------------------------------------------
(* A restore that returns true brings back the whole state of the last     *)
(* save that opened the file, whatever that save returned and whatever     *)
(* earlier saves had left in the file: never a state with parts of two.    *)
RestoreExact == last = "restored" => live = saved

(* A restore that returns false may leave a state that never was: a first  *)
(* part of the saved one, the rest as before.  It is the last save's, and  *)
(* never all of it.                                                        *)
FailedRestoreIsPrefix ==
  last = "not restored" =>
    \E k \in 0 .. Total - 1 :
      live = [i \in 1 .. Total |-> IF i <= k THEN saved[i] ELSE before[i]]
=============================================================================
