--------------------------- MODULE SnapshotProofs ---------------------------
(***************************************************************************)
(* A snapshot comes back whole or is refused: proved for a machine of any  *)
(* size, saves that break off or are killed after any number of units, and *)
(* any succession of saves and restores.                                   *)
(***************************************************************************)
EXTENDS Snapshot, SequenceTheorems, TLAPS

(* The file is a first part of the state last saved: nothing of an earlier *)
(* save is behind it, and it is never longer than a state.                 *)
FileIsSaved ==
  file.exists =>
    /\ file.units \in Seq(Value) /\ Len(file.units) <= Total
    /\ \A i \in 1 .. Len(file.units) : file.units[i] = saved[i]

StatesTyped == live \in State /\ saved \in State /\ before \in State

LastTyped == last \in {Idle, "saved", "not saved", "restored", "not restored"}

SnapInv == StatesTyped /\ LastTyped /\ FileIsSaved
             /\ RestoreExact /\ FailedRestoreIsPrefix

LEMMA TotalPositive == Total \in Nat \ {0}
BY UnitsAssumption DEF Total

(* What k units of the state are in the file.                              *)
LEMMA WrittenIsPrefix ==
  ASSUME live \in State, NEW k \in 0 .. Total
  PROVE  /\ Written(k) \in Seq(Value)
         /\ Len(Written(k)) = k
         /\ \A i \in 1 .. k : Written(k)[i] = live[i]
<1>1. \A i \in 1 .. k : live[i] \in Value
  BY TotalPositive DEF State
<1>2. /\ SubSeq(live, 1, k) \in Seq(Value)
      /\ Len(SubSeq(live, 1, k)) = IF 1 <= k THEN k - 1 + 1 ELSE 0
      /\ \A i \in 1 .. k - 1 + 1 : SubSeq(live, 1, k)[i] = live[1 + i - 1]
  <2>1. 1 \in Int /\ k \in Int
    BY TotalPositive
  <2> QED BY <1>1, <2>1, SubSeqProperties
<1> QED BY <1>2, TotalPositive DEF Written

LEMMA NewFileIsSaved ==
  ASSUME live \in State, NEW k \in 0 .. Total,
         file' = File(Written(k)), saved' = live
  PROVE  FileIsSaved'
<1>1. file'.units = Written(k)
  BY DEF File
<1>2. Len(Written(k)) <= Total
  BY WrittenIsPrefix, TotalPositive
<1> QED BY <1>1, <1>2, WrittenIsPrefix DEF FileIsSaved

LEMMA FileStays ==
  ASSUME FileIsSaved, UNCHANGED <<file, saved>>
  PROVE  FileIsSaved'
BY DEF FileIsSaved

(* A restore puts the units of the file in place and keeps the others.     *)
LEMMA ReadIntoPrefix ==
  ASSUME SnapInv, file.exists
  PROVE  /\ Len(file.units) \in 0 .. Total
         /\ ReadInto(live) = [i \in 1 .. Total |->
                                IF i <= Len(file.units) THEN saved[i] ELSE live[i]]
         /\ ReadInto(live) \in State
<1> DEFINE n == Len(file.units)
<1>1. file.units \in Seq(Value)
  BY DEF SnapInv, FileIsSaved
<1>2. n \in Nat /\ DOMAIN file.units = 1 .. n
  BY <1>1, LenProperties
<1>3. n \in 0 .. Total
  BY <1>2, TotalPositive DEF SnapInv, FileIsSaved
<1>4. ASSUME NEW i \in 1 .. Total
      PROVE  /\ i \in DOMAIN file.units <=> i <= n
             /\ i <= n => file.units[i] = saved[i]
  BY <1>2, <1>3, TotalPositive DEF SnapInv, FileIsSaved
<1>5. ReadInto(live) = [i \in 1 .. Total |-> IF i <= n THEN saved[i] ELSE live[i]]
  BY <1>4 DEF ReadInto
<1>6. ReadInto(live) \in State
  BY <1>5 DEF State, SnapInv, StatesTyped
<1> QED BY <1>3, <1>5, <1>6

LEMMA StartInv == Init => SnapInv
BY DEF Init, SnapInv, StatesTyped, LastTyped, FileIsSaved, RestoreExact,
       FailedRestoreIsPrefix, NoFile, Idle

LEMMA StepInv == SnapInv /\ [Next]_vars => SnapInv'
<1> SUFFICES ASSUME SnapInv, [Next]_vars PROVE SnapInv'
  OBVIOUS
<1> USE DEF SnapInv
<1>1. CASE Run
  BY <1>1, FileStays
     DEF Run, StatesTyped, LastTyped, Idle, RestoreExact, FailedRestoreIsPrefix
<1>2. CASE SaveCannotOpen
  BY <1>2, FileStays
     DEF SaveCannotOpen, StatesTyped, LastTyped, RestoreExact, FailedRestoreIsPrefix
<1>3. CASE take_arch_snapshot
  <2>1. PICK accepted \in 0 .. Total : \E k \in 0 .. accepted :
          /\ file' = File(Written(k))
          /\ saved' = live
          /\ last' = IF accepted = Total THEN "saved" ELSE "not saved"
          /\ UNCHANGED <<live, before>>
    BY <1>3 DEF take_arch_snapshot
  <2>2. PICK k \in 0 .. accepted : file' = File(Written(k))
    BY <2>1
  <2>3. k \in 0 .. Total
    BY TotalPositive
  <2>4. FileIsSaved'
    BY <2>1, <2>2, <2>3, NewFileIsSaved DEF StatesTyped
  <2> QED
    BY <2>1, <2>4 DEF StatesTyped, LastTyped, RestoreExact, FailedRestoreIsPrefix
<1>4. CASE SaveKilled
  <2>1. PICK k \in 0 .. Total : file' = File(Written(k))
    BY <1>4 DEF SaveKilled
  <2>2. FileIsSaved'
    BY <1>4, <2>1, NewFileIsSaved DEF SaveKilled, StatesTyped
  <2> QED
    BY <1>4, <2>2 DEF SaveKilled, StatesTyped, LastTyped, Idle,
                      RestoreExact, FailedRestoreIsPrefix
<1>5. CASE RestoreNoFile
  <2> DEFINE none == [i \in 1 .. Total |-> IF i <= 0 THEN saved'[i] ELSE before'[i]]
  <2>1. none = [i \in 1 .. Total |-> before'[i]]
    BY TotalPositive
  <2>2. before' = live /\ live' = live
    BY <1>5 DEF RestoreNoFile
  <2>3. live = [i \in 1 .. Total |-> live[i]]
    BY DEF StatesTyped, State
  <2>4. live' = none
    BY <2>1, <2>2, <2>3
  <2>5. 0 \in 0 .. Total - 1
    BY TotalPositive
  <2>6. FailedRestoreIsPrefix'
    BY <2>4, <2>5 DEF FailedRestoreIsPrefix
  <2> QED
    BY <1>5, <2>6, FileStays DEF RestoreNoFile, StatesTyped, LastTyped, RestoreExact
<1>6. CASE restore_arch_snapshot
  <2> DEFINE n == Len(file.units)
  <2>1. /\ n \in 0 .. Total
        /\ live' = [i \in 1 .. Total |-> IF i <= n THEN saved[i] ELSE live[i]]
        /\ live' \in State
    BY <1>6, ReadIntoPrefix DEF restore_arch_snapshot
  <2>2. StatesTyped' /\ LastTyped' /\ FileIsSaved'
    BY <1>6, <2>1, FileStays DEF restore_arch_snapshot, StatesTyped, LastTyped
  <2>3. CASE n < Total
    <3>1. last' = "not restored"
      BY <1>6, <2>3 DEF restore_arch_snapshot
    <3>2. n \in 0 .. Total - 1
      BY <2>1, <2>3, TotalPositive
    <3>3. live' = [i \in 1 .. Total |-> IF i <= n THEN saved'[i] ELSE before'[i]]
      BY <1>6, <2>1 DEF restore_arch_snapshot
    <3>4. FailedRestoreIsPrefix'
      BY <3>2, <3>3 DEF FailedRestoreIsPrefix
    <3> QED BY <2>2, <3>1, <3>4 DEF RestoreExact
  <2>4. CASE ~(n < Total)
    <3>1. last' = "restored"
      BY <1>6, <2>4 DEF restore_arch_snapshot
    <3>2. \A i \in 1 .. Total : i <= n
      BY <2>1, <2>4, TotalPositive
    <3>3. live' = saved'
      BY <1>6, <2>1, <3>2 DEF restore_arch_snapshot, StatesTyped, State
    <3> QED BY <2>2, <3>1, <3>3 DEF RestoreExact, FailedRestoreIsPrefix
  <2> QED BY <2>3, <2>4
<1>7. CASE UNCHANGED vars
  BY <1>7, FileStays
     DEF vars, StatesTyped, LastTyped, RestoreExact, FailedRestoreIsPrefix
<1> QED BY <1>1, <1>2, <1>3, <1>4, <1>5, <1>6, <1>7 DEF Next

LEMMA Typed == SnapInv => TypeOK
<1> SUFFICES ASSUME SnapInv PROVE TypeOK
  OBVIOUS
<1>1. ASSUME file.exists
      PROVE  file.units \in UNION {[1 .. k -> Value] : k \in 0 .. Total}
  <2>1. Len(file.units) \in Nat /\ file.units \in [1 .. Len(file.units) -> Value]
    BY <1>1, LenProperties DEF SnapInv, FileIsSaved
  <2>2. Len(file.units) \in 0 .. Total
    BY <1>1, <2>1, TotalPositive DEF SnapInv, FileIsSaved
  <2> QED BY <2>1, <2>2
<1> QED BY <1>1 DEF SnapInv, StatesTyped, LastTyped, TypeOK

(* The states stay states, and the file a sequence of at most as many      *)
(* units as a state has, whenever a save was cut short.                    *)
THEOREM SnapshotTyped == Spec => []TypeOK
BY StartInv, StepInv, Typed, PTL DEF Spec

(* Whatever saves were cut short, killed or reported as failed before it,  *)
(* restore_arch_snapshot returning true means that the machine has exactly *)
(* the state of the last save that opened the file.                        *)
THEOREM RestoredIsSaved == Spec => []RestoreExact
<1>1. SnapInv => RestoreExact
  BY DEF SnapInv
<1> QED BY <1>1, StartInv, StepInv, PTL DEF Spec

(* When it returns false the machine has a proper first part of that state *)
(* and the rest of its own, never a part of an older save.                 *)
THEOREM FailedRestorePrefix == Spec => []FailedRestoreIsPrefix
<1>1. SnapInv => FailedRestoreIsPrefix
  BY DEF SnapInv
<1> QED BY <1>1, StartInv, StepInv, PTL DEF Spec
=============================================================================
