---------------------------- MODULE ItraceProofs ----------------------------
(***************************************************************************)
(* The trace ring implements Recent, for every size of the ring and every  *)
(* set of instructions.  The inductive invariant is TypeOK: where the ring *)
(* starts and how many entries it shows follow from itrace_ptr and         *)
(* pool_full alone.                                                        *)
(***************************************************************************)
EXTENDS Itrace, SequenceTheorems, TLAPS

(* A remainder is at most one subtraction here.                            *)
LEMMA Modulo ==
  /\ \A m \in Int : 0 <= m /\ m < N => m % N = m
  /\ \A m \in Int : N <= m /\ m < N + N => m % N = m - N
BY NAssumption, Z3

LEMMA NextPtrIs ==
  ASSUME TypeOK
  PROVE  NextPtr = IF itrace_ptr = N - 1 THEN 0 ELSE itrace_ptr + 1
<1>1. itrace_ptr + 1 \in 0 .. N + N - 1
  BY NAssumption DEF TypeOK
<1>2. NextPtr = IF itrace_ptr + 1 < N THEN itrace_ptr + 1 ELSE itrace_ptr + 1 - N
  BY <1>1, Modulo, NAssumption DEF NextPtr, TypeOK
<1> QED
  BY <1>2, NAssumption DEF TypeOK

(* Slot of the k-th line.                                                  *)
LEMMA IndexIs ==
  ASSUME TypeOK, NEW k \in 1 .. Total
  PROVE  Index(k) = IF First + k - 1 < N THEN First + k - 1 ELSE First + k - 1 - N
<1>1. First + k - 1 \in 0 .. N + N - 1
  BY NAssumption DEF TypeOK, First, Total
<1> QED
  BY <1>1, Modulo, NAssumption DEF Index, First, Total, TypeOK

LEMMA LastIs ==
  ASSUME TypeOK
  PROVE  Last = IF itrace_ptr = 0 THEN N - 1 ELSE itrace_ptr - 1
<1>1. itrace_ptr + N - 1 \in 0 .. N + N - 1
  BY NAssumption DEF TypeOK
<1>2. Last = IF itrace_ptr + N - 1 < N THEN itrace_ptr + N - 1
             ELSE itrace_ptr + N - 1 - N
  BY <1>1, Modulo, NAssumption DEF Last, TypeOK
<1> QED
  BY <1>2, NAssumption DEF TypeOK

-----------------------------------------------------------------------------
LEMMA InitType == Init => TypeOK
BY NAssumption DEF Init, TypeOK

LEMMA StepType == TypeOK /\ [Next]_vars => TypeOK'
<1> SUFFICES ASSUME TypeOK, [Next]_vars PROVE TypeOK'
  OBVIOUS
<1>1. ASSUME NEW e \in Entry, Execute(e) PROVE TypeOK'
  <2>1. NextPtr \in 0 .. N - 1
    BY NextPtrIs, NAssumption DEF TypeOK
  <2> QED
    BY <1>1, <2>1 DEF Execute, InstrItrace, TypeOK
<1>2. CASE UNCHANGED vars
  BY <1>2 DEF vars, TypeOK
<1> QED
  BY <1>1, <1>2 DEF Next

(* The ring index stays inside the array.                                  *)
THEOREM RingSafe == Spec => []TypeOK
BY InitType, StepType, PTL DEF Spec

-----------------------------------------------------------------------------
(* What is displayed, without remainders.                                  *)
LEMMA ContentsIs ==
  TypeOK =>
    /\ Total \in 0 .. N
    /\ Contents = [k \in 1 .. Total |->
         itrace_pool[IF First + k - 1 < N THEN First + k - 1 ELSE First + k - 1 - N]]
    /\ Contents \in Seq(Entry \cup {Blank})
    /\ Len(Contents) = Total
<1> SUFFICES ASSUME TypeOK
             PROVE  /\ Total \in 0 .. N
                    /\ Contents = [k \in 1 .. Total |->
                         itrace_pool[IF First + k - 1 < N THEN First + k - 1
                                     ELSE First + k - 1 - N]]
                    /\ Contents \in Seq(Entry \cup {Blank})
                    /\ Len(Contents) = Total
  OBVIOUS
<1>1. Total \in 0 .. N
  BY NAssumption DEF TypeOK, Total
<1>2. \A k \in 1 .. Total : Index(k) \in 0 .. N - 1
  BY IndexIs, NAssumption DEF TypeOK, Total, First
<1>3. Contents \in [1 .. Total -> Entry \cup {Blank}]
  BY <1>2 DEF Contents, TypeOK
<1>4. Contents \in Seq(Entry \cup {Blank}) /\ Len(Contents) = Total
  BY <1>1, <1>3, NAssumption
<1> QED
  BY <1>1, <1>4, IndexIs DEF Contents

(* What is displayed after one more instruction.                           *)
LEMMA ContentsStep ==
  ASSUME TypeOK, NEW e \in Entry, InstrItrace(e), TypeOK'
  PROVE  Contents' = IF Len(Contents) < N THEN Append(Contents, e)
                     ELSE Append(Tail(Contents), e)
<1>1. N \in Nat \ {0} /\ itrace_ptr \in 0 .. N - 1 /\ Total \in 0 .. N
  BY NAssumption DEF TypeOK, Total
<1>2. Contents = [k \in 1 .. Total |->
        itrace_pool[IF First + k - 1 < N THEN First + k - 1 ELSE First + k - 1 - N]]
  BY ContentsIs
<1>3. Contents' = [k \in 1 .. Total' |->
        itrace_pool'[IF First' + k - 1 < N THEN First' + k - 1
                     ELSE First' + k - 1 - N]]
  <2>1. (TypeOK => Contents = [k \in 1 .. Total |->
          itrace_pool[IF First + k - 1 < N THEN First + k - 1
                      ELSE First + k - 1 - N]])'
    BY ContentsIs, PTL
  <2> QED
    BY <2>1
<1>4. /\ itrace_ptr' = (IF itrace_ptr = N - 1 THEN 0 ELSE itrace_ptr + 1)
      /\ pool_full' = (pool_full \/ itrace_ptr = N - 1)
      /\ itrace_pool' = [itrace_pool EXCEPT ![itrace_ptr] = e]
  BY NextPtrIs, <1>1 DEF InstrItrace
<1>5. Len(Contents) = Total /\ Contents \in Seq(Entry \cup {Blank})
  BY ContentsIs
<1>6. Contents' \in Seq(Entry \cup {Blank}) /\ Len(Contents') = Total'
  <2>1. (TypeOK => Contents \in Seq(Entry \cup {Blank}) /\ Len(Contents) = Total)'
    BY ContentsIs, PTL
  <2> QED
    BY <2>1
<1>7. CASE ~pool_full
  <2>1. Total = itrace_ptr /\ First = 0 /\ Total < N
    BY <1>1, <1>7 DEF Total, First
  <2>2. Total' = Total + 1 /\ First' = 0
    <3>1. CASE itrace_ptr = N - 1
      <4>1. pool_full' /\ itrace_ptr' = 0
        BY <1>4, <3>1
      <4> QED
        BY <1>1, <2>1, <3>1, <4>1 DEF Total, First
    <3>2. CASE itrace_ptr # N - 1
      BY <1>1, <1>4, <1>7, <2>1, <3>2 DEF Total, First
    <3> QED
      BY <3>1, <3>2
  <2> DEFINE s == Append(Contents, e)
  <2>3. /\ s \in Seq(Entry \cup {Blank}) /\ Len(s) = Total + 1
        /\ \A k \in 1 .. Total : s[k] = Contents[k]
        /\ s[Total + 1] = e
    BY <1>5, AppendProperties
  <2>4. \A k \in 1 .. Total + 1 : Contents'[k] = s[k]
    <3>1. \A k \in 1 .. Total : Contents'[k] = Contents[k]
      BY <1>1, <1>2, <1>3, <1>4, <2>1, <2>2 DEF TypeOK
    <3>2. Contents'[Total + 1] = e
      BY <1>1, <1>3, <1>4, <2>1, <2>2 DEF TypeOK
    <3> QED
      BY <1>1, <2>3, <3>1, <3>2
  <2> HIDE DEF s
  <2>5. Contents' = s
    BY <1>6, <2>2, <2>3, <2>4, SeqEqual
  <2> QED
    BY <1>5, <2>1, <2>5 DEF s
<1>8. CASE pool_full
  <2>1. Total = N /\ First = itrace_ptr
    BY <1>8 DEF Total, First
  <2>2. Total' = N /\ First' = itrace_ptr'
    BY <1>4, <1>8 DEF Total, First
  <2> DEFINE t == Tail(Contents)
             s == Append(t, e)
  <2>3. /\ t \in Seq(Entry \cup {Blank}) /\ Len(t) = N - 1
        /\ \A k \in 1 .. N - 1 : t[k] = Contents[k + 1]
    <3>1. Contents # << >>
      BY <1>1, <1>5, <2>1
    <3> QED
      BY <1>5, <2>1, <3>1, HeadTailProperties
  <2>4. /\ s \in Seq(Entry \cup {Blank}) /\ Len(s) = N
        /\ \A k \in 1 .. N - 1 : s[k] = Contents[k + 1]
        /\ s[N] = e
    <3> HIDE DEF t
    <3>1. /\ s \in Seq(Entry \cup {Blank}) /\ Len(s) = Len(t) + 1
          /\ \A k \in 1 .. Len(t) : s[k] = t[k]
          /\ s[Len(t) + 1] = e
      BY <2>3, AppendProperties
    <3> QED
      BY <1>1, <2>3, <3>1
  <2>5. \A k \in 1 .. N : Contents'[k] = s[k]
    <3> HIDE DEF s
    <3>1. \A k \in 1 .. N - 1 : Contents'[k] = Contents[k + 1]
      BY <1>1, <1>2, <1>3, <1>4, <2>1, <2>2 DEF TypeOK
    <3>2. Contents'[N] = e
      BY <1>1, <1>3, <1>4, <2>1, <2>2 DEF TypeOK
    <3>3. \A k \in 1 .. N : k \in 1 .. N - 1 \/ k = N
      BY <1>1
    <3> QED
      BY <2>4, <3>1, <3>2, <3>3
  <2> HIDE DEF s
  <2>6. Contents' = s
    BY <1>6, <2>2, <2>4, <2>5, SeqEqual
  <2> QED
    BY <1>1, <1>5, <2>1, <2>6 DEF s
<1> QED
  BY <1>7, <1>8 DEF TypeOK

(* The marked line is the last one.                                        *)
LEMMA DisplayIs == TypeOK => Display = LastN!Lines
<1> SUFFICES ASSUME TypeOK PROVE Display = LastN!Lines
  OBVIOUS
<1>1. Total \in 0 .. N /\ Len(Contents) = Total
  BY ContentsIs
<1>2. \A k \in 1 .. Total : Index(k) = Last <=> k = Total
  BY IndexIs, LastIs, NAssumption DEF Total, First, TypeOK
<1> QED
  BY <1>1, <1>2 DEF Display, LastN!Lines, Contents

LEMMA InitRefines == Init => LastN!Init
BY DEF Init, LastN!Init, Contents, Total

LEMMA StepRefines ==
  TypeOK /\ TypeOK' /\ [Next]_vars => [LastN!Next]_(LastN!vars)
<1> SUFFICES ASSUME TypeOK, TypeOK', [Next]_vars
             PROVE  [LastN!Next]_(LastN!vars)
  OBVIOUS
<1>1. ASSUME NEW e \in Entry, Execute(e) PROVE LastN!Execute(e)
  <2>1. (TypeOK => Display = LastN!Lines)'
    BY DisplayIs, PTL
  <2> QED
    BY <1>1, <2>1, ContentsStep DEF Execute, LastN!Execute
<1>2. CASE UNCHANGED vars
  BY <1>2 DEF vars, LastN!vars, Contents, Index, Total, First
<1> QED
  BY <1>1, <1>2 DEF Next, LastN!Next

(* Whatever the size of the ring and however often it has wrapped, the     *)
(* report shows the last instructions executed in their order, each once,  *)
(* and marks the last one.                                                 *)
THEOREM TraceRefines == Spec => ShowsTheLastInstructions
<1>1. Spec => []TypeOK
  BY RingSafe
<1> QED
  BY <1>1, InitRefines, StepRefines, PTL DEF Spec, ShowsTheLastInstructions, LastN!Spec
=============================================================================
