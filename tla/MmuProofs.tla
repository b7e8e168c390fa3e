----------------------------- MODULE MmuProofs -----------------------------
(***************************************************************************)
(* The walker answers with the translation of the address it took: proved  *)
(* for page tables of any size and content, inputs that change at every    *)
(* edge and walks of every length.                                         *)
(***************************************************************************)
EXTENDS MmuFetch, TLAPS

(* What is left of a translation when entry p has been read at level l.    *)
At(l, p, a) == IF l = 2 THEN At2(p, a) ELSE IF l = 1 THEN At1(p, a) ELSE At0(p, a)

Entry(ppn) == tables[ppn][VpnAt(v_addr_reg, level)]

Walking ==
  /\ current_state \in {"idle", "fetch", "check", "done"}
  /\ level \in Level
  /\ mmu_o_valid_reg => current_state = "idle"

(* The entry in hand is on the path of the translation in progress.        *)
OnPath ==
  LET translation == Translation(root, v_addr_reg)
  IN  /\ current_state = "check" => translation = At(level, current_pte, v_addr_reg)
      /\ current_state = "fetch" =>
           translation = At(level, Entry(current_pte.ppn), v_addr_reg)

WalkInv == Walking /\ OnPath /\ AnswerCorrect

LEMMA StartOnPath == Init => WalkInv
BY DEF Init, WalkInv, Walking, OnPath, AnswerCorrect, Level

(* The tables do not change, so neither does the translation of an address *)
(* that stays.                                                             *)
LEMMA TranslationStays ==
  ASSUME UNCHANGED <<tables, root, v_addr_reg>>
  PROVE  Translation(root, v_addr_reg)' = Translation(root, v_addr_reg)
BY DEF Translation, At2, At1, At0

LEMMA StepOnPath ==
  ASSUME WalkInv, Walk, UNCHANGED tables
  PROVE  WalkInv'
<1> USE DEF WalkInv, Walking
<1>1. CASE Idle
  <2>1. Translation(root, v_addr_reg)' = Translation(root, v_addr_reg)
    BY <1>1, TranslationStays DEF Idle
  <2> QED BY <1>1, <2>1 DEF Idle, OnPath, AnswerCorrect
<1>2. CASE Accept
  <2>1. OnPath'
    BY <1>2 DEF Accept, OnPath, Translation, At, At2, At1, At0
  <2> QED BY <1>2, <2>1 DEF Accept, AnswerCorrect, Level
<1>3. CASE FetchPte
  <2>1. Translation(root, v_addr_reg)' = Translation(root, v_addr_reg)
    BY <1>3, TranslationStays DEF FetchPte
  <2>2. Translation(root, v_addr_reg) = At(level, Entry(current_pte.ppn), v_addr_reg)
    BY <1>3 DEF FetchPte, OnPath
  <2>3. At(level, current_pte, v_addr_reg)' = At(level, Entry(current_pte.ppn), v_addr_reg)
    BY <1>3 DEF FetchPte, At, Entry, At2, At1, At0
  <2> QED BY <1>3, <2>1, <2>2, <2>3 DEF FetchPte, OnPath, AnswerCorrect
<1>4. CASE Descend
  <2>1. Translation(root, v_addr_reg)' = Translation(root, v_addr_reg)
    BY <1>4, TranslationStays DEF Descend
  <2>2. Translation(root, v_addr_reg) = At(level, current_pte, v_addr_reg)
    BY <1>4 DEF Descend, OnPath
  <2>3. level' = level - 1 /\ level \in {1, 2} /\ level' \in Level
    BY <1>4 DEF Descend, Lower, Level
  <2>4. At(level, current_pte, v_addr_reg)
          = At(level, Entry(current_pte.ppn), v_addr_reg)'
    <3>1. CASE level = 2
      BY <3>1, <2>3, <1>4 DEF Descend, At, At2, At1, At0, Entry
    <3>2. CASE level = 1
      BY <3>2, <2>3, <1>4 DEF Descend, At, At1, At0, Entry
    <3> QED BY <3>1, <3>2, <2>3
  <2> QED BY <1>4, <2>1, <2>2, <2>3, <2>4 DEF Descend, OnPath, AnswerCorrect
<1>5. CASE Finish
  <2>1. Translation(root, v_addr_reg)' = Translation(root, v_addr_reg)
    BY <1>5, TranslationStays DEF Finish
  <2>2. Translation(root, v_addr_reg) = At(level, current_pte, v_addr_reg)
    BY <1>5 DEF Finish, OnPath
  <2>3. At(level, current_pte, v_addr_reg) = mmu_o_pa_reg'
    <3>1. CASE level = 2
      BY <3>1, <1>5 DEF Finish, At, At2
    <3>2. CASE level = 1
      BY <3>2, <1>5 DEF Finish, At, At1
    <3>3. CASE level = 0
      BY <3>3, <1>5 DEF Finish, At, At0
    <3> QED BY <3>1, <3>2, <3>3 DEF Level
  <2> QED BY <1>5, <2>1, <2>2, <2>3 DEF Finish, OnPath, AnswerCorrect
<1>6. CASE Answer
  <2>1. Translation(root, v_addr_reg)' = Translation(root, v_addr_reg)
    BY <1>6, TranslationStays DEF Answer
  <2> QED BY <1>6, <2>1 DEF Answer, OnPath, AnswerCorrect
<1> QED BY <1>1, <1>2, <1>3, <1>4, <1>5, <1>6 DEF Walk

LEMMA StutterOnPath ==
  ASSUME WalkInv, UNCHANGED vars
  PROVE  WalkInv'
BY TranslationStays
   DEF WalkInv, Walking, OnPath, AnswerCorrect, vars, inputs, walker,
       At, At2, At1, At0, Entry

(* Whatever the page tables hold and however the address, its valid signal *)
(* and satp change during the walk, an answer of the walker is the         *)
(* translation of the address it took, from the root it started at.        *)
THEOREM WalkerCorrect == Spec => []AnswerCorrect
<1>1. Init => WalkInv
  BY StartOnPath
<1>2. WalkInv /\ [Next]_vars => WalkInv'
  <2>1. ASSUME WalkInv, Next PROVE WalkInv'
    BY <2>1, StepOnPath DEF Next
  <2> QED BY <2>1, StutterOnPath
<1>3. WalkInv => AnswerCorrect
  BY DEF WalkInv
<1> QED BY <1>1, <1>2, <1>3, PTL DEF Spec

(* The same of the walker under the pc and fetch stages.                   *)
THEOREM FetchAnswers == FetchSpec => []AnswerCorrect
<1>1. FetchInit => WalkInv
  BY StartOnPath DEF FetchInit
<1>2. WalkInv /\ [FetchNext]_vars => WalkInv'
  <2>1. ASSUME WalkInv, FetchNext PROVE WalkInv'
    BY <2>1, StepOnPath DEF FetchNext
  <2> QED BY <2>1, StutterOnPath
<1>3. WalkInv => AnswerCorrect
  BY DEF WalkInv
<1> QED BY <1>1, <1>2, <1>3, PTL DEF FetchSpec
-----------------------------------------------------------------------------
(* Sizes are positive and addresses natural, so that a page number is an   *)
(* index of a table and a physical address is no negative number.          *)

LEMMA SpanPositive == ASSUME NEW l \in Level PROVE Span(l) \in Nat \ {0}
<1>1. /\ PageSize * TableSize \in Nat \ {0}
      /\ PageSize * TableSize * TableSize \in Nat \ {0}
  BY SizesAssumption
<1> QED BY <1>1, SizesAssumption DEF Span, Level

LEMMA QuotientNat ==
  ASSUME NEW a \in Nat, NEW s \in Nat \ {0}
  PROVE  a \div s \in Nat /\ a % s \in 0 .. s - 1
OBVIOUS

LEMMA VpnInTable ==
  ASSUME NEW a \in Nat, NEW l \in Level
  PROVE  VpnAt(a, l) \in Vpn
<1>1. a \div Span(l) \in Nat
  BY SpanPositive, QuotientNat
<1> QED BY <1>1, SizesAssumption, QuotientNat DEF VpnAt, Vpn

LEMMA PhysicalNat ==
  ASSUME NEW p \in Pte, NEW a \in Nat, NEW l \in Level
  PROVE  Physical(p, a, l) \in Nat
<1>1. p.ppn * PageSize \in Nat
  <2>1. p.ppn \in Nat
    BY PpnAssumption DEF Pte
  <2> QED BY <2>1, SizesAssumption
<1>2. Span(l) \in Nat \ {0}
  BY SpanPositive
<1>3. (p.ppn * PageSize) \div Span(l) \in Nat /\ a % Span(l) \in Nat
  BY <1>1, <1>2, QuotientNat
<1>4. ((p.ppn * PageSize) \div Span(l)) * Span(l) \in Nat
  BY <1>2, <1>3
<1> QED BY <1>3, <1>4 DEF Physical

LEMMA StartTyped == Init => TypeOK
<1> SUFFICES ASSUME Init PROVE TypeOK
  OBVIOUS
<1>1. tables \in [Ppn -> [Vpn -> Pte]] /\ satp \in [on : BOOLEAN, ppn : Ppn]
  BY TablesAssumption, SatpAssumption DEF Init
<1>2. ZeroPte \in Pte /\ 0 \in Ppn
  BY PpnAssumption DEF Pte, ZeroPte
<1>3. level \in Level /\ mmu_o_pa_reg \in Nat /\ v_addr_reg = 0
  BY DEF Init, Level
<1>4. current_pte \in Pte /\ root \in Ppn
  BY <1>2 DEF Init
<1> QED BY <1>1, <1>3, <1>4 DEF Init, TypeOK

(* An edge of the walker, whatever the client drives.                      *)
LEMMA StepTyped ==
  ASSUME TypeOK, Walk, UNCHANGED tables,
         va' \in Va, va_i_valid' \in BOOLEAN, satp' \in Satp
  PROVE  TypeOK'
<1> USE DEF TypeOK
<1>1. satp' \in [on : BOOLEAN, ppn : Ppn]
  BY SatpAssumption
<1>2. va \in Nat /\ v_addr_reg \in Nat
  BY VaAssumption
<1>3. ASSUME NEW t \in Ppn, NEW a \in Nat, NEW l \in Level
      PROVE  tables[t][VpnAt(a, l)] \in Pte
  BY <1>3, VpnInTable
<1>4. CASE Idle
  BY <1>1, <1>4 DEF Idle
<1>5. CASE Accept
  <2>1. tables[satp.ppn][VpnAt(va, 2)] \in Pte
    BY <1>2, <1>3 DEF Level
  <2>2. satp.ppn \in Ppn
    OBVIOUS
  <2>3. level' \in Level
    BY <1>5 DEF Accept, Level
  <2>4. current_pte' \in Pte /\ root' \in Ppn
    BY <1>5, <2>1, <2>2 DEF Accept
  <2> QED BY <1>1, <1>5, <2>3, <2>4 DEF Accept
<1>6. CASE FetchPte
  <2>1. tables[current_pte.ppn][VpnAt(v_addr_reg, level)] \in Pte
    BY <1>2, <1>3 DEF Pte
  <2> QED BY <1>1, <1>6, <2>1 DEF FetchPte
<1>7. CASE Descend
  BY <1>1, <1>7 DEF Descend, Lower, Level
<1>8. CASE Finish
  <2>1. Physical(current_pte, v_addr_reg, level) \in Nat
    BY <1>2, PhysicalNat
  <2> QED BY <1>1, <1>8, <2>1 DEF Finish
<1>9. CASE Answer
  BY <1>1, <1>9 DEF Answer
<1> QED BY <1>4, <1>5, <1>6, <1>7, <1>8, <1>9 DEF Walk

(* Every register of the walker keeps its range under any client: each     *)
(* page number is an index of a table, and an answer is Fault or a         *)
(* physical address.                                                       *)
THEOREM WalkerTyped == Spec => []TypeOK
<1>1. TypeOK /\ [Next]_vars => TypeOK'
  <2>1. ASSUME TypeOK, Next PROVE TypeOK'
    BY <2>1, StepTyped DEF Next
  <2>2. ASSUME TypeOK, UNCHANGED vars PROVE TypeOK'
    BY <2>2 DEF TypeOK, vars, inputs, walker
  <2> QED BY <2>1, <2>2
<1> QED BY <1>1, StartTyped, PTL DEF Spec

(* The same under the pc and fetch stages, whose pc stays an address.      *)
THEOREM FetchTyped == FetchSpec => []TypeOK
<1>1. FetchInit => TypeOK
  BY StartTyped DEF FetchInit
<1>2. TypeOK /\ [FetchNext]_vars => TypeOK'
  <2>1. ASSUME TypeOK, FetchNext PROVE TypeOK'
    <3>1. va' \in Va /\ va_i_valid' \in BOOLEAN
      BY <2>1 DEF TypeOK, FetchNext, PcEdge, pc, pc_valid
    <3> QED BY <2>1, <3>1, StepTyped DEF FetchNext
  <2>2. ASSUME TypeOK, UNCHANGED vars PROVE TypeOK'
    BY <2>2 DEF TypeOK, vars, inputs, walker
  <2> QED BY <2>1, <2>2
<1> QED BY <1>1, <1>2, PTL DEF FetchSpec
=============================================================================
