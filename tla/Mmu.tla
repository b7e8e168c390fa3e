-------------------------------- MODULE Mmu --------------------------------
(***************************************************************************)
(* The page-table walker mmu.v of the ready-valid core: a state machine    *)
(* that takes a virtual address, reads one page-table entry per level      *)
(* through dpi_mem_read and answers with a physical address.               *)
(*                                                                         *)
(* One step is one rising edge of clk.  The client's address, its valid    *)
(* signal and satp may change at every edge.  An address is a number: a    *)
(* virtual one has a page offset and three page numbers of the table size, *)
(* whatever is above them is ignored.  An entry has the bits the walker    *)
(* looks at; a table outside memory reads as zeroes, an entry not valid.   *)
(***************************************************************************)
EXTENDS Integers

CONSTANTS
  PageSize,    \* 2^12
  TableSize,   \* 2^9, the entries of a table
  Va,          \* the virtual addresses
  Ppn,         \* the physical page numbers
  Fault,       \* 64'hFFFF_FFFF_FFFF_FFFF, which is no physical address
  Satp,        \* the values of satp: [on, ppn]
  Tables       \* the page tables considered

Vpn   == 0 .. TableSize - 1
Level == 0 .. 2
Pte   == [v : BOOLEAN, r : BOOLEAN, w : BOOLEAN, x : BOOLEAN, ppn : Ppn]

ASSUME SizesAssumption == PageSize \in Nat \ {0} /\ TableSize \in Nat \ {0}
ASSUME VaAssumption == Va \subseteq Nat /\ Va # {}
ASSUME PpnAssumption == Ppn \subseteq Nat /\ 0 \in Ppn /\ Fault \notin Nat
ASSUME SatpAssumption == Satp \subseteq [on : BOOLEAN, ppn : Ppn]
ASSUME TablesAssumption == Tables \subseteq [Ppn -> [Vpn -> Pte]]

VARIABLES
  tables,          \* the page tables; they do not change during a walk
  va, va_i_valid, satp,      \* the inputs
  current_state, level, current_pte, v_addr_reg,
  mmu_o_pa_reg, mmu_o_valid_reg, mmu_o_ready_reg,
  root             \* history: the table the walk started from

inputs == <<va, va_i_valid, satp>>
walker == <<current_state, level, current_pte, v_addr_reg,
            mmu_o_pa_reg, mmu_o_valid_reg, mmu_o_ready_reg, root>>
vars   == <<tables, inputs, walker>>

ZeroPte == [v |-> FALSE, r |-> FALSE, w |-> FALSE, x |-> FALSE, ppn |-> 0]

TypeOK ==
  /\ tables \in [Ppn -> [Vpn -> Pte]]
  /\ va \in Va /\ va_i_valid \in BOOLEAN /\ satp \in [on : BOOLEAN, ppn : Ppn]
  /\ current_state \in {"idle", "fetch", "check", "done"}
  /\ level \in Level
  /\ current_pte \in Pte
  /\ v_addr_reg \in Va \cup {0}
  /\ mmu_o_pa_reg \in Nat \cup {Fault}
  /\ mmu_o_valid_reg \in BOOLEAN /\ mmu_o_ready_reg \in BOOLEAN
  /\ root \in Ppn

-----------------------------------------------------------------------------
(* The bytes below a page of level l, and the page number there.           *)

Span(l) == CASE l = 0 -> PageSize
             [] l = 1 -> PageSize * TableSize
             [] OTHER -> PageSize * TableSize * TableSize

VpnAt(a, l) == (a \div Span(l)) % TableSize

(* The upper part of the entry's page number, the rest from the address.   *)
Physical(p, a, l) == ((p.ppn * PageSize) \div Span(l)) * Span(l) + (a % Span(l))

Bad(p)  == ~p.v \/ (~p.r /\ p.w)
Leaf(p) == p.r \/ p.w \/ p.x

translation_en == satp.on

mmu_o_pa    == IF va_i_valid /\ ~translation_en THEN va ELSE mmu_o_pa_reg
mmu_o_valid == (va_i_valid /\ ~translation_en) \/ mmu_o_valid_reg
mmu_o_ready == ~translation_en \/ mmu_o_ready_reg

-----------------------------------------------------------------------------
Init ==
  /\ tables \in Tables
  /\ va \in Va /\ va_i_valid \in BOOLEAN /\ satp \in Satp
  /\ current_state = "idle"
  /\ level = 2
  /\ current_pte = ZeroPte
  /\ v_addr_reg = 0
  /\ mmu_o_pa_reg = 0
  /\ mmu_o_valid_reg = FALSE
  /\ mmu_o_ready_reg = TRUE
  /\ root = 0

(* STATE_IDLE.                                                             *)
Accepts == va_i_valid /\ translation_en /\ mmu_o_ready_reg

Idle ==
  /\ current_state = "idle" /\ ~Accepts
  /\ mmu_o_valid_reg' = FALSE
  /\ UNCHANGED <<current_state, level, current_pte, v_addr_reg, mmu_o_pa_reg,
                 mmu_o_ready_reg, root>>

Accept ==
  /\ current_state = "idle" /\ Accepts
  /\ mmu_o_valid_reg' = FALSE
  /\ mmu_o_ready_reg' = FALSE
  /\ v_addr_reg' = va
  /\ level' = 2
  /\ current_pte' = tables[satp.ppn][VpnAt(va, 2)]
  /\ current_state' = "check"
  /\ root' = satp.ppn
  /\ UNCHANGED mmu_o_pa_reg

(* Mutant: the next table is indexed by the address on the input.          *)
MutFetchPte ==
  /\ current_state = "fetch"
  /\ current_pte' = tables[current_pte.ppn][VpnAt(va, level)]
  /\ current_state' = "check"
  /\ UNCHANGED <<level, v_addr_reg, mmu_o_pa_reg, mmu_o_valid_reg,
                 mmu_o_ready_reg, root>>

(* STATE_FETCH_PTE.                                                        *)
FetchPte ==
  /\ current_state = "fetch"
  /\ current_pte' = tables[current_pte.ppn][VpnAt(v_addr_reg, level)]
  /\ current_state' = "check"
  /\ UNCHANGED <<level, v_addr_reg, mmu_o_pa_reg, mmu_o_valid_reg,
                 mmu_o_ready_reg, root>>

(* Mutant: the level stays what it was.                                    *)
MutLower(l) == IF l = 1 THEN 1 ELSE l - 1

Lower(l) == l - 1

(* Mutant: the walk goes on below the last level.                          *)
MutDescend ==
  /\ current_state = "check"
  /\ ~Bad(current_pte) /\ ~Leaf(current_pte)
  /\ level' = Lower(level)
  /\ current_state' = "fetch"
  /\ UNCHANGED <<current_pte, v_addr_reg, mmu_o_pa_reg, mmu_o_valid_reg,
                 mmu_o_ready_reg, root>>

(* STATE_CHECK_PTE: the walk goes down a level, ends at a page or fails.   *)
Descend ==
  /\ current_state = "check"
  /\ ~Bad(current_pte) /\ ~Leaf(current_pte) /\ level # 0
  /\ level' = Lower(level)
  /\ current_state' = "fetch"
  /\ UNCHANGED <<current_pte, v_addr_reg, mmu_o_pa_reg, mmu_o_valid_reg,
                 mmu_o_ready_reg, root>>

Finish ==
  /\ current_state = "check"
  /\ Bad(current_pte) \/ Leaf(current_pte) \/ level = 0
  /\ mmu_o_pa_reg' = IF ~Bad(current_pte) /\ Leaf(current_pte)
                     THEN Physical(current_pte, v_addr_reg, level) ELSE Fault
  /\ current_state' = "done"
  /\ UNCHANGED <<level, current_pte, v_addr_reg, mmu_o_valid_reg,
                 mmu_o_ready_reg, root>>

(* STATE_DONE.                                                             *)
Answer ==
  /\ current_state = "done"
  /\ mmu_o_valid_reg' = TRUE
  /\ mmu_o_ready_reg' = TRUE
  /\ current_state' = "idle"
  /\ UNCHANGED <<level, current_pte, v_addr_reg, mmu_o_pa_reg, root>>

(* One rising edge of clk.                                                 *)
Walk == Idle \/ Accept \/ FetchPte \/ Descend \/ Finish \/ Answer

(* The client and the CSR file are free to drive anything.                 *)
Next ==
  /\ Walk
  /\ va' \in Va /\ va_i_valid' \in BOOLEAN /\ satp' \in Satp
  /\ UNCHANGED tables

Spec == Init /\ [][Next]_vars

-----------------------------------------------------------------------------
(* What an address translates to.                                          *)

At0(p, a) == IF ~Bad(p) /\ Leaf(p) THEN Physical(p, a, 0) ELSE Fault

At1(p, a) ==
  IF Bad(p) THEN Fault
  ELSE IF Leaf(p) THEN Physical(p, a, 1)
  ELSE At0(tables[p.ppn][VpnAt(a, 0)], a)

At2(p, a) ==
  IF Bad(p) THEN Fault
  ELSE IF Leaf(p) THEN Physical(p, a, 2)
  ELSE At1(tables[p.ppn][VpnAt(a, 1)], a)

Translation(table, a) == At2(tables[table][VpnAt(a, 2)], a)

(* Whatever its inputs did meanwhile, the walker answers with the          *)
(* translation, from the table it started from, of the address it took.    *)
AnswerCorrect ==
  current_state = "done" \/ mmu_o_valid_reg =>
    mmu_o_pa_reg = Translation(root, v_addr_reg)

(* Every walk ends with an answer, in tables that point back at themselves *)
(* too.                                                                    *)
WalkEnds == ~mmu_o_ready_reg ~> mmu_o_valid_reg
=============================================================================
