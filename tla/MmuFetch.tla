------------------------------ MODULE MmuFetch ------------------------------
(***************************************************************************)
(* The instruction fetch with translation, mmu_fetch.v (new_fetch) and     *)
(* mmu_pc.v (new_pc), around the walker.  va is the pc register and        *)
(* va_i_valid its pc_valid.  The rest of the pipeline is free: at every    *)
(* edge it may stall, refuse the instruction, redirect the pc or write     *)
(* satp.                                                                   *)
(***************************************************************************)
EXTENDS Mmu

CONSTANTS ResetPc,
          InstrBytes,   \* 4
          VaSize        \* 2^64, where the pc wraps

ASSUME FetchAssumption ==
  /\ ResetPc \in Va /\ InstrBytes \in Nat /\ VaSize \in Nat \ {0}
  /\ \A a \in Va : (a + InstrBytes) % VaSize \in Va

pc       == va
pc_valid == va_i_valid

fetch_o_ready_go == pc_valid /\ mmu_o_valid /\ mmu_o_ready
fetch_o_next_pc  == (pc + InstrBytes) % VaSize

FetchInit ==
  /\ Init
  /\ va = ResetPc
  /\ va_i_valid = FALSE

(* Mutant: the pc waits for an answer before its first instruction.        *)
MutAllowin(stall, allowin) == ~stall /\ fetch_o_ready_go /\ allowin

pc_o_allowin(stall, allowin) ==
  ~pc_valid \/ (~stall /\ fetch_o_ready_go /\ allowin)

PcEdge ==
  \E stall, allowin \in BOOLEAN, next_pc \in Va :
    IF pc_o_allowin(stall, allowin)
    THEN /\ va_i_valid' = TRUE
         /\ va' = IF pc_valid THEN next_pc ELSE pc
    ELSE UNCHANGED <<va, va_i_valid>>

FetchNext == Walk /\ PcEdge /\ satp' \in Satp /\ UNCHANGED tables

FetchSpec == FetchInit /\ [][FetchNext]_vars /\ WF_vars(FetchNext)

(* The fetch stage is never stuck: whatever the page tables hold, an       *)
(* instruction or a fault is always delivered again.                       *)
FetchGoesOn == []<>fetch_o_ready_go

(* The word delivered as the instruction at pc is read where pc            *)
(* translates to, at least as long as nobody writes satp.                  *)
FetchesAtPc ==
  fetch_o_ready_go /\ satp.on => mmu_o_pa = Translation(satp.ppn, pc)
=============================================================================
