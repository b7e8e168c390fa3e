------------------------------ MODULE Difftest ------------------------------
(***************************************************************************)
(* The simulator of simulator/src around the core: the execute loop of     *)
(* exec.c, which toggles clk until an instruction is committed, and the    *)
(* differential test of difftest.c, which steps a reference simulator once *)
(* per committed instruction and compares it with the core.                *)
(*                                                                         *)
(* The reference is a shared library (Spike) and not part of the           *)
(* repository.  It is modelled by what difftest.c relies on: difftest_exec *)
(* executes one instruction of the RISC-V ISA, which differs from the      *)
(* core's own functions for amoswap and the other AMOs (both return the    *)
(* old memory word), for ecall (it traps) and for mret (it restores the    *)
(* interrupt fields of mstatus instead of clearing the register).          *)
(***************************************************************************)
EXTENDS PipelineCorrect

CONSTANTS
  Mmio,              \* the addresses is_mmio_address accepts
  mtvec,             \* the trap vector's CSR id
  cycle, timer,      \* the counter CSR ids
  instret,           \* the third one: the enumeration constant 0xc02
  MretMstatus(_)     \* what mret makes of mstatus, by the ISA

ASSUME MmioAssumption == Mmio \cap Addr = {} /\ UartLsr \in Mmio

ASSUME RefAssumption ==
  mtvec \in Csr /\ \A w \in Word : MretMstatus(w) \in Word

VARIABLES
  ref,      \* the reference simulator: [pc, regs, mem, csr]
  phase,    \* "run", then "exit" once sim_exit is called, then "gone"
  report,   \* the difference display_diff_error reported, or "none"
  agree     \* history: nothing has happened yet that the ISA does differently

harness == <<ref, phase, report>>

DiffInit ==
  /\ Init
  /\ ref = [pc |-> ResetPc, regs |-> InitRegs, mem |-> InitMem, csr |-> InitCsr]
  /\ phase = "run"
  /\ report = "none"
  /\ agree = TRUE

-----------------------------------------------------------------------------
(* difftest_exec(1) of the reference.                                      *)

RefExec(r) ==
  LET i   == Fetch(prog, r.pc)
      d1  == RegRead(r.regs, i.rs1)
      d2  == RegRead(r.regs, i.rs2)
      c1  == CsrRead(r.csr, CsrRid1(i))
      c2  == CsrRead(r.csr, CsrRid2(i))
      alu == AluResult(i, r.pc, d1, d2, c1)
      old == IF d1 \in Addr THEN r.mem[d1] ELSE 0
      wb  == CASE IsAmo(i)  -> old
               [] IsLoad(i) -> (IF alu \in Addr THEN r.mem[alu] ELSE 0)
               [] OTHER     -> WriteBackData(i, r.pc, alu, 0, c1)
  IN  [pc   |-> CASE i.op = "ecall"           -> r.csr[mtvec]
                  [] Redirects(i, d1, d2)     -> Target(i, alu, c2)
                  [] OTHER                    -> Wrap(r.pc + 4),
       regs |-> RegEffect(r.regs, i, wb),
       mem  |-> IF i.op = "amo" THEN MemWrite(r.mem, d1, Wrap(old + d2))
                ELSE MemEffect(r.mem, i, alu, d1, d2),
       csr  |-> CASE i.op = "ecall" -> [r.csr EXCEPT ![mepc] = r.pc]
                  [] IsMret(i)      -> [r.csr EXCEPT ![mstatus] = MretMstatus(@)]
                  [] OTHER          -> CsrEffect(r.csr, i, alu)]

(* Mutant: only stores to the MMIO range are special.                      *)
MutIsSpecial ==
  \/ IsCsr(regW.instr) /\ regW.instr.csr = timer
  \/ regW.instr.op = "store" /\ regW.alu \in Mmio

(* is_special_instr: reads of the timer, and loads and stores that the     *)
(* commit record places in the MMIO range.                                 *)
IsSpecial ==
  \/ IsCsr(regW.instr) /\ regW.instr.csr = timer
  \/ regW.instr.op \in {"load", "store"} /\ regW.alu \in Mmio

(* The condition of checkcsrs reads "id == cycle || id == timer ||         *)
(* instret": the last disjunct is a nonzero constant.                      *)
SkipCsr(c) == c = cycle \/ c = timer \/ instret # 0

(* checkregs, then checkcsrs, on the reference r and the core's registers  *)
(* and CSRs after the commit.  The first difference ends the simulation.   *)
Compare(r, gpr, dutCsr) ==
  IF regW.npc # r.pc THEN "pc"
  ELSE IF r.regs # gpr THEN "gpr"
  ELSE IF \E c \in Csr : ~SkipCsr(c) /\ r.csr[c] # dutCsr[c] THEN "csr"
  ELSE "none"

(* regcpy(DIFFTEST_TO_REF): the core's state stands in for the reference's.*)
Synced(r, gpr, dutCsr) ==
  IF IsSpecial THEN [r EXCEPT !.pc = regW.npc, !.regs = gpr, !.csr = dutCsr]
  ELSE r

-----------------------------------------------------------------------------
(* What the core computes for these differs from the ISA (see RefExec).    *)
Differs == {"amo", "amoswap", "ecall", "mret"}

(* One cycle of the core; agree ends with an open hazard, or with an       *)
(* instruction of Differs in regE, where no wrong path reaches.            *)
Cycle ==
  /\ Edge
  /\ agree' = (agree /\ HazardFree /\ regE.instr.op \notin Differs)

(* while(dut.commit != 1) npc_single_cycle();                              *)
Wait ==
  /\ phase = "run"
  /\ ~regW.valid
  /\ Cycle
  /\ UNCHANGED harness

(* check_ebreak finds an ebreak committed and calls sim_exit.              *)
CheckEbreak ==
  /\ phase = "run"
  /\ Halted
  /\ phase' = "exit"
  /\ UNCHANGED <<vars, ref, report, agree>>

(* An instruction is committed: one more cycle writes it back, the core's  *)
(* registers are copied and difftest_step runs.                            *)
DifftestStep ==
  /\ phase = "run"
  /\ regW.valid /\ ~Halted
  /\ Cycle
  /\ ref' = Synced(RefExec(ref), regs', csr')
  /\ report' = Compare(ref', regs', csr')
  /\ phase' = IF report' = "none" THEN "run" ELSE "exit"

(* sim_exit: one more cycle, then exit(1).                                 *)
SimExit ==
  /\ phase = "exit"
  /\ Cycle
  /\ phase' = "gone"
  /\ UNCHANGED <<ref, report>>

DiffNext == Wait \/ CheckEbreak \/ DifftestStep \/ SimExit

diffvars == <<vars, harness, agree>>

DiffSpec == DiffInit /\ [][DiffNext]_diffvars /\ WF_diffvars(DiffNext)

-----------------------------------------------------------------------------
DiffTypeOK ==
  /\ TypeOK
  /\ ref \in [pc : Word, regs : [Reg -> Word], mem : [Addr -> Word],
              csr : [Csr -> Word]]
  /\ phase \in {"run", "exit", "gone"}
  /\ report \in {"none", "pc", "gpr", "csr"}
  /\ agree \in BOOLEAN

(* The differential test raises no false alarm: as long as the core has    *)
(* met no open hazard and has executed only what the ISA defines as the    *)
(* core does, checkregs finds neither pc nor register to differ, devices   *)
(* included.                                                               *)
NoFalseAlarm == agree => report = "none"

(* checkregs never finds the pc of the reference elsewhere than where the  *)
(* core's commit record says it goes next.                                 *)
NoPcReport == report # "pc"

(* Between two commits the reference stands exactly where the core's       *)
(* written-back state stands, memory and CSRs included, which no check     *)
(* compares.  The core writes memory one stage before it commits, so a     *)
(* store in regW is already in memory while the reference has yet to       *)
(* execute it.                                                             *)
Lockstep ==
  agree /\ phase = "run" =>
    /\ ref.regs = regs
    /\ ref.csr = csr
    /\ ref.pc = IF regW.valid THEN regW.pc ELSE ArchPc
    /\ mem = IF regW.valid THEN RefExec(ref).mem ELSE ref.mem

(* The simulator always comes to an end on a program that does not loop:   *)
(* the core never stalls for good, so execute never spins forever in       *)
(* while(dut.commit != 1), and either an ebreak or a report stops it.      *)
SimulationEnds == <>(phase = "gone")
=============================================================================
