-------------------------- MODULE PipelineCorrect --------------------------
(***************************************************************************)
(* What the pipeline owes to software, and when it pays.                   *)
(*                                                                         *)
(* The architectural state at an edge is the state after every instruction *)
(* that has left the memory stage: regW's pending write back is already    *)
(* done, and the next instruction to execute is the oldest one still in    *)
(* regM, regE or regD, else the one at pc.  Under this mapping each edge   *)
(* at which a valid instruction leaves regM is one step of Isa, and every  *)
(* other edge is a stutter.                                                *)
(*                                                                         *)
(* ctrl.v and decode.v leave four hazards uncovered.  HazardFree says that *)
(* none of them is present; SafeSpec is the core up to the first edge that *)
(* would meet one.  Under SafeSpec the core implements Isa; under Spec it  *)
(* does not.                                                               *)
(***************************************************************************)
EXTENDS Pipeline

(* A jump in regE while an AMO sits on the wrong path in regD: the AMO's   *)
(* stall has priority over the jump in pc.v, and the jump is lost.         *)
LostJump == NeedJump /\ AmoInD

(* An AMO in regD that needs the result of the load in regE: regD is both  *)
(* stalled and flushed, the flush wins and the AMO is lost.                *)
LostAmo == LoadUse /\ AmoInD

(* The instruction in regD enters regE at this edge.                       *)
Advances == regD.valid /\ ~EBubble

UsesRs1(i) ==
  i.op \in {"alu_imm", "alu_reg", "load", "store", "beq", "bne", "jalr",
            "csrrw", "csrrs", "csrrc", "amoswap"}
UsesRs2(i) == i.op \in {"alu_reg", "store", "beq", "bne", "amoswap"}

Sources(i) ==
  {r \in Reg \ {0} : (UsesRs1(i) /\ r = i.rs1) \/ (UsesRs2(i) /\ r = i.rs2)}

Produces(i, r) == WritesReg(i) /\ i.rd = r

(* The result of a csr instruction is forwarded from regW only: from regE  *)
(* decode takes the new CSR value, in regM it is passed over.              *)
StaleCsrResult ==
  /\ Advances
  /\ \E r \in Sources(regD.instr) :
       \/ IsCsr(regE.instr) /\ Produces(regE.instr, r)
       \/ /\ ~Produces(regE.instr, r)
          /\ IsCsr(regM.instr) /\ Produces(regM.instr, r)

CsrSources(i) ==
  IF IsMret(i) THEN {mepc} ELSE IF IsCsr(i) THEN {i.csr} \cap Csr ELSE {}

(* A CSR is read in decode; a write of it is still on its way.             *)
StaleCsr ==
  /\ Advances
  /\ \E c \in CsrSources(regD.instr), s \in {regE.instr, regM.instr, regW.instr} :
       CsrWen(s) /\ CsrWid(s) = c

HazardFree == ~LostJump /\ ~LostAmo /\ ~StaleCsrResult /\ ~StaleCsr

SafeClock == HazardFree /\ Clock

SafeSpec == Init /\ [][SafeClock]_vars

-----------------------------------------------------------------------------
(* The refinement mapping.                                                 *)

(* The address of the oldest instruction among regE, regD and pc.          *)
PcBehindM == IF regE.valid THEN regE.pc ELSE IF regD.valid THEN regD.pc ELSE pc

ArchPc   == IF regM.valid THEN regM.pc ELSE PcBehindM
ArchRegs == RegEffect(regs, regW.instr, WriteData)
ArchCsr  == CsrEffect(csr, regW.instr, regW.alu)

Sequential == INSTANCE Isa WITH pc <- ArchPc, regs <- ArchRegs, csr <- ArchCsr

(* The core executes programs as the sequential machine does: whatever the *)
(* forwarding, stalls and flushes of ctrl.v and decode.v do, the registers,*)
(* memory and CSRs change as one instruction after another changes them,   *)
(* along the path the program takes.                                       *)
ImplementsIsa == Sequential!Spec

-----------------------------------------------------------------------------
(* No instruction is lost, repeated or executed on a wrong path: what a    *)
(* stage commits to as its next pc is where the next valid instruction     *)
(* behind it is, or where the pc register is fetching.  Behind a jump that *)
(* is being resolved in regE nothing is owed.  This is the chain of        *)
(* commit_next_pc and pc that difftest.c compares with the reference.      *)
CommitChain ==
  /\ regW.valid => regW.npc = ArchPc
  /\ regM.valid => regM.npc = PcBehindM
  /\ regE.valid /\ ~NeedJump => regE.npc = (IF regD.valid THEN regD.pc ELSE pc)
  /\ regD.valid => regD.npc = pc

(* An AMO travels alone: ctrl.v flushes and holds everything behind it     *)
(* until it has left regM, so no younger instruction reads its result      *)
(* before it is written back or touches memory between its read and its    *)
(* write.  decode.v relies on it: no selector forwards an AMO's result.    *)
AmoTravelsAlone ==
  /\ AmoInE => ~regD.valid
  /\ AmoInM => ~regD.valid /\ ~regE.valid
  /\ IsAmo(regW.instr) => ~regD.valid /\ ~regE.valid /\ ~regM.valid

(* A jump leaves nothing of its shadow behind: by the time it is in regM,  *)
(* the two instructions fetched after it are gone, and by the time it is   *)
(* in regW its target is no further than regD.  decode.v relies on it: it  *)
(* forwards the return address of jal and jalr from regW only.             *)
JumpShadowEmpty ==
  /\ regM.instr.op \in {"jal", "jalr", "mret"} => ~regE.valid /\ ~regD.valid
  /\ regW.instr.op \in {"jal", "jalr", "mret"} => ~regM.valid /\ ~regE.valid

(* The register file after the instructions in regW and regM.              *)
RegsAfterM ==
  RegEffect(ArchRegs, regM.instr,
            WriteBackData(regM.instr, regM.pc, regM.alu, MemoryData, regM.c1))

(* The operands an instruction carries in regE, read in decode while up to *)
(* three older instructions had not written back, are the values those     *)
(* instructions leave in its source registers.                             *)
OperandsFresh ==
  regE.valid =>
    /\ UsesRs1(regE.instr) => regE.d1 = RegRead(RegsAfterM, regE.instr.rs1)
    /\ UsesRs2(regE.instr) => regE.d2 = RegRead(RegsAfterM, regE.instr.rs2)

=============================================================================
