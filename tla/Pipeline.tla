----------------------------- MODULE Pipeline -----------------------------
(***************************************************************************)
(* The five-stage in-order core of simulator/IP/rv64-pipeline-cpu-2026.    *)
(*                                                                         *)
(* The state is what the flip-flops hold between two clock edges: the pc   *)
(* (stage F), the pipeline registers regD, regE, regM and regW, and the    *)
(* register file, the memory behind the DPI calls and the CSR file.  One   *)
(* step is one rising edge of clk: every flip-flop takes its next value    *)
(* from the combinational logic of ctrl.v, decode.v, execute.v, memory.v   *)
(* and write_back.v, evaluated on the state before the edge.               *)
(*                                                                         *)
(* Each stage carries the commit_info of its instruction (valid, pc and    *)
(* next pc) beside what the stage computed; a flushed stage is not valid   *)
(* and holds the nop words of define.v.                                    *)
(***************************************************************************)
EXTENDS Rv64

CONSTANT Programs   \* the images considered

ASSUME ProgramsAssumption == Programs \subseteq [CodeAddr -> Instr]

VARIABLES
  prog,   \* the program in the image; it never changes
  pc,     \* pc.v
  regD,   \* [valid, pc, npc, instr]
  regE,   \* ... and regdata1, regdata2, csr_rdata1, csr_rdata2
  regM,   \* ... and alu_result
  regW,   \* ... and mem_rdata
  regs,   \* regfile.v
  mem,    \* what dpi_mem_read and dpi_mem_write reach
  csr     \* csrfile.v

vars == <<prog, pc, regD, regE, regM, regW, regs, mem, csr>>

StageD == [valid : BOOLEAN, pc : Word, npc : Word, instr : Instr]
StageE == [valid : BOOLEAN, pc : Word, npc : Word, instr : Instr,
           d1 : Word, d2 : Word, c1 : Word, c2 : Word]
StageM == [valid : BOOLEAN, pc : Word, npc : Word, instr : Instr,
           d1 : Word, d2 : Word, c1 : Word, alu : Word]
StageW == [valid : BOOLEAN, pc : Word, npc : Word, instr : Instr,
           c1 : Word, alu : Word, md : Word]

TypeOK ==
  /\ prog \in [CodeAddr -> Instr]
  /\ pc \in Word
  /\ regD \in StageD
  /\ regE \in StageE
  /\ regM \in StageM
  /\ regW \in StageW
  /\ regs \in [Reg -> Word]
  /\ mem \in [Addr -> Word]
  /\ csr \in [Csr -> Word]

BubbleD == [valid |-> FALSE, pc |-> 0, npc |-> 0, instr |-> NopInstr]
BubbleE == [valid |-> FALSE, pc |-> 0, npc |-> 0, instr |-> NoneInstr,
            d1 |-> 0, d2 |-> 0, c1 |-> 0, c2 |-> 0]
BubbleM == [valid |-> FALSE, pc |-> 0, npc |-> 0, instr |-> NoneInstr,
            d1 |-> 0, d2 |-> 0, c1 |-> 0, alu |-> 0]
BubbleW == [valid |-> FALSE, pc |-> 0, npc |-> 0, instr |-> NoneInstr,
            c1 |-> 0, alu |-> 0, md |-> 0]

(* The state after npc_reset has held rst for a cycle.                     *)
Init ==
  /\ prog \in Programs
  /\ pc = ResetPc
  /\ regD = BubbleD
  /\ regE = BubbleE
  /\ regM = BubbleM
  /\ regW = BubbleW
  /\ regs = InitRegs
  /\ mem = InitMem
  /\ csr = InitCsr

-----------------------------------------------------------------------------
(* execute.v: the outputs of the instruction in regE.                      *)

ExecuteAlu == AluResult(regE.instr, regE.pc, regE.d1, regE.d2, regE.c1)

BranchNeedJump == BranchJump(regE.instr, regE.d1, regE.d2)
MretNeedJump   == IsMret(regE.instr)
NeedJump       == BranchNeedJump \/ MretNeedJump
JumpPc         == Target(regE.instr, ExecuteAlu, regE.c2)

(* execute_o_commit_info: the jump target replaces the predicted next pc.  *)
ExecuteNpc == IF NeedJump THEN JumpPc ELSE regE.npc

(* memory.v and write_back.v: the outputs for regM and regW.               *)
MemoryData  == MemData(mem, regM.instr, regM.alu)
WriteData   == WriteBackData(regW.instr, regW.pc, regW.alu, regW.md, regW.c1)

-----------------------------------------------------------------------------
(* ctrl.v.                                                                 *)

(* Mutants: only the first source is compared with the load; any           *)
(* instruction in regE counts as a load.                                   *)
MutLoadUse    == IsLoad(regE.instr) /\ regE.instr.rd = regD.instr.rs1
MutLoadUseAny == regE.instr.rd \in {regD.instr.rs1, regD.instr.rs2}

LoadUse ==
  /\ IsLoad(regE.instr)
  /\ regE.instr.rd \in {regD.instr.rs1, regD.instr.rs2}

AmoInD == IsAmo(regD.instr)
AmoInE == IsAmo(regE.instr)
AmoInM == IsAmo(regM.instr)

(* Mutants: one term of a stall or of a bubble is missing.                 *)
MutFStallE == LoadUse \/ AmoInD \/ AmoInM
MutDBubbleBranch == MretNeedJump \/ AmoInD \/ AmoInE \/ AmoInM
MutDBubbleAmo == BranchNeedJump \/ MretNeedJump \/ AmoInD \/ AmoInM
MutEBubble == BranchNeedJump \/ MretNeedJump \/ AmoInE \/ AmoInM

FStall  == LoadUse \/ AmoInD \/ AmoInE \/ AmoInM
DStall  == LoadUse
DBubble == BranchNeedJump \/ MretNeedJump \/ AmoInD \/ AmoInE \/ AmoInM
EBubble == BranchNeedJump \/ MretNeedJump \/ LoadUse \/ AmoInE \/ AmoInM
MBubble == AmoInM

-----------------------------------------------------------------------------
(* decode.v: the value of a source register, taken from the youngest older *)
(* instruction that decode finds holding it, else from the register file.  *)
(* A csr, jal, jalr or amo in regM, and an amo in regW, match no selector  *)
(* and are passed over.                                                    *)

Holds(stage, r) ==
  stage.instr.rd # 0 /\ WritesReg(stage.instr) /\ stage.instr.rd = r

(* Mutant: the return address is not forwarded from regW.                  *)
MutForwardW(r) ==
  IF ~Holds(regW, r) THEN RegRead(regs, r)
  ELSE CASE IsAluResult(regW.instr) -> regW.alu
         [] IsLoad(regW.instr)      -> regW.md
         [] IsCsr(regW.instr)       -> regW.c1
         [] OTHER                   -> RegRead(regs, r)

ForwardW(r) ==
  IF ~Holds(regW, r) THEN RegRead(regs, r)
  ELSE CASE IsAluResult(regW.instr)           -> regW.alu
         [] IsLoad(regW.instr)                -> regW.md
         [] regW.instr.op \in {"jal", "jalr"} -> Wrap(regW.pc + 4)
         [] IsCsr(regW.instr)                 -> regW.c1
         [] OTHER                             -> RegRead(regs, r)

ForwardM(r) ==
  IF ~Holds(regM, r) THEN ForwardW(r)
  ELSE CASE IsAluResult(regM.instr) -> regM.alu
         [] IsLoad(regM.instr)      -> MemoryData
         [] OTHER                   -> ForwardW(r)

Forward(r) == IF Holds(regE, r) THEN ExecuteAlu ELSE ForwardM(r)

-----------------------------------------------------------------------------
(* The next value of each flip-flop at a rising edge.                      *)

PcEdge ==
  pc' = CASE FStall                       -> pc
          [] ~FStall /\ NeedJump          -> JumpPc
          [] OTHER                        -> Wrap(pc + 4)

(* What fetch.v, decode.v, execute.v and memory.v hand to the register     *)
(* behind them.                                                            *)
FetchOut == [valid |-> TRUE, pc |-> pc, npc |-> Wrap(pc + 4),
             instr |-> Fetch(prog, pc)]

DecodeOut ==
  [valid |-> regD.valid, pc |-> regD.pc, npc |-> regD.npc,
   instr |-> regD.instr,
   d1 |-> Forward(regD.instr.rs1), d2 |-> Forward(regD.instr.rs2),
   c1 |-> CsrRead(csr, CsrRid1(regD.instr)),
   c2 |-> CsrRead(csr, CsrRid2(regD.instr))]

ExecuteOut ==
  [valid |-> regE.valid, pc |-> regE.pc, npc |-> ExecuteNpc,
   instr |-> regE.instr, d1 |-> regE.d1, d2 |-> regE.d2, c1 |-> regE.c1,
   alu |-> ExecuteAlu]

MemoryOut ==
  [valid |-> regM.valid, pc |-> regM.pc, npc |-> regM.npc,
   instr |-> regM.instr, c1 |-> regM.c1, alu |-> regM.alu,
   md |-> MemoryData]

RegDEdge ==
  regD' = CASE DBubble            -> BubbleD
            [] ~DBubble /\ DStall -> regD
            [] OTHER              -> FetchOut

RegEEdge == regE' = IF EBubble THEN BubbleE ELSE DecodeOut
RegMEdge == regM' = IF MBubble THEN BubbleM ELSE ExecuteOut
RegWEdge == regW' = MemoryOut

(* One rising edge of clk.                                                 *)
Edge ==
  /\ PcEdge
  /\ RegDEdge
  /\ RegEEdge
  /\ RegMEdge
  /\ RegWEdge
  /\ regs' = RegEffect(regs, regW.instr, WriteData)
  /\ mem' = MemEffect(mem, regM.instr, regM.alu, regM.d1, regM.d2)
  /\ csr' = CsrEffect(csr, regW.instr, regW.alu)
  /\ UNCHANGED prog

(* exec.c leaves the simulation when it sees an ebreak committed.          *)
Halted == regW.valid /\ regW.instr.op = "ebreak"

Clock == ~Halted /\ Edge

Spec == Init /\ [][Clock]_vars
=============================================================================
