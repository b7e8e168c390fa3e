----------------------------- MODULE ReadyValid -----------------------------
(***************************************************************************)
(* The core of simulator/IP/rv64-pipeline-cpu-2026-ready-valid: the stages *)
(* and the ctrl.v of the 2026 core, with a handshake between them.  Each   *)
(* register has a valid bit of its own beside the one in commit_info, lets *)
(* the next instruction in when it is empty or passes its own on, and      *)
(* empties itself when the stage before it has none to pass.  regM and regW*)
(* have no flush: their bubble only keeps new data out.                    *)
(*                                                                         *)
(* The combinational logic is that of Pipeline; only the edges differ.     *)
(***************************************************************************)
EXTENDS PipelineCorrect

VARIABLES pc_valid, regD_valid, regE_valid, regM_valid, regW_valid

valids == <<pc_valid, regD_valid, regE_valid, regM_valid, regW_valid>>

RvInit ==
  /\ Init
  /\ pc_valid = FALSE /\ regD_valid = FALSE /\ regE_valid = FALSE
  /\ regM_valid = FALSE /\ regW_valid = FALSE

(* Mutant: the pc passes its instruction on while it stalls.               *)
MutPcReadyGo == TRUE

pc_ready_go   == ~FStall
regD_ready_go == ~DStall
ready_go      == TRUE     \* regE_ready_go, regM_ready_go and regW_ready_go

pc_o_valid   == pc_valid /\ pc_ready_go
regD_o_valid == regD_valid /\ regD_ready_go
regE_o_valid == regE_valid /\ ready_go
regM_o_valid == regM_valid /\ ready_go

regW_o_allowin == ~regW_valid \/ ready_go
regM_o_allowin == ~regM_valid \/ (ready_go /\ regW_o_allowin)
regE_o_allowin == ~regE_valid \/ (ready_go /\ regM_o_allowin)
regD_o_allowin == ~regD_valid \/ (regD_ready_go /\ regE_o_allowin)
pc_o_allowin   == ~pc_valid \/ (pc_ready_go /\ regD_o_allowin)

(* What a register holds after an edge, given what it holds, what it is    *)
(* offered and the nop words; and its valid bit.                           *)
Taken(reg, out, nop, allowin, valid, bubble) ==
  CASE allowin /\ ~valid            -> nop
    [] allowin /\ valid /\ ~bubble  -> out
    [] OTHER                        -> reg

TakenValid(bit, allowin, valid) == IF allowin THEN valid ELSE bit

RvPcEdge ==
  /\ pc_valid' = (pc_valid \/ pc_o_allowin)
  /\ pc' = CASE ~pc_o_allowin \/ ~pc_valid         -> pc
             [] pc_o_allowin /\ pc_valid /\ NeedJump -> JumpPc
             [] OTHER                                -> Wrap(pc + 4)

(* Mutant: the flush forgets the valid bit.                                *)
MutRvRegDEdge ==
  /\ regD_valid' = TakenValid(regD_valid, regD_o_allowin, pc_o_valid)
  /\ regD' = IF DBubble THEN BubbleD
             ELSE Taken(regD, FetchOut, BubbleD, regD_o_allowin, pc_o_valid, FALSE)

RvRegDEdge ==
  /\ regD_valid' = (~DBubble /\ TakenValid(regD_valid, regD_o_allowin, pc_o_valid))
  /\ regD' = IF DBubble THEN BubbleD
             ELSE Taken(regD, FetchOut, BubbleD, regD_o_allowin, pc_o_valid, FALSE)

RvRegEEdge ==
  /\ regE_valid' = (~EBubble /\ TakenValid(regE_valid, regE_o_allowin, regD_o_valid))
  /\ regE' = IF EBubble THEN BubbleE
             ELSE Taken(regE, DecodeOut, BubbleE, regE_o_allowin, regD_o_valid, FALSE)

RvRegMEdge ==
  /\ regM_valid' = TakenValid(regM_valid, regM_o_allowin, regE_o_valid)
  /\ regM' = Taken(regM, ExecuteOut, BubbleM, regM_o_allowin, regE_o_valid, MBubble)

RvRegWEdge ==
  /\ regW_valid' = TakenValid(regW_valid, regW_o_allowin, regM_o_valid)
  /\ regW' = Taken(regW, MemoryOut, BubbleW, regW_o_allowin, regM_o_valid, FALSE)

RvEdge ==
  /\ RvPcEdge
  /\ RvRegDEdge
  /\ RvRegEEdge
  /\ RvRegMEdge
  /\ RvRegWEdge
  /\ regs' = RegEffect(regs, regW.instr, WriteData)
  /\ mem' = MemEffect(mem, regM.instr, regM.alu, regM.d1, regM.d2)
  /\ csr' = CsrEffect(csr, regW.instr, regW.alu)
  /\ UNCHANGED prog

RvClock == HazardFree /\ ~Halted /\ RvEdge

rvvars == <<vars, valids>>

(* Up to the first edge that meets one of the hazards of Pipeline, which   *)
(* this core shares.                                                       *)
RvSpec == RvInit /\ [][RvClock]_rvvars /\ WF_rvvars(RvClock)

-----------------------------------------------------------------------------
(* The handshake and the commit record agree on which stages are occupied: *)
(* each register has the two bits written by different statements, the     *)
(* bubbles of regM and regW touch neither, and commit.v announces an       *)
(* instruction by the one that took no part in the handshake.              *)
ValidBitsAgree ==
  /\ regD_valid = regD.valid
  /\ regE_valid = regE.valid
  /\ regM_valid = regM.valid
  /\ regW_valid = regW.valid
  /\ pc_valid \/ ~(regD_valid \/ regE_valid \/ regM_valid \/ regW_valid)

(* The handshake never blocks for good: as long as the core meets none of  *)
(* the open hazards, it commits another instruction.                       *)
CommitsGoOn == []<>(regW.valid \/ ~HazardFree)
=============================================================================
