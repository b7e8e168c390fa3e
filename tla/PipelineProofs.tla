-------------------------- MODULE PipelineProofs --------------------------
(***************************************************************************)
(* Theorems about the two cores for every word size, register file, CSR     *)
(* set, memory and program.                                                *)
(*                                                                         *)
(* The first part types the operators of Rv64 and proves TypeOK, the       *)
(* second the invariants of ctrl.v: which stages may hold what at once.    *)
(* The third proves SafeSpec => Isa.  It follows an instruction down the   *)
(* pipeline.  In regE its operands are the values all older instructions   *)
(* leave (OperandsFresh): decode.v's forwarding is compared, stage by      *)
(* stage, with the writes still to come.  In regM they are the             *)
(* architectural values, and its result and next pc are those of the       *)
(* sequential machine (MFresh).  When it leaves regM the mapping takes     *)
(* exactly its step.                                                       *)
(*                                                                         *)
(* The fourth part proves the same of the core with the handshake, the     *)
(* fifth that the differential test around the first core neither misses   *)
(* its place nor raises a false alarm.                                     *)
(***************************************************************************)
EXTENDS ReadyValid, Difftest, TLAPS

(* Every 64-bit addition and subtraction stays a word.                     *)
LEMMA WrapType ==
  ASSUME NEW n \in Int
  PROVE  Wrap(n) \in Word
BY WordSizeAssumption, SMT DEF Wrap, Word

(* The nop words of define.v are instructions, and 0 is a word.            *)
LEMMA NopType == NopInstr \in Instr /\ NoneInstr \in Instr /\ 0 \in Word
BY WordSizeAssumption, NRegAssumption
   DEF NopInstr, NoneInstr, Instr, Op, Reg, Word, CsrId

(* Fetching from any address gives an instruction.                         *)
LEMMA FetchType ==
  ASSUME NEW q \in [CodeAddr -> Instr], NEW a \in Word
  PROVE  Fetch(q, a) \in Instr
BY NopType DEF Fetch

LEMMA RegReadType ==
  ASSUME NEW rf \in [Reg -> Word], NEW r \in Reg
  PROVE  RegRead(rf, r) \in Word
BY NopType DEF RegRead

LEMMA CsrReadType ==
  ASSUME NEW cf \in [Csr -> Word], NEW c
  PROVE  CsrRead(cf, c) \in Word
BY WordSizeAssumption DEF CsrRead, Word

LEMMA AluResultType ==
  ASSUME NEW i \in Instr, NEW a \in Word, NEW d1 \in Word, NEW d2 \in Word,
         NEW c1 \in Word
  PROVE  AluResult(i, a, d1, d2, c1) \in Word
<1>1. /\ i.imm \in Word
      /\ \A x, y \in Word : x + y \in Int /\ x - y \in Int
  BY DEF Instr, Word
<1>2. /\ Wrap(d1 + i.imm) \in Word
      /\ Wrap(d1 - d2) \in Word
      /\ Wrap(a + i.imm) \in Word
  BY <1>1, WrapType
<1>3. BitOr(c1, d1) \in Word /\ BitAndNot(c1, d1) \in Word /\ 0 \in Word
  BY BitOpsAssumption, NopType
<1> QED
  BY <1>1, <1>2, <1>3 DEF AluResult

LEMMA TargetType ==
  ASSUME NEW i \in Instr, NEW alu \in Word, NEW c2 \in Word
  PROVE  Target(i, alu, c2) \in Word
<1>1. alu - (alu % 2) \in Word
  BY WordSizeAssumption DEF Word
<1> QED
  BY <1>1 DEF Target

LEMMA MemDataType ==
  ASSUME NEW ms \in [Addr -> Word], NEW i \in Instr, NEW alu \in Word
  PROVE  MemData(ms, i, alu) \in Word
BY NopType, WrapType DEF MemData, MemRead

LEMMA MemEffectType ==
  ASSUME NEW ms \in [Addr -> Word], NEW i \in Instr, NEW alu \in Word,
         NEW d1 \in Word, NEW d2 \in Word
  PROVE  MemEffect(ms, i, alu, d1, d2) \in [Addr -> Word]
BY DEF MemEffect, MemWrite

LEMMA WriteBackType ==
  ASSUME NEW i \in Instr, NEW a \in Word, NEW alu \in Word, NEW md \in Word,
         NEW c1 \in Word
  PROVE  WriteBackData(i, a, alu, md, c1) \in Word
<1>1. Wrap(a + 4) \in Word
  BY WrapType DEF Word
<1> QED
  BY <1>1 DEF WriteBackData

LEMMA RegEffectType ==
  ASSUME NEW rf \in [Reg -> Word], NEW i \in Instr, NEW v \in Word
  PROVE  RegEffect(rf, i, v) \in [Reg -> Word]
BY DEF RegEffect

LEMMA CsrEffectType ==
  ASSUME NEW cf \in [Csr -> Word], NEW i \in Instr, NEW v \in Word
  PROVE  CsrEffect(cf, i, v) \in [Csr -> Word]
BY DEF CsrEffect

-----------------------------------------------------------------------------
(* The types of what the stages compute.                                   *)

LEMMA StageOutputs ==
  ASSUME TypeOK
  PROVE  /\ ExecuteAlu \in Word
         /\ JumpPc \in Word
         /\ ExecuteNpc \in Word
         /\ MemoryData \in Word
         /\ WriteData \in Word
         /\ Wrap(pc + 4) \in Word
<1>1. /\ regE.instr \in Instr /\ regE.pc \in Word /\ regE.npc \in Word
      /\ regE.d1 \in Word /\ regE.d2 \in Word /\ regE.c1 \in Word
      /\ regE.c2 \in Word
  BY DEF TypeOK, StageE
<1>2. regM.instr \in Instr /\ regM.alu \in Word /\ mem \in [Addr -> Word]
  BY DEF TypeOK, StageM
<1>3. /\ regW.instr \in Instr /\ regW.pc \in Word /\ regW.alu \in Word
      /\ regW.md \in Word /\ regW.c1 \in Word
  BY DEF TypeOK, StageW
<1>4. ExecuteAlu \in Word
  BY <1>1, AluResultType DEF ExecuteAlu
<1>5. JumpPc \in Word
  BY <1>1, <1>4, TargetType DEF JumpPc
<1>6. ExecuteNpc \in Word
  BY <1>1, <1>5 DEF ExecuteNpc
<1>7. MemoryData \in Word
  BY <1>2, MemDataType DEF MemoryData
<1>8. WriteData \in Word
  BY <1>3, WriteBackType DEF WriteData
<1>9. Wrap(pc + 4) \in Word
  BY WrapType DEF TypeOK, Word
<1> QED
  BY <1>4, <1>5, <1>6, <1>7, <1>8, <1>9

LEMMA ForwardType ==
  ASSUME TypeOK, NEW r \in Reg
  PROVE  Forward(r) \in Word
<1>1. RegRead(regs, r) \in Word
  BY RegReadType DEF TypeOK
<1>2. /\ regW.pc \in Word /\ regW.alu \in Word /\ regW.md \in Word
      /\ regW.c1 \in Word /\ regM.alu \in Word
  BY DEF TypeOK, StageW, StageM
<1>3. Wrap(regW.pc + 4) \in Word
  BY <1>2, WrapType DEF Word
<1>4. ForwardW(r) \in Word
  BY <1>1, <1>2, <1>3 DEF ForwardW
<1>5. ForwardM(r) \in Word
  BY <1>2, <1>4, StageOutputs DEF ForwardM
<1> QED
  BY <1>5, StageOutputs DEF Forward

-----------------------------------------------------------------------------
(* What the proofs use of an edge.  The two cores clock their registers by *)
(* different statements, and what a stage without an instruction hands on  *)
(* differs: the 2026 core passes the nop words along as it would an        *)
(* instruction, the ready-valid one clears the register behind it.         *)

Flow ==
  /\ PcEdge
  /\ RegDEdge
  /\ IF EBubble THEN regE' = BubbleE
     ELSE regE' = DecodeOut \/ (~regD.valid /\ regE' = BubbleE)
  /\ IF AmoInM THEN regM' = BubbleM
     ELSE regM' = ExecuteOut \/ (~regE.valid /\ regM' = BubbleM)
  /\ regW' = MemoryOut \/ (~regM.valid /\ regW' = BubbleW)
  /\ regs' = RegEffect(regs, regW.instr, WriteData)
  /\ mem' = MemEffect(mem, regM.instr, regM.alu, regM.d1, regM.d2)
  /\ csr' = CsrEffect(csr, regW.instr, regW.alu)
  /\ UNCHANGED prog

LEMMA EdgeFlows == Edge => Flow
BY DEF Edge, Flow, RegEEdge, RegMEdge, RegWEdge, MBubble

-----------------------------------------------------------------------------
LEMMA InitType == Init => TypeOK
<1> SUFFICES ASSUME Init PROVE TypeOK
  OBVIOUS
<1>1. BubbleD \in StageD /\ BubbleE \in StageE /\ BubbleM \in StageM
      /\ BubbleW \in StageW
  BY NopType DEF BubbleD, BubbleE, BubbleM, BubbleW, StageD, StageE, StageM,
                 StageW
<1>2. InitRegs \in [Reg -> Word]
  <2>1. ResetPc + 32 \in Int
    BY ImageAssumption DEF Word
  <2>2. \A r \in Reg : Wrap(r) \in Word
    BY WrapType DEF Reg
  <2> QED
    BY <2>1, <2>2, WrapType, NopType DEF InitRegs
<1>3. InitCsr \in [Csr -> Word]
  BY ImageAssumption, NopType DEF InitCsr
<1> QED
  BY <1>1, <1>2, <1>3, ImageAssumption, ProgramsAssumption DEF Init, TypeOK

LEMMA FlowType == TypeOK /\ Flow => TypeOK'
<1> SUFFICES ASSUME TypeOK, Flow PROVE TypeOK'
  OBVIOUS
<1>1. prog' \in [CodeAddr -> Instr]
  BY DEF TypeOK, Flow
<1>2. pc' \in Word
  BY StageOutputs DEF TypeOK, Flow, PcEdge
<1>3. regD' \in StageD
  <2>1. Fetch(prog, pc) \in Instr
    BY FetchType DEF TypeOK
  <2>2. BubbleD \in StageD
    BY NopType DEF BubbleD, StageD
  <2> QED
    BY <2>1, <2>2, StageOutputs DEF TypeOK, Flow, RegDEdge, FetchOut, StageD
<1>4. regE' \in StageE
  <2>1. /\ regD.valid \in BOOLEAN /\ regD.pc \in Word /\ regD.npc \in Word
        /\ regD.instr \in Instr
    BY DEF TypeOK, StageD
  <2>2. Forward(regD.instr.rs1) \in Word /\ Forward(regD.instr.rs2) \in Word
    BY <2>1, ForwardType DEF Instr
  <2>3. \A c : CsrRead(csr, c) \in Word
    BY CsrReadType DEF TypeOK
  <2>4. BubbleE \in StageE
    BY NopType DEF BubbleE, StageE
  <2> QED
    BY <2>1, <2>2, <2>3, <2>4 DEF Flow, DecodeOut, StageE
<1>5. regM' \in StageM
  <2>1. BubbleM \in StageM
    BY NopType DEF BubbleM, StageM
  <2> QED
    BY <2>1, StageOutputs DEF TypeOK, Flow, ExecuteOut, StageE, StageM
<1>6. regW' \in StageW
  <2>1. BubbleW \in StageW
    BY NopType DEF BubbleW, StageW
  <2> QED
    BY <2>1, StageOutputs DEF TypeOK, Flow, MemoryOut, StageM, StageW
<1>7. regs' \in [Reg -> Word]
  BY StageOutputs, RegEffectType DEF TypeOK, Flow, StageW
<1>8. mem' \in [Addr -> Word]
  BY MemEffectType DEF TypeOK, Flow, StageM
<1>9. csr' \in [Csr -> Word]
  BY CsrEffectType DEF TypeOK, Flow, StageW
<1> QED
  BY <1>1, <1>2, <1>3, <1>4, <1>5, <1>6, <1>7, <1>8, <1>9 DEF TypeOK

(* Every register, word of memory and pipeline register of the core always *)
(* holds a value of its width: no edge of the clock leads out of it.       *)
THEOREM TypeCorrect == Spec => []TypeOK
<1>1. TypeOK /\ [Clock]_vars => TypeOK'
  <2>1. CASE Clock
    BY <2>1, EdgeFlows, FlowType DEF Clock
  <2>2. CASE UNCHANGED vars
    BY <2>2 DEF vars, TypeOK
  <2> QED
    BY <2>1, <2>2
<1> QED
  BY InitType, <1>1, PTL DEF Spec

-----------------------------------------------------------------------------
(* What an edge makes of each pipeline register, case by case.             *)

LEMMA NextPc ==
  ASSUME Flow
  PROVE  /\ FStall => pc' = pc
         /\ ~FStall /\ NeedJump => pc' = JumpPc
         /\ ~FStall /\ ~NeedJump => pc' = Wrap(pc + 4)
BY DEF Flow, PcEdge

LEMMA NextD ==
  ASSUME Flow
  PROVE  /\ DBubble => regD' = BubbleD
         /\ ~DBubble /\ DStall => regD' = regD
         /\ ~DBubble /\ ~DStall =>
              regD' = [valid |-> TRUE, pc |-> pc, npc |-> Wrap(pc + 4),
                       instr |-> Fetch(prog, pc)]
BY DEF Flow, RegDEdge, FetchOut

LEMMA NextE ==
  ASSUME Flow
  PROVE  /\ EBubble => regE' = BubbleE
         /\ ~EBubble =>
              \/ ~regD.valid /\ regE' = BubbleE
              \/ /\ regE'.valid = regD.valid
                 /\ regE'.pc = regD.pc
                 /\ regE'.npc = regD.npc
                 /\ regE'.instr = regD.instr
                 /\ regE'.d1 = Forward(regD.instr.rs1)
                 /\ regE'.d2 = Forward(regD.instr.rs2)
                 /\ regE'.c1 = CsrRead(csr, CsrRid1(regD.instr))
                 /\ regE'.c2 = CsrRead(csr, CsrRid2(regD.instr))
BY DEF Flow, DecodeOut

LEMMA NextM ==
  ASSUME Flow
  PROVE  /\ AmoInM => regM' = BubbleM
         /\ ~AmoInM =>
              \/ ~regE.valid /\ regM' = BubbleM
              \/ /\ regM'.valid = regE.valid
                 /\ regM'.pc = regE.pc
                 /\ regM'.npc = ExecuteNpc
                 /\ regM'.instr = regE.instr
                 /\ regM'.d1 = regE.d1
                 /\ regM'.d2 = regE.d2
                 /\ regM'.c1 = regE.c1
                 /\ regM'.alu = ExecuteAlu
BY DEF Flow, ExecuteOut

LEMMA NextW ==
  ASSUME Flow
  PROVE  \/ ~regM.valid /\ regW' = BubbleW
         \/ /\ regW'.valid = regM.valid
            /\ regW'.pc = regM.pc
            /\ regW'.npc = regM.npc
            /\ regW'.instr = regM.instr
            /\ regW'.c1 = regM.c1
            /\ regW'.alu = regM.alu
            /\ regW'.md = MemoryData
BY DEF Flow, MemoryOut

(* The flushed registers.                                                  *)
LEMMA Bubbles ==
  /\ ~BubbleD.valid /\ BubbleD.instr = NopInstr
  /\ ~BubbleE.valid /\ BubbleE.instr = NoneInstr
  /\ ~BubbleM.valid /\ BubbleM.instr = NoneInstr
  /\ ~BubbleW.valid /\ BubbleW.instr = NoneInstr
BY DEF BubbleD, BubbleE, BubbleM, BubbleW

LEMMA NopIsQuiet ==
  ASSUME NEW i \in {NopInstr, NoneInstr}
  PROVE  /\ ~IsAmo(i) /\ ~IsMret(i) /\ ~IsLoad(i) /\ ~IsCsr(i)
         /\ \A d1, d2 : ~BranchJump(i, d1, d2)
         /\ i.op \notin {"jal", "jalr", "mret", "store"}
         /\ i.rd = 0
BY DEF NopInstr, NoneInstr, IsAmo, IsMret, IsLoad, IsCsr, BranchJump

-----------------------------------------------------------------------------
(* AMOs.                                                                   *)

(* The three conjuncts of AmoTravelsAlone follow the AMO from stage to     *)
(* stage, so that the property is inductive by itself.                     *)
LEMMA AmoStep == AmoTravelsAlone /\ Flow => AmoTravelsAlone'
<1> SUFFICES ASSUME AmoTravelsAlone, Flow PROVE AmoTravelsAlone'
  OBVIOUS
<1>1. AmoInE' => ~regD'.valid
  <2> SUFFICES ASSUME AmoInE' PROVE ~regD'.valid
    OBVIOUS
  <2>1. ~EBubble
    BY NextE, Bubbles, NopIsQuiet DEF AmoInE
  <2>2. AmoInD
    BY <2>1, NextE, Bubbles, NopIsQuiet DEF AmoInE, AmoInD
  <2> QED
    BY <2>2, NextD, Bubbles DEF DBubble
<1>2. AmoInM' => ~regD'.valid /\ ~regE'.valid
  <2> SUFFICES ASSUME AmoInM' PROVE ~regD'.valid /\ ~regE'.valid
    OBVIOUS
  <2>1. ~AmoInM
    BY NextM, Bubbles, NopIsQuiet DEF AmoInM
  <2>2. AmoInE
    BY <2>1, NextM, Bubbles, NopIsQuiet DEF AmoInE, AmoInM
  <2> QED
    BY <2>2, NextD, NextE, Bubbles DEF DBubble, EBubble
<1>3. IsAmo(regW.instr)' => ~regD'.valid /\ ~regE'.valid /\ ~regM'.valid
  <2> SUFFICES ASSUME IsAmo(regW.instr)'
               PROVE  ~regD'.valid /\ ~regE'.valid /\ ~regM'.valid
    OBVIOUS
  <2>1. AmoInM
    BY NextW, Bubbles, NopIsQuiet DEF AmoInM, IsAmo
  <2> QED
    BY <2>1, NextD, NextE, NextM, Bubbles DEF DBubble, EBubble
<1> QED
  BY <1>1, <1>2, <1>3 DEF AmoTravelsAlone

LEMMA AmoInit == Init => AmoTravelsAlone
BY Bubbles, NopIsQuiet
   DEF Init, AmoTravelsAlone, AmoInE, AmoInM

(* Nothing younger is in the pipeline while an AMO is executed, accesses   *)
(* memory and is written back.  It holds of the core as it is, whatever    *)
(* the program.                                                            *)
THEOREM AmoAlone == Spec => []AmoTravelsAlone
<1>1. AmoTravelsAlone /\ [Clock]_vars => AmoTravelsAlone'
  <2>1. CASE Clock
    BY <2>1, EdgeFlows, AmoStep DEF Clock
  <2>2. CASE UNCHANGED vars
    BY <2>2 DEF vars, AmoTravelsAlone, AmoInE, AmoInM
  <2> QED
    BY <2>1, <2>2
<1> QED
  BY AmoInit, <1>1, PTL DEF Spec

-----------------------------------------------------------------------------
(* Jumps.                                                                  *)

IsJump(i) == i.op \in {"jal", "jalr", "mret"}

LEMMA JumpStep == JumpShadowEmpty /\ Flow => JumpShadowEmpty'
<1> SUFFICES ASSUME JumpShadowEmpty, Flow PROVE JumpShadowEmpty'
  OBVIOUS
<1>1. IsJump(regM.instr)' => ~regE'.valid /\ ~regD'.valid
  <2> SUFFICES ASSUME IsJump(regM'.instr) PROVE ~regE'.valid /\ ~regD'.valid
    BY DEF IsJump
  <2>1. ~AmoInM
    BY NextM, Bubbles, NopIsQuiet DEF IsJump
  <2>2. IsJump(regE.instr)
    BY <2>1, NextM, Bubbles, NopIsQuiet DEF IsJump
  <2>3. BranchNeedJump \/ MretNeedJump
    BY <2>2 DEF IsJump, BranchNeedJump, MretNeedJump, BranchJump, IsMret
  <2> QED
    BY <2>3, NextD, NextE, Bubbles DEF DBubble, EBubble
<1>2. IsJump(regW.instr)' => ~regM'.valid /\ ~regE'.valid
  <2> SUFFICES ASSUME IsJump(regW'.instr) PROVE ~regM'.valid /\ ~regE'.valid
    BY DEF IsJump
  <2>1. ~regE.valid /\ ~regD.valid
    BY NextW, Bubbles, NopIsQuiet DEF IsJump, JumpShadowEmpty
  <2> QED
    BY <2>1, NextE, NextM, Bubbles
<1> QED
  BY <1>1, <1>2 DEF IsJump, JumpShadowEmpty

LEMMA JumpInit == Init => JumpShadowEmpty
BY Bubbles, NopIsQuiet DEF Init, JumpShadowEmpty

(* Nothing fetched behind a jal, jalr or mret before its target was known  *)
(* is still valid when the jump leaves regE.                               *)
THEOREM JumpShadow == Spec => []JumpShadowEmpty
<1>1. JumpShadowEmpty /\ [Clock]_vars => JumpShadowEmpty'
  <2>1. CASE Clock
    BY <2>1, EdgeFlows, JumpStep DEF Clock
  <2>2. CASE UNCHANGED vars
    BY <2>2 DEF vars, JumpShadowEmpty
  <2> QED
    BY <2>1, <2>2
<1> QED
  BY JumpInit, <1>1, PTL DEF Spec

-----------------------------------------------------------------------------
(* The chain of next pcs.                                                  *)

(* A register that is not valid holds a word without effect.               *)
QuietBubbles ==
  /\ ~regD.valid => regD.instr \in {NopInstr, NoneInstr}
  /\ ~regE.valid => regE.instr \in {NopInstr, NoneInstr}
  /\ ~regM.valid => regM.instr \in {NopInstr, NoneInstr}
  /\ ~regW.valid => regW.instr \in {NopInstr, NoneInstr}

LEMMA QuietStep == QuietBubbles /\ Flow => QuietBubbles'
<1> SUFFICES ASSUME QuietBubbles, Flow PROVE QuietBubbles'
  OBVIOUS
<1>1. ~regD'.valid => regD'.instr \in {NopInstr, NoneInstr}
  BY NextD, Bubbles DEF QuietBubbles
<1>2. ~regE'.valid => regE'.instr \in {NopInstr, NoneInstr}
  BY NextE, Bubbles DEF QuietBubbles
<1>3. ~regM'.valid => regM'.instr \in {NopInstr, NoneInstr}
  BY NextM, Bubbles DEF QuietBubbles
<1>4. ~regW'.valid => regW'.instr \in {NopInstr, NoneInstr}
  BY NextW, Bubbles DEF QuietBubbles
<1> QED
  BY <1>1, <1>2, <1>3, <1>4 DEF QuietBubbles

LEMMA QuietInit == Init => QuietBubbles
BY Bubbles DEF Init, QuietBubbles

(* At most one of a jump, a load and an AMO is in regE.                    *)
LEMMA OneKind ==
  /\ NeedJump => ~LoadUse /\ ~AmoInE
  /\ LoadUse => ~NeedJump /\ ~AmoInE
BY DEF NeedJump, BranchNeedJump, MretNeedJump, BranchJump, IsMret, LoadUse,
       IsLoad, AmoInE, IsAmo

ControlInv == AmoTravelsAlone /\ QuietBubbles /\ CommitChain

(* An empty regE asks for nothing.                                         *)
LEMMA EmptyE ==
  ASSUME QuietBubbles, ~regE.valid
  PROVE  ~NeedJump /\ ~BranchNeedJump /\ ~MretNeedJump /\ ~LoadUse /\ ~AmoInE
BY NopIsQuiet
   DEF QuietBubbles, NeedJump, BranchNeedJump, MretNeedJump, LoadUse, AmoInE

LEMMA EmptyD ==
  ASSUME QuietBubbles, ~regD.valid
  PROVE  ~AmoInD
BY NopIsQuiet DEF QuietBubbles, AmoInD

(* The place behind regM keeps its address when nothing leaves it.         *)
LEMMA BehindD ==
  ASSUME ControlInv, Flow, ~regE.valid, ~regM'.valid
  PROVE  PcBehindM' = PcBehindM
<1> USE DEF ControlInv
<1>1. ~NeedJump /\ ~BranchNeedJump /\ ~MretNeedJump /\ ~LoadUse /\ ~AmoInE
  BY EmptyE
<1>2. PcBehindM = IF regD.valid THEN regD.pc ELSE pc
  BY DEF PcBehindM
<1>3. CASE AmoInM
  <2>1. ~regD.valid
    BY <1>3 DEF AmoTravelsAlone
  <2>2. ~regE'.valid /\ ~regD'.valid /\ pc' = pc
    BY <1>3, NextE, NextD, NextPc, Bubbles DEF EBubble, DBubble, FStall
  <2> QED
    BY <1>2, <2>1, <2>2 DEF PcBehindM
<1>4. CASE ~AmoInM /\ regD.valid
  <2>1. regE'.valid /\ regE'.pc = regD.pc
    BY <1>1, <1>4, NextE DEF EBubble
  <2> QED
    BY <1>2, <1>4, <2>1 DEF PcBehindM
<1>5. CASE ~AmoInM /\ ~regD.valid
  <2>1. ~regE'.valid
    BY <1>1, <1>5, NextE, Bubbles DEF EBubble
  <2>2. regD'.valid /\ regD'.pc = pc
    BY <1>1, <1>5, EmptyD, NextD DEF DBubble, DStall
  <2> QED
    BY <1>2, <1>5, <2>1, <2>2 DEF PcBehindM
<1> QED
  BY <1>3, <1>4, <1>5

(* The four links of the chain after an edge without a hazard.             *)

LEMMA LinkD ==
  ASSUME ControlInv, Flow, regD'.valid
  PROVE  regD'.npc = pc'
<1> USE DEF ControlInv
<1>1. ~DBubble
  BY NextD, Bubbles
<1>2. ~NeedJump /\ ~AmoInD /\ ~AmoInE /\ ~AmoInM
  BY <1>1 DEF DBubble, NeedJump
<1>3. CASE LoadUse
  BY <1>1, <1>3, NextD, NextPc DEF DStall, FStall, CommitChain
<1>4. CASE ~LoadUse
  BY <1>1, <1>2, <1>4, NextD, NextPc DEF DStall, FStall
<1> QED
  BY <1>3, <1>4

LEMMA LinkE ==
  ASSUME ControlInv, Flow, regE'.valid
  PROVE  regE'.npc = IF regD'.valid THEN regD'.pc ELSE pc'
<1> USE DEF ControlInv
<1>1. ~EBubble
  BY NextE, Bubbles
<1>2. ~NeedJump /\ ~BranchNeedJump /\ ~MretNeedJump /\ ~LoadUse /\ ~AmoInE /\ ~AmoInM
  BY <1>1 DEF EBubble, NeedJump
<1>3. regD.valid /\ regE'.npc = pc
  BY <1>1, NextE, Bubbles DEF CommitChain
<1>4. CASE AmoInD
  <2>1. ~regD'.valid /\ pc' = pc
    BY <1>4, NextD, NextPc, Bubbles DEF DBubble, FStall
  <2> QED
    BY <1>3, <2>1
<1>5. CASE ~AmoInD
  <2>1. regD'.valid /\ regD'.pc = pc
    BY <1>2, <1>5, NextD DEF DBubble, DStall
  <2> QED
    BY <1>3, <2>1
<1> QED
  BY <1>4, <1>5

LEMMA LinkM ==
  ASSUME ControlInv, Flow, ~LostJump, ~LostAmo, regM'.valid
  PROVE  regM'.npc = PcBehindM'
<1> USE DEF ControlInv
<1>1. ~AmoInM /\ regE.valid /\ regM'.npc = ExecuteNpc
  BY NextM, Bubbles
<1>2. CASE NeedJump
  <2>1. ~LoadUse /\ ~AmoInE /\ ~AmoInD
    BY <1>2, OneKind DEF LostJump
  <2>2. pc' = JumpPc
    BY <1>1, <1>2, <2>1, NextPc DEF FStall
  <2>3. ~regD'.valid /\ ~regE'.valid
    BY <1>2, NextD, NextE, Bubbles DEF NeedJump, DBubble, EBubble
  <2> QED
    BY <1>1, <1>2, <2>2, <2>3 DEF PcBehindM, ExecuteNpc
<1>3. CASE ~NeedJump /\ AmoInE
  <2>1. ~regD.valid
    BY <1>3 DEF AmoTravelsAlone
  <2>2. ~regD'.valid /\ ~regE'.valid /\ pc' = pc
    BY <1>3, NextD, NextE, NextPc, Bubbles DEF DBubble, EBubble, FStall
  <2>3. regE.npc = pc
    BY <1>1, <1>3, <2>1 DEF CommitChain
  <2> QED
    BY <1>1, <1>3, <2>2, <2>3 DEF PcBehindM, ExecuteNpc
<1>4. CASE ~NeedJump /\ ~AmoInE /\ LoadUse
  <2>1. ~AmoInD
    BY <1>4 DEF LostAmo
  <2>2. regD' = regD /\ pc' = pc /\ ~regE'.valid
    BY <1>1, <1>4, <2>1, NextD, NextE, NextPc, Bubbles
       DEF NeedJump, DBubble, DStall, EBubble, FStall
  <2>3. regM'.npc = IF regD.valid THEN regD.pc ELSE pc
    BY <1>1, <1>4 DEF CommitChain, ExecuteNpc
  <2> QED
    BY <2>2, <2>3 DEF PcBehindM
<1>5. CASE ~NeedJump /\ ~AmoInE /\ ~LoadUse
  <2>1. ~EBubble
    BY <1>1, <1>5 DEF EBubble, NeedJump
  <2>2. (regE'.valid <=> regD.valid) /\ (regD.valid => regE'.pc = regD.pc)
    BY <2>1, NextE, Bubbles
  <2>3. regM'.npc = IF regD.valid THEN regD.pc ELSE pc
    BY <1>1, <1>5 DEF CommitChain, ExecuteNpc
  <2>4. CASE regD.valid
    BY <2>2, <2>3, <2>4 DEF PcBehindM
  <2>5. CASE ~regD.valid
    <3>1. regD'.valid /\ regD'.pc = pc
      BY <1>1, <1>5, <2>5, EmptyD, NextD DEF DBubble, DStall, NeedJump
    <3> QED
      BY <2>2, <2>3, <2>5, <3>1 DEF PcBehindM
  <2> QED
    BY <2>4, <2>5
<1> QED
  BY <1>2, <1>3, <1>4, <1>5

(* The next pc of what leaves regM is the next architectural pc, and if    *)
(* nothing leaves it the architectural pc stays.                           *)
LEMMA LinkW ==
  ASSUME ControlInv, Flow
  PROVE  ArchPc' = IF regM.valid THEN regM.npc ELSE ArchPc
<1> USE DEF ControlInv
<1>1. (IF regM.valid THEN regM.npc ELSE ArchPc) = PcBehindM
  BY DEF CommitChain, ArchPc
<1>2. CASE regE.valid
  <2>1. ~AmoInM
    BY <1>2 DEF AmoTravelsAlone
  <2>2. regM'.valid /\ regM'.pc = regE.pc
    BY <1>2, <2>1, NextM
  <2> QED
    BY <1>1, <1>2, <2>2 DEF ArchPc, PcBehindM
<1>3. CASE ~regE.valid
  <2>1. ~regM'.valid
    BY <1>3, NextM, Bubbles
  <2>2. PcBehindM' = PcBehindM
    BY <1>3, <2>1, BehindD
  <2> QED
    BY <1>1, <2>1, <2>2 DEF ArchPc
<1> QED
  BY <1>2, <1>3

LEMMA ChainStep ==
  ControlInv /\ Flow /\ ~LostJump /\ ~LostAmo => CommitChain'
<1> SUFFICES ASSUME ControlInv, Flow, ~LostJump, ~LostAmo
             PROVE  CommitChain'
  OBVIOUS
<1>1. regW'.valid => regW'.npc = ArchPc'
  BY NextW, Bubbles, LinkW
<1>2. regM'.valid => regM'.npc = PcBehindM'
  BY LinkM
<1>3. regE'.valid => regE'.npc = (IF regD'.valid THEN regD'.pc ELSE pc')
  BY LinkE
<1>4. regD'.valid => regD'.npc = pc'
  BY LinkD
<1> QED
  BY <1>1, <1>2, <1>3, <1>4 DEF CommitChain

LEMMA ControlInit == Init => ControlInv
BY AmoInit, QuietInit, Bubbles DEF Init, ControlInv, CommitChain

LEMMA ControlFlow ==
  ASSUME ControlInv, HazardFree, Flow
  PROVE  ControlInv'
BY AmoStep, QuietStep, ChainStep DEF HazardFree, ControlInv

LEMMA ControlStep == ControlInv /\ [SafeClock]_vars => ControlInv'
<1> SUFFICES ASSUME ControlInv, [SafeClock]_vars PROVE ControlInv'
  OBVIOUS
<1>1. CASE SafeClock
  BY <1>1, EdgeFlows, ControlFlow DEF SafeClock, Clock
<1>2. CASE UNCHANGED vars
  BY <1>2 DEF vars, ControlInv, AmoTravelsAlone, AmoInE, AmoInM, QuietBubbles,
              CommitChain, ArchPc, PcBehindM, NeedJump, BranchNeedJump,
              MretNeedJump
<1> QED
  BY <1>1, <1>2

(* As long as no hazard of HazardFree is met, the instructions that commit *)
(* are exactly those on the path the program takes, in order: every next   *)
(* pc committed to is the pc of the next valid instruction.                *)
THEOREM Chained == SafeSpec => []CommitChain
<1>1. ControlInv => CommitChain
  BY DEF ControlInv
<1> QED
  BY ControlInit, ControlStep, <1>1, PTL DEF SafeSpec

-----------------------------------------------------------------------------
(* The refinement of Isa: what a stage owes to those before it.            *)

CsrsAfterM == CsrEffect(ArchCsr, regM.instr, regM.alu)

(* Each valid stage holds the word at its pc, and up to regE the next pc   *)
(* it was fetched with.                                                    *)
Fetched ==
  /\ regD.valid => /\ regD.instr = Fetch(prog, regD.pc)
                   /\ regD.npc = Wrap(regD.pc + 4)
  /\ regE.valid => /\ regE.instr = Fetch(prog, regE.pc)
                   /\ regE.npc = Wrap(regE.pc + 4)
  /\ regM.valid => regM.instr = Fetch(prog, regM.pc)

(* The CSR values carried in regE are those left by all older instructions.*)
CsrsFresh ==
  regE.valid =>
    /\ IsCsr(regE.instr) => regE.c1 = CsrRead(CsrsAfterM, regE.instr.csr)
    /\ IsMret(regE.instr) => regE.c2 = CsrRead(CsrsAfterM, mepc)

(* The instruction in regM has been executed on the architectural state.   *)
MFresh ==
  regM.valid =>
    /\ UsesRs1(regM.instr) => regM.d1 = RegRead(ArchRegs, regM.instr.rs1)
    /\ UsesRs2(regM.instr) => regM.d2 = RegRead(ArchRegs, regM.instr.rs2)
    /\ IsCsr(regM.instr) => regM.c1 = CsrRead(ArchCsr, regM.instr.csr)
    /\ regM.alu = AluResult(regM.instr, regM.pc, regM.d1, regM.d2, regM.c1)
    /\ regM.npc = IF Redirects(regM.instr, regM.d1, regM.d2)
                  THEN Target(regM.instr, regM.alu, CsrRead(ArchCsr, mepc))
                  ELSE Wrap(regM.pc + 4)

IsaInv ==
  /\ TypeOK
  /\ ControlInv
  /\ JumpShadowEmpty
  /\ Fetched
  /\ OperandsFresh
  /\ CsrsFresh
  /\ MFresh

-----------------------------------------------------------------------------
(* Reading after a write.                                                  *)

LEMMA ReadAfterWrite ==
  ASSUME NEW rf \in [Reg -> Word], NEW i \in Instr, NEW v, NEW r \in Reg
  PROVE  RegRead(RegEffect(rf, i, v), r) =
           IF i.rd # 0 /\ WritesReg(i) /\ i.rd = r THEN v ELSE RegRead(rf, r)
BY DEF RegRead, RegEffect

LEMMA CsrReadAfterWrite ==
  ASSUME NEW cf \in [Csr -> Word], NEW i, NEW v, NEW c,
         ~(CsrWen(i) /\ CsrWid(i) = c)
  PROVE  CsrRead(CsrEffect(cf, i, v), c) = CsrRead(cf, c)
BY DEF CsrRead, CsrEffect

LEMMA NoEffect ==
  ASSUME NEW i \in {NopInstr, NoneInstr}, NEW rf, NEW cf, NEW ms, NEW v,
         NEW alu, NEW d1, NEW d2
  PROVE  /\ RegEffect(rf, i, v) = rf
         /\ CsrEffect(cf, i, v) = cf
         /\ MemEffect(ms, i, alu, d1, d2) = ms
BY DEF NopInstr, NoneInstr, RegEffect, CsrEffect, CsrWen, IsCsr, IsMret,
       MemEffect

(* What an instruction does depends on the operands it uses only.          *)
LEMMA UsedOnly ==
  ASSUME NEW i, NEW a, NEW d1, NEW d2, NEW c1, NEW e1, NEW e2, NEW f1,
         UsesRs1(i) => d1 = e1,
         UsesRs2(i) => d2 = e2,
         IsCsr(i) => c1 = f1
  PROVE  /\ AluResult(i, a, d1, d2, c1) = AluResult(i, a, e1, e2, f1)
         /\ BranchJump(i, d1, d2) = BranchJump(i, e1, e2)
         /\ \A ms, alu : MemEffect(ms, i, alu, d1, d2) = MemEffect(ms, i, alu, e1, e2)
         /\ \A alu, md : WriteBackData(i, a, alu, md, c1) = WriteBackData(i, a, alu, md, f1)
<1>1. AluResult(i, a, d1, d2, c1) = AluResult(i, a, e1, e2, f1)
  BY DEF AluResult, UsesRs1, UsesRs2, IsCsr
<1>2. BranchJump(i, d1, d2) = BranchJump(i, e1, e2)
  BY DEF BranchJump, UsesRs1, UsesRs2
<1>3. \A ms, alu : MemEffect(ms, i, alu, d1, d2) = MemEffect(ms, i, alu, e1, e2)
  BY DEF MemEffect, UsesRs1, UsesRs2
<1>4. \A alu, md : WriteBackData(i, a, alu, md, c1) = WriteBackData(i, a, alu, md, f1)
  BY DEF WriteBackData
<1> QED
  BY <1>1, <1>2, <1>3, <1>4

-----------------------------------------------------------------------------
(* The architectural state after an edge.                                  *)

LEMMA ArchTypes ==
  ASSUME TypeOK
  PROVE  /\ ArchRegs \in [Reg -> Word]
         /\ ArchCsr \in [Csr -> Word]
         /\ RegsAfterM \in [Reg -> Word]
         /\ CsrsAfterM \in [Csr -> Word]
<1>1. regW.instr \in Instr /\ regW.alu \in Word
  BY DEF TypeOK, StageW
<1>2. /\ regM.instr \in Instr /\ regM.pc \in Word /\ regM.alu \in Word
      /\ regM.c1 \in Word
  BY DEF TypeOK, StageM
<1>3. ArchRegs \in [Reg -> Word] /\ ArchCsr \in [Csr -> Word]
  BY <1>1, StageOutputs, RegEffectType, CsrEffectType
     DEF TypeOK, ArchRegs, ArchCsr
<1>4. WriteBackData(regM.instr, regM.pc, regM.alu, MemoryData, regM.c1) \in Word
  BY <1>2, StageOutputs, WriteBackType
<1> QED
  BY <1>2, <1>3, <1>4, RegEffectType, CsrEffectType DEF RegsAfterM, CsrsAfterM

LEMMA ArchNext ==
  ASSUME QuietBubbles, Flow
  PROVE  /\ ArchRegs' = RegsAfterM
         /\ ArchCsr' = CsrsAfterM
         /\ mem' = MemEffect(mem, regM.instr, regM.alu, regM.d1, regM.d2)
<1>1. regs' = ArchRegs /\ csr' = ArchCsr
  BY DEF Flow, ArchRegs, ArchCsr
<1>2. CASE regW' = BubbleW /\ ~regM.valid
  <2>1. ArchRegs' = ArchRegs /\ ArchCsr' = ArchCsr
    BY <1>1, <1>2, Bubbles, NoEffect DEF ArchRegs, ArchCsr
  <2>2. RegsAfterM = ArchRegs /\ CsrsAfterM = ArchCsr
    BY <1>2, NoEffect DEF QuietBubbles, RegsAfterM, CsrsAfterM
  <2> QED
    BY <2>1, <2>2 DEF Flow
<1>3. CASE regW'.instr = regM.instr /\ regW'.pc = regM.pc /\ regW'.c1 = regM.c1
             /\ regW'.alu = regM.alu /\ regW'.md = MemoryData
  <2>1. WriteData' = WriteBackData(regM.instr, regM.pc, regM.alu, MemoryData, regM.c1)
    BY <1>3 DEF WriteData
  <2> QED
    BY <1>1, <1>3, <2>1 DEF ArchRegs, ArchCsr, RegsAfterM, CsrsAfterM, Flow
<1> QED
  BY <1>2, <1>3, NextW

(* What regM takes over from regE.                                         *)
LEMMA AfterMNext ==
  ASSUME QuietBubbles, Flow, ~AmoInM
  PROVE  /\ RegsAfterM' =
              RegEffect(RegsAfterM, regE.instr,
                WriteBackData(regE.instr, regE.pc, ExecuteAlu, MemoryData', regE.c1))
         /\ CsrsAfterM' = CsrEffect(CsrsAfterM, regE.instr, ExecuteAlu)
<1>1. ArchRegs' = RegsAfterM /\ ArchCsr' = CsrsAfterM
  BY ArchNext
<1>2. CASE regM' = BubbleM /\ ~regE.valid
  <2>1. RegsAfterM' = RegsAfterM /\ CsrsAfterM' = CsrsAfterM
    BY <1>1, <1>2, Bubbles, NoEffect DEF RegsAfterM, CsrsAfterM
  <2> QED
    BY <1>2, <2>1, NoEffect DEF QuietBubbles
<1>3. CASE regM'.instr = regE.instr /\ regM'.pc = regE.pc
             /\ regM'.alu = ExecuteAlu /\ regM'.c1 = regE.c1
  BY <1>1, <1>3 DEF RegsAfterM, CsrsAfterM
<1> QED
  BY <1>2, <1>3, NextM

-----------------------------------------------------------------------------
LEMMA FetchedStep == Fetched /\ Flow => Fetched'
<1> SUFFICES ASSUME Fetched, Flow PROVE Fetched'
  OBVIOUS
<1>1. prog' = prog
  BY DEF Flow
<1>2. regD'.valid => /\ regD'.instr = Fetch(prog, regD'.pc)
                     /\ regD'.npc = Wrap(regD'.pc + 4)
  BY NextD, Bubbles DEF Fetched
<1>3. regE'.valid => /\ regE'.instr = Fetch(prog, regE'.pc)
                     /\ regE'.npc = Wrap(regE'.pc + 4)
  BY NextE, Bubbles DEF Fetched
<1>4. regM'.valid => regM'.instr = Fetch(prog, regM'.pc)
  BY NextM, Bubbles DEF Fetched
<1> QED
  BY <1>1, <1>2, <1>3, <1>4 DEF Fetched

-----------------------------------------------------------------------------
(* Forwarding.  The value decode finds for a source of the instruction it  *)
(* hands to regE is the one left by regW, then regM, then regE.            *)

(* regW and the register file.                                             *)
LEMMA ForwardWFresh ==
  ASSUME TypeOK, AmoTravelsAlone, regD.valid, NEW r \in Reg
  PROVE  ForwardW(r) = RegRead(ArchRegs, r)
<1>1. regW.instr \in Instr /\ ~IsAmo(regW.instr)
  BY DEF TypeOK, StageW, AmoTravelsAlone
<1>2. RegRead(ArchRegs, r) = IF Holds(regW, r) THEN WriteData ELSE RegRead(regs, r)
  BY <1>1, ReadAfterWrite, StageOutputs DEF TypeOK, ArchRegs, Holds
<1>3. CASE Holds(regW, r)
  BY <1>1, <1>2, <1>3
     DEF ForwardW, WriteData, WriteBackData, Holds, WritesReg, IsAmo, IsLoad,
         IsCsr, IsAluResult
<1>4. CASE ~Holds(regW, r)
  BY <1>2, <1>4 DEF ForwardW
<1> QED
  BY <1>3, <1>4

(* regM: neither an AMO nor a jump, behind which regD is empty.            *)
LEMMA ForwardMFresh ==
  ASSUME TypeOK, AmoTravelsAlone, JumpShadowEmpty, regD.valid,
         NEW r \in Reg,
         ~(IsCsr(regM.instr) /\ Holds(regM, r))
  PROVE  ForwardM(r) = RegRead(RegsAfterM, r)
<1>1. regM.instr \in Instr
  BY DEF TypeOK, StageM
<1>2. ~IsAmo(regM.instr) /\ regM.instr.op \notin {"jal", "jalr"}
  BY DEF AmoTravelsAlone, JumpShadowEmpty, AmoInM
<1>3. RegRead(RegsAfterM, r) =
        IF Holds(regM, r)
        THEN WriteBackData(regM.instr, regM.pc, regM.alu, MemoryData, regM.c1)
        ELSE RegRead(ArchRegs, r)
  BY <1>1, ReadAfterWrite, ArchTypes DEF RegsAfterM, Holds
<1>4. CASE Holds(regM, r)
  BY <1>1, <1>2, <1>3, <1>4
     DEF ForwardM, WriteBackData, Holds, WritesReg, IsAmo, IsLoad, IsCsr,
         IsAluResult
<1>5. CASE ~Holds(regM, r)
  BY <1>3, <1>5, ForwardWFresh DEF ForwardM
<1> QED
  BY <1>4, <1>5

(* regE: a load would have stalled, a jump or an AMO flushed.              *)
LEMMA ForwardFresh ==
  ASSUME IsaInv, Flow, regD.valid, ~EBubble, ~StaleCsrResult,
         NEW r \in Sources(regD.instr),
         r \in {regD.instr.rs1, regD.instr.rs2}
  PROVE  Forward(r) = RegRead(RegsAfterM', r)
<1> USE DEF IsaInv, ControlInv
<1>1. r \in Reg /\ r # 0
  BY DEF Sources
<1>2. ~AmoInM /\ ~AmoInE /\ ~LoadUse /\ ~BranchNeedJump
  BY DEF EBubble
<1>3. regE.instr \in Instr
  BY DEF TypeOK, StageE
<1>4. RegsAfterM' =
        RegEffect(RegsAfterM, regE.instr,
                  WriteBackData(regE.instr, regE.pc, ExecuteAlu, MemoryData', regE.c1))
  BY <1>2, AfterMNext
<1>5. RegRead(RegsAfterM', r) =
        IF Holds(regE, r)
        THEN WriteBackData(regE.instr, regE.pc, ExecuteAlu, MemoryData', regE.c1)
        ELSE RegRead(RegsAfterM, r)
  BY <1>1, <1>3, <1>4, ArchTypes, ReadAfterWrite DEF Holds
<1>6. CASE Holds(regE, r)
  <2>1. ~IsLoad(regE.instr)
    BY <1>2, <1>6 DEF LoadUse, Holds
  <2>2. ~IsAmo(regE.instr) /\ regE.instr.op \notin {"jal", "jalr"}
    BY <1>2 DEF AmoInE, BranchNeedJump, BranchJump
  <2>3. ~IsCsr(regE.instr)
    BY <1>6 DEF StaleCsrResult, Advances, Holds, Produces
  <2> QED
    BY <1>5, <1>6, <2>1, <2>2, <2>3 DEF Forward, WriteBackData, IsAmo
<1>7. CASE ~Holds(regE, r)
  <2>1. ~(IsCsr(regM.instr) /\ Holds(regM, r))
    BY <1>1, <1>7 DEF StaleCsrResult, Advances, Holds, Produces
  <2> QED
    BY <1>1, <1>5, <1>7, <2>1, ForwardMFresh DEF Forward
<1> QED
  BY <1>6, <1>7

(* x0 reads 0 everywhere.                                                  *)
LEMMA ForwardZero == Forward(0) = 0
BY DEF Forward, ForwardM, ForwardW, Holds, RegRead

LEMMA OperandsStep ==
  ASSUME IsaInv, Flow, ~StaleCsrResult
  PROVE  OperandsFresh'
<1> SUFFICES ASSUME regE'.valid
             PROVE  /\ UsesRs1(regE'.instr) =>
                         regE'.d1 = RegRead(RegsAfterM', regE'.instr.rs1)
                    /\ UsesRs2(regE'.instr) =>
                         regE'.d2 = RegRead(RegsAfterM', regE'.instr.rs2)
  BY DEF OperandsFresh
<1>1. regD.valid /\ ~EBubble
  BY NextE, Bubbles
<1>2. /\ regE'.instr = regD.instr
      /\ regE'.d1 = Forward(regD.instr.rs1)
      /\ regE'.d2 = Forward(regD.instr.rs2)
  BY <1>1, NextE
<1>3. regD.instr.rs1 \in Reg /\ regD.instr.rs2 \in Reg
  BY DEF IsaInv, TypeOK, StageD, Instr
<1>4. RegRead(RegsAfterM', 0) = 0
  BY DEF RegRead
<1>5. UsesRs1(regD.instr) =>
        Forward(regD.instr.rs1) = RegRead(RegsAfterM', regD.instr.rs1)
  <2>1. CASE regD.instr.rs1 = 0
    BY <1>4, <2>1, ForwardZero
  <2>2. CASE UsesRs1(regD.instr) /\ regD.instr.rs1 # 0
    <3>1. regD.instr.rs1 \in Sources(regD.instr)
      BY <1>3, <2>2 DEF Sources
    <3> QED
      BY <1>1, <3>1, ForwardFresh
  <2> QED
    BY <2>1, <2>2
<1>6. UsesRs2(regD.instr) =>
        Forward(regD.instr.rs2) = RegRead(RegsAfterM', regD.instr.rs2)
  <2>1. CASE regD.instr.rs2 = 0
    BY <1>4, <2>1, ForwardZero
  <2>2. CASE UsesRs2(regD.instr) /\ regD.instr.rs2 # 0
    <3>1. regD.instr.rs2 \in Sources(regD.instr)
      BY <1>3, <2>2 DEF Sources
    <3> QED
      BY <1>1, <3>1, ForwardFresh
  <2> QED
    BY <2>1, <2>2
<1> QED
  BY <1>2, <1>5, <1>6

-----------------------------------------------------------------------------
(* CSRs: with no write on its way, what decode reads is what all older     *)
(* instructions leave.                                                     *)

LEMMA CsrUntouched ==
  ASSUME IsaInv, Flow, regD.valid, ~EBubble, ~StaleCsr,
         NEW c \in CsrSources(regD.instr)
  PROVE  CsrRead(CsrsAfterM', c) = CsrRead(csr, c)
<1>1. \A s \in {regE.instr, regM.instr, regW.instr} :
        ~(CsrWen(s) /\ CsrWid(s) = c)
  BY DEF StaleCsr, Advances
<1>2. csr \in [Csr -> Word]
  BY DEF IsaInv, TypeOK
<1>3. CsrRead(ArchCsr, c) = CsrRead(csr, c)
  BY <1>1, <1>2, CsrReadAfterWrite DEF ArchCsr
<1>4. CsrRead(CsrsAfterM, c) = CsrRead(ArchCsr, c)
  BY <1>1, CsrReadAfterWrite, ArchTypes DEF CsrsAfterM, IsaInv
<1>5. CsrsAfterM' = CsrEffect(CsrsAfterM, regE.instr, ExecuteAlu)
  BY AfterMNext DEF IsaInv, ControlInv, EBubble
<1>6. CsrRead(CsrsAfterM', c) = CsrRead(CsrsAfterM, c)
  BY <1>1, <1>5, CsrReadAfterWrite, ArchTypes DEF IsaInv
<1> QED
  BY <1>3, <1>4, <1>6

LEMMA CsrsStep ==
  ASSUME IsaInv, Flow, ~StaleCsr
  PROVE  CsrsFresh'
<1> SUFFICES ASSUME regE'.valid
             PROVE  /\ IsCsr(regE'.instr) =>
                         regE'.c1 = CsrRead(CsrsAfterM', regE'.instr.csr)
                    /\ IsMret(regE'.instr) =>
                         regE'.c2 = CsrRead(CsrsAfterM', mepc)
  BY DEF CsrsFresh
<1>1. regD.valid /\ ~EBubble
  BY NextE, Bubbles
<1>2. /\ regE'.instr = regD.instr
      /\ regE'.c1 = CsrRead(csr, CsrRid1(regD.instr))
      /\ regE'.c2 = CsrRead(csr, CsrRid2(regD.instr))
  BY <1>1, NextE
<1>3. ASSUME IsCsr(regD.instr)
      PROVE  regE'.c1 = CsrRead(CsrsAfterM', regD.instr.csr)
  <2>1. ~IsMret(regD.instr)
    BY <1>3 DEF IsCsr, IsMret
  <2>2. CASE regD.instr.csr \in Csr
    <3>1. regD.instr.csr \in CsrSources(regD.instr)
      BY <1>3, <2>1, <2>2 DEF CsrSources
    <3> QED
      BY <1>1, <1>2, <2>1, <3>1, CsrUntouched DEF CsrRid1
  <2>3. CASE regD.instr.csr \notin Csr
    BY <1>2, <2>1, <2>3 DEF CsrRid1, CsrRead
  <2> QED
    BY <2>2, <2>3
<1>4. ASSUME IsMret(regD.instr)
      PROVE  regE'.c2 = CsrRead(CsrsAfterM', mepc)
  <2>1. mepc \in CsrSources(regD.instr)
    BY <1>4 DEF CsrSources
  <2> QED
    BY <1>1, <1>2, <1>4, <2>1, CsrUntouched DEF CsrRid2
<1> QED
  BY <1>2, <1>3, <1>4

-----------------------------------------------------------------------------
(* What enters regM was executed on what is now the architectural state.   *)
LEMMA MStep ==
  ASSUME IsaInv, Flow
  PROVE  MFresh'
<1> SUFFICES ASSUME regM'.valid
             PROVE  MFresh'
  BY DEF MFresh
<1>1. ~AmoInM /\ regE.valid
  BY NextM, Bubbles
<1>2. /\ regM'.pc = regE.pc /\ regM'.npc = ExecuteNpc
      /\ regM'.instr = regE.instr
      /\ regM'.d1 = regE.d1 /\ regM'.d2 = regE.d2 /\ regM'.c1 = regE.c1
      /\ regM'.alu = ExecuteAlu
  BY <1>1, NextM
<1>3. /\ UsesRs1(regE.instr) => regE.d1 = RegRead(ArchRegs', regE.instr.rs1)
      /\ UsesRs2(regE.instr) => regE.d2 = RegRead(ArchRegs', regE.instr.rs2)
  BY <1>1, ArchNext DEF IsaInv, ControlInv, OperandsFresh
<1>4. /\ IsCsr(regE.instr) => regE.c1 = CsrRead(ArchCsr', regE.instr.csr)
      /\ IsMret(regE.instr) => regE.c2 = CsrRead(ArchCsr', mepc)
  BY <1>1, ArchNext DEF IsaInv, ControlInv, CsrsFresh
<1>5. ExecuteNpc = IF Redirects(regE.instr, regE.d1, regE.d2)
                   THEN Target(regE.instr, ExecuteAlu, CsrRead(ArchCsr', mepc))
                   ELSE Wrap(regE.pc + 4)
  <2>1. NeedJump <=> Redirects(regE.instr, regE.d1, regE.d2)
    BY DEF NeedJump, BranchNeedJump, MretNeedJump, Redirects
  <2>2. JumpPc = Target(regE.instr, ExecuteAlu, CsrRead(ArchCsr', mepc))
    BY <1>4 DEF JumpPc, Target
  <2>3. regE.npc = Wrap(regE.pc + 4)
    BY <1>1 DEF IsaInv, Fetched
  <2> QED
    BY <2>1, <2>2, <2>3 DEF ExecuteNpc
<1> QED
  BY <1>2, <1>3, <1>4, <1>5 DEF MFresh, ExecuteAlu

LEMMA IsaInit == Init => IsaInv
BY InitType, ControlInit, JumpInit, Bubbles
   DEF Init, IsaInv, Fetched, OperandsFresh, CsrsFresh, MFresh

LEMMA IsaFlow ==
  ASSUME IsaInv, HazardFree, Flow
  PROVE  IsaInv'
<1>1. TypeOK' /\ ControlInv' /\ JumpShadowEmpty' /\ Fetched'
  BY FlowType, ControlFlow, JumpStep, FetchedStep DEF IsaInv
<1>2. OperandsFresh' /\ CsrsFresh' /\ MFresh'
  BY OperandsStep, CsrsStep, MStep DEF HazardFree
<1> QED
  BY <1>1, <1>2 DEF IsaInv

LEMMA IsaStutter ==
  ASSUME IsaInv, UNCHANGED vars
  PROVE  IsaInv'
<1>1. ControlInv'
  BY ControlStep DEF IsaInv
<1>2. TypeOK' /\ JumpShadowEmpty' /\ Fetched'
  BY DEF vars, IsaInv, TypeOK, JumpShadowEmpty, Fetched
<1>3. ArchRegs' = ArchRegs /\ ArchCsr' = ArchCsr
  BY DEF vars, ArchRegs, ArchCsr, WriteData
<1>4. RegsAfterM' = RegsAfterM /\ CsrsAfterM' = CsrsAfterM
  BY <1>3 DEF vars, RegsAfterM, CsrsAfterM, MemoryData
<1>5. OperandsFresh' /\ CsrsFresh' /\ MFresh'
  BY <1>3, <1>4 DEF vars, IsaInv, OperandsFresh, CsrsFresh, MFresh
<1> QED
  BY <1>1, <1>2, <1>5 DEF IsaInv

LEMMA IsaStep == IsaInv /\ [SafeClock]_vars => IsaInv'
<1>1. IsaInv /\ SafeClock => IsaInv'
  BY IsaFlow, EdgeFlows DEF SafeClock, Clock
<1> QED
  BY <1>1, IsaStutter

(* As long as no hazard of HazardFree is met, no instruction ever executes *)
(* with a stale or a too new register value: forwarding finds what program *)
(* order prescribes, for every program and every combination of registers. *)
THEOREM FreshOperands == SafeSpec => []OperandsFresh
<1>1. IsaInv => OperandsFresh
  BY DEF IsaInv
<1> QED
  BY IsaInit, IsaStep, <1>1, PTL DEF SafeSpec

-----------------------------------------------------------------------------
(* The operators of the instance of Isa are those of the pipeline.         *)

LEMMA SameFetch == \A q, a : Sequential!Fetch(q, a) = Fetch(q, a)
BY DEF Sequential!Fetch, Fetch, Sequential!NoneInstr, NoneInstr

LEMMA SameReads ==
  /\ \A rf, r : Sequential!RegRead(rf, r) = RegRead(rf, r)
  /\ \A cf, c : Sequential!CsrRead(cf, c) = CsrRead(cf, c)
  /\ \A i : Sequential!CsrRid1(i) = CsrRid1(i) /\ Sequential!CsrRid2(i) = CsrRid2(i)
BY DEF Sequential!RegRead, RegRead, Sequential!CsrRead, CsrRead,
       Sequential!CsrRid1, CsrRid1, Sequential!CsrRid2, CsrRid2,
       Sequential!IsMret, IsMret

LEMMA SameExecute ==
  /\ \A n : Sequential!Wrap(n) = Wrap(n)
  /\ \A i, a, d1, d2, c1 :
       Sequential!AluResult(i, a, d1, d2, c1) = AluResult(i, a, d1, d2, c1)
  /\ \A i, d1, d2 : Sequential!Redirects(i, d1, d2) <=> Redirects(i, d1, d2)
  /\ \A i, alu, c2 : Sequential!Target(i, alu, c2) = Target(i, alu, c2)
BY DEF Sequential!Wrap, Wrap, Sequential!AluResult, AluResult,
       Sequential!Redirects, Redirects, Sequential!BranchJump, BranchJump,
       Sequential!Target, Target, Sequential!IsMret, IsMret

LEMMA SameEffects ==
  /\ \A ms, i, alu : Sequential!MemData(ms, i, alu) = MemData(ms, i, alu)
  /\ \A ms, i, alu, d1, d2 :
       Sequential!MemEffect(ms, i, alu, d1, d2) = MemEffect(ms, i, alu, d1, d2)
  /\ \A i, a, alu, md, c1 :
       Sequential!WriteBackData(i, a, alu, md, c1) = WriteBackData(i, a, alu, md, c1)
  /\ \A rf, i, v : Sequential!RegEffect(rf, i, v) = RegEffect(rf, i, v)
  /\ \A cf, i, v : Sequential!CsrEffect(cf, i, v) = CsrEffect(cf, i, v)
BY DEF Sequential!MemData, MemData, Sequential!MemRead, MemRead,
       Sequential!MemEffect, MemEffect, Sequential!MemWrite, MemWrite,
       Sequential!WriteBackData, WriteBackData, Sequential!RegEffect, RegEffect,
       Sequential!CsrEffect, CsrEffect, Sequential!CsrWen, CsrWen,
       Sequential!CsrWid, CsrWid, Sequential!WritesReg, WritesReg,
       Sequential!IsCsr, IsCsr, Sequential!IsMret, IsMret,
       Sequential!IsLoad, IsLoad, Sequential!Wrap, Wrap

-----------------------------------------------------------------------------
(* The refinement.                                                         *)

LEMMA InitRefines == Init => Sequential!Init
<1> SUFFICES ASSUME Init PROVE Sequential!Init
  OBVIOUS
<1>1. prog \in [CodeAddr -> Sequential!Instr]
  BY ProgramsAssumption
     DEF Init, Sequential!Instr, Instr, Sequential!Op, Op, Sequential!Reg, Reg,
         Sequential!Word, Word, Sequential!CsrId, CsrId
<1>2. ArchPc = ResetPc
  BY Bubbles DEF Init, ArchPc, PcBehindM
<1>3. ArchRegs = InitRegs /\ ArchCsr = InitCsr
  BY Bubbles, NoEffect DEF Init, ArchRegs, ArchCsr
<1>4. Sequential!InitRegs = InitRegs /\ Sequential!InitCsr = InitCsr
  BY DEF Sequential!InitRegs, InitRegs, Sequential!InitCsr, InitCsr,
         Sequential!Reg, Reg, Sequential!Wrap, Wrap
<1> QED
  BY <1>1, <1>2, <1>3, <1>4 DEF Init, Sequential!Init

(* An edge at which a valid instruction leaves regM is its step.           *)
LEMMA CommitRefines ==
  ASSUME IsaInv, Flow, regM.valid
  PROVE  Sequential!Step
<1> DEFINE i  == regM.instr
           d1 == RegRead(ArchRegs, i.rs1)
           d2 == RegRead(ArchRegs, i.rs2)
           c1 == CsrRead(ArchCsr, CsrRid1(i))
           c2 == CsrRead(ArchCsr, CsrRid2(i))
<1>1. ArchPc = regM.pc /\ i = Fetch(prog, ArchPc)
  BY DEF ArchPc, IsaInv, Fetched
<1>2. /\ UsesRs1(i) => regM.d1 = d1
      /\ UsesRs2(i) => regM.d2 = d2
      /\ IsCsr(i) => regM.c1 = c1
  BY DEF IsaInv, MFresh, IsCsr, IsMret, CsrRid1
<1>3. regM.alu = AluResult(i, ArchPc, d1, d2, c1)
  BY <1>1, <1>2, UsedOnly DEF IsaInv, MFresh
<1>4. Redirects(i, regM.d1, regM.d2) <=> Redirects(i, d1, d2)
  BY <1>2 DEF Redirects, BranchJump, UsesRs1, UsesRs2
<1>5. Target(i, regM.alu, CsrRead(ArchCsr, mepc)) = Target(i, regM.alu, c2)
  BY DEF Target, CsrRid2
<1>6. ArchPc' = IF Redirects(i, d1, d2) THEN Target(i, regM.alu, c2)
                ELSE Wrap(ArchPc + 4)
  BY <1>1, <1>4, <1>5, LinkW DEF IsaInv, MFresh
<1>7. WriteBackData(i, ArchPc, regM.alu, MemoryData, regM.c1) =
        WriteBackData(i, ArchPc, regM.alu, MemoryData, c1)
  BY <1>2 DEF WriteBackData
<1>8. ArchRegs' = RegEffect(ArchRegs, i,
                    WriteBackData(i, ArchPc, regM.alu, MemoryData, c1))
  BY <1>1, <1>7, ArchNext DEF IsaInv, ControlInv, RegsAfterM
<1>9. mem' = MemEffect(mem, i, regM.alu, d1, d2)
  BY <1>2, ArchNext DEF IsaInv, ControlInv, MemEffect, UsesRs1, UsesRs2
<1>10. ArchCsr' = CsrEffect(ArchCsr, i, regM.alu) /\ prog' = prog
  BY ArchNext DEF IsaInv, ControlInv, CsrsAfterM, Flow
<1>11. MemoryData = MemData(mem, i, regM.alu)
  BY DEF MemoryData
<1> HIDE DEF i, d1, d2, c1, c2
<1> QED
  BY <1>1, <1>3, <1>6, <1>8, <1>9, <1>10, <1>11,
     SameFetch, SameReads, SameExecute, SameEffects
     DEF Sequential!Step, i, d1, d2, c1, c2

(* Every other edge is a stutter.                                          *)
LEMMA BubbleRefines ==
  ASSUME IsaInv, Flow, ~regM.valid
  PROVE  UNCHANGED Sequential!vars
<1>1. regM.instr \in {NopInstr, NoneInstr}
  BY DEF IsaInv, ControlInv, QuietBubbles
<1>2. ArchPc' = ArchPc
  BY LinkW DEF IsaInv
<1>3. ArchRegs' = ArchRegs /\ ArchCsr' = ArchCsr /\ mem' = mem
  BY <1>1, ArchNext, NoEffect DEF IsaInv, ControlInv, RegsAfterM, CsrsAfterM
<1> QED
  BY <1>2, <1>3 DEF Flow, Sequential!vars

LEMMA StutterRefines ==
  ASSUME UNCHANGED vars
  PROVE  UNCHANGED Sequential!vars
BY DEF vars, Sequential!vars, ArchPc, PcBehindM, ArchRegs, ArchCsr, WriteData

LEMMA StepRefines ==
  IsaInv /\ [SafeClock]_vars => [Sequential!Step]_(Sequential!vars)
<1>1. IsaInv /\ SafeClock => [Sequential!Step]_(Sequential!vars)
  BY EdgeFlows, CommitRefines, BubbleRefines DEF SafeClock, Clock
<1> QED
  BY <1>1, StutterRefines

(* Pipelining is invisible to software: up to the first hazard that ctrl.v *)
(* and decode.v leave open, the core's registers, CSRs and memory go       *)
(* through exactly the states of the machine that executes one instruction *)
(* after another, whatever the word size, the registers and the program.   *)
THEOREM Refinement == SafeSpec => ImplementsIsa
BY IsaInit, IsaStep, InitRefines, StepRefines, PTL
   DEF SafeSpec, ImplementsIsa, Sequential!Spec

-----------------------------------------------------------------------------
(* The core with the handshake keeps its two kinds of valid bits together  *)
(* and implements the sequential machine.                                  *)
(*                                                                         *)
(* Once its pc is valid, an edge of this core is a Flow, the steps for     *)
(* which the third part argues: the handshake never holds anything that    *)
(* ctrl.v does not hold, and lets in what ctrl.v lets in.  Before, the     *)
(* pipeline is empty and an edge changes nothing in it.                    *)


(* An empty regD holds the nop words, and before the first fetch every     *)
(* register does.                                                          *)
Cleared ==
  /\ ~regD.valid => regD = BubbleD
  /\ ~pc_valid => regD = BubbleD /\ regE = BubbleE /\ regM = BubbleM /\ regW = BubbleW

RvInv == IsaInv /\ ValidBitsAgree /\ Cleared

LEMMA RvStart == RvInit => RvInv
<1> SUFFICES ASSUME RvInit PROVE RvInv
  OBVIOUS
<1>1. regD = BubbleD /\ regE = BubbleE /\ regM = BubbleM /\ regW = BubbleW
  BY DEF RvInit, Init
<1>2. ValidBitsAgree
  BY <1>1 DEF RvInit, ValidBitsAgree, BubbleD, BubbleE, BubbleM, BubbleW
<1>3. IsaInv
  BY IsaInit DEF RvInit
<1> QED
  BY <1>1, <1>2, <1>3 DEF RvInv, Cleared

(* regE, regM and regW always let the next instruction in, regD unless it  *)
(* stalls, and the pc passes its own on unless it stalls.                  *)
LEMMA Handshake ==
  /\ regW_o_allowin /\ regM_o_allowin /\ regE_o_allowin
  /\ regD_o_allowin <=> ~regD_valid \/ ~DStall
  /\ pc_o_allowin <=> ~pc_valid \/ (~FStall /\ regD_o_allowin)
  /\ regE_o_valid <=> regE_valid
  /\ regM_o_valid <=> regM_valid
BY DEF regW_o_allowin, regM_o_allowin, regE_o_allowin, regD_o_allowin,
       pc_o_allowin, regE_o_valid, regM_o_valid, ready_go, regD_ready_go,
       pc_ready_go

(* The stalls that hold the pc but not regD flush regD.                    *)
LEMMA StallsOrFlushes == FStall /\ ~DBubble => DStall
BY DEF FStall, DStall, DBubble

(* Before the first fetch there is nothing to stall or flush.              *)
LEMMA NothingYet ==
  ASSUME RvInv, ~pc_valid
  PROVE  ~FStall /\ ~DStall /\ ~DBubble /\ ~EBubble /\ ~MBubble
<1>1. ~AmoInD /\ ~AmoInE /\ ~AmoInM
  BY Bubbles, NopIsQuiet DEF RvInv, Cleared, AmoInD, AmoInE, AmoInM
<1>2. ~LoadUse /\ ~BranchNeedJump /\ ~MretNeedJump
  BY Bubbles, NopIsQuiet DEF RvInv, Cleared, LoadUse, BranchNeedJump, MretNeedJump
<1> QED
  BY <1>1, <1>2 DEF FStall, DStall, DBubble, EBubble, MBubble

LEMMA FirstEdge ==
  ASSUME RvInv, RvEdge, ~pc_valid
  PROVE  UNCHANGED vars /\ RvInv'
<1> USE DEF RvInv
<1>1. ~FStall /\ ~DStall /\ ~DBubble /\ ~EBubble /\ ~MBubble
  BY NothingYet
<1>2. ~regD_valid /\ ~regE_valid /\ ~regM_valid /\ ~regW_valid
  BY DEF ValidBitsAgree
<1>3. pc' = pc /\ pc_valid'
  BY Handshake DEF RvEdge, RvPcEdge
<1>4. regD' = regD /\ regD_valid' = FALSE
  BY <1>1, <1>2, Handshake
     DEF RvEdge, RvRegDEdge, Taken, TakenValid, pc_o_valid, Cleared
<1>5. regE' = regE /\ regE_valid' = FALSE
  BY <1>1, <1>2, Handshake
     DEF RvEdge, RvRegEEdge, Taken, TakenValid, regD_o_valid, Cleared
<1>6. regM' = regM /\ regM_valid' = FALSE
  BY <1>1, <1>2, Handshake
     DEF RvEdge, RvRegMEdge, Taken, TakenValid, Cleared
<1>7. regW' = regW /\ regW_valid' = FALSE
  BY <1>1, <1>2, Handshake
     DEF RvEdge, RvRegWEdge, Taken, TakenValid, Cleared
<1>8. regs' = regs /\ mem' = mem /\ csr' = csr /\ prog' = prog
  BY Bubbles, NoEffect DEF RvEdge, Cleared
<1>9. UNCHANGED vars
  BY <1>3, <1>4, <1>5, <1>6, <1>7, <1>8 DEF vars
<1>10. IsaInv'
  BY <1>9, IsaStutter
<1>11. ValidBitsAgree'
  <2>1. /\ regD.valid = FALSE /\ regE.valid = FALSE
        /\ regM.valid = FALSE /\ regW.valid = FALSE
    BY DEF Cleared, BubbleD, BubbleE, BubbleM, BubbleW
  <2>2. /\ regD'.valid = FALSE /\ regE'.valid = FALSE
        /\ regM'.valid = FALSE /\ regW'.valid = FALSE
    BY <2>1, <1>4, <1>5, <1>6, <1>7
  <2> QED BY <2>2, <1>3, <1>4, <1>5, <1>6, <1>7 DEF ValidBitsAgree
<1> QED
  BY <1>3, <1>4, <1>9, <1>10, <1>11 DEF Cleared
-----------------------------------------------------------------------------
(* From the first fetch on.                                                *)

LEMMA PcFlows ==
  ASSUME RvInv, RvEdge, pc_valid
  PROVE  PcEdge /\ pc_valid' = TRUE
<1>1. DStall => FStall
  BY DEF DStall, FStall
<1>2. pc_o_allowin <=> ~FStall
  BY <1>1, Handshake
<1> QED BY <1>2 DEF RvEdge, RvPcEdge, PcEdge

LEMMA RegDFlows ==
  ASSUME RvInv, RvEdge, pc_valid
  PROVE  /\ RegDEdge
         /\ regD_valid' = regD'.valid
         /\ ~regD'.valid => regD' = BubbleD
<1> USE DEF RvInv, ValidBitsAgree
<1>1. /\ regD_valid' = (~DBubble /\ TakenValid(regD_valid, regD_o_allowin, pc_o_valid))
      /\ regD' = IF DBubble THEN BubbleD
                 ELSE Taken(regD, FetchOut, BubbleD, regD_o_allowin, pc_o_valid, FALSE)
  BY DEF RvEdge, RvRegDEdge
<1>2. pc_o_valid = ~FStall
  BY DEF pc_o_valid, pc_ready_go
<1>3. CASE DBubble
  BY <1>1, <1>3 DEF RegDEdge, BubbleD
<1>4. CASE ~DBubble /\ DStall
  <2>1. FStall
    BY <1>4 DEF FStall, DStall
  <2>2. CASE regD.valid
    <3>1. ~regD_o_allowin
      BY <1>4, <2>2, Handshake
    <3>2. regD' = regD /\ regD_valid' = regD_valid
      BY <1>1, <1>4, <2>2, <3>1 DEF Taken, TakenValid
    <3> QED BY <1>4, <2>2, <3>2 DEF RegDEdge
  <2>3. CASE ~regD.valid
    <3>1. regD_o_allowin /\ ~pc_o_valid
      BY <1>2, <2>1, <2>3, Handshake
    <3>2. regD' = BubbleD /\ regD_valid' = FALSE
      BY <1>1, <1>2, <1>4, <2>1, <3>1 DEF Taken, TakenValid
    <3>3. regD = BubbleD
      BY <2>3 DEF Cleared
    <3> QED BY <1>4, <3>2, <3>3 DEF RegDEdge, BubbleD
  <2> QED BY <2>2, <2>3
<1>5. CASE ~DBubble /\ ~DStall
  <2>1. regD_o_allowin /\ pc_o_valid = TRUE
    BY <1>2, <1>5, Handshake, StallsOrFlushes
  <2>2. regD' = FetchOut /\ regD_valid' = TRUE
    BY <1>1, <1>5, <2>1 DEF Taken, TakenValid
  <2> QED BY <1>5, <2>2 DEF RegDEdge, FetchOut
<1> QED BY <1>3, <1>4, <1>5

LEMMA RegEFlows ==
  ASSUME RvInv, RvEdge
  PROVE  /\ IF EBubble THEN regE' = BubbleE
            ELSE regE' = DecodeOut \/ (~regD.valid /\ regE' = BubbleE)
         /\ regE_valid' = regE'.valid
<1> USE DEF RvInv, ValidBitsAgree
<1>1. /\ regE_valid' = (~EBubble /\ TakenValid(regE_valid, regE_o_allowin, regD_o_valid))
      /\ regE' = IF EBubble THEN BubbleE
                 ELSE Taken(regE, DecodeOut, BubbleE, regE_o_allowin, regD_o_valid, FALSE)
  BY DEF RvEdge, RvRegEEdge
<1>2. CASE EBubble
  BY <1>1, <1>2 DEF BubbleE
<1>3. CASE ~EBubble
  <2>1. regD_o_valid = regD.valid
    <3>1. regD.valid \in BOOLEAN
      BY DEF IsaInv, TypeOK, StageD
    <3> QED BY <1>3, <3>1 DEF regD_o_valid, regD_ready_go, DStall, EBubble
  <2>2. CASE regD.valid
    <3>1. regE' = DecodeOut /\ regE_valid' = regD.valid
      BY <1>1, <1>3, <2>1, <2>2, Handshake DEF Taken, TakenValid
    <3> QED BY <1>3, <3>1 DEF DecodeOut
  <2>3. CASE ~regD.valid
    <3>1. regE' = BubbleE /\ regE_valid' = FALSE
      BY <1>1, <1>3, <2>1, <2>3, Handshake DEF Taken, TakenValid
    <3> QED BY <1>3, <2>3, <3>1 DEF BubbleE
  <2> QED BY <2>2, <2>3
<1> QED BY <1>2, <1>3

(* A bubble of regM would keep the old instruction in it if one were       *)
(* waiting in regE: it is an AMO's, and an AMO travels alone.              *)
LEMMA RegMFlows ==
  ASSUME RvInv, RvEdge
  PROVE  /\ IF AmoInM THEN regM' = BubbleM
            ELSE regM' = ExecuteOut \/ (~regE.valid /\ regM' = BubbleM)
         /\ regM_valid' = regM'.valid
<1> USE DEF RvInv, ValidBitsAgree
<1>1. regE.valid \in BOOLEAN
  BY DEF IsaInv, TypeOK, StageE
<1>2. regE_o_valid = regE.valid
  BY <1>1 DEF regE_o_valid, ready_go
<1>3. regM_valid' = regE.valid
  BY <1>2, Handshake DEF RvEdge, RvRegMEdge, TakenValid
<1>4. regM' = Taken(regM, ExecuteOut, BubbleM, regM_o_allowin, regE.valid, MBubble)
  BY <1>2 DEF RvEdge, RvRegMEdge
<1>5. CASE ~regE.valid
  <2>1. regM' = BubbleM
    BY <1>4, <1>5, Handshake DEF Taken
  <2> QED BY <1>1, <1>3, <1>5, <2>1 DEF BubbleM
<1>6. CASE regE.valid
  <2>1. ~AmoInM
    BY <1>6 DEF IsaInv, ControlInv, AmoTravelsAlone
  <2>2. regM' = ExecuteOut
    BY <1>4, <1>6, <2>1, Handshake DEF Taken, MBubble
  <2> QED BY <1>3, <2>1, <2>2 DEF ExecuteOut
<1> QED BY <1>5, <1>6

LEMMA RegWFlows ==
  ASSUME RvInv, RvEdge
  PROVE  /\ regW' = MemoryOut \/ (~regM.valid /\ regW' = BubbleW)
         /\ regW_valid' = regW'.valid
<1> USE DEF RvInv, ValidBitsAgree
<1>1. regM.valid \in BOOLEAN
  BY DEF IsaInv, TypeOK, StageM
<1>2. regM_o_valid = regM.valid
  BY <1>1 DEF regM_o_valid, ready_go
<1>3. regW_valid' = regM.valid
  BY <1>2, Handshake DEF RvEdge, RvRegWEdge, TakenValid
<1>4. regW' = Taken(regW, MemoryOut, BubbleW, regW_o_allowin, regM.valid, FALSE)
  BY <1>2 DEF RvEdge, RvRegWEdge
<1>5. CASE ~regM.valid
  <2>1. regW' = BubbleW
    BY <1>4, <1>5, Handshake DEF Taken
  <2> QED BY <1>1, <1>3, <1>5, <2>1 DEF BubbleW
<1>6. CASE regM.valid
  <2>1. regW' = MemoryOut
    BY <1>4, <1>6, Handshake DEF Taken
  <2> QED BY <1>3, <2>1 DEF MemoryOut
<1> QED BY <1>5, <1>6

LEMMA LaterEdge ==
  ASSUME RvInv, RvEdge, pc_valid
  PROVE  Flow /\ ValidBitsAgree' /\ Cleared'
<1>1. Flow
  BY PcFlows, RegDFlows, RegEFlows, RegMFlows, RegWFlows DEF RvEdge, Flow
<1>2. ValidBitsAgree'
  BY PcFlows, RegDFlows, RegEFlows, RegMFlows, RegWFlows DEF ValidBitsAgree
<1>3. Cleared'
  BY PcFlows, RegDFlows DEF Cleared
<1> QED BY <1>1, <1>2, <1>3

-----------------------------------------------------------------------------
LEMMA RvStep ==
  RvInv /\ [RvClock]_rvvars => RvInv' /\ [Sequential!Step]_(Sequential!vars)
<1> SUFFICES ASSUME RvInv, [RvClock]_rvvars
             PROVE  RvInv' /\ [Sequential!Step]_(Sequential!vars)
  OBVIOUS
<1>1. CASE RvClock /\ ~pc_valid
  BY <1>1, FirstEdge, StutterRefines DEF RvClock
<1>2. CASE RvClock /\ pc_valid
  <2>1. Flow /\ ValidBitsAgree' /\ Cleared'
    BY <1>2, LaterEdge DEF RvClock
  <2>2. IsaInv'
    BY <1>2, <2>1, IsaFlow DEF RvInv, RvClock
  <2>3. [Sequential!Step]_(Sequential!vars)
    BY <2>1, CommitRefines, BubbleRefines DEF RvInv
  <2> QED BY <2>1, <2>2, <2>3 DEF RvInv
<1>3. CASE UNCHANGED rvvars
  <2>1. UNCHANGED vars /\ UNCHANGED valids
    BY <1>3 DEF rvvars
  <2>2. IsaInv'
    BY <2>1, IsaStutter DEF RvInv
  <2>3. ValidBitsAgree' /\ Cleared'
    BY <2>1 DEF vars, valids, RvInv, ValidBitsAgree, Cleared
  <2> QED BY <2>1, <2>2, <2>3, StutterRefines DEF RvInv
<1> QED BY <1>1, <1>2, <1>3

(* Whatever the program, the valid bits of the handshake and those that    *)
(* commit.v announces by never part, although each is written by its own   *)
(* statements and the bubbles of regM and regW clear neither.              *)
THEOREM BitsAgree == RvSpec => []ValidBitsAgree
<1>1. RvInv => ValidBitsAgree
  BY DEF RvInv
<1> QED BY <1>1, RvStart, RvStep, PTL DEF RvSpec

(* An AMO travels alone in this core too; its regM relies on it, which     *)
(* would otherwise keep the AMO and lose the instruction behind it.        *)
THEOREM RvAmoAlone == RvSpec => []AmoTravelsAlone
<1>1. RvInv => AmoTravelsAlone
  BY DEF RvInv, IsaInv, ControlInv
<1> QED BY <1>1, RvStart, RvStep, PTL DEF RvSpec

(* Up to the first of the hazards that the two cores share, the handshake  *)
(* is invisible to software: the core goes through exactly the states of   *)
(* the sequential machine, for every program and every word size.          *)
THEOREM RvRefinement == RvSpec => ImplementsIsa
<1>1. RvInit => Sequential!Init
  BY InitRefines DEF RvInit
<1> QED
  BY <1>1, RvStart, RvStep, PTL DEF RvSpec, ImplementsIsa, Sequential!Spec

-----------------------------------------------------------------------------
(* The differential test: while nothing has happened that the ISA does     *)
(* differently, the reference stands where the core's written-back state   *)
(* stands.                                                                 *)
(*                                                                         *)
(* An instruction that leaves regM has been executed on the architectural  *)
(* state (MFresh), which is the state of the reference once it has         *)
(* executed the instruction in regW.  So the reference, one instruction    *)
(* later, computes what the core has in regW (RefAhead).                   *)


(* While the core and the ISA agree, the core is in order, and nothing the *)
(* ISA does differently is behind regE.                                    *)
Agreed ==
  agree => /\ IsaInv
           /\ regM.instr.op \notin Differs
           /\ regW.instr.op \notin Differs

(* The reference's next step is the instruction in regW.  What a load from *)
(* a device returned, only the core knows.                                 *)
RefAhead ==
  agree /\ phase = "run" /\ regW.valid =>
    /\ RefExec(ref).pc = regW.npc
    /\ RefExec(ref).csr = ArchCsr
    /\ RefExec(ref).mem = mem
    /\ IsSpecial \/ RefExec(ref).regs = ArchRegs

DiffInv == DiffTypeOK /\ Agreed /\ RefAhead /\ Lockstep /\ NoFalseAlarm
-----------------------------------------------------------------------------
(* Types.                                                                  *)

RefState == [pc : Word, regs : [Reg -> Word], mem : [Addr -> Word], csr : [Csr -> Word]]

LEMMA RefExecType ==
  ASSUME TypeOK, NEW r \in RefState
  PROVE  RefExec(r) \in RefState
<1> DEFINE i   == Fetch(prog, r.pc)
           d1  == RegRead(r.regs, i.rs1)
           d2  == RegRead(r.regs, i.rs2)
           c1  == CsrRead(r.csr, CsrRid1(i))
           c2  == CsrRead(r.csr, CsrRid2(i))
           alu == AluResult(i, r.pc, d1, d2, c1)
           old == IF d1 \in Addr THEN r.mem[d1] ELSE 0
           wb  == CASE IsAmo(i)  -> old
                    [] IsLoad(i) -> (IF alu \in Addr THEN r.mem[alu] ELSE 0)
                    [] OTHER     -> WriteBackData(i, r.pc, alu, 0, c1)
           x   == RefExec(r)
<1>1. /\ r.pc \in Word /\ r.regs \in [Reg -> Word] /\ r.mem \in [Addr -> Word]
      /\ r.csr \in [Csr -> Word]
  BY DEF RefState
<1>2. i \in Instr /\ i.rs1 \in Reg /\ i.rs2 \in Reg
  <2>1. i \in Instr
    BY <1>1, FetchType DEF TypeOK
  <2> QED BY <2>1 DEF Instr
<1> HIDE DEF i
<1>3. d1 \in Word /\ d2 \in Word
  BY <1>1, <1>2, RegReadType
<1>4. c1 \in Word /\ c2 \in Word
  BY <1>1, CsrReadType
<1> HIDE DEF d1, d2, c1, c2
<1>5. alu \in Word
  BY <1>1, <1>2, <1>3, <1>4, AluResultType
<1> HIDE DEF alu
<1>6. 0 \in Word /\ old \in Word
  BY <1>1, NopType
<1> HIDE DEF old
<1>7. WriteBackData(i, r.pc, alu, 0, c1) \in Word
  BY <1>1, <1>2, <1>4, <1>5, <1>6, WriteBackType
<1>8. wb \in Word
  BY <1>1, <1>5, <1>6, <1>7
<1> HIDE DEF wb
<1>9. Target(i, alu, c2) \in Word
  BY <1>2, <1>4, <1>5, TargetType
<1>10. Wrap(r.pc + 4) \in Word /\ Wrap(old + d2) \in Word
  BY <1>1, <1>3, <1>6, WrapType DEF Word
<1>11. RegEffect(r.regs, i, wb) \in [Reg -> Word]
  BY <1>1, <1>2, <1>8, RegEffectType
<1>12. MemEffect(r.mem, i, alu, d1, d2) \in [Addr -> Word]
  BY <1>1, <1>2, <1>3, <1>5, MemEffectType
<1>13. MemWrite(r.mem, d1, Wrap(old + d2)) \in [Addr -> Word]
  BY <1>1, <1>10 DEF MemWrite
<1>14. CsrEffect(r.csr, i, alu) \in [Csr -> Word]
  BY <1>1, <1>2, <1>5, CsrEffectType
<1>15. /\ x.pc = CASE i.op = "ecall"           -> r.csr[mtvec]
                   [] Redirects(i, d1, d2)     -> Target(i, alu, c2)
                   [] OTHER                    -> Wrap(r.pc + 4)
       /\ x.regs = RegEffect(r.regs, i, wb)
       /\ x.mem = IF i.op = "amo" THEN MemWrite(r.mem, d1, Wrap(old + d2))
                  ELSE MemEffect(r.mem, i, alu, d1, d2)
       /\ x.csr = CASE i.op = "ecall" -> [r.csr EXCEPT ![mepc] = r.pc]
                    [] IsMret(i)      -> [r.csr EXCEPT ![mstatus] = MretMstatus(@)]
                    [] OTHER          -> CsrEffect(r.csr, i, alu)
       /\ x = [pc |-> x.pc, regs |-> x.regs, mem |-> x.mem, csr |-> x.csr]
  BY DEF RefExec, i, d1, d2, c1, c2, alu, old, wb
<1> HIDE DEF x
<1>16. x.pc \in Word
  BY <1>1, <1>9, <1>10, <1>15, RefAssumption
<1>17. x.regs \in [Reg -> Word] /\ x.mem \in [Addr -> Word]
  BY <1>11, <1>12, <1>13, <1>15
<1>18. x.csr \in [Csr -> Word]
  <2>1. r.csr[mstatus] \in Word
    BY <1>1, CsrAssumption
  <2>2. MretMstatus(r.csr[mstatus]) \in Word
    BY <2>1, RefAssumption
  <2> QED BY <1>1, <1>14, <1>15, <2>2, CsrAssumption
<1> QED BY <1>15, <1>16, <1>17, <1>18 DEF x, RefState

LEMMA SyncedType ==
  ASSUME TypeOK, NEW r \in RefState, NEW rf \in [Reg -> Word], NEW cf \in [Csr -> Word]
  PROVE  Synced(r, rf, cf) \in RefState
<1>1. regW.npc \in Word
  BY DEF TypeOK, StageW
<1>2. CASE IsSpecial
  <2>1. Synced(r, rf, cf) = [r EXCEPT !.pc = regW.npc, !.regs = rf, !.csr = cf]
    BY <1>2 DEF Synced
  <2> QED BY <1>1, <2>1 DEF RefState
<1>3. CASE ~IsSpecial
  BY <1>3 DEF Synced
<1> QED BY <1>2, <1>3

LEMMA DiffInitType == DiffInit => DiffTypeOK
<1> SUFFICES ASSUME DiffInit PROVE DiffTypeOK
  OBVIOUS
<1>1. TypeOK
  BY InitType DEF DiffInit
<1>2. ref = [pc |-> pc, regs |-> regs, mem |-> mem, csr |-> csr]
  BY DEF DiffInit, Init
<1>3. ref \in RefState
  BY <1>1, <1>2 DEF RefState, TypeOK
<1> QED BY <1>1, <1>3 DEF DiffInit, DiffTypeOK, RefState

LEMMA DiffStepType ==
  ASSUME DiffTypeOK, [DiffNext]_diffvars
  PROVE  DiffTypeOK'
<1> USE DEF DiffTypeOK
<1>1. ASSUME Cycle PROVE TypeOK' /\ agree' \in BOOLEAN
  BY <1>1, EdgeFlows, FlowType DEF Cycle
<1>2. CASE Wait
  BY <1>1, <1>2 DEF Wait, harness
<1>3. CASE CheckEbreak
  BY <1>3 DEF CheckEbreak, vars, TypeOK
<1>4. CASE DifftestStep
  <2>1. TypeOK' /\ agree' \in BOOLEAN
    BY <1>1, <1>4 DEF DifftestStep
  <2>2. ref \in RefState
    BY DEF RefState
  <2>3. Synced(RefExec(ref), regs', csr') \in RefState
    BY <2>1, <2>2, RefExecType, SyncedType DEF TypeOK
  <2>4. ref' \in RefState
    BY <1>4, <2>3 DEF DifftestStep
  <2>5. report' \in {"none", "pc", "gpr", "csr"}
    BY <1>4 DEF DifftestStep, Compare
  <2>6. phase' \in {"run", "exit", "gone"}
    BY <1>4 DEF DifftestStep
  <2> QED BY <2>1, <2>4, <2>5, <2>6 DEF RefState
<1>5. CASE SimExit
  BY <1>1, <1>5 DEF SimExit
<1>6. CASE UNCHANGED diffvars
  BY <1>6 DEF diffvars, harness, vars, TypeOK
<1> QED BY <1>2, <1>3, <1>4, <1>5, <1>6 DEF DiffNext

(* The core's registers keep their types under the simulator too, and the  *)
(* reference's state, exchanged with the core's on every device access,    *)
(* keeps those of the core.                                                *)
THEOREM DiffTyped == DiffSpec => []DiffTypeOK
<1>1. DiffInit => DiffTypeOK
  BY DiffInitType
<1>2. DiffTypeOK /\ [DiffNext]_diffvars => DiffTypeOK'
  BY DiffStepType
<1> QED BY <1>1, <1>2, PTL DEF DiffSpec

-----------------------------------------------------------------------------
LEMMA LoadWritesBack ==
  ASSUME NEW i, IsLoad(i), NEW a, NEW alu, NEW md, NEW c1
  PROVE  WriteBackData(i, a, alu, md, c1) = md
BY DEF IsLoad, IsCsr, WriteBackData

(* What the reference makes of the instruction in regM, if it executes it  *)
(* on the architectural state.                                             *)
LEMMA RefOfM ==
  ASSUME IsaInv, regM.valid, regM.instr.op \notin Differs, NEW r,
         r.pc = regM.pc, r.regs = ArchRegs, r.csr = ArchCsr, r.mem = mem
  PROVE  /\ RefExec(r).pc = regM.npc
         /\ RefExec(r).csr = CsrsAfterM
         /\ RefExec(r).mem = MemEffect(mem, regM.instr, regM.alu, regM.d1, regM.d2)
         /\ \/ regM.instr.op = "load" /\ regM.alu \in Mmio
            \/ RefExec(r).regs = RegsAfterM
<1> DEFINE i   == Fetch(prog, r.pc)
           d1  == RegRead(r.regs, i.rs1)
           d2  == RegRead(r.regs, i.rs2)
           c1  == CsrRead(r.csr, CsrRid1(i))
           c2  == CsrRead(r.csr, CsrRid2(i))
           alu == AluResult(i, r.pc, d1, d2, c1)
           old == IF d1 \in Addr THEN r.mem[d1] ELSE 0
           wb  == CASE IsAmo(i)  -> old
                    [] IsLoad(i) -> (IF alu \in Addr THEN r.mem[alu] ELSE 0)
                    [] OTHER     -> WriteBackData(i, r.pc, alu, 0, c1)
<1>1. i = regM.instr
  BY DEF IsaInv, Fetched
<1>2. i.op \notin Differs
  BY <1>1
<1>3. /\ RefExec(r).pc = IF Redirects(i, d1, d2) THEN Target(i, alu, c2)
                         ELSE Wrap(r.pc + 4)
      /\ RefExec(r).regs = RegEffect(r.regs, i, wb)
      /\ RefExec(r).mem = MemEffect(r.mem, i, alu, d1, d2)
      /\ RefExec(r).csr = CsrEffect(r.csr, i, alu)
  BY <1>2 DEF RefExec, Differs, IsMret
<1>4. /\ UsesRs1(i) => regM.d1 = d1
      /\ UsesRs2(i) => regM.d2 = d2
      /\ IsCsr(i) => regM.c1 = c1
  BY <1>1 DEF IsaInv, MFresh, IsCsr, IsMret, CsrRid1
<1>5. c2 = CsrRead(ArchCsr, CsrRid2(i))
  OBVIOUS
<1> HIDE DEF i, d1, d2, c1, c2
<1>6. regM.alu = alu
  BY <1>1, <1>4, UsedOnly DEF IsaInv, MFresh
<1>7. Redirects(i, regM.d1, regM.d2) <=> Redirects(i, d1, d2)
  BY <1>4 DEF Redirects, BranchJump, UsesRs1, UsesRs2
<1>8. Target(i, regM.alu, CsrRead(ArchCsr, mepc)) = Target(i, alu, c2)
  BY <1>5, <1>6 DEF Target, CsrRid2
<1>9. RefExec(r).pc = regM.npc
  BY <1>1, <1>3, <1>7, <1>8 DEF IsaInv, MFresh
<1>10. RefExec(r).csr = CsrsAfterM
  BY <1>1, <1>3, <1>6 DEF CsrsAfterM
<1>11. RefExec(r).mem = MemEffect(mem, regM.instr, regM.alu, regM.d1, regM.d2)
  BY <1>1, <1>3, <1>4, <1>6 DEF MemEffect, UsesRs1, UsesRs2
<1>12. ASSUME ~(i.op = "load" /\ alu \in Mmio)
       PROVE  wb = WriteBackData(regM.instr, regM.pc, regM.alu, MemoryData, regM.c1)
  <2>1. CASE IsLoad(i)
    <3>1. alu # UartLsr
      BY <1>12, <2>1, MmioAssumption DEF IsLoad
    <3>2. MemoryData = IF alu \in Addr THEN r.mem[alu] ELSE 0
      BY <1>1, <1>6, <2>1, <3>1 DEF MemoryData, MemData, MemRead
    <3>3. wb = MemoryData
      BY <2>1, <3>2 DEF IsLoad, IsAmo
    <3>4. WriteBackData(i, regM.pc, regM.alu, MemoryData, regM.c1) = MemoryData
      BY <2>1, LoadWritesBack
    <3> QED BY <1>1, <3>3, <3>4
  <2>2. CASE ~IsLoad(i)
    <3>1. wb = WriteBackData(i, r.pc, alu, 0, c1)
      BY <1>2, <2>2 DEF Differs, IsAmo
    <3>2. WriteBackData(i, r.pc, alu, 0, c1) =
            WriteBackData(i, r.pc, alu, MemoryData, regM.c1)
      BY <1>2, <1>4, <2>2 DEF WriteBackData, Differs
    <3> QED BY <1>1, <1>6, <3>1, <3>2
  <2> QED BY <2>1, <2>2
<1> HIDE DEF wb
<1>13. \/ regM.instr.op = "load" /\ regM.alu \in Mmio
       \/ RefExec(r).regs = RegsAfterM
  BY <1>1, <1>3, <1>6, <1>12 DEF RegsAfterM
<1> QED BY <1>9, <1>10, <1>11, <1>13
-----------------------------------------------------------------------------
(* The inductive invariant.                                                *)

LEMMA CycleAgrees ==
  ASSUME DiffTypeOK, Agreed, Cycle
  PROVE  Agreed'
<1> SUFFICES ASSUME agree'
             PROVE  /\ IsaInv'
                    /\ regM'.instr.op \notin Differs
                    /\ regW'.instr.op \notin Differs
  BY DEF Agreed
<1>1. agree /\ HazardFree /\ regE.instr.op \notin Differs /\ Flow
  BY EdgeFlows DEF Cycle
<1>2. IsaInv /\ regM.instr.op \notin Differs
  BY <1>1 DEF Agreed
<1>3. NoneInstr.op \notin Differs
  BY DEF NoneInstr, Differs
<1>4. regM'.instr.op \notin Differs
  BY <1>1, <1>3, NextM, Bubbles
<1>5. regW'.instr.op \notin Differs
  BY <1>1, <1>2, <1>3, NextW, Bubbles
<1> QED
  BY <1>1, <1>2, <1>4, <1>5, IsaFlow

(* Once the reference stands where all that has left regM has led, it is   *)
(* in step after the edge, and its next step is what enters regW.          *)
LEMMA CatchesUp ==
  ASSUME IsaInv, Flow, regM.instr.op \notin Differs,
         ref'.pc = ArchPc, ref'.regs = ArchRegs, ref'.csr = ArchCsr,
         ref'.mem = mem
  PROVE  Lockstep' /\ RefAhead'
<1>1. regs' = ArchRegs /\ csr' = ArchCsr /\ prog' = prog
  BY DEF Flow, ArchRegs, ArchCsr
<1>2. RefExec(ref)' = RefExec(ref')
  BY <1>1 DEF RefExec
<1>3. /\ ArchRegs' = RegsAfterM /\ ArchCsr' = CsrsAfterM
      /\ mem' = MemEffect(mem, regM.instr, regM.alu, regM.d1, regM.d2)
  BY ArchNext DEF IsaInv, ControlInv
<1>4. CASE regM.valid
  <2>1. regM.pc = ArchPc
    BY <1>4 DEF ArchPc
  <2>2. /\ RefExec(ref').pc = regM.npc
        /\ RefExec(ref').csr = CsrsAfterM
        /\ RefExec(ref').mem = MemEffect(mem, regM.instr, regM.alu, regM.d1, regM.d2)
        /\ \/ regM.instr.op = "load" /\ regM.alu \in Mmio
           \/ RefExec(ref').regs = RegsAfterM
    BY <1>4, <2>1, RefOfM
  <2>3. /\ regW'.valid = regM.valid /\ regW'.pc = regM.pc /\ regW'.npc = regM.npc
        /\ regW'.instr = regM.instr /\ regW'.alu = regM.alu
    BY <1>4, NextW
  <2>4. IsSpecial' \/ RefExec(ref').regs = RegsAfterM
    BY <2>2, <2>3 DEF IsSpecial
  <2>5. Lockstep'
    BY <1>1, <1>2, <1>3, <1>4, <2>1, <2>2, <2>3 DEF Lockstep
  <2>6. RefAhead'
    BY <1>2, <1>3, <2>2, <2>3, <2>4 DEF RefAhead
  <2> QED
    BY <2>5, <2>6
<1>5. CASE ~regM.valid
  <2>1. ~regW'.valid
    BY <1>5, NextW, Bubbles
  <2>2. ArchPc' = ArchPc
    BY <1>5, LinkW DEF IsaInv
  <2>3. mem' = mem
    BY <1>3, <1>5, NoEffect DEF IsaInv, ControlInv, QuietBubbles
  <2> QED
    BY <1>1, <2>1, <2>2, <2>3 DEF Lockstep, RefAhead
<1> QED
  BY <1>4, <1>5

(* A cycle that commits nothing leaves the reference where it stands.      *)
LEMMA WaitInStep ==
  ASSUME DiffTypeOK, Agreed, Lockstep, Wait, agree'
  PROVE  Lockstep' /\ RefAhead'
<1>1. agree /\ phase = "run" /\ ~regW.valid /\ Flow /\ ref' = ref
  BY EdgeFlows DEF Wait, Cycle, harness
<1>2. IsaInv /\ regM.instr.op \notin Differs
  BY <1>1 DEF Agreed
<1>3. ref.regs = regs /\ ref.csr = csr /\ ref.pc = ArchPc /\ mem = ref.mem
  BY <1>1 DEF Lockstep
<1>4. ArchRegs = regs /\ ArchCsr = csr
  BY <1>1, <1>2, NoEffect DEF IsaInv, ControlInv, QuietBubbles, ArchRegs, ArchCsr
<1> QED
  BY <1>1, <1>2, <1>3, <1>4, CatchesUp

(* A commit: whether the reference has computed the instruction in regW or *)
(* was given the core's registers, it stands where the core does, and the  *)
(* comparison finds nothing.                                               *)
LEMMA CommitInStep ==
  ASSUME DiffTypeOK, Agreed, RefAhead, DifftestStep, agree'
  PROVE  Lockstep' /\ RefAhead' /\ report' = "none"
<1> DEFINE x == RefExec(ref)
<1>1. agree /\ phase = "run" /\ regW.valid /\ Flow
  BY EdgeFlows DEF DifftestStep, Cycle
<1>2. IsaInv /\ regM.instr.op \notin Differs
  BY <1>1 DEF Agreed
<1>3. regs' = ArchRegs /\ csr' = ArchCsr
  BY <1>1 DEF Flow, ArchRegs, ArchCsr
<1>4. /\ x.pc = regW.npc /\ x.csr = ArchCsr /\ x.mem = mem
      /\ IsSpecial \/ x.regs = ArchRegs
  BY <1>1 DEF RefAhead
<1>5. x \in RefState
  <2>1. ref \in RefState
    BY DEF DiffTypeOK, RefState
  <2> QED
    BY <2>1, RefExecType DEF DiffTypeOK
<1>6. regW.npc = ArchPc
  BY <1>1, <1>2 DEF IsaInv, ControlInv, CommitChain
<1> HIDE DEF x
<1>7. /\ ref' = Synced(x, ArchRegs, ArchCsr)
      /\ report' = Compare(ref', ArchRegs, ArchCsr)
  BY <1>3 DEF DifftestStep, x
<1>8. ref'.pc = ArchPc /\ ref'.regs = ArchRegs /\ ref'.csr = ArchCsr /\ ref'.mem = mem
  <2>1. CASE IsSpecial
    <3>1. ref' = [x EXCEPT !.pc = regW.npc, !.regs = ArchRegs, !.csr = ArchCsr]
      BY <1>7, <2>1 DEF Synced
    <3> QED
      BY <1>4, <1>5, <1>6, <3>1 DEF RefState
  <2>2. CASE ~IsSpecial
    BY <1>4, <1>6, <1>7, <2>2 DEF Synced
  <2> QED
    BY <2>1, <2>2
<1>9. report' = "none"
  BY <1>6, <1>7, <1>8 DEF Compare
<1> QED
  BY <1>1, <1>2, <1>8, <1>9, CatchesUp

LEMMA DiffInitInv == DiffInit => DiffInv
<1> SUFFICES ASSUME DiffInit PROVE DiffInv
  OBVIOUS
<1>1. DiffTypeOK
  BY DiffInitType
<1>2. ~regW.valid /\ regW.instr = NoneInstr /\ regM.instr = NoneInstr
  BY Bubbles DEF DiffInit, Init
<1>3. Agreed
  BY <1>2, IsaInit DEF DiffInit, Agreed, NoneInstr, Differs
<1>4. ref.regs = regs /\ ref.csr = csr /\ ref.pc = pc /\ ref.mem = mem
  BY DEF DiffInit, Init
<1>5. ArchPc = pc
  BY Bubbles DEF DiffInit, Init, ArchPc, PcBehindM
<1>6. Lockstep /\ RefAhead /\ NoFalseAlarm
  BY <1>2, <1>4, <1>5 DEF Lockstep, RefAhead, NoFalseAlarm, DiffInit
<1> QED
  BY <1>1, <1>3, <1>6 DEF DiffInv

LEMMA DiffStutter ==
  ASSUME DiffInv, UNCHANGED diffvars
  PROVE  DiffInv'
<1> USE DEF DiffInv
<1>1. UNCHANGED vars /\ UNCHANGED harness /\ agree' = agree
  BY DEF diffvars
<1>2. DiffTypeOK'
  BY DiffStepType
<1>3. Agreed'
  BY <1>1, IsaStutter DEF Agreed, vars
<1>4. RefExec(ref)' = RefExec(ref)
  BY <1>1 DEF RefExec, vars, harness
<1>5. ArchPc' = ArchPc /\ ArchRegs' = ArchRegs /\ ArchCsr' = ArchCsr
  BY <1>1, StutterRefines DEF Sequential!vars
<1>6. Lockstep'
  BY <1>1, <1>4, <1>5 DEF Lockstep, vars, harness
<1>7. RefAhead'
  BY <1>1, <1>4, <1>5 DEF RefAhead, IsSpecial, vars, harness
<1>8. NoFalseAlarm'
  BY <1>1 DEF NoFalseAlarm, harness
<1> QED
  BY <1>2, <1>3, <1>6, <1>7, <1>8

LEMMA DiffStepInv == DiffInv /\ [DiffNext]_diffvars => DiffInv'
<1> SUFFICES ASSUME DiffInv, [DiffNext]_diffvars PROVE DiffInv'
  OBVIOUS
<1> USE DEF DiffInv
<1>1. DiffTypeOK'
  BY DiffStepType
<1>2. CASE Wait
  <2>1. Agreed'
    BY <1>2, CycleAgrees DEF Wait
  <2>2. agree' => agree
    BY <1>2 DEF Wait, Cycle
  <2>3. NoFalseAlarm'
    BY <1>2, <2>2 DEF Wait, harness, NoFalseAlarm
  <2>4. Lockstep' /\ RefAhead'
    BY <1>2, WaitInStep DEF Lockstep, RefAhead
  <2> QED
    BY <1>1, <2>1, <2>3, <2>4
<1>3. CASE DifftestStep
  <2>1. Agreed'
    BY <1>3, CycleAgrees DEF DifftestStep
  <2>2. Lockstep' /\ RefAhead' /\ NoFalseAlarm'
    BY <1>3, CommitInStep DEF Lockstep, RefAhead, NoFalseAlarm
  <2> QED
    BY <1>1, <2>1, <2>2
<1>4. CASE CheckEbreak
  <2>1. Agreed'
    BY <1>4, IsaStutter DEF CheckEbreak, Agreed, vars
  <2>2. Lockstep' /\ RefAhead' /\ NoFalseAlarm'
    BY <1>4 DEF CheckEbreak, Lockstep, RefAhead, NoFalseAlarm
  <2> QED
    BY <1>1, <2>1, <2>2
<1>5. CASE SimExit
  <2>1. Agreed'
    BY <1>5, CycleAgrees DEF SimExit
  <2>2. Lockstep' /\ RefAhead' /\ NoFalseAlarm'
    BY <1>5 DEF SimExit, Cycle, Lockstep, RefAhead, NoFalseAlarm
  <2> QED
    BY <1>1, <2>1, <2>2
<1>6. CASE UNCHANGED diffvars
  BY <1>6, DiffStutter
<1> QED
  BY <1>2, <1>3, <1>4, <1>5, <1>6 DEF DiffNext

(* As long as the core and the ISA agree, the reference stands between two *)
(* commits where the core's written-back state stands, in pc, registers,   *)
(* CSRs and memory: exec.c commits nothing twice, and difftest_step skips  *)
(* nothing and takes no step too many, for any program.                    *)
THEOREM InLockstep == DiffSpec => []Lockstep
<1>1. DiffInv => Lockstep
  BY DEF DiffInv
<1> QED
  BY DiffInitInv, DiffStepInv, <1>1, PTL DEF DiffSpec

(* As long as the core and the ISA agree, checkregs and checkcsrs report   *)
(* nothing, whatever the program reads from the devices.                   *)
THEOREM NoAlarm == DiffSpec => []NoFalseAlarm
<1>1. DiffInv => NoFalseAlarm
  BY DEF DiffInv
<1> QED
  BY DiffInitInv, DiffStepInv, <1>1, PTL DEF DiffSpec
=============================================================================
