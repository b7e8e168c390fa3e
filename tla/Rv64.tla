------------------------------- MODULE Rv64 -------------------------------
(***************************************************************************)
(* The combinational functions of one instruction of the rv64 core: what   *)
(* decode.v, execute.v, memory.v, write_back.v, csrfile.v and regfile.v    *)
(* compute for it, and the memory dpi.c shows it.  They are shared by the  *)
(* five-stage pipeline and by the machine that runs one instruction at a   *)
(* time.                                                                   *)
(*                                                                         *)
(* Words, addresses and pcs are numbers below WordSize (2^64 in hardware), *)
(* counted in bytes and wrapping.  A data access reads or writes the whole *)
(* cell of its address: byte lanes and sign extension are left out.  Code  *)
(* and data are apart: no store changes an instruction.                    *)
(*                                                                         *)
(* An instruction is the record of its fields.  op stands for the opcode   *)
(* class and its one or two members that differ in control; "none" is any  *)
(* word the decoder does not recognise, the zero word and fence included.  *)
(* Every instruction has rs1, rs2 and csr fields: the hardware compares    *)
(* and reads them whether the instruction uses them or not.                *)
(***************************************************************************)
EXTENDS Integers

CONSTANTS
  WordSize,         \* the number of words
  NReg,             \* the number of general registers, 32 in hardware
  Csr,              \* the CSR ids check_csr_rid.v and check_csr_wid.v accept
  mstatus, mepc,    \* two of them
  BadCsr,           \* stands for every id they refuse
  BitOr(_, _),      \* a | b
  BitAndNot(_, _),  \* a & ~b
  Addr,             \* the data addresses inside the pmem window of dpi.c
  UartLsr,          \* 0x10000005, the UART line status register
  CodeAddr,         \* the instruction addresses inside it, multiples of 4
  InitMem,          \* the data part of the image loaded before reset
  ResetPc,          \* 64'h80000000
  CsrReset          \* what csrfile.v gives at reset to mstatus, mie and sstatus

Word  == 0 .. WordSize - 1
Reg   == 0 .. NReg - 1
CsrId == Csr \cup {BadCsr}

Op == {"none", "alu_imm", "alu_reg", "lui", "auipc", "load", "store",
       "beq", "bne", "jal", "jalr", "csrrw", "csrrs", "csrrc",
       "mret", "ecall", "ebreak", "amoswap", "amo"}

Instr == [op : Op, rd : Reg, rs1 : Reg, rs2 : Reg, imm : Word, csr : CsrId]

ASSUME WordSizeAssumption == WordSize \in Nat \ {0}

ASSUME NRegAssumption == NReg \in Nat /\ NReg > 1

ASSUME CsrAssumption == {mstatus, mepc} \subseteq Csr /\ BadCsr \notin Csr

ASSUME BitOpsAssumption ==
  \A a, b \in Word : BitOr(a, b) \in Word /\ BitAndNot(a, b) \in Word

ASSUME ImageAssumption ==
  /\ InitMem \in [Addr -> Word] /\ UartLsr \notin Addr
  /\ ResetPc \in Word
  /\ \A c \in DOMAIN CsrReset : CsrReset[c] \in Word

Wrap(n) == n % WordSize

-----------------------------------------------------------------------------
(* The reset and initial contents.  regfile.v fills every register with    *)
(* its own number and x1 with the reset pc plus 0x20.                      *)

InitRegs ==
  [r \in Reg |-> IF r = 0 THEN 0
                 ELSE IF r = 1 THEN Wrap(ResetPc + 32) ELSE Wrap(r)]

(* The CSRs that reset does not give another value are 0, by reset itself  *)
(* or by the initial block.                                                *)
InitCsr == [c \in Csr |-> IF c \in DOMAIN CsrReset THEN CsrReset[c] ELSE 0]

(* The word decode sees in a flushed regD, addi x0,x0,0, and the all-zero  *)
(* control words of a flushed regE, regM or regW.                          *)
NopInstr ==
  [op |-> "alu_imm", rd |-> 0, rs1 |-> 0, rs2 |-> 0, imm |-> 0, csr |-> BadCsr]
NoneInstr ==
  [op |-> "none", rd |-> 0, rs1 |-> 0, rs2 |-> 0, imm |-> 0, csr |-> BadCsr]

-----------------------------------------------------------------------------
(* Memory behind the DPI calls: outside the window a read returns 0 and a  *)
(* write is ignored (at 0x10000000 it prints a character), except that the *)
(* UART line status always reads 0x20.                                     *)

Fetch(prog, a) ==
  LET aligned == a - (a % 4)
  IN  IF aligned \in CodeAddr THEN prog[aligned] ELSE NoneInstr

MemRead(mem, a) ==
  IF a = UartLsr THEN Wrap(32) ELSE IF a \in Addr THEN mem[a] ELSE 0

MemWrite(mem, a, v) == IF a \in Addr THEN [mem EXCEPT ![a] = v] ELSE mem

-----------------------------------------------------------------------------
(* Decode.                                                                 *)

IsLoad(i) == i.op = "load"
IsAmo(i)  == i.op \in {"amoswap", "amo"}
IsCsr(i)  == i.op \in {"csrrw", "csrrs", "csrrc"}
IsMret(i) == i.op = "mret"

WritesReg(i) ==
  i.op \in {"alu_imm", "alu_reg", "lui", "auipc", "load", "jal", "jalr",
            "csrrw", "csrrs", "csrrc", "amoswap", "amo"}

(* The classes whose result is the adder's or the ALU's.                   *)
IsAluResult(i) ==
  i.op \in {"alu_imm", "alu_reg", "lui", "auipc", "beq", "bne"}

CsrWen(i)  == IsCsr(i) \/ IsMret(i)
CsrWid(i)  == IF IsMret(i) THEN mstatus ELSE i.csr
CsrRid1(i) == IF IsMret(i) THEN mstatus ELSE i.csr
CsrRid2(i) == IF IsMret(i) THEN mepc ELSE i.csr

RegRead(regs, r) == IF r = 0 THEN 0 ELSE regs[r]

(* Mutant: the value of an unknown CSR has one bit too many.               *)
MutCsrRead(csr, id) == IF id \in Csr THEN csr[id] ELSE WordSize

CsrRead(csr, id) == IF id \in Csr THEN csr[id] ELSE WordSize - 1

-----------------------------------------------------------------------------
(* Execute.  mret, ecall, ebreak, the AMOs and unknown words fall through  *)
(* to 0.                                                                   *)

AluResult(i, pc, d1, d2, c1) ==
  CASE i.op \in {"alu_imm", "load", "store", "jalr"} -> Wrap(d1 + i.imm)
    [] i.op = "alu_reg"                              -> Wrap(d1 - d2)
    [] i.op = "lui"                                  -> i.imm
    [] i.op \in {"auipc", "beq", "bne", "jal"}       -> Wrap(pc + i.imm)
    [] i.op = "csrrw"                                -> d1
    [] i.op = "csrrs"                                -> BitOr(c1, d1)
    [] i.op = "csrrc"                                -> BitAndNot(c1, d1)
    [] OTHER                                         -> 0

BranchJump(i, d1, d2) ==
  \/ i.op = "beq" /\ d1 = d2
  \/ i.op = "bne" /\ d1 # d2
  \/ i.op \in {"jal", "jalr"}

Redirects(i, d1, d2) == BranchJump(i, d1, d2) \/ IsMret(i)

(* Where a redirecting instruction goes: jalr clears bit 0, mret goes to   *)
(* the value read from mepc.                                               *)
Target(i, alu, c2) ==
  CASE i.op = "jalr" -> alu - (alu % 2)
    [] IsMret(i)     -> c2
    [] OTHER         -> alu

-----------------------------------------------------------------------------
(* Memory access and write back.                                           *)

(* memory.v drives mem_rdata only under inst_load, so amoswap reads 0.     *)
MemData(mem, i, alu) == IF IsLoad(i) THEN MemRead(mem, alu) ELSE 0

(* amoswap.w is the one AMO that writes; it addresses with rs1.            *)
MemEffect(mem, i, alu, d1, d2) ==
  CASE i.op = "store"   -> MemWrite(mem, alu, d2)
    [] i.op = "amoswap" -> MemWrite(mem, d1, d2)
    [] OTHER            -> mem

WriteBackData(i, pc, alu, md, c1) ==
  CASE i.op \in {"jal", "jalr"} -> Wrap(pc + 4)
    [] IsLoad(i)                -> md
    [] IsCsr(i)                 -> c1
    [] i.op = "amoswap"         -> md
    [] OTHER                    -> alu

RegEffect(regs, i, v) ==
  IF WritesReg(i) /\ i.rd # 0 THEN [regs EXCEPT ![i.rd] = v] ELSE regs

CsrEffect(csr, i, v) ==
  IF CsrWen(i) /\ CsrWid(i) \in Csr THEN [csr EXCEPT ![CsrWid(i)] = v] ELSE csr
=============================================================================
