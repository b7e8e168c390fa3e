---------------------------- MODULE MCPipeline ----------------------------
(***************************************************************************)
(* Small instances of the pipeline.  A program is four instructions of a   *)
(* menu at addresses 0, 4, 8 and 12, then ebreaks.  The register file has  *)
(* x0, x1 and x2; x1 and x2 start at 32 and 2, both mapped data addresses. *)
(* BitOr and BitAndNot are replaced by sums and differences: all that the  *)
(* properties use of them is that they depend on both arguments.           *)
(***************************************************************************)
EXTENDS PipelineCorrect

MCWordSize == 64
MCCodeAddr == {4 * n : n \in 0 .. 7}
MCAddr     == {2, 3, 32, 33}
MCInitMem  == [a \in MCAddr |-> a + 5]
MCCsr      == {"mstatus", "mie", "sstatus", "mepc", "mtvec", "mscratch"}
MCCsrReset == [mstatus |-> 10, mie |-> 34, sstatus |-> 33]

MCBitOr(a, b)     == (a + 3 * b + 1) % 64
MCBitAndNot(a, b) == (a - b + 64) % 64

I(op, rd, rs1, rs2, imm, c) ==
  [op |-> op, rd |-> rd, rs1 |-> rs1, rs2 |-> rs2, imm |-> imm, csr |-> c]

ProgramOf(s) ==
  [a \in MCCodeAddr |-> IF a < 16 THEN s[a \div 4 + 1]
                        ELSE I("ebreak", 0, 0, 1, 0, "bad")]

(* Arithmetic, memory and jumps, with every register dependency.           *)
IntMenu ==
  { I("alu_imm", 1, 1, 1, 1, "bad"),
    I("alu_imm", 2, 1, 0, 3, "bad"),
    I("alu_reg", 1, 2, 1, 0, "bad"),
    I("auipc", 2, 0, 1, 5, "bad"),
    I("load", 1, 2, 0, 0, "bad"),
    I("load", 2, 2, 0, 1, "bad"),
    I("store", 0, 2, 1, 0, "bad"),
    I("beq", 1, 1, 2, 8, "bad"),
    I("bne", 0, 2, 1, 8, "bad"),
    I("jal", 1, 0, 0, 8, "bad"),
    I("jalr", 2, 2, 0, 7, "bad") }

(* CSRs, mret and AMOs among the instructions that feed and use them.      *)
SystemMenu ==
  { I("alu_imm", 1, 1, 1, 1, "bad"),
    I("alu_reg", 2, 2, 1, 0, "bad"),
    I("load", 1, 2, 0, 0, "bad"),
    I("store", 0, 2, 1, 0, "bad"),
    I("jal", 2, 0, 0, 8, "bad"),
    I("csrrw", 1, 2, 0, 0, "mscratch"),
    I("csrrw", 0, 1, 0, 0, "mepc"),
    I("csrrs", 2, 0, 0, 0, "mscratch"),
    I("csrrc", 1, 1, 0, 0, "mstatus"),
    I("mret", 0, 0, 2, 0, "bad"),
    I("ecall", 0, 0, 0, 0, "bad"),
    I("none", 0, 1, 0, 0, "bad"),
    I("amoswap", 1, 2, 1, 0, "bad"),
    I("amo", 2, 1, 2, 0, "bad") }

(* Four instructions of one menu or of the other.                          *)
CorePrograms ==
  {ProgramOf(s) : s \in UNION {[1 .. 4 -> IntMenu], [1 .. 4 -> SystemMenu]}}
=============================================================================
