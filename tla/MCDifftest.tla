----------------------------- MODULE MCDifftest -----------------------------
(***************************************************************************)
(* Small instances of the simulator: the pipeline's, with an MMIO range of *)
(* two addresses whose first is the UART line status.                      *)
(***************************************************************************)
EXTENDS Difftest, Sequences

MCWordSize == 64
MCCodeAddr == {4 * n : n \in 0 .. 7}
MCAddr     == {2, 3, 32, 33}
MCInitMem  == [a \in MCAddr |-> a + 5]
MCCsr      == {"mstatus", "mie", "sstatus", "mepc", "mtvec", "mscratch"}
MCCsrReset == [mstatus |-> 10, mie |-> 34, sstatus |-> 33]
MCMmio     == {40, 41}

MCBitOr(a, b)     == (a + 3 * b + 1) % 64
MCBitAndNot(a, b) == (a - b + 64) % 64
MCMretMstatus(a)  == (a + 1) % 64

I(op, rd, rs1, rs2, imm, c) ==
  [op |-> op, rd |-> rd, rs1 |-> rs1, rs2 |-> rs2, imm |-> imm, csr |-> c]

Ebreak == I("ebreak", 0, 0, 1, 0, "bad")

ProgramsOf(menu) ==
  {[a \in MCCodeAddr |-> IF a < 16 THEN s[a \div 4 + 1] ELSE Ebreak] :
     s \in [1 .. 4 -> menu]}

(* One given program, then ebreaks.                                        *)
ProgramOf(s) ==
  [a \in MCCodeAddr |-> IF a < 4 * Len(s) THEN s[a \div 4 + 1] ELSE Ebreak]

AddX1   == I("alu_imm", 1, 1, 1, 1, "bad")
SubX2   == I("alu_reg", 2, 2, 1, 0, "bad")
LoadX1  == I("load", 1, 2, 0, 0, "bad")
StoreX1 == I("store", 0, 2, 1, 0, "bad")
LoadLsr == I("load", 2, 1, 0, 8, "bad")
Putchar == I("store", 0, 1, 2, 9, "bad")
Beq     == I("beq", 1, 1, 2, 8, "bad")
Jal     == I("jal", 2, 0, 0, 8, "bad")
JalFar  == I("jal", 2, 0, 0, 12, "bad")
CsrwX1  == I("csrrw", 1, 2, 0, 0, "mscratch")
CsrrX2  == I("csrrs", 2, 0, 0, 0, "mscratch")
CsrwEpc == I("csrrw", 0, 1, 0, 0, "mepc")
Swap    == I("amoswap", 1, 2, 1, 0, "bad")
AmoAdd  == I("amo", 2, 1, 2, 0, "bad")

(* Every forward program of four, whatever it does to the core.            *)
ForwardPrograms ==
  ProgramsOf({AddX1, SubX2, LoadX1, StoreX1, LoadLsr, Putchar, Beq, Jal,
              CsrwX1, CsrrX2, CsrwEpc, Swap, AmoAdd})

LostJumpPrograms == {ProgramOf(<<JalFar, AmoAdd, AddX1>>)}
=============================================================================
