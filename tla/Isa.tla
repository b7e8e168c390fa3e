-------------------------------- MODULE Isa --------------------------------
(***************************************************************************)
(* What the core promises to software: the machine that executes one       *)
(* instruction at a time, in program order, each with the architectural    *)
(* state the previous one left.  It is the machine difftest.c steps once   *)
(* per committed instruction and compares with the core.  What a single    *)
(* instruction does is the core's own functions (Rv64): the specification  *)
(* says that overlapping five instructions changes nothing.                *)
(***************************************************************************)
EXTENDS Rv64

VARIABLES
  prog,   \* the program in the image
  pc,     \* the address of the next instruction to execute
  regs, mem, csr

vars == <<prog, pc, regs, mem, csr>>

Init ==
  /\ prog \in [CodeAddr -> Instr]
  /\ pc = ResetPc
  /\ regs = InitRegs
  /\ mem = InitMem
  /\ csr = InitCsr

(* One instruction, from fetch to write back.                              *)
Step ==
  LET i   == Fetch(prog, pc)
      d1  == RegRead(regs, i.rs1)
      d2  == RegRead(regs, i.rs2)
      c1  == CsrRead(csr, CsrRid1(i))
      c2  == CsrRead(csr, CsrRid2(i))
      alu == AluResult(i, pc, d1, d2, c1)
      md  == MemData(mem, i, alu)
  IN  /\ pc' = IF Redirects(i, d1, d2) THEN Target(i, alu, c2) ELSE Wrap(pc + 4)
      /\ regs' = RegEffect(regs, i, WriteBackData(i, pc, alu, md, c1))
      /\ mem' = MemEffect(mem, i, alu, d1, d2)
      /\ csr' = CsrEffect(csr, i, alu)
      /\ UNCHANGED prog

Spec == Init /\ [][Step]_vars
=============================================================================
