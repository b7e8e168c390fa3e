---------------------------- MODULE MCReadyValid ----------------------------
(***************************************************************************)
(* The instance of MCPipeline for the handshake core, with programs of four*)
(* from a menu of every kind of instruction that stalls, flushes or        *)
(* forwards.                                                               *)
(***************************************************************************)
EXTENDS ReadyValid, MCPipeline

Menu ==
  { I("alu_imm", 1, 1, 1, 1, "bad"),
    I("alu_reg", 2, 2, 1, 0, "bad"),
    I("load", 1, 2, 0, 0, "bad"),
    I("load", 0, 2, 0, 0, "bad"),
    I("store", 0, 2, 1, 0, "bad"),
    I("bne", 0, 2, 1, 8, "bad"),
    I("jal", 2, 0, 0, 8, "bad"),
    I("csrrw", 1, 2, 0, 0, "mscratch"),
    I("mret", 0, 0, 2, 0, "bad"),
    I("amoswap", 1, 2, 1, 0, "bad"),
    I("amo", 2, 1, 2, 0, "bad") }

MenuPrograms == {ProgramOf(s) : s \in [1 .. 4 -> Menu]}
=============================================================================
