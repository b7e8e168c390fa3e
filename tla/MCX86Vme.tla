------------------------------ MODULE MCX86Vme ------------------------------
(***************************************************************************)
(* A small instance: two address spaces with two user pages each, in       *)
(* different page tables, one user thread in each space, the boot thread   *)
(* and one more kernel thread, and four pages, of the six that all the     *)
(* tables would need.                                                      *)
(***************************************************************************)
EXTENDS X86Vme, Naturals

MCIndex == 0 .. 2
MCKDir  == {0}
MCDir   == {1, 2}
MCVa    == {<<1, 1>>, <<2, 1>>}
MCPages == <<"p1", "p2", "p3", "p4">>
MCPage  == {MCPages[i] : i \in 1 .. 4}
MCKTab(k)  == "ktab"
MCAsOf(t)  == IF t = "u1" THEN "as1" ELSE "as2"

(* The free page that comes first.                                         *)
MCPick(S)  == MCPages[CHOOSE i \in 1 .. 4 : /\ MCPages[i] \in S
                                            /\ \A j \in 1 .. i - 1 : MCPages[j] \notin S]
=============================================================================
