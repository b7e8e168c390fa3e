------------------------------- MODULE MCMmu -------------------------------
(***************************************************************************)
(* Two entries in a table and two bytes in a page: addresses 0 to 15, and  *)
(* 18, which is 2 with one of the ignored bits set.  An instruction has 3  *)
(* bytes, so that the addresses of a run of instructions meet every page   *)
(* number and offset.  Table 0 is the usual root, table 1 points at pages, *)
(* at itself or back at the root; 2 and 3 are outside memory and read as   *)
(* zeroes.                                                                 *)
(***************************************************************************)
EXTENDS MmuFetch

MCFault == -1
MCVa    == {0, 3, 6, 9, 12, 15, 18}
MCPpn   == 0 .. 3

P(v, r, w, n) == [v |-> v, r |-> r, w |-> w, x |-> FALSE, ppn |-> n]

ToTable(n) == P(TRUE, FALSE, FALSE, n)
ToPage(n)  == P(TRUE, TRUE, FALSE, n)
WriteOnly  == P(TRUE, FALSE, TRUE, 2)

TwoTables(root0, inner) ==
  [t \in MCPpn |-> CASE t = 0 -> root0
                     [] t = 1 -> inner
                     [] OTHER -> [i \in Vpn |-> ZeroPte]]

TablesOf(a, b, c) ==
  TwoTables([i \in Vpn |-> IF i = 0 THEN ToTable(1) ELSE a],
            [i \in Vpn |-> IF i = 0 THEN b ELSE c])

MCTables ==
  {TablesOf(a, b, c) : a \in {ToPage(3), ToTable(1)},
                       b \in {ToPage(1), ToTable(1), ToTable(2)},
                       c \in {WriteOnly, ToTable(0)}}

MCSatp   == {[on |-> FALSE, ppn |-> 0], [on |-> TRUE, ppn |-> 0], [on |-> TRUE, ppn |-> 1]}
MCSatpOn == {[on |-> TRUE, ppn |-> 0]}
=============================================================================
