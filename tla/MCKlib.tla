------------------------------- MODULE MCKlib -------------------------------
(***************************************************************************)
(* All memories of five bytes with three values, ints of eight bits with   *)
(* all their values, all formats of one directive, of three directives     *)
(* with few values or of five characters, and all double words of eight    *)
(* bits.                                                                   *)
(***************************************************************************)
EXTENDS Klib

MCInts  == -128 .. 127
MCUints == 0 .. 255
MCMinText == <<"1", "2", "8">>
MCStr == {<<>>, <<"a", "%">>}

Directives ==
  {[kind |-> "lit", v |-> "x"], [kind |-> "%%", v |-> 0]}
  \cup {[kind |-> "d", v |-> i] : i \in MCInts}
  \cup {[kind |-> "u", v |-> u] : u \in MCUints}
  \cup {[kind |-> "s", v |-> t] : t \in MCStr}

Few == {d \in Directives : d.kind \in {"d", "u"} => d.v \in {-128, 0, 7, 255}}

MCFormats ==
  {<<d>> : d \in Directives} \cup BoundedSeq(Few, 3)

MCRawFormats == BoundedSeq({"%", "c", "x"}, 5)
=============================================================================
