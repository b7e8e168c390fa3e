----------------------------- MODULE AddrSpace -----------------------------
(***************************************************************************)
(* What the virtual memory extension of abstract-machine promises: an      *)
(* address space is a partial map from user pages to physical pages, every *)
(* space has a map of its own, and a user access sees the map of its own   *)
(* space as it is at that moment.                                          *)
(***************************************************************************)
CONSTANTS
  Space,     \* the address spaces (AddrSpace objects)
  Va, Leaf,  \* user pages, and what one can be mapped to
  NoLeaf     \* a page that is not mapped; not in Leaf

VARIABLES
  space,     \* the spaces that exist: a function from them to their maps
  seen       \* the access made in this step: whose, where, what it found

Empty == [va \in Va |-> NoLeaf]

Init ==
  /\ space = [a \in {} |-> Empty]
  /\ seen = <<>>

Protect(a) ==
  /\ a \notin DOMAIN space
  /\ space' = [b \in DOMAIN space \cup {a} |->
                 IF b = a THEN Empty ELSE space[b]]
  /\ seen' = <<>>

Unprotect(a) ==
  /\ a \in DOMAIN space
  /\ space' = [b \in DOMAIN space \ {a} |-> space[b]]
  /\ seen' = <<>>

(* map(), with a page or, to remove the mapping, with NoLeaf.              *)
Map(a, va, leaf) ==
  /\ a \in DOMAIN space
  /\ space' = [space EXCEPT ![a][va] = leaf]
  /\ seen' = <<>>

Access(a, va) ==
  /\ a \in DOMAIN space
  /\ seen' = <<a, va, space[a][va]>>
  /\ UNCHANGED space

(* Nothing that a user or map() could see.                                 *)
Other ==
  /\ seen' = <<>>
  /\ UNCHANGED space

Next ==
  \/ Other
  \/ \E a \in Space :
       \/ Protect(a)
       \/ Unprotect(a)
       \/ \E va \in Va :
            \/ Access(a, va)
            \/ \E leaf \in Leaf \cup {NoLeaf} : Map(a, va, leaf)

Spec == Init /\ [][Next]_<<space, seen>>
=============================================================================
