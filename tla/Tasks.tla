------------------------------- MODULE Tasks -------------------------------
(***************************************************************************)
(* What the context and virtual memory extensions of abstract-machine      *)
(* promise together: every thread runs its own code as if alone, each      *)
(* access goes to the address space of its thread, and between two         *)
(* instructions it may be taken to the OS, which is said exactly what      *)
(* happened to which thread and resumes any thread where that one left.    *)
(***************************************************************************)
EXTENDS Sequences, Naturals

CONSTANTS
  Thread, Code(_),   \* a thread's code: a loop of instructions
  AsOf(_),           \* the address space of a thread that has one
  Space, Va, Leaf, NoLeaf

VARIABLES
  at,      \* the place of each thread in its code
  cli,     \* the threads that have interrupts disabled
  now,     \* the thread that runs, or "os"
  said,    \* the last thing that one said the other: <<thread, event>> to
           \* the OS, <<thread, Go>> from it
  space,   \* the address spaces
  seen     \* the access made in this step: whose, where, what it found

vars == <<at, cli, now, said, space, seen>>

Op(t) == Code(t)[at[t]]
After(t, n) == (n % Len(Code(t))) + 1

Go == [event |-> "resume"]

Quiet == seen' = <<>>

Advance(t) == at' = [at EXCEPT ![t] = After(t, @)]

Allows(leaf, kind) == leaf # NoLeaf /\ (kind = "store" => leaf.w)

Init ==
  /\ at = [t \in Thread |-> 1]
  /\ now \in Thread
  /\ cli = {now}
  /\ said = <<>>
  /\ space = [a \in Space |-> [va \in Va |-> NoLeaf]]
  /\ seen = <<>>

Step(t) ==
  /\ now = t /\ Op(t).kind \in {"work", "lib", "ret", "cli", "sti"}
  /\ Advance(t)
  /\ cli' = CASE Op(t).kind = "cli" -> cli \cup {t}
              [] Op(t).kind = "sti" -> cli \ {t}
              [] OTHER -> cli
  /\ Quiet /\ UNCHANGED <<now, said, space>>

Access(t) ==
  /\ now = t /\ Op(t).kind \in {"load", "store"}
  /\ Allows(space[AsOf(t)][Op(t).va], Op(t).kind)
  /\ Advance(t)
  /\ seen' = <<t, Op(t).va, space[AsOf(t)][Op(t).va]>>
  /\ UNCHANGED <<cli, now, said, space>>

Enter(t, event) ==
  /\ now = t /\ now' = "os"
  /\ said' = <<t, event>>
  /\ Quiet /\ UNCHANGED <<cli, space>>

(* A system call or yield() is over when the thread is resumed; an         *)
(* instruction that faulted is tried again.                                *)
Call(t) ==
  /\ Op(t).kind \in {"SYSCALL", "YIELD"}
  /\ Advance(t) /\ Enter(t, [event |-> Op(t).kind])

Fault(t) ==
  /\ Op(t).kind \in {"load", "store"}
  /\ LET leaf == space[AsOf(t)][Op(t).va]
     IN  /\ ~Allows(leaf, Op(t).kind)
         /\ Enter(t, [event |-> "PAGEFAULT", ref |-> Op(t).va,
                      cause |-> IF leaf = NoLeaf THEN "read" ELSE "write"])
  /\ UNCHANGED at

Wild(t) ==
  /\ Op(t).kind = "wild"
  /\ Enter(t, [event |-> "ERROR"]) /\ UNCHANGED at

(* An interrupt comes only to a thread that has not disabled them.         *)
Preempt(t) ==
  /\ t \notin cli
  /\ \E e \in {"TIMER", "IODEV"} : Enter(t, [event |-> e])
  /\ UNCHANGED at

Map(a, va, leaf) ==
  /\ now = "os" \/ now \in cli
  /\ space' = [space EXCEPT ![a][va] = leaf]
  /\ Quiet /\ UNCHANGED <<at, cli, now, said>>

Choose(t) ==
  /\ now = "os" /\ said' = <<t, Go>>
  /\ Quiet /\ UNCHANGED <<at, cli, now, space>>

Resume(t) ==
  /\ now = "os" /\ said = <<t, Go>>
  /\ now' = t
  /\ said' = <<>>
  /\ Quiet /\ UNCHANGED <<at, cli, space>>

(* Nothing that a thread or the OS could see.                              *)
Other == Quiet /\ UNCHANGED <<at, cli, now, said, space>>

Next ==
  \/ Other
  \/ \E t \in Thread : \/ Step(t) \/ Access(t) \/ Call(t) \/ Fault(t)
                       \/ Wild(t) \/ Preempt(t) \/ Choose(t) \/ Resume(t)
  \/ \E a \in Space, va \in Va, leaf \in Leaf : Map(a, va, leaf)

Spec == Init /\ [][Next]_vars
=============================================================================
