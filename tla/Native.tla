------------------------------- MODULE Native -------------------------------
(***************************************************************************)
(* abstract-machine on Linux: native/cte.c and native/vme.c on one CPU,    *)
(* after vme_init and cte_init.  Linux is the hardware: interrupts are     *)
(* signals, sti and cli are sigprocmask, a trap is a SIGSEGV on the trap   *)
(* page, and the window USER_SPACE of the process shows the address space  *)
(* that is loaded.  sig_handler redirects the interrupted code to          *)
(* irq_handle, which runs on the stack of the thread it interrupted.       *)
(*                                                                         *)
(* The threads run loops of instructions: "work"; "lib", a place inside a  *)
(* shared library; "ret", the one behind the system call of sigprocmask;   *)
(* "cli" and "sti"; "load" and "store" of a user page; "wild", an access   *)
(* outside of the user space; and the two calls SYSCALL and YIELD.         *)
(***************************************************************************)
EXTENDS Naturals, Sequences

CONSTANTS
  UThread, KThread,  \* user threads, kernel threads
  boot,              \* the kernel thread that called cte_init
  Code(_),           \* the instructions of a thread
  AsOf(_),           \* the address space of a user thread
  Space,             \* the AddrSpace objects
  Va,                \* user pages
  Pa, Prot,          \* physical pages, and whether one may be written
  Maps,              \* what the OS maps: <<space, page, leaf>>
  Irq,               \* the interrupts that come: TIMER, IODEV
  Null               \* a null pointer

ASSUME ThreadAssumption ==
  /\ UThread \cap KThread = {} /\ boot \in KThread
  /\ {"am", "user", "os", Null} \cap (UThread \cup KThread) = {}
  /\ \A t \in UThread : AsOf(t) \in Space
ASSUME CodeAssumption ==
  LET plain  == [kind : {"work", "lib", "ret", "cli", "sti", "wild", "SYSCALL", "YIELD"}]
      access == [kind : {"load", "store"}, va : Va]
  IN  \A t \in UThread \cup KThread :
        /\ Code(t) \in Seq(IF t \in UThread THEN plain \cup access ELSE plain)
        /\ Code(t) # <<>>
ASSUME IrqAssumption == Irq \subseteq {"TIMER", "IODEV"}
ASSUME NullAssumption == Null \notin Va \cup Pa \cup Space

Thread == UThread \cup KThread

Leaf   == [pa : Pa, w : Prot]
NoLeaf == [pa |-> Null, w |-> FALSE]

ASSUME MapsAssumption == Maps \subseteq Space \X Va \X Leaf

VARIABLES
  cpu,      \* the registers: rip, sp, rdi and the signal mask
  this,     \* thiscpu: vm_head, ksp, ev
  pend,     \* the signals that are pending
  slot,     \* the Context at the top of a stack
  vm,       \* the VMHead of an address space, NoVm for one that has none
  win,      \* what the process has mapped in USER_SPACE
  pcb,      \* the OS: the saved context of each thread
  current,  \* the OS: the thread that it resumed last
  seen,     \* the user access made in this step
  twice     \* the address spaces in which a page has been mapped twice

vars == <<cpu, this, pend, slot, vm, win, pcb, current, seen, twice>>

(* A place in the code: of a thread, or of the AM itself.                  *)
Rip(of, n) == [of |-> of, n |-> n]
Am(place)  == Rip("am", place)
In(place)  == cpu.rip.of = "am" /\ cpu.rip.n = place

Running == cpu.rip.of
OpAt(rip) == Code(rip.of)[rip.n]
Op == OpAt(cpu.rip)
After(rip) == [rip EXCEPT !.n = (@ % Len(Code(rip.of))) + 1]

Event(e)  == [event |-> e]

(* The memory of a stack before any context has been put there.            *)
NoContext ==
  [vm_head |-> Null, ksp |-> Null,
   uc |-> [rip |-> Am("assert"), sp |-> "user", rdi |-> Null, masked |-> TRUE]]

-----------------------------------------------------------------------------
(* vme.c: an address space is a list of PageMaps, one for each page that   *)
(* has been mapped, named here by the page.                                *)
NoVm  == [exists |-> FALSE, head |-> Null, next |-> [va \in Va |-> Null],
          pm |-> [va \in Va |-> NoLeaf], is_mapped |-> {}]
NewVm == [NoVm EXCEPT !.exists = TRUE]

(* list_foreach: the nodes that head and next lead to.                     *)
Closed(h, S) ==
  h.head \in S \cup {Null} /\ \A va \in S : h.next[va] \in S \cup {Null}

Walk(h) == {va \in Va : \A S \in SUBSET Va : Closed(h, S) => va \in S}

Ends(h) ==
  h.head = Null \/ \E va \in Walk(h) : h.next[va] = Null

InHash(h, va) == h.pm[va] # NoLeaf

(* Mutant: the new PageMap is linked but the head of the list stays.       *)
MutInsert(h, va, leaf) ==
  [h EXCEPT !.pm[va] = leaf, !.next[va] = h.head, !.is_mapped = @ \ {va}]

(* map(): a PageMap found by its key is put at the head once more.         *)
Insert(h, va, leaf) ==
  [h EXCEPT !.pm[va] = leaf, !.next[va] = h.head, !.head = va,
            !.is_mapped = @ \ {va}]

(* if (vm_head == thiscpu->vm_head)                                        *)
Enforced(a) == this.vm_head = a

(* Mutant: only the mappings of the new address space are made.            *)
MutWinAfter(now, head) ==
  [va \in Va |->
     IF head # Null /\ va \in Walk(vm[head]) THEN vm[head].pm[va] ELSE win[va]]

(* The window after the switch from one address space to the other.        *)
WinAfter(now, head) ==
  [va \in Va |->
     IF head # Null /\ va \in Walk(vm[head]) THEN vm[head].pm[va]
     ELSE IF now # Null /\ va \in Walk(vm[now]) /\ va \in vm[now].is_mapped
       THEN NoLeaf ELSE win[va]]

VmAfter(now, head) ==
  [a \in Space |->
     CASE a = now  -> [vm[a] EXCEPT !.is_mapped = @ \ Walk(vm[a])]
       [] a = head -> [vm[a] EXCEPT !.is_mapped = @ \cup Walk(vm[a])]
       [] OTHER    -> vm[a]]

(* __am_in_userspace of an address of a thread's code, and of a page.      *)
InUserspace(rip) == this.vm_head # Null /\ rip.of \in UThread

-----------------------------------------------------------------------------
(* cte.c.  kcontext and ucontext put a context at the end of the stack.    *)
KContext(t) ==
  [vm_head |-> Null, ksp |-> Null,
   uc |-> [rip |-> Rip(t, 1), sp |-> t, rdi |-> Null, masked |-> FALSE]]

UContext(t) ==
  [vm_head |-> AsOf(t), ksp |-> t,
   uc |-> [rip |-> Rip(t, 1), sp |-> "user", rdi |-> Null, masked |-> FALSE]]

(* Mutant: interrupts are handled in user code only.                       *)
MutSignalSafe(rip) == rip.of \in UThread

(* _start .. _etext, the user space, or sigprocmask + 13.                  *)
SignalSafe(rip) == rip.of = "am" \/ OpAt(rip).kind # "lib"

(* Mutant: an instruction that faulted is skipped as a system call is.     *)
MutSavedRip(e) ==
  IF e.event \in {"SYSCALL", "YIELD", "PAGEFAULT"} THEN After(cpu.rip) ELSE cpu.rip

(* Where the context goes on: behind a system call (rip + 7), behind the   *)
(* raise() of yield(), at the same instruction after anything else.        *)
SavedRip(e) ==
  IF e.event \in {"SYSCALL", "YIELD"} THEN After(cpu.rip) ELSE cpu.rip

(* sig_handler and setup_stack: irq_handle runs with interrupts disabled.  *)
Deliver(e) ==
  IF e.event \in {"TIMER", "IODEV"} /\ ~SignalSafe(cpu.rip)
    THEN /\ this' = [this EXCEPT !.ev = e]
         /\ UNCHANGED <<cpu, slot>>
    ELSE LET sp == IF InUserspace(cpu.rip) THEN this.ksp ELSE cpu.sp
         IN  /\ this' = [this EXCEPT !.ev = e]
             /\ slot' = [slot EXCEPT ![sp] =
                           [@ EXCEPT !.uc = [cpu EXCEPT !.rip = SavedRip(e)]]]
             /\ cpu' = [rip |-> Am("irq_handle"), sp |-> sp, rdi |-> sp,
                        masked |-> TRUE]

-----------------------------------------------------------------------------
Init ==
  /\ cpu = [rip |-> Rip(boot, 1), sp |-> boot, rdi |-> Null, masked |-> TRUE]
  /\ this = [vm_head |-> Null, ksp |-> Null, ev |-> Event("NULL")]
  /\ pend = {}
  /\ slot = [s \in Thread \cup {"user", Null} |-> NoContext]
  /\ vm = [a \in Space |-> NoVm]
  /\ win = [va \in Va |-> NoLeaf]
  /\ pcb = [t \in Thread |-> Null]
  /\ current = boot
  /\ seen = <<>>
  /\ twice = {}

Quiet == seen' = <<>>

(* The interval timer expires, or the event thread reports a key.  A       *)
(* signal that is not blocked is delivered before anything else happens.   *)
Undisturbed == cpu.masked \/ pend = {}

Raise(e) ==
  /\ Undisturbed
  /\ pend' = pend \cup {e}
  /\ Quiet /\ UNCHANGED <<cpu, this, slot, vm, win, pcb, current, twice>>

Interrupt(e) ==
  /\ e \in pend /\ ~cpu.masked
  /\ pend' = pend \ {e}
  /\ Deliver(Event(e))
  /\ Quiet /\ UNCHANGED <<vm, win, pcb, current, twice>>

Executes(t) == Running = t /\ Undisturbed

Step(t) ==
  /\ Executes(t) /\ Op.kind \in {"work", "lib", "ret", "cli", "sti"}
  /\ cpu' = [cpu EXCEPT !.rip = After(@),
               !.masked = CASE Op.kind = "cli" -> TRUE
                            [] Op.kind = "sti" -> FALSE
                            [] OTHER -> @]
  /\ Quiet /\ UNCHANGED <<this, pend, slot, vm, win, pcb, current, twice>>

Allows(leaf, kind) == leaf # NoLeaf /\ (kind = "store" => leaf.w)

Access(t) ==
  /\ Executes(t) /\ Op.kind \in {"load", "store"} /\ Allows(win[Op.va], Op.kind)
  /\ cpu' = [cpu EXCEPT !.rip = After(@)]
  /\ seen' = <<t, Op.va, win[Op.va]>>
  /\ UNCHANGED <<this, pend, slot, vm, win, pcb, current, twice>>

(* SIGUSR2 of yield(), and the SIGSEGV of anything else.                   *)
Exception(t) ==
  /\ Executes(t)
  /\ \/ /\ Op.kind \in {"SYSCALL", "YIELD"}
        /\ Deliver(Event(Op.kind))
     \/ /\ Op.kind \in {"load", "store"} /\ ~Allows(win[Op.va], Op.kind)
        /\ Deliver([event |-> "PAGEFAULT", ref |-> Op.va,
                    cause |-> IF win[Op.va] = NoLeaf THEN "read" ELSE "write"])
     \/ /\ Op.kind = "wild"
        /\ Deliver(Event("ERROR"))
  /\ Quiet /\ UNCHANGED <<pend, vm, win, pcb, current, twice>>

(* c->vm_head = thiscpu->vm_head; c->ksp = thiscpu->ksp;                   *)
WithSpace(c) == [c EXCEPT !.vm_head = this.vm_head, !.ksp = this.ksp]

(* irq_handle up to the call of user_handler, which keeps the context.     *)
IrqHandle ==
  /\ In("irq_handle")
  /\ slot' = [slot EXCEPT ![cpu.rdi] = WithSpace(@)]
  /\ cpu' = [cpu EXCEPT !.rip =
               Am(IF this.ev.event = "ERROR" THEN "assert" ELSE "handler")]
  /\ pcb' = IF this.ev.event = "ERROR" THEN pcb ELSE [pcb EXCEPT ![current] = cpu.rdi]
  /\ Quiet /\ UNCHANGED <<this, pend, vm, win, current, twice>>

(* The OS calls the AM in its handler, and before it enables interrupts.   *)
OsMode == In("handler") \/ (Running = boot /\ cpu.masked)

Protect(a) ==
  /\ OsMode /\ ~vm[a].exists
  /\ vm' = [vm EXCEPT ![a] = NewVm]
  /\ Quiet /\ UNCHANGED <<cpu, this, pend, slot, win, pcb, current, twice>>

Map(a, va, leaf) ==
  /\ OsMode /\ vm[a].exists
  /\ vm' = [vm EXCEPT ![a] = LET h == Insert(@, va, leaf)
                             IN  IF Enforced(a)
                                   THEN [h EXCEPT !.is_mapped = @ \cup {va}] ELSE h]
  /\ win' = IF Enforced(a) THEN [win EXCEPT ![va] = leaf] ELSE win
  /\ twice' = IF InHash(vm[a], va) THEN twice \cup {a} ELSE twice
  /\ Quiet /\ UNCHANGED <<cpu, this, pend, slot, pcb, current>>

NewContext(t) ==
  /\ OsMode /\ pcb[t] = Null /\ t # boot
  /\ t \in UThread => vm[AsOf(t)].exists
  /\ slot' = [slot EXCEPT ![t] = IF t \in UThread THEN UContext(t) ELSE KContext(t)]
  /\ pcb' = [pcb EXCEPT ![t] = t]
  /\ Quiet /\ UNCHANGED <<cpu, this, pend, vm, win, current, twice>>

(* user_handler returns the context of t.                                  *)
Schedule(t) ==
  /\ In("handler") /\ pcb[t] # Null
  /\ current' = t
  /\ cpu' = [cpu EXCEPT !.rip = Am("switch"), !.rdi = pcb[t]]
  /\ Quiet /\ UNCHANGED <<this, pend, slot, vm, win, pcb, twice>>

(* __am_switch.                                                            *)
Switch ==
  /\ In("switch")
  /\ LET head == slot[cpu.rdi].vm_head
         now  == this.vm_head
         others == {now, head} \ {Null}
     IN  \/ /\ head = now
            /\ cpu' = [cpu EXCEPT !.rip = Am("iret")]
            /\ UNCHANGED <<this, vm, win>>
         \/ /\ head # now /\ \A a \in others : Ends(vm[a])
            /\ win' = WinAfter(now, head)
            /\ vm' = VmAfter(now, head)
            /\ this' = [this EXCEPT !.vm_head = head]
            /\ cpu' = [cpu EXCEPT !.rip = Am("iret")]
         \/ /\ head # now /\ \E a \in others : ~Ends(vm[a])
            /\ cpu' = [cpu EXCEPT !.rip = Am("spin")]
            /\ UNCHANGED <<this, vm, win>>
  /\ Quiet /\ UNCHANGED <<pend, slot, pcb, current, twice>>

(* Mutant: the kernel stack of the thread is not restored.                 *)
MutKspOf(c) == this.ksp

KspOf(c) == c.ksp

(* p(c) at 0x100008, whose SIGSEGV makes sig_handler call iret.            *)
IRet ==
  /\ In("iret")
  /\ cpu' = slot[cpu.rdi].uc
  /\ this' = [this EXCEPT !.ksp = KspOf(slot[cpu.rdi]), !.ev = Event("ERROR")]
  /\ Quiet /\ UNCHANGED <<pend, slot, vm, win, pcb, current, twice>>

Next ==
  \/ \E e \in Irq : Raise(e) \/ Interrupt(e)
  \/ \E t \in Thread : \/ Step(t) \/ Access(t) \/ Exception(t)
                       \/ NewContext(t) \/ Schedule(t)
  \/ IrqHandle \/ Switch \/ IRet
  \/ \E a \in Space : Protect(a)
  \/ \E m \in Maps : Map(m[1], m[2], m[3])

(* The AM's own code goes on, the OS returns from its handler, signals are *)
(* delivered, a thread gets on between two interrupts, and the timer does  *)
(* not always expire in a library.                                         *)
TickAtSafe == Raise("TIMER") /\ Running \in Thread /\ SignalSafe(cpu.rip)

Fairness ==
  /\ WF_vars(IrqHandle) /\ WF_vars(Switch) /\ WF_vars(IRet)
  /\ WF_vars(\E t \in Thread : Schedule(t))
  /\ SF_vars(\E t \in Thread : Step(t) \/ Access(t) \/ Exception(t))
  /\ SF_vars(Interrupt("TIMER"))
  /\ SF_vars(TickAtSafe)

Spec == Init /\ [][Next]_vars /\ Fairness
-----------------------------------------------------------------------------
Place == {"irq_handle", "handler", "switch", "iret", "spin", "assert"}

IsUc(uc) ==
  /\ IF uc.rip.of = "am" THEN uc.rip.n \in Place
     ELSE uc.rip.of \in Thread /\ uc.rip.n \in DOMAIN Code(uc.rip.of)
  /\ uc.sp \in Thread \cup {"user"}
  /\ uc.rdi \in Thread \cup {Null}
  /\ uc.masked \in BOOLEAN

TypeOK ==
  /\ IsUc(cpu)
  /\ this.vm_head \in Space \cup {Null} /\ this.ksp \in Thread \cup {Null}
  /\ pend \subseteq {"TIMER", "IODEV"}
  /\ \A t \in Thread :
       /\ slot[t].vm_head \in Space \cup {Null}
       /\ IsUc(slot[t].uc)
  /\ \A a \in Space : vm[a].pm \in [Va -> Leaf \cup {NoLeaf}]
  /\ win \in [Va -> Leaf \cup {NoLeaf}]
  /\ current \in Thread /\ twice \subseteq Space

(* The window of the process shows exactly the address space that is       *)
(* loaded, and is_mapped says of every PageMap whether it is in the window *)
(* (__am_switch and map keep both in step).                                *)
WindowIsSpace ==
  LET mapped(a) == {va \in Va : vm[a].pm[va] # NoLeaf}
  IN  /\ win = IF this.vm_head = Null THEN [va \in Va |-> NoLeaf]
               ELSE vm[this.vm_head].pm
      /\ \A a \in Space :
           vm[a].is_mapped = IF a = this.vm_head THEN mapped(a) ELSE {}

(* Every context that is waiting lies on the stack of its own thread, and  *)
(* while a user thread runs thiscpu->ksp is its own kernel stack: the next *)
(* trap overwrites nobody's context.                                       *)
OwnStack ==
  /\ \A t \in Thread : pcb[t] \in {t, Null}
  /\ Running \in UThread => this.ksp = Running
  /\ \A t \in UThread : pcb[t] # Null => slot[t].ksp = t \/ current = t

(* The list of an address space ends, and holds every page once, exactly   *)
(* as long as no page has been mapped a second time: map() finds the       *)
(* PageMap in the hash table and links it into the list again, and the     *)
(* next __am_switch to or from that space never returns.                   *)
ListsEnd ==
  /\ \A a \in Space : Ends(vm[a]) <=> a \notin twice
  /\ \A a \in Space \ twice : Walk(vm[a]) = {va \in Va : InHash(vm[a], va)}

(* What Tasks speaks of.  A thread that has been made but not run yet, or  *)
(* not even been made, is Fresh or has its context at its first instruction.*)
Fresh(t) == pcb[t] = Null /\ current # t

ContextOf(t) ==
  IF Running = t THEN cpu
  ELSE IF current = t THEN slot[cpu.rdi].uc ELSE slot[pcb[t]].uc

places   == [t \in Thread |->
               IF Fresh(t) THEN 1
               ELSE IF ContextOf(t).rip.of = t THEN ContextOf(t).rip.n ELSE 0]
disabled == {t \in Thread : ~Fresh(t) /\ ContextOf(t).masked}
runs     == IF Running = "am" THEN "os" ELSE Running
spoken   ==
  IF Running # "am" THEN <<>>
  ELSE IF cpu.rip.n \in {"irq_handle", "handler", "assert"}
    THEN <<current, this.ev>> ELSE <<current, Event("resume")>>
spaces   == [a \in Space |-> vm[a].pm]

(* cte.c and vme.c implement Tasks.                                        *)
Promise == INSTANCE Tasks WITH
  at <- places, cli <- disabled, now <- runs, said <- spoken, space <- spaces

ImplementsTasks == Promise!Spec

(* The OS gets the CPU again and again: the timer takes it from every      *)
(* thread, though some of its signals are dropped, and the AM always       *)
(* resumes a thread, but for the loop of a broken list and the assertion   *)
(* after an error.                                                         *)
OsComesBack == []<>(In("irq_handle") \/ In("spin") \/ In("assert"))
=============================================================================
