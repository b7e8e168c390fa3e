------------------------------- MODULE X86Vme -------------------------------
(***************************************************************************)
(* Paging on x86-qemu: x86/qemu/vme.c and the part of cte.c that switches  *)
(* page tables, on one CPU and in the 32-bit configuration (two levels:    *)
(* PD and PT; the 64-bit one walks four the same way).  Page tables lie in *)
(* pages of the allocator the OS passed to vme_init.  The MMU caches what  *)
(* it translated in a TLB that only a write of cr3 empties: map() never    *)
(* does.                                                                   *)
(*                                                                         *)
(* The kernel is the client: in the handler, or in a kernel thread, it     *)
(* calls protect, map, unprotect, kcontext and ucontext, and a handler     *)
(* returns to the context of any thread.                                   *)
(***************************************************************************)
EXTENDS FiniteSets

CONSTANTS
  Page,          \* the pages pgalloc has
  Kpt,           \* kpt, the page directory of the kernel
  KTab(_),       \* the kernel's page table at an index of kpt
  Index,         \* the indices of a table
  KDir, Dir,     \* those of level 1 that map the kernel, and the user area
  Va,            \* the user pages in use: <<index in PD, index in PT>>
  Pa, Prot,      \* the physical pages that are mapped, writable or not
  Space,         \* the AddrSpace objects
  UThread,       \* user threads
  KThread,       \* kernel threads
  boot,          \* the one of them that called vme_init
  AsOf(_),       \* the address space of a user thread
  Null,          \* a null pointer
  Pick(_)        \* which free page pgalloc returns

ASSUME ProtAssumption == Prot \subseteq BOOLEAN
ASSUME IndexAssumption ==
  /\ KDir \subseteq Index /\ Dir \subseteq Index /\ KDir \cap Dir = {}
  /\ Va \subseteq Dir \X Index
ASSUME PageAssumption == Kpt \notin Page /\ Null \notin Page \cup Pa \cup {Kpt}
ASSUME KTabAssumption == \A k \in KDir : KTab(k) \notin Page \cup {Kpt, Null}
ASSUME PickAssumption == \A S \in (SUBSET Page) \ {{}} : Pick(S) \in S
ASSUME ThreadAssumption ==
  /\ UThread \cap KThread = {} /\ boot \in KThread /\ "irq" \notin UThread \cup KThread
  /\ \A t \in UThread : AsOf(t) \in Space

Thread == UThread \cup KThread

(* Page-table entries: the address and the bits PTE_P, PTE_W and PTE_U.    *)
Pte == [p : BOOLEAN, w : BOOLEAN, u : BOOLEAN,
        addr : Page \cup Pa \cup {KTab(k) : k \in KDir} \cup {Null}]

Entry(addr, w, u) == [p |-> TRUE, w |-> w, u |-> u, addr |-> addr]

ZeroPte  == [p |-> FALSE, w |-> FALSE, u |-> FALSE, addr |-> Null]
ZeroPage == [i \in Index |-> ZeroPte]

(* What the allocator hands out is not zero: any entry may look present.   *)
Garbage  == [i \in Index |-> Entry(Null, TRUE, TRUE)]

Leaf   == [pa : Pa, w : Prot]
NoLeaf == [pa |-> Null, w |-> FALSE]

VARIABLES
  mem,      \* the contents of the pages that are page tables
  free,     \* the pages pgalloc has left
  as,       \* as->ptr of the address spaces, Null for one that is not there
  cr3,
  tlb,      \* the translations the MMU has cached
  ctx,      \* cr3 in the saved context of a thread; "new" and "gone" threads
  running,  \* the thread that runs, or "irq" in __am_irq_handle
  seen,     \* what a user access that has just been made found
  halted    \* a panic_on has fired

vars == <<mem, free, as, cr3, tlb, ctx, running, seen, halted>>

-----------------------------------------------------------------------------
(* The MMU's walk, and what the user area of a page directory maps.        *)
Lookup(m, pd, va) ==
  LET pde == m[pd][va[1]]
      pte == m[pde.addr][va[2]]
  IN  IF pde.p /\ pde.u /\ pte.p /\ pte.u
        THEN [pa |-> pte.addr, w |-> pte.w] ELSE NoLeaf

(* Mutant: the flags vme_init passes to ptwalk for the kernel's tables.    *)
MutPdeFor(pt) == Entry(pt, TRUE, FALSE)

(* The entry ptwalk makes for a new table, under map()'s flags.            *)
PdeFor(pt) == Entry(pt, TRUE, TRUE)

(* ptwalk: a table that is missing on the way is allocated and zeroed.     *)
NeedsPage(pd, va) == ~mem[pd][va[1]].p

PtWalk(pd, va) ==
  LET pt == Pick(free)
  IN  IF NeedsPage(pd, va)
        THEN [mem  |-> [mem EXCEPT ![pt] = ZeroPage, ![pd][va[1]] = PdeFor(pt)],
              free |-> free \ {pt}, pt |-> pt]
        ELSE [mem |-> mem, free |-> free, pt |-> mem[pd][va[1]].addr]

(* teardown descends where PTE_P and PTE_U are set: the tables of level 2. *)
Tables(pd) ==
  {mem[pd][i].addr : i \in {j \in Index : mem[pd][j].p /\ mem[pd][j].u}}

(* Mutant: the kernel's part of the directory is left empty.               *)
MutNewDirectory == ZeroPage

NewDirectory == [i \in Index |-> IF i \in KDir THEN mem[Kpt][i] ELSE ZeroPte]

-----------------------------------------------------------------------------
(* After vme_init, called by the boot thread.                              *)
Init ==
  /\ mem = [q \in Page \cup {Kpt} |->
              IF q = Kpt THEN [i \in Index |-> IF i \in KDir
                                 THEN Entry(KTab(i), TRUE, FALSE) ELSE ZeroPte]
              ELSE Garbage]
  /\ free = Page
  /\ as = [a \in Space |-> Null]
  /\ cr3 = Kpt
  /\ tlb = [va \in Va |-> NoLeaf]
  /\ ctx = [t \in Thread |-> IF t = boot THEN Null ELSE "new"]
  /\ running = boot
  /\ seen = <<>>
  /\ halted = FALSE

KernelMode == running = "irq" \/ running \in KThread

Panic ==
  /\ halted' = TRUE
  /\ seen' = <<>>
  /\ UNCHANGED <<mem, free, as, cr3, tlb, ctx, running>>

Protect(a) ==
  /\ KernelMode /\ as[a] = Null
  /\ \/ free = {} /\ Panic
     \/ /\ free # {}
        /\ as' = [as EXCEPT ![a] = Pick(free)]
        /\ mem' = [mem EXCEPT ![Pick(free)] = NewDirectory]
        /\ free' = free \ {Pick(free)}
        /\ seen' = <<>>
        /\ UNCHANGED <<cr3, tlb, ctx, running, halted>>

(* map(as, va, pa, prot) with a prot other than MMAP_NONE.                 *)
Map(a, va, pa, w) ==
  /\ KernelMode /\ as[a] # Null
  /\ LET walk == PtWalk(as[a], va)
     IN  \/ NeedsPage(as[a], va) /\ free = {} /\ Panic
         \/ /\ NeedsPage(as[a], va) => free # {}
            /\ \/ walk.mem[walk.pt][va[2]].p /\ Panic
               \/ /\ ~walk.mem[walk.pt][va[2]].p
                  /\ mem' = [walk.mem EXCEPT ![walk.pt][va[2]] =
                                               Entry(pa, w, TRUE)]
                  /\ free' = walk.free
                  /\ seen' = <<>>
                  /\ UNCHANGED <<as, cr3, tlb, ctx, running, halted>>

(* map(as, va, NULL, MMAP_NONE): the walk has allocated a table before the *)
(* panic, which ends the program.                                          *)
Unmap(a, va) ==
  /\ KernelMode /\ as[a] # Null
  /\ \/ Lookup(mem, as[a], va) = NoLeaf /\ Panic
     \/ /\ Lookup(mem, as[a], va) # NoLeaf
        /\ mem' = [mem EXCEPT ![mem[as[a]][va[1]].addr][va[2]] = ZeroPte]
        /\ seen' = <<>>
        /\ UNCHANGED <<free, as, cr3, tlb, ctx, running, halted>>

(* The OS destroys an address space only when no context returns to it and *)
(* it is not loaded.  Its own user threads are not enough: a kernel thread *)
(* runs on whatever cr3 it found and __am_irq_handle saves it as its own.  *)
Unused(a) ==
  /\ cr3 # as[a]
  /\ \A t \in Thread : ctx[t] # as[a]

Unprotect(a) ==
  /\ KernelMode /\ as[a] # Null /\ Unused(a)
  /\ LET freed == Tables(as[a]) \cup {as[a]}
     IN  /\ free' = free \cup freed
         /\ mem' = [q \in DOMAIN mem |-> IF q \in freed THEN Garbage ELSE mem[q]]
  /\ as' = [as EXCEPT ![a] = Null]
  /\ seen' = <<>>
  /\ UNCHANGED <<cr3, tlb, ctx, running, halted>>

(* ucontext and kcontext.                                                  *)
NewContext(t) ==
  /\ KernelMode /\ ctx[t] = "new"
  /\ t \in UThread => as[AsOf(t)] # Null
  /\ ctx' = [ctx EXCEPT ![t] = IF t \in UThread THEN as[AsOf(t)] ELSE Null]
  /\ seen' = <<>>
  /\ UNCHANGED <<mem, free, as, cr3, tlb, running, halted>>

(* The handler gives up a thread it will not return to; boot goes on.      *)
Exit(t) ==
  /\ running = "irq" /\ ctx[t] \notin {"new", "gone"} /\ t # boot
  /\ ctx' = [ctx EXCEPT ![t] = "gone"]
  /\ seen' = <<>>
  /\ UNCHANGED <<mem, free, as, cr3, tlb, running, halted>>

(* __am_irq_handle up to the call of user_handler.                         *)
TrapOf(t) ==
  /\ running' = "irq"
  /\ ctx' = [ctx EXCEPT ![t] = cr3]

Trap ==
  /\ running # "irq"
  /\ TrapOf(running)
  /\ seen' = <<>>
  /\ UNCHANGED <<mem, free, as, cr3, tlb, halted>>

(* Mutant: cr3 is not written when it has the value already.               *)
MutSetCr3(t) ==
  /\ cr3' = IF ctx[t] = Null THEN cr3 ELSE ctx[t]
  /\ tlb' = IF ctx[t] \in {Null, cr3} THEN tlb ELSE [va \in Va |-> NoLeaf]

(* if (ret_ctx->cr3) set_cr3(ret_ctx->cr3);                                *)
SetCr3(t) ==
  /\ cr3' = IF ctx[t] = Null THEN cr3 ELSE ctx[t]
  /\ tlb' = IF ctx[t] = Null THEN tlb ELSE [va \in Va |-> NoLeaf]

(* user_handler returns the context of t.                                  *)
IrqReturn(t) ==
  /\ running = "irq" /\ ctx[t] \notin {"new", "gone"}
  /\ SetCr3(t)
  /\ running' = t
  /\ seen' = <<>>
  /\ UNCHANGED <<mem, free, as, ctx, halted>>

(* The MMU caches a translation, for an access or ahead of one.            *)
TlbFill(va) ==
  /\ cr3 # Kpt
  /\ Lookup(mem, cr3, va) # NoLeaf
  /\ tlb' = [tlb EXCEPT ![va] = Lookup(mem, cr3, va)]
  /\ seen' = <<>>
  /\ UNCHANGED <<mem, free, as, cr3, ctx, running, halted>>

(* A user thread touches va: through the TLB, or it faults.                *)
UserAccess(va) ==
  /\ running \in UThread
  /\ \/ /\ tlb[va] # NoLeaf
        /\ UNCHANGED <<ctx, running>>
     \/ /\ tlb[va] = NoLeaf /\ Lookup(mem, cr3, va) = NoLeaf
        /\ TrapOf(running)
  /\ seen' = <<AsOf(running), va, tlb[va]>>
  /\ UNCHANGED <<mem, free, as, cr3, tlb, halted>>

Next ==
  /\ ~halted
  /\ \/ Trap
     \/ \E t \in Thread : NewContext(t) \/ Exit(t) \/ IrqReturn(t)
     \/ \E va \in Va : TlbFill(va) \/ UserAccess(va)
     \/ \E a \in Space :
          \/ Protect(a)
          \/ Unprotect(a)
          \/ \E va \in Va : Unmap(a, va) \/ \E pa \in Pa, w \in Prot : Map(a, va, pa, w)

Spec == Init /\ [][Next]_vars

-----------------------------------------------------------------------------
TypeOK ==
  /\ mem \in [Page \cup {Kpt} -> [Index -> Pte]]
  /\ free \subseteq Page
  /\ as \in [Space -> Page \cup {Null}]
  /\ cr3 \in Page \cup {Kpt}
  /\ tlb \in [Va -> Leaf \cup {NoLeaf}]
  /\ ctx \in [Thread -> Page \cup {Kpt, Null, "new", "gone"}]
  /\ running \in Thread \cup {"irq"}
  /\ halted \in BOOLEAN

Live == {a \in Space : as[a] # Null}

(* Every page is either free or in the tables of exactly one address       *)
(* space: none leaks when a space is destroyed, none is freed twice, none  *)
(* is in two spaces, and the kernel's tables are never freed with one.     *)
PagesOwnedOnce ==
  LET owned(a) == {as[a]} \cup Tables(as[a])
  IN  /\ Page = free \cup UNION {owned(a) : a \in Live}
      /\ \A a \in Live : owned(a) \cap free = {} /\ as[a] \notin Tables(as[a])
      /\ \A a, b \in Live : a # b => owned(a) \cap owned(b) = {}

(* Whatever directory is loaded or will be loaded by a return from a trap  *)
(* is one that exists, and it maps the kernel as kpt does, so that the     *)
(* handler runs on it.                                                     *)
KernelMapped ==
  /\ {cr3} \cup {ctx[t] : t \in Thread} \subseteq
       {as[a] : a \in Live} \cup {Kpt, Null, "new", "gone"}
  /\ \A a \in Live, k \in KDir : mem[as[a]][k] = mem[Kpt][k]

(* vme.c implements AddrSpace: a user thread sees the pages of its own     *)
(* address space as the last map() left them, although nothing but the     *)
(* return from a trap ever invalidates the TLB.                            *)
Spaces == INSTANCE AddrSpace WITH
  space <- [a \in Live |-> [va \in Va |-> Lookup(mem, as[a], va)]]

ImplementsAddrSpace == Spaces!Spec
=============================================================================
