# A verification project for riscv64-cpu

This directory models the core logic of the repository: the five-stage RV64 pipelines of `simulator/IP` (the 2026 core, its
handshake variant, the page-table walker, the instruction cache of 2025), the simulator of `simulator/src` that clocks a core
and compares it, instruction by instruction, with a reference, and of `abstract-machine` the parts with a protocol: traps and
address spaces on Linux and on x86-qemu, and klib. TLA+ modules state what each part promises, TLC checks it on small
instances, and TLAPS proves the central invariants for every word size, register file, memory and program.

## 1. The system

| Component | State | Operations | Interacts through |
|---|---|---|---|
| 2026 core: pipeline (`pipeline/*.v`, `ctrl.v`, `top_cpu.v`) | `pc`, `regD`, `regE`, `regM`, `regW` | one rising edge of `clk` moves every register | combinational wires; DPI calls to memory |
| 2026 core: register and CSR files (`csrfile/*.v`) | 32 registers, 4096 CSRs, the timer | read in decode, written from `regW` | `decode.v`, `write_back.v`; `dpi_read_regfile`, `dpi_read_csrfile` |
| Ready-valid core (`...-ready-valid`, and `...-mmu`, a copy) | the same, and a valid bit per stage | the edge, under allow-in and ready-go | the same |
| Page-table walker (`mmu/*.v`) | state machine, latched address, entry in hand | one edge; one entry per two edges | `mmu_fetch.v`, `mmu_pc.v` |
| 2025 cache core (`2025/rv64-cache-cpu-2025`) | the stages, and a two-way instruction cache | one edge; a line is filled in the edge of the miss | `icache.v` between `pc` and `fetch` |
| Simulator loop (`sim/exec.c`, `sim/sim.c`, `npc/npc.c`) | `dut`, counters | `execute`, `check_ebreak`, `sim_exit`, `npc_single_cycle`, `npc_reset` | toggles `clk`, reads `commit_*` |
| Memory (`npc/dpi.c`, `memory/memory.c`) | `pmem` | `dpi_instr_mem_read`, `dpi_mem_read`, `dpi_mem_write` | called from `fetch.v` and `memory.v` |
| Differential test (`difftest/difftest.c`) | the reference simulator | `difftest_step`, `checkregs`, `checkcsrs`, `is_special_instr` | runs once per commit |
| Trace (`trace/instr_trace.c`) | ring of 30 entries | entry, display | called from `execute` and from the report |
| Snapshot (`snapshot/snapshot.c`) | one file | save, restore | called by nothing yet |
| AM on Linux (`am/src/native`) | `thiscpu`, saved contexts, `VMHead` lists, the window of the process | `sig_handler`, `irq_handle`, `__am_iret`, `yield`, `iset`, `protect`, `map`, `__am_switch` | Linux signals; the OS's event handler |
| AM on x86-qemu (`am/src/x86/qemu`) | page tables, `cr3`, the TLB | `vme_init`, `protect`, `unprotect`, `map`, `__am_irq_handle`, `kcontext`, `ucontext` | the OS's page allocator and event handler |
| klib (`klib/src`) | none | string, formatting, conversion and 64-bit division routines | called by programs |
| 2024 cores, `1abstract-machine`, other AM platforms, `software-test`, kconfig | earlier designs, a second copy, stubs, test programs, third-party tools | | |

What is hard in the cores is *order*. Five instructions are in flight; up to three of them have results the register file does
not hold yet; a load result arrives one stage late; a jump is resolved two fetches too late; an AMO must be alone; CSRs
are read in stage D and written from stage W. Stalls and flushes can be asked for in the same cycle, and `pc.v`, `regD.v`
and `ctrl.v` decide by priority which wins. The handshake core adds allow-in running backwards and ready-go running forwards
through the same stages. The walker and the cache hold copies of memory, or answers to a question, that may be out of date when
they are used. Outside the core, the simulator copies the registers one cycle after it sees a commit, while memory was written
a cycle before, and lets a reference that has no devices execute MMIO accesses first.

What is hard in abstract-machine is *interleaving*. On Linux a signal may come between any two instructions, of a thread or of
the AM itself; the saved context, the kernel stack, the signal mask and the process's mappings have to change together. On
x86 nothing invalidates the TLB but the return from a trap, kernel threads run on whatever tables they find, and a destroyed
address space must give every page back, once. In klib and in snapshot it is the edge cases: overlaps, the least number, zero
words, a file cut short, a call that fails half way.

What makes each component correct:

* pipelines: they behave as the machine that runs one instruction at a time; no instruction is lost, repeated or executed
  on a wrong path; every operand is the value program order gives it; they never stop committing;
* register and CSR files: a read never returns a value that an older instruction has replaced;
* walker: an answer is the translation of the address the walk took, and every walk ends; cache: a hit is the word in memory,
  and fetch hands on the instructions of memory in order;
* simulator: after each commit the reference and the core are in the same state, every difference is reported, and the
  loop always comes to an end; trace: the last 30 instructions, oldest first; snapshot: a restore that succeeds is exact;
* abstract-machine: each thread runs as if it were alone, on its own stack and its own address space; the OS gets the CPU
  again and again; no page leaks or has two owners; klib: what the C standard says.

## 2. Modules

| Module | What it is |
|---|---|
| `Rv64` | constants, and what the combinational logic computes for one instruction (decode, ALU, branch, memory, write back, CSR) |
| `Isa` | the abstract specification: one instruction per step, in program order |
| `Pipeline` | the 2026 core: `Clock` is one rising edge, with one definition per flip-flop (`PcEdge`, `RegDEdge`, ...) and per control signal of `ctrl.v` |
| `PipelineCorrect` | the hazards the core leaves open (`HazardFree`), the refinement mapping to `Isa` and the properties |
| `PipelineProofs` | theorems about the core (types, control, the refinement of `Isa`), the handshake core and the differential test |
| `ReadyValid` | the handshake core: the valid bits, allow-in and ready-go, and the edges they make |
| `Difftest` | the simulator around the core |
| `Recent` | the abstract specification of the instruction trace: the last N entries |
| `Itrace`, `ItraceProofs` | the trace ring of `trace/instr_trace.c`, and its theorems |
| `Mmu` | the page-table walker `mmu.v`, one disjunct per state of its machine |
| `MmuFetch`, `MmuProofs` | `mmu_fetch.v` and `mmu_pc.v` around the walker; theorems |
| `FetchUnit` | the abstract specification of a front end: the instructions of memory, in order, one at a time |
| `Icache`, `IcacheProofs` | the front end of the 2025 core: `icache.v`, `pc.v`, `fetch.v`, `regD.v`; theorems |
| `Snapshot`, `SnapshotProofs` | `snapshot.c` with a full disk and a killed process; theorems |
| `Tasks` | the abstract specification of traps and scheduling: threads that run alone on their address spaces |
| `Native`, `NativeProofs` | `native/cte.c` and `native/vme.c`; theorems |
| `AddrSpace` | the abstract specification of address spaces: a map of its own for each |
| `X86Vme`, `X86VmeProofs` | `x86/qemu/vme.c`, and what `cte.c` does with `cr3`; theorems |
| `Int64`, `Klib`, `KlibProofs` | the division routines of `int64.c`; `string.c`, `stdio.c` and `stdlib.c`; theorems |
| `MCPipeline`, `MCReadyValid`, `MCDifftest`, `MCMmu`, `MCNative`, `MCX86Vme`, `MCKlib` | small instances |

`Difftest` and `ReadyValid` extend `PipelineCorrect`, which extends `Pipeline` and instantiates `Isa`; all share `Rv64`.
`MmuFetch` extends `Mmu`, `Klib` extends `Int64`. A `Proofs` module extends the ones it is about; `PipelineProofs` is about
three, since the cores and the simulator share its lemmas. `Itrace` instantiates `Recent`, `Icache` `FetchUnit`, `Native` `Tasks` and
`X86Vme` `AddrSpace`, each with a refinement mapping.

### How the model corresponds to the code

A stage register is a record: the instruction, its pc, the `commit_info` fields (`valid`, `npc`) and the data the stage
computed (`d1`/`d2` are `regdata1`/`regdata2`, `c1`/`c2` the two CSR reads, `alu` the ALU result, `md` the memory data).
All primed values come from the state before the edge, as non-blocking assignments do. `FStall`, `DStall`, `DBubble`,
`EBubble`, `MBubble` are `regF_stall`, `regD_stall`, `regD_bubble`, `regE_bubble`, `regM_bubble`; the other stall and
bubble wires are constant 0. The priority of stall over jump in `pc.v` and of bubble over stall in `regD.v` is the order
of the CASE arms. `Forward` is `decode_o_regdata1` and `decode_o_regdata2`.

Abstractions, all of them of data:

* an instruction is a record of its fields. One representative stands for each group the control logic treats alike:
  `alu_imm` (addi, with the w forms), `alu_reg` (sub), `load` (every width), `store`, `beq`/`bne` (all six branches),
  `csrrw`/`csrrs`/`csrrc`, `amoswap` (amoswap.w, the only AMO `memory.v` acts on) and `amo` (every other);
* a memory cell holds one word and an access reads or writes all of it;
* code and data are apart: no store changes an instruction;
* reset gives mstatus, mie and sstatus values of their own (`CsrReset`) and leaves the other CSRs 0;
* numbers are `0 .. WordSize - 1` and wrap. `BitOr` and `BitAndNot` are constants, so nothing depends on their values;
* `Csr` does not contain the timer, which counts by itself;
* `wb_o_system_info` (`write_back.v:23`) is never driven. The Makefile builds with `--x-assign fast --x-initial fast`,
  so it reads 0 and `csrfile.v` treats mret as a csr write of the ALU result, 0, to mstatus.

In `Difftest`, `Wait` is the body of `while(dut.commit != 1)`, `DifftestStep` the rest of an iteration of `execute`
(the cycle that writes the instruction back, `update_cpu_state`, `difftest_step`), `CheckEbreak` and `SimExit` the end.
`RefExec` is the reference, an external library, modelled by what `difftest.c` relies on: one instruction of the ISA.

In `Itrace`, one step is an iteration of `execute` as the trace sees it: the entry, then `difftest_step`, which may print
the report and exit. `N` is `ITRACE_POOL_SIZE`.

In `Mmu`, one step is an edge; `Walk` is the body of the `always` block, and its disjuncts are its states, `Idle` and
`Accept` being the two outcomes of `STATE_IDLE` and `Descend` and `Finish` those of `STATE_CHECK_PTE`. A virtual address is
a number, a page-table entry a record of the bits the walker reads, and `Physical` computes the concatenations of lines
91-93. `root` is a history variable. `Mmu!Next` lets the client drive anything at every edge; `MmuFetch` is the one client
that exists, with the rest of the pipeline (stall, `regD_i_allowin`, redirection, satp) free.

In `ReadyValid` the operators have the names of the wires. `ctrl.v` and the combinational logic are those of the 2026 core, so
only the edges are new. The valid bit of the handshake and the one in `commit_info` are kept apart, as in the code, and `Taken` has the three
outcomes of the `always` blocks: the nop words, the data offered, and nothing at all. That last one is what the bubble of
`regM` does, which has no flush.

In `Icache` one step is an edge. An address is the number of its word and an instruction a pair of the word it was read from and
that word's content, so that mistaking one word for another and reading an old content are both visible. `$random % 2` is
signed in Verilog: -1, 0 or 1, and -1 fills no way. The arrays of the cache have no reset and start at 0, which is not valid, in the
Verilator build. Of the stages behind regD only the kind of the instruction is kept, and what a jump's target, a load-use
stall or a store's address is stays free. `open` is a history variable: it is set by a miss in the middle of a line and by a
store to a word that is held, in the cache, in flight, or on the wires of `memory_data`.

In `Snapshot` the state is a row of units, those of the CPU before those of memory; `accepted` is what the two `fwrite` take and
`k` how much of it reaches the file, which `fclose` may cut without anyone looking. `saved` and `before` are history variables.

In `Native` Linux is the hardware. An interrupt is a signal: `Raise` makes it pending, `Interrupt` delivers it to code that has
not blocked it, and `Exception` is the SIGSEGV of a fault, of a system call or of `yield`. `sig_handler` runs with the interrupt signals masked
and is one step; `irq_handle`, the OS's handler, `__am_switch` and `__am_iret` are places of the AM's own code between which the model
steps. The OS is external: it resumes any thread that has a context, calls `protect` and `map`, and keeps contexts in `pcb`.
`unprotect` does nothing in the code. `ioe_init` never starts the thread that sends SIGUSR1, so the timer is the only interrupt of the
instance. `twice` is a history variable: the spaces where `map` was called for a page that had a mapping.

In `X86Vme` the MMU is external: `TlbFill` caches any translation of the loaded directory at any time and only a write of `cr3`
empties it. `Pick` is the page that the OS's allocator returns. The kernel is the client, with one obligation, `Unused`: it destroys an
address space only while no thread is in it and it is not loaded.

In `Klib` every legal call is made once, from every input of the instance, and `ret` is what it left. Memory is a function from few
addresses to few byte values; a text is a sequence of characters. `Int64` follows `__udivmoddi4` case by case with words of `W`
bits.

## 3. What is checked

`HazardFree` names the four situations the cores get wrong (section 5). `SafeSpec` and `RvSpec` let a run go on until the first
edge that meets one; such a run then stops, which is why these configurations do not check deadlock. In `Difftest` the history variable
`agree` says whether one has been met; the simulator itself goes on.

| Run | Instance | Shows |
|---|---|---|
| `core` | all programs of 4 instructions from 11 (arithmetic, loads, stores, branches, jal, jalr) and all of 4 from 14 (csr, mret, ecall, AMOs, loads, jumps) | `TypeOK`, `CommitChain`, `JumpShadowEmpty`, `AmoTravelsAlone`, `OperandsFresh`, and that the core implements `Isa` |
| `ready_valid` | all 14 641 programs of 4 from 11 of all kinds | `ValidBitsAgree`; the handshake core implements `Isa` as well; `CommitsGoOn` |
| `sim` | all 28 561 programs of 4 from 13 without backward jumps, MMIO and hazards included | `NoFalseAlarm` and `Lockstep` as long as core and ISA agree; `SimulationEnds` always |
| `itrace` | a ring of 3, 3 different instructions | the report shows the last instructions in order (`Recent`), wrapped or not |
| `mmu` | 12 pairs of tables of 2 entries, 7 addresses, 3 values of satp | `AnswerCorrect`, `WalkEnds`, `FetchGoesOn` |
| `icache` | 12 words, lines of 2, two sets of two ways, one word that is written | `WaysDisjoint`, and that the front end implements `FetchUnit` up to an open hazard |
| `snapshot` | 2 units of CPU state and 2 of memory | `RestoreExact`, `FailedRestoreIsPrefix` |
| `native` | two user threads, two kernel threads, two address spaces, two pages | `WindowIsSpace`, `OwnStack`, `ListsEnd`; the AM implements `Tasks`; `OsComesBack` |
| `x86vme` | two user threads, two kernel threads, two address spaces, four page frames | `PagesOwnedOnce`, `KernelMapped`, and that the code implements `AddrSpace` |
| `klib` | memories of 5 bytes with 3 values, all 8-bit ints, formats of up to 3 directives or 5 characters, all 8-bit divisions (words of 4 bits) | the standard's meaning of every call |
| `lost_jump` | one program | a finding of section 5 |
| `stale_pa` | the instance of `mmu`, satp fixed | a finding of section 5 |

Why the bounds are enough. Cores: control looks at no more than the five instructions in flight, and every program is followed
by ebreaks, so four free instructions behind an empty pipeline meet every combination of stages E, M and W with an
instruction in D. Two general registers besides x0 give every equality between a source and the three destinations ahead
of it (equal, different, x0). 64 words leave room for 8 instructions, mapped and unmapped data and the MMIO addresses; the
pc wraps inside the runs. The menu of `ready_valid` has a load to x0, for which the load-use stall comes up behind an empty regD too.

Trace: three entries show an empty, a partly filled, a full and a wrapped ring, and the theorem covers the rest.
Walker: the tables hold pages at each of the three levels, faults of both kinds, a table outside memory and tables
that point at themselves and at the root; addresses differ in each page number and in the offset.

Cache: twelve words are three lines for each set of two ways, so lines are evicted, by either choice of the way and by none; a jump goes
to any word, in the middle of a line or at its start. Snapshot: two units on either side of the border let a file end inside the
CPU state, at the border, inside memory and at the end, and two values tell old from new.

Linux: each user thread has a space of its own, one of them with two pages, so that a window is replaced by a larger, a smaller and an empty one
and a list has a second element to lose; one page is mapped read-only as well, which makes the fault on a write; the kernel threads
cover interrupts disabled, enabled again, the instruction behind `sigprocmask`, and code in a library, where signals are dropped. x86: two
spaces with two tables each need six page frames; with four the allocator runs out and frames go from one space to the other.
klib: five bytes hold two strings or two regions with every overlap; the division's cases are told apart by zero words, by a power of two
and by leading zeros, all of which four bits have.

Every property of a passing run has a mutant of the model (the definitions named `Mut...`, each a plausible slip in the
code it replaces: a missing flush term, a selector in the wrong order, the live address in place of the latched one) under
which TLC finds the property violated.

Fairness. `DiffSpec` assumes weak fairness of the simulator's next step: it is a single-threaded loop that calls `eval` until
it exits. `RvSpec` and `FetchSpec` assume that the clock keeps ticking; in `FetchSpec` stalls may last for ever. Nothing is assumed of the cores, whose
only step is the edge. `Native` assumes weak fairness of the AM's own code (it runs with interrupts masked, so a place that is reached is
left) and of the OS, which returns from its handler. A thread's steps are strongly fair, since signals interrupt them; so is the
delivery of the timer signal, which Linux delivers whenever it is unblocked; and `TickAtSafe`, that the periodic timer does not expire
in library code every single time: without it `OsComesBack` fails, because `sig_handler` drops such a signal.
`SafeSpec` and the other modules state safety only.

Deadlock is not checked where a run may stop: at an open hazard (`core`, `ready_valid`), after the simulator has
exited (`sim`), after the trace has been printed (`itrace`), after a panic for want of a page (`x86vme`), in the assertion after an error or
in the endless walk of a broken list (`native`), after the call has returned (`klib`). `mmu`, `icache` and `snapshot` check it.

## 4. What is proved

All theorems hold for every value of the constants that satisfies the named assumptions of the modules.

**The core** (`PipelineProofs`). Assumptions: words are a nonempty range, there are at least two
registers, mstatus and mepc are CSRs, `BitOr` and `BitAndNot` map words to words, the image and the reset values are words,
programs map code addresses to instructions. The number of registers, CSRs and addresses, and the program, are free.

* `TypeCorrect`: `Spec => []TypeOK`.
* `AmoAlone`: `Spec => []AmoTravelsAlone`, inductive as it stands: each of `inst_amo_decode`, `_execute`, `_memory` in
  `regD_bubble` keeps regD empty for one more cycle.
* `JumpShadow`: `Spec => []JumpShadowEmpty`. Both hold of the core as it is, hazards included.
* `Chained`: `SafeSpec => []CommitChain`. The inductive invariant is `ControlInv`, the conjunction of `CommitChain`,
  `AmoTravelsAlone` (while an AMO is in E or M, pc is its successor and waits) and `QuietBubbles` (what a flush leaves in a
  stage neither jumps nor is an AMO: without it an empty stage could redirect the pc).
* `FreshOperands`: `SafeSpec => []OperandsFresh`, and `Refinement`: `SafeSpec => ImplementsIsa`. The inductive
  invariant is `IsaInv`: `TypeOK`, `ControlInv`, `JumpShadowEmpty` (no return address has to be forwarded from E or M),
  `Fetched` (an instruction in a stage is the one at its pc), `OperandsFresh`, `CsrsFresh` and `MFresh` (what a stage
  carries is what the sequential machine computes from the architectural state). `OperandsStep` is the heart: the
  selectors of `decode_o_regdata1` pick the youngest producer. A valid instruction leaving M maps to a step of `Isa`
  (`CommitRefines`), everything else to a stutter (`BubbleRefines`).

`HazardFree` is used where it must be: `LostJump` and `LostAmo` in `Chained`, `StaleCsrResult` in `OperandsStep`, `StaleCsr`
for `CsrsFresh`. So the four hazards are all that separates the modelled core from the sequential machine of `Isa`. `Isa` takes what one
instruction computes from `Rv64`, the core's own data path: it fixes order, not the meaning of an instruction. What the core
gets wrong about a single instruction (section 5) shows only against the reference in `Difftest`.

All of this is argued for `Flow`, a relation between two states that says of an edge only what the proofs need: an empty
stage may hand on anything quiet. `EdgeFlows` shows that an edge of the 2026 core is one.

**The handshake core** (fourth part of `PipelineProofs`). `LaterEdge` shows that an edge of this core is a `Flow` as well once its pc is valid,
and `FirstEdge` that the edge before changes nothing. The invariant `RvInv` adds to `IsaInv` that the valid bits agree and that an
empty regD holds the nop words: regD and the pc are held by different conditions, and an empty regD that is let in while
the pc stalls is cleared rather than kept. It gives `BitsAgree`, `RvAmoAlone` and `RvRefinement`. The delicate stage is regM, whose
bubble keeps its old contents and would repeat them if regE held an instruction: `AmoTravelsAlone` says that it does not.

**The differential test** (fifth part of `PipelineProofs`), for every program, device range and trap vector. Assumptions beside those of the core:
no device address is in memory and the UART's status register is a device (`MmioAssumption`; `is_mmio_address` accepts
everything from 0x10000000 up to memory); mtvec is a CSR and mret leaves a word in mstatus (`RefAssumption`). `Lockstep` is not
inductive: it says nothing of the instruction in W, which the reference executes next. `DiffInv` adds `RefAhead`, that this
next step of the reference leads to the architectural state behind W, and `Agreed`, that while `agree` holds the core satisfies
`IsaInv` and has nothing of `Differs` in M or W. `RefOfM` carries them over an edge: the reference, executing from the
architectural state, makes of the instruction in M what the core makes of it, except for the register that a load from a device
writes; for that one `Synced` hands over the core's. It gives `InLockstep` and `NoAlarm`.

**The trace** (`ItraceProofs`), for every ring size: `RingSafe` (`TypeOK` is inductive) and `TraceRefines`, that the ring
implements `Recent`, by the lemmas on what an entry does to the contents read from the oldest slot on.

**The walker** (`MmuProofs`), for page tables of any size and content: `WalkerCorrect`, with a client and a satp that do
anything at every edge, and `FetchAnswers`, under the pc and fetch stages. The invariant `WalkInv` says that the entry in
hand is on the path of the translation in progress. `WalkerTyped` and `FetchTyped` type the registers of both.

**The snapshot** (`SnapshotProofs`), for any number of units of state: `SnapshotTyped`, `RestoredIsSaved` and `FailedRestorePrefix`.
The invariant `SnapInv` adds that the file is a first part of the state last saved and never longer than a state (`FileIsSaved`):
without it a short file could be completed by what an older save had left behind it.

**The front end with the cache** (`IcacheProofs`), for every size of memory, lines and cache such that the cache divides memory:
`FrontTyped`, `OneAnswer` and `FrontRefines`. The first part is the arithmetic of tag, index and offset. The invariant `FrontInv` says
that, up to the first hazard, every valid line holds the words of memory that its tag and index name, each stage holds the word at
its pc, and pc, F and D follow each other (`InOrder`). Memory may be written all the time; `open` is raised only by a store to
a word that a line or a stage holds or that is being fetched, or by a line filled from its middle.

**Paging on x86-qemu** (`X86VmeProofs`), for any number of spaces, threads, pages and directory entries, and any choice the allocator
makes among its free pages: `VmeTyped`, `PagesOnce`, `KernelEverywhere` and `VmeRefines`. The invariant `VmeInv` describes the page tables as
a forest: live spaces own their directories, present user entries point to tables owned once, nothing that is not free is without an
owner, the kernel's entries are those of kpt, and none of the directories that cr3 holds or a return will load is freed. `Coherent` says
that while a user thread runs its space is loaded and the TLB holds nothing but what the tables say. That is where the
refinement could fail, since neither `map` nor `unprotect` invalidates the TLB: it may be stale in the kernel, and every return to a
user thread writes cr3. Assumptions: the kernel's and the users' directory entries are apart, Kpt, the kernel's tables and null are no
pages of the allocator, the allocator returns one of its free pages, and no thread is named as the trap handler is.

**Traps and address spaces on Linux** (`NativeProofs`), for any number of threads, pages and address spaces and any code of the threads:
`NativeTypes`, `StacksAreOwn`, `WindowShowsSpace`, `ListsEndUntilTwice` and `NativeImplementsTasks`. Assumptions: kernel and user threads are
apart, threads are not named as the AM's own places are, a null pointer is no page, kernel threads touch no user page, a thread has
at least one instruction, and what the OS maps is a page of a space. The invariant `NativeInv` has three parts beside the shapes of records:

* `Stacks`. The CPU is either in the thread that the OS resumed last, with its space loaded and, for a user thread, its own kernel stack
  in `ksp` (`InThread`), or in the AM between two threads (`InAm`), where each place of `cte.c` knows one thing more: whose space is loaded,
  that the context the OS returned is at `rdi`, that `vm_head` is that of this context once `__am_switch` is behind. Every other thread
  is `Resumable`: its context lies on its stack with its own space and, for a user thread, its own `ksp`. `OwnStack` alone is not inductive, as it
  says nothing of the context that the next `iret` loads.
* `Lists`. A list in which no page was linked twice ends and holds the pages of the hash table; one in which a page was linked twice goes in a
  circle (`Endless`) and stays so: every node that a walk finds has a successor. `Walk` is the least set of nodes closed under `next`
  that holds the head, so a proof about every list needs no induction: a closed set bounds the walk from above, and the walk is closed.
* `WindowIsSpace`, which `__am_switch` keeps because the walk of a list that ends finds all pages of its space.

In the refinement (`InitMoves`, `StepsMove`) a trap takes the thread out of `Tasks`' hands with the event that `irq_handle` will report, the
context switch is invisible, and `iret` is the step that resumes.

**klib** (`KlibProofs`), for a memory of any size and bytes of any range: `StringsWriteRight` and `StringsCompareRight`;
for every format and every int that is not negative: `FormatEndIsPassed` and `AtoiReadsNumbers`. The invariant `KlibInv` keeps the arguments legal; the work
is in the routines.

* A loop is a recursive function of its rounds. `Copied` is its closed form, which shows that the recursion has a solution; that it
  has no other follows from the least round in which two would differ (`SameRounds`). The order of the bytes matters where regions overlap:
  `UpwardCopies` needs that no byte is read after it has been written over (`d <= s` or regions apart), `DownwardCopies` that `s <= d`, and
  the test `dst < src` of `memmove` gives each what it needs.
* A string ends at the least 0 (`StringOf`, `TextOf`), what is written behind what was written is a concatenation (`WrittenTwice`), and two
  sequences are ordered by the place where they part (`Ordered`); `StrNCmpOrders` says why a loop that looks for the end of the first string only
  is enough: at the end of the second the bytes differ.
* `vsprintf` has no closed form. `Solvable` extends a solution for the last places of a format to the place before them, by the least
  number of places for which there is none; whether the end is passed depends on the number of `%` at the end alone (`PieceTells`).
* What `uint_to_str` writes is described without powers of ten, by the numbers that its first digits make (`Spells`): each is the next one
  divided by ten, and the digit between them is what remains. `atoi` goes through the same numbers from the front (`AtoiReads`);
  none of them is larger than the whole, so its int does not overflow. C gives a larger unsigned int no meaning in `atoi`, and no call has one.

Only model-checked:

* liveness (`SimulationEnds`, `CommitsGoOn`, `WalkEnds`, `FetchGoesOn`, `OsComesBack`), which needs fairness and ENABLED;
* of klib `PrintfCorrect`, whose reference writes a number with powers of ten and joins the directives with a fold, and `UnsignedCorrect` and
  `SignedCorrect`, whose words and shifts are powers of two: the provers have no facts about exponents, and those are proved by induction
  over data.

`Translation` uses the walker's own `Bad`, `Leaf` and `Physical`, so `AnswerCorrect` is about the walk,
not about those three formulas; in particular the walker accepts a large page whose number is not aligned.

## 5. Findings

Two are runs that end in a counterexample; PROJECT.json quotes the line of the repository that each contradicts.

| Run | What happens |
|---|---|
| `lost_jump` | `pc.v:27` lets a stall of F win over a jump. With an AMO on the wrong path in D, the jump is lost |
| `stale_pa` | the walker starts another walk of the pc that is being left; the next instruction is read at its translation |

The `stale_pa` stages are not instantiated by a top module yet. `MmuFetch` repairs nothing: `AnswerCorrect` holds all the
same, because the answer is right for the address the walker took, which is the old one.

More of what the models had to take into account. The hazards of `HazardFree` and `Differs` describe the first five, the
refinements and properties named describe the others:

* an AMO right behind a load of its source is flushed by the bubble it causes itself (`ctrl.v:41`, `LostAmo`);
* an instruction one or two behind a csr read of its source is forwarded another value (`decode.v:448`, `StaleCsrResult`);
* mret within three instructions of a write of mepc returns to the old address: CSRs are read in decode and nothing waits for
  a write on its way (`decode.v:473`, `StaleCsr`);
* `memory.v:61` reads memory for loads only: amoswap.w writes 0 to rd; ecall is decoded but no stage redirects on it (`Differs`);
* `difftest.c:68` skips every CSR (`instret` is a nonzero constant), so no CSR difference is ever reported (`SkipCsr`);
* the ready-valid core shares the four hazards: its `ctrl.v` is the same, and `pc.v` holds the pc, jump or not, while it stalls;
* `icache.v:23` fills a line from the pc on, not from the start of the line: a jump to the middle of a line that is not cached
  fetches the wrong word and leaves the line shifted (`Shifts`); stores never invalidate a line (`Held`);
* `native/vme.c:113`: `map` of a page that was mapped before links its `PageMap` a second time; the list becomes
  cyclic and the next `__am_switch` never returns (`ListsEnd`; `OsComesBack` counts that endless walk among its ends);
* `stdio.c:31`: a format that ends in a `%` of its own is read past its end (`ReadsPast`);
* `snapshot.c`: the one file is overwritten before it is known whether the new one fits, `fclose` is not checked, and a restore that
  returns false has replaced part of the state (`FailedRestoreIsPrefix`). `RestoreExact` says that what is accepted is never a mixture; that the
  old snapshot is gone, and that save may have returned true, it does not count as wrong.

## 6. Not modelled, and the plan

Left out, with the reason:

* the free-running timer of `csrfile.v`, which two `always` blocks write: its value reaches software only through a csr read, and
  difftest synchronises the reference there;
* the back end of the 2025 core and the 2024 cores: predecessors of the 2026 pipeline with the same stages, forwarding and
  load-use control, or one instruction per clock;
* several processors (`mpe.c` of both platforms): one CPU is modelled. With `smp > 1` the Linux AM keeps `is_mapped` in shared memory
  while each process has a window of its own, and the x86 AM never flushes another processor's TLB;
* `native/ioe/audio.c`, whose `count` is shared by two threads without a lock, and the other devices: register pokes and calls of
  SDL without a protocol of their own;
* the remaining AM platforms: `vme`, `mpe` and often `cte` are stubs there; `1abstract-machine`, a second copy with a few
  changed files; the 64-bit configuration of `x86/qemu/vme.c`, which walks four levels where the model walks two;
* argument parsing, image loading, logging, disassembly and the pattern statistics of the trace (I/O); `npc/mmio.c`,
  `memory/mmio.c`, `mmu_memory.v` and `mmu_regM.v` (commented out);
* kconfig and fixdep (third-party, with a generated lexer and parser) and libgcc (vendored, twice): together with the second copies they
  are most of the repository's lines;
* in the cores, byte lanes, the w forms and the individual ALU operations: they do not touch the order of events.

What is left is proof: `printf` and the divisions of klib, if the facts about powers that they need can be had, and liveness, with a prover that
knows fairness.
