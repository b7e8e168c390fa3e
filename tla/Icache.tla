------------------------------- MODULE Icache -------------------------------
(***************************************************************************)
(* The front end of rv64-cache-cpu-2025: pc.v, fetch.v with icache.v,      *)
(* regD.v, and what ctrl.v asks of them.  One step is one rising edge of   *)
(* the clock.  An address is the number of its word, and an instruction is *)
(* the word it was read from with the content of that word.                *)
(*                                                                         *)
(* Of the instructions in regE and regM only the kind is kept: what it is, *)
(* where a jump goes, whether decode needs the result of a load and where  *)
(* a store writes are chosen freely.                                       *)
(***************************************************************************)
EXTENDS Integers, Sequences

CONSTANTS
  N,        \* memory has the words 0 .. N - 1
  L,        \* the words of a line
  num_sets,
  Stores    \* the words that stores may write

ASSUME SizeAssumption ==
  /\ L \in Nat \ {0} /\ num_sets \in Nat \ {0}
  /\ N \in Nat \ {0} /\ N % (L * num_sets) = 0
ASSUME StoresAssumption == Stores \subseteq 0 .. N - 1

Word == 0 .. N - 1
Way  == 0 .. 1
Code == Word \X {0, 1}
Kind == {"none", "other", "load", "jump", "store"}

pc_tag(a)    == a \div (L * num_sets)
pc_index(a)  == (a \div L) % num_sets
pc_offset(a) == a % L

NoLine  == [valid |-> FALSE]
Line    == [valid : {TRUE}, tag : 0 .. N \div (L * num_sets) - 1,
            data : [0 .. L - 1 -> Code]]
NoInstr == [commit |-> FALSE]     \* nothing, as after a bubble
Fetched == [commit : {TRUE}, pc : Word, instr : Code]

VARIABLES
  mem,      \* the content of each word
  pc,
  cache,    \* cache[index][way]
  fetch,    \* fetch_o_pc, icache_o_instr and commit
  regD,
  regE,     \* the kind of the instruction in the stage
  regM,     \* whether it is a store
  handed,   \* the instruction that went from regD to regE last
  open      \* history: a hazard that the cache leaves open was met

vars == <<mem, pc, cache, fetch, regD, regE, regM, handed, open>>

TypeOK ==
  /\ mem \in [Word -> {0, 1}]
  /\ pc \in Word
  /\ cache \in [0 .. num_sets - 1 -> [Way -> Line \cup {NoLine}]]
  /\ {fetch, regD} \subseteq Fetched \cup {NoInstr}
  /\ regE \in Kind /\ regM \in BOOLEAN
  /\ handed \in Code \cup {<<>>}
  /\ open \in BOOLEAN

Init ==
  /\ mem = [w \in Word |-> 0]
  /\ pc = 0
  /\ cache = [i \in 0 .. num_sets - 1 |-> [w \in Way |-> NoLine]]
  /\ fetch = NoInstr /\ regD = NoInstr
  /\ regE = "none" /\ regM = FALSE
  /\ handed = <<>> /\ open = FALSE

-----------------------------------------------------------------------------
dpi_instr_mem_read(a) == <<a % N, mem[a % N]>>

(* L words from pc on, not from the start of pc's line.                    *)
memory_data == [o \in 0 .. L - 1 |-> dpi_instr_mem_read(pc + o)]

(* Mutant: the tag is not compared with the tag of pc.                     *)
MutHits == {w \in Way : cache[pc_index(pc)][w].valid}

(* Mutant: the second way is never found again.                            *)
MutHitsFirst == {w \in {0} : /\ cache[pc_index(pc)][w].valid
                             /\ cache[pc_index(pc)][w].tag = pc_tag(pc)}

(* cache_hit_index0, cache_hit_index1                                      *)
Hits == {w \in Way : /\ cache[pc_index(pc)][w].valid
                     /\ cache[pc_index(pc)][w].tag = pc_tag(pc)}
cache_miss == Hits = {}

(* The line that answers: the first way that hits, or memory.              *)
Data == IF 0 \in Hits THEN cache[pc_index(pc)][0].data
        ELSE IF 1 \in Hits THEN cache[pc_index(pc)][1].data
        ELSE memory_data

(* $random % 2 is signed: it may be -1, which is no way of the cache, and  *)
(* then nothing is written.                                                *)
Fill(rand_val) ==
  cache' = IF cache_miss /\ rand_val \in Way
             THEN [cache EXCEPT ![pc_index(pc)][rand_val] =
                     [valid |-> TRUE, tag |-> pc_tag(pc), data |-> memory_data]]
             ELSE cache

IcacheEdge(stall, bubble) ==
  IF stall \/ bubble THEN UNCHANGED cache ELSE \E rand_val \in -1 .. 1 : Fill(rand_val)

FetchEdge(stall, bubble) ==
  fetch' = IF bubble THEN NoInstr
           ELSE IF stall THEN fetch
           ELSE [commit |-> TRUE, pc |-> pc, instr |-> Data[pc_offset(pc)]]

(* Mutant: the pc does not wrap.                                           *)
MutPcEdge(stall, jump, target) ==
  pc' = IF stall THEN pc ELSE IF jump THEN target ELSE pc + 1

PcEdge(stall, jump, target) ==
  pc' = IF stall THEN pc ELSE IF jump THEN target ELSE (pc + 1) % N

RegDEdge(stall, bubble) ==
  regD' = IF bubble THEN NoInstr ELSE IF stall THEN regD ELSE fetch

(* What becomes of the instruction in regD: it goes to regE unless that is *)
(* flushed, and turns out to be of any kind.                               *)
RegEEdge(bubble) ==
  IF bubble \/ ~regD.commit
    THEN regE' = "none" /\ UNCHANGED handed
    ELSE regE' \in Kind \ {"none"} /\ handed' = regD.instr

MemoryEdge(w) ==
  mem' = IF w \in Word THEN [mem EXCEPT ![w] = 1 - @] ELSE mem

-----------------------------------------------------------------------------
(* The words that are held outside memory: in the cache, on their way to   *)
(* regE, or in the wires of memory_data, which a simulator need not read   *)
(* again while pc stays.                                                   *)
LineStart(i, tag) == tag * L * num_sets + i * L

Held ==
  {a \in Word :
     \/ \E i \in 0 .. num_sets - 1, w \in Way, o \in 0 .. L - 1 :
          cache[i][w].valid /\ a = LineStart(i, cache[i][w].tag) + o
     \/ \E stage \in {fetch, regD} : stage.commit /\ a = stage.pc
     \/ \E o \in 0 .. L - 1 : a = (pc + o) % N}

(* The hazards the cache leaves open: a miss in the middle of a line, and  *)
(* a store to a word that is held.                                         *)
Shifts == cache_miss /\ pc_offset(pc) # 0

Edge(load_use, target, w) ==
  LET jump == regE = "jump" IN
  /\ load_use => regE = "load"
  /\ jump <=> target \in Word
  /\ regM <=> w \in Word
  /\ PcEdge(load_use, jump, target)
  /\ IcacheEdge(load_use, jump)
  /\ FetchEdge(load_use, jump)
  /\ RegDEdge(load_use, jump)
  /\ RegEEdge(jump \/ load_use)
  /\ regM' = (regE = "store")
  /\ MemoryEdge(w)
  /\ open' = (\/ open
              \/ Shifts /\ ~load_use /\ ~jump
              \/ w \in Held')

Next == \E load_use \in BOOLEAN, target \in Word \cup {-1}, w \in Stores \cup {-1} :
          Edge(load_use, target, w)

Spec == Init /\ [][Next]_vars

-----------------------------------------------------------------------------
(* No set ever holds a line twice, so a hit has one answer: the ways are   *)
(* filled without a look at each other.                                    *)
WaysDisjoint ==
  \A i \in 0 .. num_sets - 1 :
    cache[i][0].valid /\ cache[i][1].valid => cache[i][0].tag # cache[i][1].tag

FU == INSTANCE FetchUnit WITH
        next <- IF regD.commit THEN regD.pc ELSE IF fetch.commit THEN fetch.pc ELSE pc,
        out  <- handed

(* Whatever is evicted, stalled or flushed, execute is handed the          *)
(* instructions of memory in order, none lost, repeated or mistaken for a  *)
(* word of another line, up to the first hazard that the cache leaves      *)
(* open.                                                                   *)
ImplementsFetchUnit == FU!Init /\ [][open' \/ FU!Next]_(FU!vars)
=============================================================================
