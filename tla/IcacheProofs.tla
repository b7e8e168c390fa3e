---------------------------- MODULE IcacheProofs ----------------------------
(***************************************************************************)
(* The front end hands execute the instructions of memory in order, for    *)
(* caches and memories of any size and any choice of the way to fill.      *)
(*                                                                         *)
(* The first part is the arithmetic of addresses: the tag, index and       *)
(* offset of a word find it again, and a line does not leave memory.       *)
(***************************************************************************)
EXTENDS Icache, TLAPS

LEMMA Division ==
  ASSUME NEW n \in Nat, NEW d \in Nat \ {0}
  PROVE  n \div d \in Nat /\ n % d \in 0 .. d - 1 /\ n = d * (n \div d) + (n % d)
OBVIOUS

LEMMA DivisionUnique ==
  ASSUME NEW d \in Nat \ {0}, NEW q \in Nat, NEW r \in 0 .. d - 1
  PROVE  (d * q + r) \div d = q /\ (d * q + r) % d = r
<1> DEFINE n == d * q + r
           p == n \div d
           s == n % d
<1>1. d * q \in Nat /\ n \in Nat
  OBVIOUS
<1>2. p \in Nat /\ s \in 0 .. d - 1 /\ n = d * p + s
  BY <1>1, Division
<1> HIDE DEF p, s
<1>3. ~(p < q)
  <2> SUFFICES ASSUME p < q PROVE FALSE
    OBVIOUS
  <2>1. PICK k \in Nat : q = p + 1 + k
    <3>1. q - p - 1 \in Nat /\ q = p + 1 + (q - p - 1)
      BY <1>2
    <3> QED BY <3>1
  <2>2. d * q = d * p + d + d * k /\ d * k \in Nat
    BY <1>2, <2>1
  <2> QED BY <1>2, <2>2
<1>4. ~(q < p)
  <2> SUFFICES ASSUME q < p PROVE FALSE
    OBVIOUS
  <2>1. PICK k \in Nat : p = q + 1 + k
    <3>1. p - q - 1 \in Nat /\ p = q + 1 + (p - q - 1)
      BY <1>2
    <3> QED BY <3>1
  <2>2. d * p = d * q + d + d * k /\ d * k \in Nat
    BY <1>2, <2>1
  <2> QED BY <1>2, <2>2
<1>5. p = q
  BY <1>2, <1>3, <1>4
<1> QED BY <1>2, <1>5 DEF p, s

(* A word is the offset-th of the line that its tag and index name.        *)
LEMMA AddressSplit ==
  ASSUME NEW a \in Nat
  PROVE  /\ pc_tag(a) \in Nat
         /\ pc_index(a) \in 0 .. num_sets - 1
         /\ pc_offset(a) \in 0 .. L - 1
         /\ LineStart(pc_index(a), pc_tag(a)) + pc_offset(a) = a
<1> USE SizeAssumption
<1> DEFINE q == a \div L
           o == a % L
           t == q \div num_sets
           i == q % num_sets
<1>1. q \in Nat /\ o \in 0 .. L - 1 /\ a = L * q + o
  BY Division
<1>2. t \in Nat /\ i \in 0 .. num_sets - 1 /\ q = num_sets * t + i
  BY <1>1, Division
<1> HIDE DEF q, o, t, i
<1>3. L * num_sets \in Nat \ {0}
  OBVIOUS
<1>4. L * i + o \in 0 .. L * num_sets - 1
  <2>1. PICK k \in Nat : num_sets = i + 1 + k
    <3>1. num_sets - i - 1 \in Nat /\ num_sets = i + 1 + (num_sets - i - 1)
      BY <1>2
    <3> QED BY <3>1
  <2>2. L * num_sets = L * i + L + L * k /\ L * k \in Nat /\ L * i \in Nat
    BY <1>2, <2>1
  <2> QED BY <1>1, <2>2
<1>5. a = (L * num_sets) * t + (L * i + o)
  <2>1. L * q = (L * num_sets) * t + L * i
    BY <1>2
  <2>2. (L * num_sets) * t \in Nat /\ L * i \in Nat
    BY <1>2
  <2> QED BY <1>1, <2>1, <2>2
<1>6. a \div (L * num_sets) = t
  BY <1>2, <1>3, <1>4, <1>5, DivisionUnique
<1>7. pc_tag(a) = t /\ pc_index(a) = i /\ pc_offset(a) = o
  BY <1>6 DEF pc_tag, pc_index, pc_offset, q, o, t, i
<1>8. t * L * num_sets = (L * num_sets) * t /\ i * L = L * i
  BY <1>2
<1> QED BY <1>1, <1>2, <1>5, <1>7, <1>8 DEF LineStart

(* Memory is a whole number of cache sizes of one way.                     *)
WaySize == L * num_sets

LEMMA MemoryDivided ==
  /\ WaySize \in Nat \ {0}
  /\ N \div WaySize \in Nat
  /\ N = WaySize * (N \div WaySize)
<1>1. WaySize \in Nat \ {0} /\ N \in Nat /\ N % WaySize = 0
  BY SizeAssumption DEF WaySize
<1>2. N \div WaySize \in Nat /\ N = WaySize * (N \div WaySize) + (N % WaySize)
  BY <1>1, Division
<1>3. WaySize * (N \div WaySize) + 0 = WaySize * (N \div WaySize)
  BY <1>1, <1>2
<1> QED BY <1>1, <1>2, <1>3

Tag == 0 .. N \div (L * num_sets) - 1

LEMMA LinesInMemory ==
  ASSUME NEW t \in Tag, NEW i \in 0 .. num_sets - 1, NEW o \in 0 .. L - 1
  PROVE  LineStart(i, t) + o \in Word
<1> USE SizeAssumption
<1> DEFINE T == WaySize
           K == N \div T
<1>1. T = L * num_sets
  BY DEF WaySize
<1>2. T \in Nat \ {0} /\ K \in Nat /\ N = T * K
  BY MemoryDivided
<1>3. t \in Nat /\ t < K
  BY <1>2 DEF Tag, WaySize
<1>4. PICK k \in Nat : K = t + 1 + k
  <2>1. K - t - 1 \in Nat /\ K = t + 1 + (K - t - 1)
    BY <1>2, <1>3
  <2> QED BY <2>1
<1>5. PICK j \in Nat : num_sets = i + 1 + j
  <2>1. num_sets - i - 1 \in Nat /\ num_sets = i + 1 + (num_sets - i - 1)
    OBVIOUS
  <2> QED BY <2>1
<1>6. T = L * i + L + L * j /\ L * i \in Nat /\ L * j \in Nat
  BY <1>1, <1>5
<1> HIDE DEF K
<1>7. T * K = T * t + T + T * k /\ T * t \in Nat /\ T * k \in Nat
  BY <1>2, <1>3, <1>4
<1>8. t * L * num_sets = T * t /\ i * L = L * i
  BY <1>1, <1>3
<1> HIDE DEF T
<1>9. LineStart(i, t) = T * t + L * i
  BY <1>8 DEF LineStart
<1> QED BY <1>2, <1>6, <1>7, <1>9 DEF Word

LEMMA TagInRange ==
  ASSUME NEW a \in Word
  PROVE  pc_tag(a) \in Tag
<1> DEFINE T == WaySize
           K == N \div T
           t == a \div T
<1>1. a \in Nat /\ a < N
  BY SizeAssumption DEF Word
<1>2. T \in Nat \ {0} /\ K \in Nat /\ N = T * K
  BY MemoryDivided
<1>3. t \in Nat /\ a >= T * t
  <2>1. t \in Nat /\ a % T \in 0 .. T - 1 /\ a = T * t + (a % T)
    BY <1>1, <1>2, Division
  <2>2. T * t \in Nat
    BY <1>2, <2>1
  <2> HIDE DEF t
  <2> QED BY <1>2, <2>1, <2>2
<1> HIDE DEF K, t
<1>4. t < K
  <2> SUFFICES ASSUME ~(t < K) PROVE FALSE
    OBVIOUS
  <2>1. PICK k \in Nat : t = K + k
    <3>1. t - K \in Nat /\ t = K + (t - K)
      BY <1>2, <1>3
    <3> QED BY <3>1
  <2>2. T * t = T * K + T * k /\ T * k \in Nat
    BY <1>1, <1>2, <2>1
  <2> QED BY <1>1, <1>2, <1>3, <2>2
<1> QED BY <1>2, <1>3, <1>4 DEF Tag, pc_tag, K, t, WaySize

LEMMA WrapsIntoMemory ==
  ASSUME NEW a \in Nat
  PROVE  a % N \in Word /\ (a < N => a % N = a)
BY SizeAssumption DEF Word
-----------------------------------------------------------------------------
(* Types.                                                                  *)

LEMMA WordNat == Word \subseteq Nat /\ 0 \in Word
BY SizeAssumption DEF Word

LEMMA MemoryRead ==
  ASSUME TypeOK, NEW a \in Nat
  PROVE  dpi_instr_mem_read(a) \in Code
<1>1. a % N \in Word
  BY WrapsIntoMemory
<1>2. mem[a % N] \in {0, 1}
  BY <1>1 DEF TypeOK
<1> QED BY <1>1, <1>2 DEF dpi_instr_mem_read, Code

LEMMA HeldFetched ==
  ASSUME TypeOK, NEW stage \in {fetch, regD}, stage.commit
  PROVE  stage.pc \in Word /\ stage.instr \in Code
<1>1. stage \in Fetched \cup {NoInstr}
  BY DEF TypeOK
<1>2. stage \in Fetched
  BY <1>1 DEF NoInstr
<1> QED BY <1>2 DEF Fetched

LEMMA MemoryData == ASSUME TypeOK PROVE memory_data \in [0 .. L - 1 -> Code]
<1>1. ASSUME NEW o \in 0 .. L - 1 PROVE dpi_instr_mem_read(pc + o) \in Code
  <2>1. pc + o \in Nat
    BY WordNat, SizeAssumption DEF TypeOK
  <2> QED BY <2>1, MemoryRead
<1> QED BY <1>1 DEF memory_data

LEMMA ValidLine ==
  ASSUME TypeOK, NEW i \in 0 .. num_sets - 1, NEW w \in Way, cache[i][w].valid
  PROVE  cache[i][w].tag \in Tag /\ cache[i][w].data \in [0 .. L - 1 -> Code]
<1>1. cache[i][w] \in Line \cup {NoLine}
  BY DEF TypeOK
<1>2. cache[i][w] \in Line
  BY <1>1 DEF NoLine
<1> QED BY <1>2 DEF Line, Tag

LEMMA DataTyped == ASSUME TypeOK PROVE Data \in [0 .. L - 1 -> Code]
<1>1. pc_index(pc) \in 0 .. num_sets - 1
  BY WordNat, AddressSplit DEF TypeOK
<1>2. \A w \in Hits : cache[pc_index(pc)][w].data \in [0 .. L - 1 -> Code]
  BY <1>1, ValidLine DEF Hits
<1> QED BY <1>2, MemoryData DEF Data

(* What a miss brings in.                                                  *)
NewLine == [valid |-> TRUE, tag |-> pc_tag(pc), data |-> memory_data]

LEMMA NewLineTyped == ASSUME TypeOK PROVE NewLine \in Line
<1>1. pc_tag(pc) \in 0 .. N \div (L * num_sets) - 1
  BY TagInRange DEF TypeOK, Tag
<1> QED BY <1>1, MemoryData DEF NewLine, Line

(* At most one line changes, in a set that does not have it.               *)
LEMMA CacheNext ==
  ASSUME NEW load_use \in BOOLEAN, NEW target, NEW w, Edge(load_use, target, w)
  PROVE  \/ UNCHANGED cache
         \/ /\ cache_miss /\ ~load_use /\ regE # "jump"
            /\ \E v \in Way : cache' = [cache EXCEPT ![pc_index(pc)][v] = NewLine]
BY DEF Edge, IcacheEdge, Fill, NewLine

LEMMA TypeInit == Init => TypeOK
<1> SUFFICES ASSUME Init PROVE TypeOK
  OBVIOUS
<1>1. NoInstr \in Fetched \cup {NoInstr} /\ NoLine \in Line \cup {NoLine}
  OBVIOUS
<1>2. cache \in [0 .. num_sets - 1 -> [Way -> Line \cup {NoLine}]]
  BY <1>1 DEF Init
<1> QED BY <1>1, <1>2, WordNat DEF Init, TypeOK, Kind

LEMMA TypeStep ==
  ASSUME TypeOK, NEW load_use \in BOOLEAN, NEW target \in Word \cup {-1},
         NEW w \in Stores \cup {-1}, Edge(load_use, target, w)
  PROVE  TypeOK'
<1>1. mem' \in [Word -> {0, 1}]
  BY DEF TypeOK, Edge, MemoryEdge
<1>2. pc' \in Word
  <2>1. (pc + 1) % N \in Word
    BY WordNat, WrapsIntoMemory DEF TypeOK
  <2> QED BY <2>1 DEF TypeOK, Edge, PcEdge
<1>3. cache' \in [0 .. num_sets - 1 -> [Way -> Line \cup {NoLine}]]
  BY CacheNext, NewLineTyped DEF TypeOK
<1>4. fetch' \in Fetched \cup {NoInstr}
  <2>1. pc_offset(pc) \in 0 .. L - 1
    BY WordNat, AddressSplit DEF TypeOK
  <2>2. Data[pc_offset(pc)] \in Code
    BY <2>1, DataTyped
  <2>3. [commit |-> TRUE, pc |-> pc, instr |-> Data[pc_offset(pc)]] \in Fetched
    BY <2>2 DEF TypeOK, Fetched
  <2> QED BY <2>3 DEF TypeOK, Edge, FetchEdge
<1>5. regD' \in Fetched \cup {NoInstr}
  BY DEF TypeOK, Edge, RegDEdge
<1>6. regE' \in Kind /\ regM' \in BOOLEAN
  BY DEF TypeOK, Edge, RegEEdge, Kind
<1>7. handed' \in Code \cup {<<>>}
  <2>1. regD.commit => regD.instr \in Code
    BY HeldFetched
  <2> QED BY <2>1 DEF TypeOK, Edge, RegEEdge
<1>8. open' \in BOOLEAN
  BY DEF Edge
<1> QED BY <1>1, <1>2, <1>3, <1>4, <1>5, <1>6, <1>7, <1>8 DEF TypeOK

(* The pc never leaves memory, and the cache holds lines of memory, under  *)
(* every order of misses, stalls and jumps.                                *)
THEOREM FrontTyped == Spec => []TypeOK
<1>1. TypeOK /\ [Next]_vars => TypeOK'
  <2>1. ASSUME TypeOK, Next PROVE TypeOK'
    BY <2>1, TypeStep DEF Next
  <2>2. ASSUME TypeOK, UNCHANGED vars PROVE TypeOK'
    BY <2>2 DEF TypeOK, vars
  <2> QED BY <2>1, <2>2
<1> QED BY <1>1, TypeInit, PTL DEF Spec

-----------------------------------------------------------------------------
(* A line is only brought in where no way hits, whatever way is chosen.    *)
LEMMA DisjointStep ==
  ASSUME TypeOK, WaysDisjoint, NEW load_use \in BOOLEAN, NEW target, NEW w,
         Edge(load_use, target, w)
  PROVE  WaysDisjoint'
<1>1. CASE UNCHANGED cache
  BY <1>1 DEF WaysDisjoint
<1>2. ASSUME cache_miss,
             NEW v \in Way, cache' = [cache EXCEPT ![pc_index(pc)][v] = NewLine]
      PROVE  WaysDisjoint'
  <2> SUFFICES ASSUME NEW i \in 0 .. num_sets - 1,
                      cache'[i][0].valid, cache'[i][1].valid
               PROVE  cache'[i][0].tag # cache'[i][1].tag
    BY DEF WaysDisjoint
  <2>1. CASE i # pc_index(pc)
    BY <1>2, <2>1 DEF TypeOK, WaysDisjoint
  <2>2. CASE i = pc_index(pc)
    <3>1. \A x \in Way : cache[i][x].valid => cache[i][x].tag # pc_tag(pc)
      BY <1>2, <2>2 DEF cache_miss, Hits
    <3>2. \A x \in Way : cache'[i][x] = IF x = v THEN NewLine ELSE cache[i][x]
      BY <1>2, <2>2 DEF TypeOK
    <3>3. CASE v = 0
      BY <3>1, <3>2, <3>3 DEF NewLine, Way
    <3>4. CASE v = 1
      BY <3>1, <3>2, <3>4 DEF NewLine, Way
    <3> QED BY <3>3, <3>4 DEF Way
  <2> QED BY <2>1, <2>2
<1> QED BY <1>1, <1>2, CacheNext

LEMMA DisjointInit == Init => WaysDisjoint
BY DEF Init, WaysDisjoint, NoLine, Way

(* No line is ever in both ways of a set, so a hit has one answer: the way *)
(* to fill is chosen without a look at the other one.                      *)
THEOREM OneAnswer == Spec => []WaysDisjoint
<1>1. TypeOK /\ WaysDisjoint /\ [Next]_vars => WaysDisjoint'
  <2>1. ASSUME TypeOK, WaysDisjoint, Next PROVE WaysDisjoint'
    BY <2>1, DisjointStep DEF Next
  <2>2. ASSUME WaysDisjoint, UNCHANGED vars PROVE WaysDisjoint'
    BY <2>2 DEF WaysDisjoint, vars
  <2> QED BY <2>1, <2>2
<1> QED BY <1>1, DisjointInit, FrontTyped, PTL DEF Spec
-----------------------------------------------------------------------------
(* What execute is handed.                                                 *)

(* The stages hold the words of memory one after the other, and the pc the *)
(* next one.                                                               *)
InOrder ==
  /\ fetch.commit => pc = (fetch.pc + 1) % N
  /\ regD.commit => (IF fetch.commit THEN fetch.pc ELSE pc) = (regD.pc + 1) % N

Content(a) == <<a, mem[a]>>

(* Each line holds what memory has at its tag and index, and each stage    *)
(* what memory has at its pc.                                              *)
LinesCurrent ==
  \A i \in 0 .. num_sets - 1, w \in Way, o \in 0 .. L - 1 :
    cache[i][w].valid =>
      cache[i][w].data[o] = Content(LineStart(i, cache[i][w].tag) + o)

StagesCurrent ==
  \A stage \in {fetch, regD} : stage.commit => stage.instr = Content(stage.pc)

FrontInv ==
  /\ TypeOK
  /\ InOrder
  /\ ~open => LinesCurrent /\ StagesCurrent

LEMMA OrderStep ==
  ASSUME InOrder, NEW load_use \in BOOLEAN, NEW target, NEW w,
         Edge(load_use, target, w)
  PROVE  InOrder'
<1>1. CASE regE = "jump"
  BY <1>1 DEF Edge, FetchEdge, RegDEdge, InOrder, NoInstr
<1>2. CASE load_use /\ regE # "jump"
  BY <1>2 DEF Edge, FetchEdge, RegDEdge, PcEdge, InOrder
<1>3. CASE ~load_use /\ regE # "jump"
  <2>1. /\ pc' = (pc + 1) % N
        /\ fetch' = [commit |-> TRUE, pc |-> pc, instr |-> Data[pc_offset(pc)]]
        /\ regD' = fetch
    BY <1>3 DEF Edge, FetchEdge, RegDEdge, PcEdge
  <2> QED BY <2>1 DEF InOrder
<1> QED BY <1>1, <1>2, <1>3

(* A word that no store of this edge touches keeps its content.            *)
LEMMA ContentStays ==
  ASSUME TypeOK, NEW load_use, NEW target, NEW w, Edge(load_use, target, w),
         NEW a \in Word, a # w
  PROVE  mem'[a] = mem[a]
BY DEF TypeOK, Edge, MemoryEdge

(* A line brought in from its first word on is the line of its tag.        *)
LEMMA AlignedLine ==
  ASSUME TypeOK, pc_offset(pc) = 0, NEW o \in 0 .. L - 1
  PROVE  NewLine.data[o] = Content(LineStart(pc_index(pc), NewLine.tag) + o)
<1> DEFINE start == LineStart(pc_index(pc), pc_tag(pc))
<1>1. pc \in Nat
  BY WordNat DEF TypeOK
<1>2. pc_index(pc) \in 0 .. num_sets - 1 /\ start + 0 = pc /\ pc_tag(pc) \in Nat
  BY <1>1, AddressSplit
<1>3. start \in Int
  BY <1>2, SizeAssumption DEF LineStart
<1>4. start = pc
  BY <1>2, <1>3
<1>5. pc_tag(pc) \in Tag
  BY TagInRange DEF TypeOK
<1> HIDE DEF start
<1>6. pc + o \in Word
  BY <1>2, <1>4, <1>5, LinesInMemory DEF start
<1>7. (pc + o) % N = pc + o
  <2>1. pc + o \in Nat /\ pc + o < N
    BY <1>6, SizeAssumption DEF Word
  <2> QED BY <2>1, WrapsIntoMemory
<1>8. NewLine.data[o] = Content(pc + o)
  BY <1>7 DEF NewLine, memory_data, dpi_instr_mem_read, Content
<1> QED BY <1>4, <1>8 DEF NewLine, start

LEMMA LinesStep ==
  ASSUME TypeOK, LinesCurrent, NEW load_use \in BOOLEAN,
         NEW target \in Word \cup {-1}, NEW w \in Stores \cup {-1},
         Edge(load_use, target, w), ~open'
  PROVE  LinesCurrent'
<1> SUFFICES ASSUME NEW i \in 0 .. num_sets - 1, NEW v \in Way, NEW o \in 0 .. L - 1,
                    cache'[i][v].valid
             PROVE  cache'[i][v].data[o]
                      = <<LineStart(i, cache'[i][v].tag) + o,
                          mem'[LineStart(i, cache'[i][v].tag) + o]>>
  BY DEF LinesCurrent, Content, LineStart
<1> DEFINE a == LineStart(i, cache'[i][v].tag) + o
<1>1. TypeOK'
  BY TypeStep
<1>2. cache'[i][v].tag \in Tag
  <2>1. cache'[i][v] \in Line \cup {NoLine}
    BY <1>1 DEF TypeOK
  <2>2. cache'[i][v] \in Line
    BY <2>1 DEF NoLine
  <2> QED BY <2>2 DEF Line, Tag
<1>3. a \in Word
  BY <1>2, LinesInMemory
<1>4. a \in Held'
  BY <1>3 DEF Held, LineStart
<1>5. a # w
  BY <1>4 DEF Edge
<1>6. cache'[i][v].data[o] = Content(a)
  <2>1. CASE cache'[i][v] = cache[i][v]
    BY <2>1 DEF LinesCurrent
  <2>2. CASE cache'[i][v] # cache[i][v]
    <3>1. /\ cache_miss /\ ~load_use /\ regE # "jump"
          /\ i = pc_index(pc) /\ cache'[i][v] = NewLine
      BY <2>2, CacheNext DEF TypeOK
    <3>2. pc_offset(pc) = 0
      BY <3>1 DEF Edge, Shifts
    <3> QED BY <3>1, <3>2, AlignedLine
  <2> QED BY <2>1, <2>2
<1>7. mem'[a] = mem[a]
  BY <1>3, <1>5, ContentStays
<1> QED BY <1>6, <1>7 DEF Content
(* What the cache answers at pc, from a way or from memory.                *)
LEMMA AnswerCurrent ==
  ASSUME TypeOK, LinesCurrent, ~Shifts
  PROVE  Data[pc_offset(pc)] = Content(pc)
<1> DEFINE i == pc_index(pc)
           o == pc_offset(pc)
<1>1. pc \in Nat
  BY WordNat DEF TypeOK
<1>2. i \in 0 .. num_sets - 1 /\ o \in 0 .. L - 1 /\ LineStart(i, pc_tag(pc)) + o = pc
  BY <1>1, AddressSplit
<1> HIDE DEF i, o
<1>3. ASSUME NEW w \in Hits
      PROVE  cache[i][w].data[o] = Content(pc)
  <2>1. w \in Way /\ cache[i][w].valid /\ cache[i][w].tag = pc_tag(pc)
    BY DEF Hits, i
  <2> QED BY <1>2, <2>1 DEF LinesCurrent
<1>4. CASE 0 \in Hits
  BY <1>3, <1>4 DEF Data, i, o
<1>5. CASE 0 \notin Hits /\ 1 \in Hits
  BY <1>3, <1>5 DEF Data, i, o
<1>6. CASE 0 \notin Hits /\ 1 \notin Hits
  <2>1. cache_miss
    BY <1>6 DEF cache_miss, Hits, Way
  <2>2. o = 0
    BY <2>1 DEF Shifts, o
  <2>3. memory_data[o] = NewLine.data[0]
    BY <2>2 DEF NewLine
  <2>4. NewLine.data[0] = Content(LineStart(i, NewLine.tag) + 0)
    BY <1>2, <2>2, AlignedLine DEF i, o
  <2>5. LineStart(i, NewLine.tag) + 0 = pc
    BY <1>2, <2>2 DEF NewLine
  <2> QED BY <1>6, <2>3, <2>4, <2>5 DEF Data, o
<1> QED BY <1>4, <1>5, <1>6

LEMMA StagesStep ==
  ASSUME TypeOK, LinesCurrent, StagesCurrent, NEW load_use \in BOOLEAN,
         NEW target \in Word \cup {-1}, NEW w \in Stores \cup {-1},
         Edge(load_use, target, w), ~open'
  PROVE  StagesCurrent'
<1> SUFFICES ASSUME NEW stage \in {fetch', regD'}, stage.commit
             PROVE  stage.instr = <<stage.pc, mem'[stage.pc]>>
  BY DEF StagesCurrent, Content
<1>1. TypeOK'
  BY TypeStep
<1>2. stage.pc \in Word
  <2>1. stage \in Fetched \cup {NoInstr}
    BY <1>1 DEF TypeOK
  <2>2. stage \in Fetched
    BY <2>1 DEF NoInstr
  <2> QED BY <2>2 DEF Fetched
<1>3. stage.pc \in Held'
  BY <1>2 DEF Held
<1>4. stage.pc # w
  BY <1>3 DEF Edge
<1>5. stage.instr = Content(stage.pc)
  <2>1. CASE stage \in {fetch, regD}
    BY <2>1 DEF StagesCurrent
  <2>2. CASE stage \notin {fetch, regD}
    <3>1. /\ ~load_use /\ regE # "jump"
          /\ stage = [commit |-> TRUE, pc |-> pc, instr |-> Data[pc_offset(pc)]]
      BY <2>2 DEF Edge, FetchEdge, RegDEdge, NoInstr
    <3>2. ~Shifts
      BY <3>1 DEF Edge
    <3> QED BY <3>1, <3>2, AnswerCurrent
  <2> QED BY <2>1, <2>2
<1>6. mem'[stage.pc] = mem[stage.pc]
  BY <1>2, <1>4, ContentStays
<1> QED BY <1>5, <1>6 DEF Content

LEMMA FrontInit == Init => FrontInv
BY TypeInit DEF Init, FrontInv, InOrder, LinesCurrent, StagesCurrent, NoInstr, NoLine, Way

LEMMA FrontStep == FrontInv /\ [Next]_vars => FrontInv'
<1>1. ASSUME FrontInv, Next PROVE FrontInv'
  <2>1. PICK load_use \in BOOLEAN, target \in Word \cup {-1}, w \in Stores \cup {-1} :
          Edge(load_use, target, w)
    BY <1>1 DEF Next
  <2>2. TypeOK' /\ InOrder'
    BY <1>1, <2>1, TypeStep, OrderStep DEF FrontInv
  <2>3. ASSUME ~open' PROVE LinesCurrent' /\ StagesCurrent'
    <3>1. LinesCurrent /\ StagesCurrent
      BY <1>1, <2>1, <2>3 DEF FrontInv, Edge
    <3> QED BY <1>1, <2>1, <2>3, <3>1, LinesStep, StagesStep DEF FrontInv
  <2> QED BY <2>2, <2>3 DEF FrontInv
<1>2. ASSUME FrontInv, UNCHANGED vars PROVE FrontInv'
  BY <1>2 DEF FrontInv, TypeOK, InOrder, LinesCurrent, StagesCurrent, Content, vars
<1> QED BY <1>1, <1>2

-----------------------------------------------------------------------------
(* The refinement.                                                         *)

NextWord == IF regD.commit THEN regD.pc ELSE IF fetch.commit THEN fetch.pc ELSE pc

LEMMA WriteRefines ==
  ASSUME TypeOK, NEW load_use, NEW target, NEW w, Edge(load_use, target, w)
  PROVE  FU!Write \/ UNCHANGED mem
BY DEF Edge, MemoryEdge, FU!Write, Word

LEMMA EdgeRefines ==
  ASSUME FrontInv, ~open', NEW load_use \in BOOLEAN,
         NEW target \in Word \cup {-1}, NEW w \in Stores \cup {-1},
         Edge(load_use, target, w)
  PROVE  FU!Next
<1> USE DEF FrontInv
<1>1. StagesCurrent
  BY DEF Edge
<1>2. FU!Hand \/ FU!Redirect \/ FU!Wait
  <2>1. CASE regE = "jump"
    <3>1. /\ pc' = target /\ target \in Word /\ ~fetch'.commit /\ ~regD'.commit
          /\ handed' = handed
      BY <2>1 DEF Edge, PcEdge, FetchEdge, RegDEdge, RegEEdge, NoInstr
    <3> QED BY <3>1 DEF FU!Redirect, Word
  <2>2. CASE load_use /\ regE # "jump"
    BY <2>2 DEF Edge, PcEdge, FetchEdge, RegDEdge, RegEEdge, FU!Wait
  <2>3. CASE ~load_use /\ regE # "jump"
    <3>1. NextWord' = IF fetch.commit THEN fetch.pc ELSE pc
      BY <2>3 DEF Edge, FetchEdge, RegDEdge, NextWord
    <3>2. CASE regD.commit
      <4>1. handed' = regD.instr
        BY <2>3, <3>2 DEF Edge, RegEEdge
      <4>2. handed' = <<NextWord, mem[NextWord]>>
        BY <1>1, <3>2, <4>1 DEF StagesCurrent, Content, NextWord
      <4>3. NextWord' = (NextWord + 1) % N
        BY <3>1, <3>2 DEF InOrder, NextWord
      <4> QED BY <4>2, <4>3 DEF FU!Hand, NextWord
    <3>3. CASE ~regD.commit
      <4>1. handed' = handed
        BY <2>3, <3>3 DEF Edge, RegEEdge
      <4>2. NextWord' = NextWord
        BY <3>1, <3>3 DEF NextWord
      <4> QED BY <4>1, <4>2 DEF FU!Wait, NextWord
    <3> QED BY <3>2, <3>3
  <2> QED BY <2>1, <2>2, <2>3
<1> QED BY <1>2, WriteRefines DEF FU!Next

(* Up to the first hazard that the cache leaves open, the front end is a   *)
(* memory read in order: whatever the size of the cache, the ways that     *)
(* are filled, the stalls and the jumps, execute is handed each word once, *)
(* as memory holds it.                                                     *)
THEOREM FrontRefines == Spec => ImplementsFetchUnit
<1>1. Init => FU!Init
  BY DEF Init, NoInstr, FU!Init, Word
<1>2. FrontInv /\ [Next]_vars => [open' \/ FU!Next]_(FU!vars)
  <2>1. ASSUME FrontInv, Next, ~open' PROVE FU!Next
    BY <2>1, EdgeRefines DEF Next
  <2>2. ASSUME UNCHANGED vars PROVE UNCHANGED FU!vars
    BY <2>2 DEF vars, FU!vars
  <2> QED BY <2>1, <2>2
<1> QED BY <1>1, <1>2, FrontInit, FrontStep, PTL DEF Spec, ImplementsFetchUnit
=============================================================================
