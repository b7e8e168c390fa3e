----------------------------- MODULE KlibProofs -----------------------------
(***************************************************************************)
(* Theorems about string.c in Klib, for a memory of any size and bytes of  *)
(* any range: what is written is what the standard says, and strings are   *)
(* ordered as a dictionary orders them.  And about the conversions: where  *)
(* vsprintf stops in any format, and that atoi reads back the digits of    *)
(* any int that is not negative.                                           *)
(*                                                                         *)
(* A loop of the code is a recursive function of its rounds.  That such a  *)
(* function exists is shown by one that can be written down (Copied), and  *)
(* that it is that one by the least round in which the two would differ.   *)
(***************************************************************************)
EXTENDS Klib, TLAPS, WellFoundedInduction, SequenceTheorems,
        FiniteSetTheorems

(* A set of naturals that is not empty has a least element.                *)
LEMMA LeastOfNat ==
  ASSUME NEW T \in SUBSET Nat, T # {}
  PROVE  \E x \in T : \A y \in T : x <= y
<1> DEFINE Less == {ss \in Nat \X Nat : ss[1] < ss[2]}
<1>1. IsWellFoundedOn(Less, Nat)
  BY NatLessThanWellFounded DEF OpToRel
<1>2. \A x, y \in Nat : x < y => <<x, y>> \in Less
  OBVIOUS
<1> HIDE DEF Less
<1>3. PICK x \in T : \A y \in T : <<y, x>> \notin Less
  BY <1>1, WFMin
<1>4. ASSUME NEW y \in T PROVE x <= y
  <2>1. ~(y < x)
    BY <1>2, <1>3
  <2>2. x \in Nat /\ y \in Nat
    OBVIOUS
  <2>3. QED
    BY <2>1, <2>2
<1>5. QED
  BY <1>4

(* Two sequences of rounds that start alike and go on alike are alike.     *)
LEMMA SameRounds ==
  ASSUME NEW n \in Nat, NEW r, NEW g, r[0] = g[0],
         \A i \in 1 .. n : r[i - 1] = g[i - 1] => r[i] = g[i]
  PROVE  \A i \in 0 .. n : r[i] = g[i]
<1> DEFINE T == {i \in 0 .. n : r[i] # g[i]}
<1>1. SUFFICES ASSUME T # {} PROVE FALSE
  OBVIOUS
<1>2. T \in SUBSET Nat
  OBVIOUS
<1>3. PICK i \in T : \A j \in T : i <= j
  BY <1>1, <1>2, LeastOfNat
<1>4. i \in 1 .. n
  OBVIOUS
<1>5. i - 1 \in 0 .. n /\ ~(i <= i - 1)
  BY <1>4
<1>6. i - 1 \notin T
  BY <1>3, <1>5
<1>7. QED
  BY <1>4, <1>5, <1>6

LEMMA Bytes0 == N \in Nat \ {0} /\ 0 \in Byte /\ Byte \subseteq Nat
BY NAssumption, ByteAssumption

-----------------------------------------------------------------------------
(* Copying.                                                                *)
Copied(m, d, s, from, to) ==
  [a \in Addr |-> IF a \in d + from .. d + to - 1 THEN m[s + (a - d)] ELSE m[a]]

(* From the first byte to the last, where no byte is read after it has     *)
(* been written over.                                                      *)
LEMMA UpwardCopies ==
  ASSUME NEW m \in Memory, NEW d \in Nat, NEW s \in Nat, NEW n \in Nat,
         d + n <= N, s + n <= N, d <= s \/ s + n <= d
  PROVE  Upward(m, d, s, n) = Copied(m, d, s, 0, n)
<1> DEFINE Next1(r, i) == IF i = 0 THEN m
                          ELSE [r[i - 1] EXCEPT ![d + i - 1] = r[i - 1][s + i - 1]]
           Rec(r) == r = [i \in 0 .. n |-> Next1(r, i)]
           g == [i \in 0 .. n |-> Copied(m, d, s, 0, i)]
<1>1. m \in [Addr -> Byte] /\ Addr = 0 .. N - 1 /\ N \in Nat \ {0}
  BY Bytes0 DEF Memory, Addr
<1>2. Copied(m, d, s, 0, 0) = m
  BY <1>1 DEF Copied
<1>3. ASSUME NEW i \in 1 .. n
      PROVE  Copied(m, d, s, 0, i) =
               [Copied(m, d, s, 0, i - 1) EXCEPT ![d + i - 1] =
                 Copied(m, d, s, 0, i - 1)[s + i - 1]]
  <2> DEFINE c == Copied(m, d, s, 0, i - 1)
  <2>1. d + i - 1 \in Addr /\ s + i - 1 \in Addr /\ s + i - 1 \notin d + 0 .. d + (i - 1) - 1
    BY <1>1
  <2>2. c[s + i - 1] = m[s + i - 1]
    BY <2>1 DEF Copied
  <2>3. ASSUME NEW a \in Addr
        PROVE  Copied(m, d, s, 0, i)[a] = IF a = d + i - 1 THEN m[s + i - 1] ELSE c[a]
    <3>1. Copied(m, d, s, 0, i)[a] =
            IF a \in d + 0 .. d + i - 1 THEN m[s + (a - d)] ELSE m[a]
      BY DEF Copied
    <3>2. c[a] = IF a \in d + 0 .. d + (i - 1) - 1 THEN m[s + (a - d)] ELSE m[a]
      BY DEF Copied
    <3>3. a \in Int
      BY <1>1
    <3>4. CASE a = d + i - 1
      <4>1. s + (a - d) = s + i - 1 /\ a \in d + 0 .. d + i - 1
        BY <3>4
      <4>2. QED
        BY <3>1, <3>4, <4>1
    <3>5. CASE a # d + i - 1
      <4>1. a \in d + 0 .. d + i - 1 <=> a \in d + 0 .. d + (i - 1) - 1
        BY <3>3, <3>5
      <4>2. QED
        BY <3>1, <3>2, <3>5, <4>1
    <3>6. QED
      BY <3>4, <3>5
  <2>4. /\ c = [a \in Addr |-> c[a]]
        /\ Copied(m, d, s, 0, i) = [a \in Addr |-> Copied(m, d, s, 0, i)[a]]
    BY DEF Copied
  <2> HIDE DEF c
  <2>5. QED
    BY <2>1, <2>2, <2>3, <2>4 DEF c
<1>4. Rec(g)
  <2>1. \A i \in 0 .. n : Next1(g, i) = Copied(m, d, s, 0, i)
    <3>1. TAKE i \in 0 .. n
    <3>2. CASE i = 0
      BY <1>2, <3>2
    <3>3. CASE i # 0
      <4>1. i \in 1 .. n /\ i - 1 \in 0 .. n
        BY <3>3
      <4>2. g[i - 1] = Copied(m, d, s, 0, i - 1)
        BY <4>1
      <4>3. QED
        BY <1>3, <3>3, <4>1, <4>2
    <3>4. QED
      BY <3>2, <3>3
  <2>2. QED
    BY <2>1
<1>5. PICK r : Rec(r) /\ Upward(m, d, s, n) = r[n]
  <2> DEFINE r == CHOOSE h : Rec(h)
  <2> HIDE DEF g
  <2>1. Rec(r)
    BY <1>4, Zenon
  <2>2. Upward(m, d, s, n) = r[n]
    BY DEF Upward
  <2>3. QED
    BY <2>1, <2>2
<1>6. \A i \in 0 .. n : r[i] = g[i]
  <2>1. r[0] = g[0]
    <3>1. 0 \in 0 .. n
      OBVIOUS
    <3>2. r[0] = m /\ g[0] = m
      BY <1>2, <1>5, <3>1
    <3>3. QED
      BY <3>2
  <2>2. ASSUME NEW i \in 1 .. n, r[i - 1] = g[i - 1] PROVE r[i] = g[i]
    <3>1. i \in 0 .. n /\ i # 0
      OBVIOUS
    <3>2. r[i] = Next1(r, i) /\ g[i] = Next1(g, i)
      BY <1>4, <1>5, <3>1
    <3>3. QED
      BY <2>2, <3>1, <3>2
  <2> HIDE DEF g
  <2>3. QED
    BY <2>1, <2>2, SameRounds
<1>7. QED
  BY <1>5, <1>6

(* From the last byte to the first.                                        *)
LEMMA DownwardCopies ==
  ASSUME NEW m \in Memory, NEW d \in Nat, NEW s \in Nat, NEW n \in Nat,
         d + n <= N, s + n <= N, s <= d
  PROVE  Downward(m, d, s, n) = Copied(m, d, s, 0, n)
<1> DEFINE Next1(r, i) == IF i = 0 THEN m
                          ELSE [r[i - 1] EXCEPT ![d + n - i] = r[i - 1][s + n - i]]
           Rec(r) == r = [i \in 0 .. n |-> Next1(r, i)]
           g == [i \in 0 .. n |-> Copied(m, d, s, n - i, n)]
<1>1. m \in [Addr -> Byte] /\ Addr = 0 .. N - 1 /\ N \in Nat \ {0}
  BY Bytes0 DEF Memory, Addr
<1>2. Copied(m, d, s, n - 0, n) = m
  BY <1>1 DEF Copied
<1>3. ASSUME NEW i \in 1 .. n
      PROVE  Copied(m, d, s, n - i, n) =
               [Copied(m, d, s, n - (i - 1), n) EXCEPT ![d + n - i] =
                 Copied(m, d, s, n - (i - 1), n)[s + n - i]]
  <2> DEFINE c == Copied(m, d, s, n - (i - 1), n)
  <2>1. /\ d + n - i \in Addr /\ s + n - i \in Addr
        /\ s + n - i \notin d + (n - (i - 1)) .. d + n - 1
    BY <1>1
  <2>2. c[s + n - i] = m[s + n - i]
    BY <2>1 DEF Copied
  <2>3. ASSUME NEW a \in Addr
        PROVE  Copied(m, d, s, n - i, n)[a] = IF a = d + n - i THEN m[s + n - i] ELSE c[a]
    <3>1. Copied(m, d, s, n - i, n)[a] =
            IF a \in d + (n - i) .. d + n - 1 THEN m[s + (a - d)] ELSE m[a]
      BY DEF Copied
    <3>2. c[a] = IF a \in d + (n - (i - 1)) .. d + n - 1 THEN m[s + (a - d)] ELSE m[a]
      BY DEF Copied
    <3>3. a \in Int
      BY <1>1
    <3>4. CASE a = d + n - i
      <4>1. s + (a - d) = s + n - i /\ a \in d + (n - i) .. d + n - 1
        BY <3>4
      <4>2. QED
        BY <3>1, <3>4, <4>1
    <3>5. CASE a # d + n - i
      <4>1. a \in d + (n - i) .. d + n - 1 <=> a \in d + (n - (i - 1)) .. d + n - 1
        BY <3>3, <3>5
      <4>2. QED
        BY <3>1, <3>2, <3>5, <4>1
    <3>6. QED
      BY <3>4, <3>5
  <2>4. /\ c = [a \in Addr |-> c[a]]
        /\ Copied(m, d, s, n - i, n) = [a \in Addr |-> Copied(m, d, s, n - i, n)[a]]
    BY DEF Copied
  <2> HIDE DEF c
  <2>5. QED
    BY <2>1, <2>2, <2>3, <2>4 DEF c
<1>4. Rec(g)
  <2>1. \A i \in 0 .. n : Next1(g, i) = Copied(m, d, s, n - i, n)
    <3>1. TAKE i \in 0 .. n
    <3>2. CASE i = 0
      BY <1>2, <3>2
    <3>3. CASE i # 0
      <4>1. i \in 1 .. n /\ i - 1 \in 0 .. n
        BY <3>3
      <4>2. g[i - 1] = Copied(m, d, s, n - (i - 1), n)
        BY <4>1
      <4>3. QED
        BY <1>3, <3>3, <4>1, <4>2
    <3>4. QED
      BY <3>2, <3>3
  <2>2. QED
    BY <2>1
<1>5. PICK r : Rec(r) /\ Downward(m, d, s, n) = r[n]
  <2> DEFINE r == CHOOSE h : Rec(h)
  <2> HIDE DEF g
  <2>1. Rec(r)
    BY <1>4, Zenon
  <2>2. Downward(m, d, s, n) = r[n]
    BY DEF Downward
  <2>3. QED
    BY <2>1, <2>2
<1>6. \A i \in 0 .. n : r[i] = g[i]
  <2>1. r[0] = g[0]
    <3>1. 0 \in 0 .. n
      OBVIOUS
    <3>2. r[0] = m /\ g[0] = m
      BY <1>2, <1>5, <3>1
    <3>3. QED
      BY <3>2
  <2>2. ASSUME NEW i \in 1 .. n, r[i - 1] = g[i - 1] PROVE r[i] = g[i]
    <3>1. i \in 0 .. n /\ i # 0
      OBVIOUS
    <3>2. r[i] = Next1(r, i) /\ g[i] = Next1(g, i)
      BY <1>4, <1>5, <3>1
    <3>3. QED
      BY <2>2, <3>1, <3>2
  <2>3. \A i \in 1 .. n : r[i - 1] = g[i - 1] => r[i] = g[i]
    BY <2>2
  <2>4. PICK h : h = g
    OBVIOUS
  <2> HIDE DEF g
  <2>5. r[0] = h[0] /\ \A i \in 1 .. n : r[i - 1] = h[i - 1] => r[i] = h[i]
    BY <2>1, <2>3, <2>4
  <2>6. \A i \in 0 .. n : r[i] = h[i]
    <3>1. n \in Nat
      OBVIOUS
    <3> HIDE DEF Next1, Rec
    <3>2. QED
      BY ONLY <2>5, <3>1, SameRounds
  <2>7. QED
    BY <2>4, <2>6
<1>7. Copied(m, d, s, n - n, n) = Copied(m, d, s, 0, n)
  BY <1>1 DEF Copied
<1>8. n \in 0 .. n /\ g[n] = Copied(m, d, s, n - n, n)
  OBVIOUS
<1>9. r[n] = g[n]
  BY <1>6, <1>8
<1>10. QED
  BY <1>5, <1>7, <1>8, <1>9

(* memmove is right whichever way the regions overlap.                     *)
LEMMA MemMoveCopies ==
  ASSUME NEW m \in Memory, NEW d \in Nat, NEW s \in Nat, NEW n \in Nat,
         d + n <= N, s + n <= N
  PROVE  MemMove(m, d, s, n) = Copied(m, d, s, 0, n)
<1>1. CASE d < s
  BY <1>1, UpwardCopies DEF MemMove
<1>2. CASE ~(d < s)
  <2>1. s <= d
    BY <1>2
  <2>2. QED
    BY <1>2, <2>1, DownwardCopies DEF MemMove
<1>3. QED
  BY <1>1, <1>2

-----------------------------------------------------------------------------
(* Strings.  The text at s, and where it ends.                             *)
EndsAt(m, s, n, len) ==
  /\ len \in 0 .. n /\ (len = n \/ m[s + len] = 0)
  /\ \A j \in 0 .. len - 1 : m[s + j] # 0

LEMMA TextEnds ==
  ASSUME NEW m, NEW s, NEW n \in Nat
  PROVE  \E len \in 0 .. n : /\ EndsAt(m, s, n, len)
                            /\ Text(m, s, n) = [i \in 1 .. len |-> m[s + i - 1]]
<1> DEFINE T == {i \in 0 .. n : i = n \/ m[s + i] = 0}
           P(i) == /\ i = n \/ m[s + i] = 0
                   /\ \A j \in 0 .. i - 1 : m[s + j] # 0
           len == CHOOSE i \in 0 .. n : P(i)
<1>1. n \in T /\ T \in SUBSET Nat
  OBVIOUS
<1>2. PICK k \in T : \A j \in T : k <= j
  BY <1>1, LeastOfNat
<1>3. k \in 0 .. n /\ P(k)
  <2>1. ASSUME NEW j \in 0 .. k - 1, m[s + j] = 0 PROVE FALSE
    <3>1. j \in T /\ ~(k <= j)
      BY <2>1
    <3>2. QED
      BY <1>2, <3>1
  <2>2. QED
    BY <2>1
<1> HIDE DEF P
<1>4. len \in 0 .. n /\ P(len)
  BY <1>3, Zenon
<1>5. Text(m, s, n) = [i \in 1 .. len |-> m[s + i - 1]]
  BY DEF Text, P
<1> HIDE DEF len
<1>6. EndsAt(m, s, n, len)
  BY <1>4 DEF EndsAt, P
<1>7. QED
  BY <1>4, <1>5, <1>6

LEMMA TextOf ==
  ASSUME NEW m \in Memory, NEW s \in Addr, NEW n \in Nat, s + n <= N \/ Ended(m, s)
  PROVE  \E len \in 0 .. n :
           /\ EndsAt(m, s, n, len) /\ s + len <= N
           /\ Ended(m, s) => s + len < N
           /\ Text(m, s, n) = [i \in 1 .. len |-> m[s + i - 1]]
           /\ Text(m, s, n) \in Seq(Byte) /\ Len(Text(m, s, n)) = len
<1>1. N \in Nat \ {0} /\ Addr = 0 .. N - 1 /\ m \in [Addr -> Byte]
  BY Bytes0 DEF Addr, Memory
<1>2. PICK len \in 0 .. n : /\ EndsAt(m, s, n, len)
                            /\ Text(m, s, n) = [i \in 1 .. len |-> m[s + i - 1]]
  BY TextEnds
<1>3. ASSUME Ended(m, s) PROVE s + len < N
  <2>1. PICK a \in s .. N - 1 : m[a] = 0
    BY <1>3 DEF Ended
  <2>2. a - s \notin 0 .. len - 1
    <3>1. s + (a - s) = a
      BY <1>1
    <3>2. QED
      BY <1>2, <2>1, <3>1 DEF EndsAt
  <2>3. QED
    BY <1>1, <2>1, <2>2
<1>4. s + len <= N
  BY <1>1, <1>3
<1>5. \A i \in 1 .. len : m[s + i - 1] \in Byte
  <2>1. TAKE i \in 1 .. len
  <2>2. s + i - 1 \in Addr
    BY <1>1, <1>4
  <2>3. QED
    BY <1>1, <2>2
<1>6. Text(m, s, n) \in Seq(Byte) /\ Len(Text(m, s, n)) = len
  <2>1. PICK f : f = [i \in 1 .. len |-> m[s + i - 1]]
    OBVIOUS
  <2>2. f \in Seq(Byte) /\ Len(f) = len
    BY <1>5, <2>1
  <2>3. QED
    BY <1>2, <2>1, <2>2
<1>7. QED
  BY <1>2, <1>3, <1>4, <1>6

(* strlen is the length of the string.                                     *)
LEMMA StringOf ==
  ASSUME NEW m \in Memory, NEW s \in Addr, Ended(m, s)
  PROVE  \E len \in 0 .. N - 1 - s :
           /\ StrLen(m, s) = len /\ m[s + len] = 0
           /\ \A j \in 0 .. len - 1 : m[s + j] # 0
           /\ StringAt(m, s) = [i \in 1 .. len |-> m[s + i - 1]]
           /\ StringAt(m, s) \in Seq(Byte) /\ Len(StringAt(m, s)) = len
<1>1. N \in Nat \ {0} /\ Addr = 0 .. N - 1
  BY Bytes0 DEF Addr
<1>2. PICK n \in Nat : n = N - s /\ StringAt(m, s) = Text(m, s, n)
  BY <1>1 DEF StringAt
<1>3. PICK len \in 0 .. n :
           /\ EndsAt(m, s, n, len)
           /\ s + len < N
           /\ Text(m, s, n) = [i \in 1 .. len |-> m[s + i - 1]]
           /\ Text(m, s, n) \in Seq(Byte) /\ Len(Text(m, s, n)) = len
  <2>1. \E len \in 0 .. n :
           /\ EndsAt(m, s, n, len) /\ s + len <= N
           /\ Ended(m, s) => s + len < N
           /\ Text(m, s, n) = [i \in 1 .. len |-> m[s + i - 1]]
           /\ Text(m, s, n) \in Seq(Byte) /\ Len(Text(m, s, n)) = len
    BY ONLY n \in Nat, m \in Memory, s \in Addr, Ended(m, s), TextOf
  <2>2. QED
    BY <2>1, Zenon
<1> DEFINE P(i) == m[s + i] = 0 /\ \A j \in 0 .. i - 1 : m[s + j] # 0
           c == CHOOSE i \in 0 .. N - 1 - s : P(i)
<1>4. len \in 0 .. N - 1 - s /\ P(len)
  BY <1>1, <1>2, <1>3 DEF EndsAt
<1>5. c \in 0 .. N - 1 - s /\ P(c)
  <2> HIDE DEF P
  <2>1. QED
    BY <1>4, Zenon
<1>6. StrLen(m, s) = c
  BY DEF StrLen
<1> HIDE DEF c
<1>7. c = len
  <2>1. ~(c < len) /\ ~(len < c)
    BY <1>4, <1>5
  <2>2. QED
    BY <1>1, <1>4, <1>5, <2>1
<1>8. QED
  BY <1>2, <1>3, <1>4, <1>6, <1>7

-----------------------------------------------------------------------------
(* What is written.                                                        *)
Written(m, d, bytes) ==
  [a \in Addr |-> IF a - d + 1 \in DOMAIN bytes THEN bytes[a - d + 1] ELSE m[a]]

LEMMA CopyWrites ==
  ASSUME NEW m \in Memory, NEW d \in Nat, NEW s \in Nat, NEW n \in Nat
  PROVE  Copied(m, d, s, 0, n) = Written(m, d, Bytes(m, s, n))
<1>1. Addr \subseteq Nat
  BY Bytes0 DEF Addr
<1>2. PICK b : b = Bytes(m, s, n)
  OBVIOUS
<1>3. DOMAIN b = 1 .. n /\ \A i \in 1 .. n : b[i] = m[s + i - 1]
  BY <1>2 DEF Bytes
<1>4. ASSUME NEW a \in Addr
      PROVE  (IF a \in d + 0 .. d + n - 1 THEN m[s + (a - d)] ELSE m[a]) =
             (IF a - d + 1 \in DOMAIN b THEN b[a - d + 1] ELSE m[a])
  <2>1. a \in Nat
    BY <1>1
  <2>2. CASE a \in d + 0 .. d + n - 1
    <3>1. a - d + 1 \in 1 .. n /\ s + (a - d) = s + (a - d + 1) - 1
      BY <2>1, <2>2
    <3>2. QED
      BY <1>3, <2>2, <3>1
  <2>3. CASE a \notin d + 0 .. d + n - 1
    <3>1. a - d + 1 \notin 1 .. n
      BY <2>1, <2>3
    <3>2. QED
      BY <1>3, <2>3, <3>1
  <2>4. QED
    BY <2>2, <2>3
<1>5. QED
  BY <1>2, <1>4 DEF Copied, Written

LEMMA FillWrites ==
  ASSUME NEW m \in Memory, NEW d \in Nat, NEW c, NEW n \in Nat
  PROVE  MemSet(m, d, c, n) = Written(m, d, [i \in 1 .. n |-> c])
<1>1. Addr \subseteq Nat
  BY Bytes0 DEF Addr
<1>2. ASSUME NEW a \in Addr
      PROVE  a \in d .. d + n - 1 <=> a - d + 1 \in 1 .. n
  BY <1>1
<1>3. QED
  BY <1>2 DEF MemSet, Fill, Written

(* strcpy writes the string and its end.                                   *)
LEMMA StrCpyWrites ==
  ASSUME NEW m \in Memory, NEW d \in Nat, NEW s \in Addr, Ended(m, s),
         Fits(d, Len(StringAt(m, s)) + 1),
         Apart(d, Len(StringAt(m, s)) + 1, s, Len(StringAt(m, s)) + 1)
  PROVE  StrCpy(m, d, s) = Written(m, d, StringAt(m, s) \o <<0>>)
<1>1. N \in Nat \ {0} /\ Addr = 0 .. N - 1 /\ 0 \in Byte
  BY Bytes0 DEF Addr
<1>2. PICK len \in 0 .. N - 1 - s :
           /\ StrLen(m, s) = len /\ m[s + len] = 0
           /\ \A j \in 0 .. len - 1 : m[s + j] # 0
           /\ StringAt(m, s) = [i \in 1 .. len |-> m[s + i - 1]]
           /\ StringAt(m, s) \in Seq(Byte) /\ Len(StringAt(m, s)) = len
  BY StringOf
<1>3. /\ len \in Nat /\ s \in Nat /\ s + len <= N - 1 /\ d + len + 1 <= N
      /\ d <= s \/ s + len <= d
  BY <1>1, <1>2 DEF Fits, Apart
<1>4. Upward(m, d, s, len) = Copied(m, d, s, 0, len)
  BY <1>1, <1>3, UpwardCopies
<1>5. StrCpy(m, d, s) = [Copied(m, d, s, 0, len) EXCEPT ![d + len] = 0]
  BY <1>2, <1>4 DEF StrCpy
<1>6. PICK b : b = StringAt(m, s) \o <<0>>
  OBVIOUS
<1>7. /\ DOMAIN b = 1 .. len + 1 /\ b[len + 1] = 0
      /\ \A i \in 1 .. len : b[i] = m[s + i - 1]
  <2>1. PICK p \in Seq(Byte) : p = StringAt(m, s)
    BY <1>2
  <2>2. Len(p) = len /\ b = p \o <<0>> /\ <<0>> \in Seq(Byte) /\ Len(<<0>>) = 1
    BY <1>1, <1>2, <1>6, <2>1
  <2>3. /\ b \in Seq(Byte) /\ Len(b) = len + 1 /\ b[len + 1] = 0
        /\ \A i \in 1 .. len : b[i] = p[i]
    BY <1>3, <2>2
  <2>4. \A i \in 1 .. len : p[i] = m[s + i - 1]
    BY <1>2, <2>1
  <2>5. QED
    BY <2>3, <2>4
<1>8. PICK f : f = Copied(m, d, s, 0, len)
  OBVIOUS
<1>9. /\ f = [a \in Addr |-> f[a]]
      /\ \A a \in Addr : f[a] = IF a \in d + 0 .. d + len - 1 THEN m[s + (a - d)] ELSE m[a]
  BY <1>8 DEF Copied
<1>10. ASSUME NEW a \in Addr
       PROVE  (IF a = d + len THEN 0 ELSE f[a]) =
              (IF a - d + 1 \in DOMAIN b THEN b[a - d + 1] ELSE m[a])
  <2>1. a \in Nat
    BY <1>1
  <2>2. CASE a = d + len
    <3>1. a - d + 1 = len + 1 /\ len + 1 \in 1 .. len + 1
      BY <1>3, <2>2
    <3>2. QED
      BY <1>7, <2>2, <3>1
  <2>3. CASE a \in d + 0 .. d + len - 1
    <3>1. /\ a - d + 1 \in 1 .. len /\ a - d + 1 \in 1 .. len + 1 /\ a # d + len
          /\ s + (a - d) = s + (a - d + 1) - 1
      BY <1>3, <2>1, <2>3
    <3>2. b[a - d + 1] = m[s + (a - d)]
      BY <1>7, <3>1
    <3>3. QED
      BY <1>7, <1>9, <2>3, <3>1, <3>2
  <2>4. CASE a # d + len /\ a \notin d + 0 .. d + len - 1
    <3>1. a - d + 1 \notin 1 .. len + 1
      BY <1>3, <2>1, <2>4
    <3>2. QED
      BY <1>7, <1>9, <2>4, <3>1
  <2>5. QED
    BY <2>2, <2>3, <2>4
<1>11. [f EXCEPT ![d + len] = 0] = [a \in Addr |-> IF a = d + len THEN 0 ELSE f[a]]
  BY <1>9
<1>12. QED
  BY <1>5, <1>6, <1>8, <1>10, <1>11 DEF Written

(* What is written behind what was written.                                *)
LEMMA WrittenTwice ==
  ASSUME NEW m, NEW d \in Nat, NEW p \in Seq(Byte), NEW q \in Seq(Byte)
  PROVE  Written(Written(m, d, p), d + Len(p), q) = Written(m, d, p \o q)
<1>1. Addr \subseteq Nat
  BY Bytes0 DEF Addr
<1>2. PICK k \in Nat : k = Len(p)
  OBVIOUS
<1>3. PICK l \in Nat : l = Len(q)
  OBVIOUS
<1>4. PICK b \in Seq(Byte) : b = p \o q
  <2>1. p \o q \in Seq(Byte)
    BY ConcatProperties
  <2>2. QED
    BY <2>1
<1>5. /\ DOMAIN p = 1 .. k /\ DOMAIN q = 1 .. l /\ DOMAIN b = 1 .. k + l
      /\ \A i \in 1 .. k : b[i] = p[i]
      /\ \A i \in 1 .. l : b[k + i] = q[i]
  BY <1>2, <1>3, <1>4
<1>6. PICK f : f = Written(m, d, p)
  OBVIOUS
<1>7. ASSUME NEW a \in Addr
      PROVE  (IF a - (d + k) + 1 \in DOMAIN q THEN q[a - (d + k) + 1] ELSE f[a]) =
             (IF a - d + 1 \in DOMAIN b THEN b[a - d + 1] ELSE m[a])
  <2>1. a \in Nat
    BY <1>1
  <2>2. f[a] = IF a - d + 1 \in DOMAIN p THEN p[a - d + 1] ELSE m[a]
    BY <1>6 DEF Written
  <2>3. CASE a - (d + k) + 1 \in 1 .. l
    <3>1. PICK i \in 1 .. l : i = a - (d + k) + 1
      BY <2>3
    <3>2. a - d + 1 = k + i /\ a - d + 1 \in 1 .. k + l
      BY <2>1, <3>1
    <3>3. b[a - d + 1] = q[i]
      BY <1>5, <3>1, <3>2
    <3>4. QED
      BY <1>5, <2>3, <3>1, <3>2, <3>3
  <2>4. CASE a - d + 1 \in 1 .. k
    <3>1. a - (d + k) + 1 \notin 1 .. l /\ a - d + 1 \in 1 .. k + l
      BY <2>1, <2>4
    <3>2. b[a - d + 1] = p[a - d + 1]
      BY <1>5, <2>4
    <3>3. QED
      BY <1>5, <2>2, <2>4, <3>1, <3>2
  <2>5. CASE a - (d + k) + 1 \notin 1 .. l /\ a - d + 1 \notin 1 .. k
    <3>1. a - d + 1 \notin 1 .. k + l
      BY <2>1, <2>5
    <3>2. QED
      BY <1>5, <2>2, <2>5, <3>1
  <2>6. QED
    BY <2>3, <2>4, <2>5
<1>8. Written(f, d + k, q) = Written(m, d, b)
  BY <1>7 DEF Written
<1>9. QED
  BY <1>2, <1>4, <1>6, <1>8

(* Writing the bytes that are there changes nothing.                       *)
LEMMA WrittenAlike ==
  ASSUME NEW m \in Memory, NEW d \in Nat, NEW n \in Nat
  PROVE  Written(m, d, [i \in 1 .. n |-> m[d + i - 1]]) = m
<1>1. Addr \subseteq Nat /\ m = [a \in Addr |-> m[a]]
  BY Bytes0 DEF Addr, Memory
<1>2. PICK b : b = [i \in 1 .. n |-> m[d + i - 1]]
  OBVIOUS
<1>3. ASSUME NEW a \in Addr
      PROVE  (IF a - d + 1 \in DOMAIN b THEN b[a - d + 1] ELSE m[a]) = m[a]
  <2>1. a \in Nat
    BY <1>1
  <2>2. CASE a - d + 1 \in 1 .. n
    <3>1. d + (a - d + 1) - 1 = a
      BY <2>1
    <3>2. QED
      BY <1>2, <2>2, <3>1
  <2>3. CASE a - d + 1 \notin 1 .. n
    BY <1>2, <2>3
  <2>4. QED
    BY <2>2, <2>3
<1>4. QED
  BY <1>1, <1>2, <1>3 DEF Written

(* strcat writes behind the string that is there.                          *)
LEMMA StrCatWrites ==
  ASSUME NEW m \in Memory, NEW d \in Addr, NEW s \in Addr, Ended(m, s), Ended(m, d),
         Fits(d, Len(StringAt(m, d)) + (Len(StringAt(m, s)) + 1)),
         Apart(d, Len(StringAt(m, d)) + (Len(StringAt(m, s)) + 1),
               s, Len(StringAt(m, s)) + 1)
  PROVE  StrCat(m, d, s) = Written(m, d, StringAt(m, d) \o StringAt(m, s) \o <<0>>)
<1>1. N \in Nat \ {0} /\ Addr = 0 .. N - 1 /\ 0 \in Byte /\ Byte \subseteq Nat
  BY Bytes0 DEF Addr
<1>2. PICK j \in 0 .. N - 1 - d :
           /\ StrLen(m, d) = j /\ m[d + j] = 0
           /\ \A i \in 0 .. j - 1 : m[d + i] # 0
           /\ StringAt(m, d) = [i \in 1 .. j |-> m[d + i - 1]]
           /\ StringAt(m, d) \in Seq(Byte) /\ Len(StringAt(m, d)) = j
  BY StringOf
<1>3. PICK k \in 0 .. N - 1 - s :
           /\ StrLen(m, s) = k /\ m[s + k] = 0
           /\ \A i \in 0 .. k - 1 : m[s + i] # 0
           /\ StringAt(m, s) = [i \in 1 .. k |-> m[s + i - 1]]
           /\ StringAt(m, s) \in Seq(Byte) /\ Len(StringAt(m, s)) = k
  BY StringOf
<1>4. /\ d \in Nat /\ s \in Nat /\ j \in Nat /\ k \in Nat /\ d + j \in Nat
      /\ (d + j) + (k + 1) <= N
      /\ (d + j) + (k + 1) <= s \/ s + (k + 1) <= d + j
  BY <1>1, <1>2, <1>3 DEF Fits, Apart
<1>5. PICK e \in Nat : e = d + j
  BY <1>4
<1>6. Fits(e, Len(StringAt(m, s)) + 1)
  BY <1>3, <1>4, <1>5 DEF Fits
<1>7. Apart(e, Len(StringAt(m, s)) + 1, s, Len(StringAt(m, s)) + 1)
  BY <1>3, <1>4, <1>5 DEF Apart
<1>8. StrCpy(m, e, s) = Written(m, e, StringAt(m, s) \o <<0>>)
  BY <1>6, <1>7, StrCpyWrites
<1>9. StrCat(m, d, s) = StrCpy(m, e, s)
  BY <1>2, <1>5 DEF StrCat
<1>10. PICK p \in Seq(Byte) : p = StringAt(m, d)
  BY <1>1, <1>2
<1>11. PICK q \in Seq(Byte) : q = StringAt(m, s)
  BY <1>1, <1>3
<1>12. PICK z \in Seq(Byte) : z = <<0>>
  <2>1. <<0>> \in Seq(Byte)
    BY <1>1
  <2>2. QED
    BY <2>1
<1>13. PICK t \in Seq(Byte) : t = q \o z
  <2>1. q \o z \in Seq(Byte)
    BY ConcatProperties
  <2>2. QED
    BY <2>1
<1>14. (p \o q) \o z = p \o t
  <2>1. (p \o q) \o z = p \o (q \o z)
    BY ONLY p \in Seq(Byte), q \in Seq(Byte), z \in Seq(Byte), ConcatAssociative
  <2>2. QED
    BY ONLY <1>13, <2>1
<1>15. Written(m, d, p) = m
  <2>1. Written(m, d, [i \in 1 .. j |-> m[d + i - 1]]) = m
    BY <1>4, WrittenAlike
  <2>2. QED
    BY <1>2, <1>10, <2>1
<1>16. Written(Written(m, d, p), d + Len(p), t) = Written(m, d, p \o t)
  BY <1>4, WrittenTwice
<1>17. d + Len(p) = e
  BY <1>2, <1>5, <1>10
<1>18. StrCpy(m, e, s) = Written(m, e, t)
  BY <1>8, <1>11, <1>12, <1>13
<1>19. StrCat(m, d, s) = Written(m, d, p \o t)
  BY <1>9, <1>15, <1>16, <1>17, <1>18
<1>20. QED
  BY <1>10, <1>11, <1>12, <1>14, <1>19

(* strncpy stops at the end of the string and pads up to n.                *)
LEMMA StrNCpyWrites ==
  ASSUME NEW m \in Memory, NEW d \in Addr, NEW s \in Addr, NEW n \in Nat,
         Fits(d, n), Fits(s, n) \/ Ended(m, s), Apart(d, n, s, Len(Text(m, s, n)) + 1)
  PROVE  StrNCpy(m, d, s, n) =
           Written(m, d, Text(m, s, n) \o [i \in 1 .. n - Len(Text(m, s, n)) |-> 0])
<1>1. /\ N \in Nat \ {0} /\ Addr = 0 .. N - 1 /\ 0 \in Byte /\ Byte \subseteq Nat
      /\ s \in Nat /\ d \in Nat
  BY Bytes0 DEF Addr
<1>2. s + n <= N \/ Ended(m, s)
  BY DEF Fits
<1>3. PICK len \in 0 .. n :
           /\ EndsAt(m, s, n, len) /\ s + len <= N
           /\ Ended(m, s) => s + len < N
           /\ Text(m, s, n) = [i \in 1 .. len |-> m[s + i - 1]]
           /\ Text(m, s, n) \in Seq(Byte) /\ Len(Text(m, s, n)) = len
  BY <1>2, TextOf
<1>4. (IF \E k \in 0 .. n - 1 : m[s + k] = 0 THEN StrLen(m, s) ELSE n) = len
  <2>1. CASE \E k \in 0 .. n - 1 : m[s + k] = 0
    <3>1. len < n /\ m[s + len] = 0
      <4>1. PICK k \in 0 .. n - 1 : m[s + k] = 0
        BY <2>1
      <4>2. k \notin 0 .. len - 1
        BY <1>3, <4>1 DEF EndsAt
      <4>3. len < n
        BY <4>2
      <4>4. QED
        BY <1>3, <4>3 DEF EndsAt
    <3>2. s + len < N
      BY <1>1, <1>2, <1>3, <3>1
    <3>3. Ended(m, s)
      <4>1. s + len \in s .. N - 1
        BY <1>1, <3>2
      <4>2. QED
        BY <3>1, <4>1 DEF Ended
    <3>4. PICK k \in 0 .. N - 1 - s :
           /\ StrLen(m, s) = k /\ m[s + k] = 0
           /\ \A j \in 0 .. k - 1 : m[s + j] # 0
           /\ StringAt(m, s) = [i \in 1 .. k |-> m[s + i - 1]]
           /\ StringAt(m, s) \in Seq(Byte) /\ Len(StringAt(m, s)) = k
      BY <3>3, StringOf
    <3>5. ~(k < len) /\ ~(len < k)
      <4>1. k < len => k \in 0 .. len - 1
        BY <1>1, <3>4
      <4>2. len < k => len \in 0 .. k - 1
        BY <1>1, <3>4
      <4>3. QED
        BY <1>3, <3>1, <3>4, <4>1, <4>2 DEF EndsAt
    <3>6. k = len
      BY <1>1, <3>4, <3>5
    <3>7. QED
      BY <2>1, <3>4, <3>6
  <2>2. CASE ~\E k \in 0 .. n - 1 : m[s + k] = 0
    <3>1. len = n
      BY <1>3, <2>2 DEF EndsAt
    <3>2. QED
      BY <2>2, <3>1
  <2>3. QED
    BY <2>1, <2>2
<1>5. d + len <= N /\ (d <= s \/ s + len <= d)
  BY <1>1, <1>3 DEF Fits, Apart
<1>6. Upward(m, d, s, len) = Copied(m, d, s, 0, len)
  BY <1>1, <1>3, <1>5, UpwardCopies
<1>7. PICK p \in Seq(Byte) : p = Text(m, s, n)
  BY <1>1, <1>3
<1>8. Len(p) = len /\ p = Bytes(m, s, len)
  BY <1>3, <1>7 DEF Bytes
<1>9. Copied(m, d, s, 0, len) = Written(m, d, p)
  BY <1>1, <1>8, CopyWrites
<1>10. PICK f : f = Written(m, d, p)
  OBVIOUS
<1>11. StrNCpy(m, d, s, n) = Fill(f, d + len, 0, n - len)
  BY <1>4, <1>6, <1>9, <1>10 DEF StrNCpy
<1>12. PICK q \in Seq(Byte) : q = [i \in 1 .. n - len |-> 0]
  <2>1. n - len \in Nat
    OBVIOUS
  <2>2. [i \in 1 .. n - len |-> 0] \in Seq(Byte)
    BY <1>1, <2>1
  <2>3. QED
    BY <2>2
<1>13. Fill(f, d + len, 0, n - len) = Written(f, d + Len(p), q)
  <2>1. DOMAIN q = 1 .. n - len /\ \A i \in 1 .. n - len : q[i] = 0
    BY <1>12
  <2>2. ASSUME NEW a \in Addr
        PROVE  a \in d + len .. d + len + (n - len) - 1 <=> a - (d + len) + 1 \in 1 .. n - len
    BY <1>1
  <2>3. ASSUME NEW a \in Addr
        PROVE  (IF a \in d + len .. d + len + (n - len) - 1 THEN 0 ELSE f[a]) =
               (IF a - (d + len) + 1 \in DOMAIN q THEN q[a - (d + len) + 1] ELSE f[a])
    BY <2>1, <2>2
  <2>4. QED
    BY <1>8, <2>3 DEF Fill, Written
<1>14. Written(f, d + Len(p), q) = Written(m, d, p \o q)
  BY <1>1, <1>10, WrittenTwice
<1>15. QED
  BY <1>3, <1>7, <1>8, <1>11, <1>12, <1>13, <1>14

-----------------------------------------------------------------------------
(* The calls.                                                              *)
StringOps == {"memmove", "memcpy", "memset", "strcpy", "strncpy", "strcat",
              "strcmp", "strncmp", "memcmp"}

(* A call returns what its function gives for its arguments, and those of  *)
(* a function of string.c are legal, that of a format one of the formats,  *)
(* those of atoi an int that is not negative and the blanks before it.     *)
Returns == ret = <<>> \/ ret = <<Result>>
Legal   == call.op \in StringOps => Memory2(call.op)
Raw     == call.op = "format" => call.raw \in RawFormats
Number  == call.op = "atoi" => /\ call.u \in Uints /\ call.u < 2^(Bits - 1)
                                  /\ call.b \in 0 .. 2
KlibInv == Returns /\ Legal /\ Raw /\ Number

LEMMA KlibInit == Init => KlibInv
<1> SUFFICES ASSUME Init PROVE KlibInv
  OBVIOUS
<1>1. Returns
  BY DEF Init, Returns
<1>2. ASSUME NEW op \in StringOps, Memory2(op) PROVE Legal /\ Raw /\ Number
  <2>1. call.op = op
    BY <1>2 DEF Memory2
  <2>2. QED
    BY <1>2, <2>1 DEF Legal, Raw, Number, StringOps
<1>3. Legal /\ Raw /\ Number
  <2>1. CASE \E op \in StringOps : Memory2(op)
    BY <1>2, <2>1
  <2>2. CASE \E dirs \in Formats : call = [op |-> "vsprintf", dirs |-> dirs]
    <3>1. call.op = "vsprintf"
      BY <2>2
    <3>2. QED
      BY <3>1 DEF Legal, Raw, Number, StringOps
  <2>3. CASE \E raw \in RawFormats : call = [op |-> "format", raw |-> raw]
    <3>1. call.op = "format" /\ call.raw \in RawFormats
      BY <2>3
    <3>2. QED
      BY <3>1 DEF Legal, Raw, Number, StringOps
  <2>4. CASE \E u \in Uints, b \in 0 .. 2 :
               u < 2^(Bits - 1) /\ call = [op |-> "atoi", u |-> u, b |-> b]
    <3>1. /\ call.op = "atoi" /\ call.u \in Uints /\ call.u < 2^(Bits - 1)
          /\ call.b \in 0 .. 2
      BY <2>4
    <3>2. QED
      BY <3>1 DEF Legal, Raw, Number, StringOps
  <2>5. CASE \E x \in Dword, y \in Dword \ {0} : call = [op |-> "divide", x |-> x, y |-> y]
    <3>1. call.op = "divide"
      BY <2>5
    <3>2. QED
      BY <3>1 DEF Legal, Raw, Number, StringOps
  <2>6. \/ \E op \in StringOps : Memory2(op)
        \/ \E dirs \in Formats : call = [op |-> "vsprintf", dirs |-> dirs]
        \/ \E raw \in RawFormats : call = [op |-> "format", raw |-> raw]
        \/ \E u \in Uints, b \in 0 .. 2 :
             u < 2^(Bits - 1) /\ call = [op |-> "atoi", u |-> u, b |-> b]
        \/ \E x \in Dword, y \in Dword \ {0} : call = [op |-> "divide", x |-> x, y |-> y]
    BY Zenon DEF Init, StringOps
  <2>7. QED
    BY <2>1, <2>2, <2>3, <2>4, <2>5, <2>6
<1>4. QED
  BY <1>1, <1>3 DEF KlibInv

LEMMA KlibNext == KlibInv /\ [Next]_vars => KlibInv'
<1> SUFFICES ASSUME KlibInv, [Next]_vars PROVE KlibInv'
  OBVIOUS
<1>1. call' = call
  BY DEF Next, Return, vars
<1>2. Legal'
  <2>1. \A op : Memory2(op)' <=> Memory2(op)
    BY <1>1 DEF Memory2
  <2>2. QED
    BY <1>1, <2>1 DEF KlibInv, Legal
<1>3. Result' = Result
  BY <1>1 DEF Result
<1>4. Returns'
  BY <1>3 DEF KlibInv, Returns, Next, Return, vars
<1>5. Raw'
  BY <1>1 DEF KlibInv, Raw
<1>6. Number'
  BY <1>1 DEF KlibInv, Number
<1>7. QED
  BY <1>2, <1>4, <1>5, <1>6 DEF KlibInv

(* Every call returns what its function gives, and the arguments of a      *)
(* function of string.c stay those of a legal call.                        *)
THEOREM KlibInvariant == Spec => []KlibInv
BY KlibInit, KlibNext, PTL DEF Spec

LEMMA Returned ==
  ASSUME KlibInv, NEW op \in StringOps, Done(op)
  PROVE  /\ call.op = op /\ Memory2(op)
         /\ ret[1] = Result
BY DEF KlibInv, Returns, Legal, Done

LEMMA WroteIsWritten ==
  ASSUME NEW bytes
  PROVE  Wrote(bytes) <=> ret[1] = Written(call.m, call.d, bytes)
BY DEF Wrote, Written

LEMMA WritesRight == KlibInv => WritesCorrect
<1> SUFFICES ASSUME KlibInv PROVE WritesCorrect
  OBVIOUS
<1>n. N \in Nat \ {0} /\ Addr = 0 .. N - 1
  BY Bytes0 DEF Addr
<1>1. ASSUME Done("memmove") PROVE Wrote(Bytes(call.m, call.s, call.n))
  <2>1. call.op = "memmove" /\ Memory2("memmove") /\ ret[1] = Result
    BY <1>1, Returned DEF StringOps
  <2>2. PICK m \in Memory, d \in Addr, s \in Addr, n \in 0 .. N :
          /\ call = [op |-> "memmove", m |-> m, d |-> d, s |-> s, n |-> n]
          /\ Fits(d, n) /\ Fits(s, n)
    BY <2>1 DEF Memory2, Allowed
  <2>3. ret[1] = MemMove(m, d, s, n)
    BY <2>1, <2>2 DEF Result
  <2>4. MemMove(m, d, s, n) = Copied(m, d, s, 0, n)
    BY <1>n, <2>2, MemMoveCopies DEF Fits
  <2>5. Copied(m, d, s, 0, n) = Written(m, d, Bytes(m, s, n))
    BY <1>n, <2>2, CopyWrites
  <2>6. QED
    BY <2>2, <2>3, <2>4, <2>5, WroteIsWritten
<1>2. ASSUME Done("memcpy") PROVE Wrote(Bytes(call.m, call.s, call.n))
  <2>1. call.op = "memcpy" /\ Memory2("memcpy") /\ ret[1] = Result
    BY <1>2, Returned DEF StringOps
  <2>2. PICK m \in Memory, d \in Addr, s \in Addr, n \in 0 .. N :
          /\ call = [op |-> "memcpy", m |-> m, d |-> d, s |-> s, n |-> n]
          /\ Fits(d, n) /\ Fits(s, n) /\ Apart(d, n, s, n)
    BY <2>1 DEF Memory2, Allowed
  <2>3. ret[1] = Upward(m, d, s, n)
    BY <2>1, <2>2 DEF Result, MemCpy
  <2>4. /\ d \in Nat /\ s \in Nat /\ n \in Nat /\ d + n <= N /\ s + n <= N
        /\ d <= s \/ s + n <= d
    BY <1>n, <2>2 DEF Fits, Apart
  <2>5. Upward(m, d, s, n) = Copied(m, d, s, 0, n)
    BY <2>4, UpwardCopies
  <2>6. Copied(m, d, s, 0, n) = Written(m, d, Bytes(m, s, n))
    BY <2>4, CopyWrites
  <2>7. QED
    BY <2>2, <2>3, <2>5, <2>6, WroteIsWritten
<1>3. ASSUME Done("memset") PROVE Wrote([i \in 1 .. call.n |-> call.s])
  <2>1. call.op = "memset" /\ Memory2("memset") /\ ret[1] = Result
    BY <1>3, Returned DEF StringOps
  <2>2. PICK m \in Memory, d \in Addr, s \in Addr, n \in 0 .. N :
          call = [op |-> "memset", m |-> m, d |-> d, s |-> s, n |-> n]
    BY <2>1 DEF Memory2, Allowed
  <2>3. ret[1] = MemSet(m, d, s, n)
    BY <2>1, <2>2 DEF Result
  <2>4. MemSet(m, d, s, n) = Written(m, d, [i \in 1 .. n |-> s])
    BY <1>n, <2>2, FillWrites
  <2>5. QED
    BY <2>2, <2>3, <2>4, WroteIsWritten
<1>4. ASSUME Done("strcpy") PROVE Wrote(StringAt(call.m, call.s) \o <<0>>)
  <2>1. call.op = "strcpy" /\ Memory2("strcpy") /\ ret[1] = Result
    BY <1>4, Returned DEF StringOps
  <2>2. PICK m \in Memory, d \in Addr, s \in Addr, n \in 0 .. N :
          /\ call = [op |-> "strcpy", m |-> m, d |-> d, s |-> s, n |-> n]
          /\ Ended(m, s) /\ Fits(d, Len(StringAt(m, s)) + 1)
          /\ Apart(d, Len(StringAt(m, s)) + 1, s, Len(StringAt(m, s)) + 1)
    BY <2>1 DEF Memory2, Allowed
  <2>3. ret[1] = StrCpy(m, d, s)
    BY <2>1, <2>2 DEF Result
  <2>4. StrCpy(m, d, s) = Written(m, d, StringAt(m, s) \o <<0>>)
    BY <1>n, <2>2, StrCpyWrites
  <2>5. QED
    BY <2>2, <2>3, <2>4, WroteIsWritten
<1>5. ASSUME Done("strcat")
      PROVE  Wrote(StringAt(call.m, call.d) \o StringAt(call.m, call.s) \o <<0>>)
  <2>1. call.op = "strcat" /\ Memory2("strcat") /\ ret[1] = Result
    BY <1>5, Returned DEF StringOps
  <2>2. PICK m \in Memory, d \in Addr, s \in Addr, n \in 0 .. N :
          /\ call = [op |-> "strcat", m |-> m, d |-> d, s |-> s, n |-> n]
          /\ Ended(m, s) /\ Ended(m, d)
          /\ Fits(d, Len(StringAt(m, d)) + (Len(StringAt(m, s)) + 1))
          /\ Apart(d, Len(StringAt(m, d)) + (Len(StringAt(m, s)) + 1),
                   s, Len(StringAt(m, s)) + 1)
    BY <2>1 DEF Memory2, Allowed
  <2>3. ret[1] = StrCat(m, d, s)
    BY <2>1, <2>2 DEF Result
  <2>4. StrCat(m, d, s) = Written(m, d, StringAt(m, d) \o StringAt(m, s) \o <<0>>)
    BY <2>2, StrCatWrites
  <2>5. QED
    BY <2>2, <2>3, <2>4, WroteIsWritten
<1>6. ASSUME Done("strncpy")
      PROVE  Wrote(Text(call.m, call.s, call.n)
                   \o [i \in 1 .. call.n - Len(Text(call.m, call.s, call.n)) |-> 0])
  <2>1. call.op = "strncpy" /\ Memory2("strncpy") /\ ret[1] = Result
    BY <1>6, Returned DEF StringOps
  <2>2. PICK m \in Memory, d \in Addr, s \in Addr, n \in 0 .. N :
          /\ call = [op |-> "strncpy", m |-> m, d |-> d, s |-> s, n |-> n]
          /\ Fits(d, n) /\ (Fits(s, n) \/ Ended(m, s))
          /\ Apart(d, n, s, Len(Text(m, s, n)) + 1)
    BY <2>1 DEF Memory2, Allowed
  <2>3. ret[1] = StrNCpy(m, d, s, n)
    BY <2>1, <2>2 DEF Result
  <2>4. n \in Nat
    BY <1>n, <2>2
  <2>5. StrNCpy(m, d, s, n) =
          Written(m, d, Text(m, s, n) \o [i \in 1 .. n - Len(Text(m, s, n)) |-> 0])
    BY <2>2, <2>4, StrNCpyWrites
  <2>6. QED
    BY <2>2, <2>3, <2>5, WroteIsWritten
<1>7. QED
  BY <1>1, <1>2, <1>3, <1>4, <1>5, <1>6 DEF WritesCorrect

(* memmove, memcpy, memset, strcpy, strncpy and strcat leave what the      *)
(* standard says, and nothing around it, for every legal call on every     *)
(* memory: memmove for every overlap, strncpy padded to n.                 *)
THEOREM StringsWriteRight == Spec => []WritesCorrect
BY KlibInvariant, WritesRight, PTL

-----------------------------------------------------------------------------
(* The order of a dictionary, by the place where two sequences part.       *)
LEMMA PrefixMeans ==
  ASSUME NEW p \in Seq(Byte), NEW q \in Seq(Byte)
  PROVE  IsStrictPrefix(p, q) <=>
           Len(p) < Len(q) /\ \A j \in 1 .. Len(p) : p[j] = q[j]
<1>1. PICK k \in Nat, l \in Nat : k = Len(p) /\ l = Len(q)
  OBVIOUS
<1>2. SubSeq(p, 1, k) = p
  BY <1>1, SubSeqFull
<1>3. ASSUME k <= l
      PROVE  SubSeq(q, 1, k) = p <=> \A j \in 1 .. k : p[j] = q[j]
  <2>1. SubSeq(q, 1, k) = [j \in 1 .. k |-> q[j]]
    BY <1>1, <1>3
  <2>2. p = [j \in 1 .. k |-> p[j]]
    BY <1>1
  <2>3. QED
    BY <2>1, <2>2
<1>4. ASSUME k = l, \A j \in 1 .. k : p[j] = q[j]
      PROVE  p = q
  BY <1>1, <1>4, SeqEqual
<1>5. p = q => k = l
  BY <1>1
<1>6. IsStrictPrefix(p, q) <=> k <= l /\ SubSeq(p, 1, k) = SubSeq(q, 1, k) /\ p # q
  BY <1>1 DEF IsStrictPrefix, IsPrefix
<1>7. QED
  BY <1>1, <1>2, <1>3, <1>4, <1>5, <1>6

LEMMA Ordered ==
  ASSUME NEW p \in Seq(Byte), NEW q \in Seq(Byte), NEW i \in Nat,
         i <= Len(p), i <= Len(q), \A j \in 1 .. i : p[j] = q[j],
         i = Len(p) \/ i = Len(q) \/ p[i + 1] # q[i + 1]
  PROVE  Before(p, q) <=> i < Len(q) /\ (i = Len(p) \/ p[i + 1] < q[i + 1])
<1>1. PICK k \in Nat, l \in Nat : k = Len(p) /\ l = Len(q)
  OBVIOUS
<1>2. DOMAIN p = 1 .. k /\ DOMAIN q = 1 .. l
  BY <1>1
<1>3. \A j \in DOMAIN p \cap DOMAIN q : p[j] \in Nat /\ q[j] \in Nat
  <2>1. TAKE j \in DOMAIN p \cap DOMAIN q
  <2>2. p[j] \in Byte /\ q[j] \in Byte
    BY <1>1, <1>2, ElementOfSeq
  <2>3. QED
    BY <2>2, Bytes0
<1>4. ASSUME IsStrictPrefix(p, q)
      PROVE  i < l /\ (i = k \/ p[i + 1] < q[i + 1])
  <2>1. k < l /\ \A j \in 1 .. k : p[j] = q[j]
    BY <1>1, <1>4, PrefixMeans
  <2>2. i < k => i + 1 \in 1 .. k
    BY <1>1
  <2>3. QED
    BY <1>1, <2>1, <2>2
<1>5. ASSUME NEW x \in DOMAIN p \cap DOMAIN q, p[x] < q[x],
             \A j \in 1 .. x - 1 : p[j] = q[j]
      PROVE  i < l /\ (i = k \/ p[i + 1] < q[i + 1])
  <2>1. x \in Nat /\ x >= 1 /\ x <= k /\ x <= l
    BY <1>2
  <2>2. p[x] # q[x]
    BY <1>3, <1>5
  <2>3. x \notin 1 .. i
    BY <2>2
  <2>4. i < x
    BY <2>1, <2>3
  <2>5. i + 1 \notin 1 .. x - 1
    BY <1>1, <1>5, <2>1, <2>4
  <2>6. x = i + 1
    BY <2>1, <2>4, <2>5
  <2>7. QED
    BY <1>5, <2>1, <2>6
<1>6. ASSUME i < l, i = k
      PROVE  IsStrictPrefix(p, q)
  BY <1>1, <1>6, PrefixMeans
<1>7. ASSUME i < l, i # k, p[i + 1] < q[i + 1]
      PROVE  \E x \in DOMAIN p \cap DOMAIN q :
               p[x] < q[x] /\ \A j \in 1 .. x - 1 : p[j] = q[j]
  <2>1. i + 1 \in DOMAIN p \cap DOMAIN q /\ (i + 1) - 1 = i
    BY <1>1, <1>2, <1>7
  <2>2. QED
    BY <1>7, <2>1
<1>8. QED
  BY <1>1, <1>4, <1>5, <1>6, <1>7 DEF Before

(* What the sign of a comparison says.                                     *)
Signs(v, p, q) == (v < 0 <=> Before(p, q)) /\ (v > 0 <=> Before(q, p))

LEMMA Alike ==
  ASSUME NEW p \in Seq(Byte), NEW q \in Seq(Byte), Len(p) = Len(q),
         \A j \in 1 .. Len(p) : p[j] = q[j]
  PROVE  Signs(0, p, q)
<1>1. PICK i \in Nat : i = Len(p) /\ i = Len(q)
  OBVIOUS
<1>2. ~Before(p, q)
  BY <1>1, Ordered
<1>3. ~Before(q, p)
  BY <1>1, Ordered
<1>4. QED
  BY <1>2, <1>3 DEF Signs

(* Two texts part at i: the numbers there, 0 behind an end, decide.        *)
LEMMA Part ==
  ASSUME NEW p \in Seq(Byte), NEW q \in Seq(Byte), NEW i \in Nat,
         i <= Len(p), i <= Len(q), \A j \in 1 .. i : p[j] = q[j],
         NEW a \in Nat, NEW b \in Nat, a # b,
         IF i = Len(p) THEN a = 0 ELSE a = p[i + 1],
         IF i = Len(q) THEN b = 0 ELSE b = q[i + 1]
  PROVE  Signs(a - b, p, q)
<1>1. PICK k \in Nat, l \in Nat : k = Len(p) /\ l = Len(q)
  OBVIOUS
<1>2. i = k \/ i = l \/ p[i + 1] # q[i + 1]
  BY <1>1
<1>3. Before(p, q) <=> i < l /\ (i = k \/ p[i + 1] < q[i + 1])
  BY <1>1, <1>2, Ordered
<1>4. Before(q, p) <=> i < k /\ (i = l \/ q[i + 1] < p[i + 1])
  BY <1>1, <1>2, Ordered
<1>5. CASE i = k
  BY <1>1, <1>3, <1>4, <1>5 DEF Signs
<1>6. CASE i # k /\ i = l
  BY <1>1, <1>3, <1>4, <1>6 DEF Signs
<1>7. CASE i # k /\ i # l
  BY <1>1, <1>3, <1>4, <1>7 DEF Signs
<1>8. QED
  BY <1>5, <1>6, <1>7

(* A text of k bytes, as what is compared.                                 *)
LEMMA TextAt ==
  ASSUME NEW m \in Memory, NEW s \in Addr, NEW k \in Nat, s + k <= N
  PROVE  \E p \in Seq(Byte) : p = Bytes(m, s, k) /\ Len(p) = k
<1>1. N \in Nat \ {0} /\ Addr = 0 .. N - 1 /\ m \in [Addr -> Byte]
  BY Bytes0 DEF Addr, Memory
<1>2. \A i \in 1 .. k : m[s + i - 1] \in Byte
  <2>1. TAKE i \in 1 .. k
  <2>2. s + i - 1 \in Addr
    BY <1>1
  <2>3. QED
    BY <1>1, <2>2
<1>3. PICK f : f = [i \in 1 .. k |-> m[s + i - 1]]
  OBVIOUS
<1>4. f \in Seq(Byte) /\ Len(f) = k
  BY <1>2, <1>3
<1>5. QED
  BY <1>3, <1>4 DEF Bytes

(* The loop of memcmp ends where the bytes differ, or at n.                *)
LEMMA MemCmpOrders ==
  ASSUME NEW m \in Memory, NEW d \in Addr, NEW s \in Addr, NEW n \in Nat,
         d + n <= N, s + n <= N
  PROVE  Signs(MemCmp(m, d, s, n), Bytes(m, d, n), Bytes(m, s, n))
<1>1. N \in Nat \ {0} /\ Addr = 0 .. N - 1 /\ m \in [Addr -> Byte] /\ Byte \subseteq Nat
  BY Bytes0 DEF Addr, Memory
<1> DEFINE P(i) == /\ i = n \/ m[d + i] # m[s + i]
                   /\ \A j \in 0 .. i - 1 : ~(m[d + j] # m[s + j])
           T == {i \in 0 .. n : i = n \/ m[d + i] # m[s + i]}
           c == CHOOSE i \in 0 .. n : P(i)
<1>2. \E i \in 0 .. n : P(i)
  <2>1. n \in T /\ T \in SUBSET Nat
    OBVIOUS
  <2>2. PICK k \in T : \A j \in T : k <= j
    BY <2>1, LeastOfNat
  <2>3. ASSUME NEW j \in 0 .. k - 1 PROVE ~(m[d + j] # m[s + j])
    <3>1. j \in 0 .. n /\ ~(k <= j)
      BY <2>2
    <3>2. QED
      BY <2>2, <3>1
  <2>4. QED
    BY <2>2, <2>3
<1> HIDE DEF P
<1>3. c \in 0 .. n /\ P(c)
  BY <1>2, Zenon
<1>4. MemCmp(m, d, s, n) = IF c = n THEN 0 ELSE m[d + c] - m[s + c]
  BY DEF MemCmp, FirstAt, P
<1> HIDE DEF c
<1>5. PICK i \in 0 .. n : i = c
  BY <1>3
<1>6. /\ i = n \/ m[d + i] # m[s + i]
      /\ \A j \in 0 .. i - 1 : m[d + j] = m[s + j]
  BY <1>3, <1>5 DEF P
<1>7. PICK p \in Seq(Byte) : p = [j \in 1 .. n |-> m[d + j - 1]] /\ Len(p) = n
  <2>1. PICK p \in Seq(Byte) : p = Bytes(m, d, n) /\ Len(p) = n
    BY ONLY m \in Memory, d \in Addr, n \in Nat, d + n <= N, TextAt
  <2>2. QED
    BY <2>1 DEF Bytes
<1>8. PICK q \in Seq(Byte) : q = [j \in 1 .. n |-> m[s + j - 1]] /\ Len(q) = n
  <2>1. PICK q \in Seq(Byte) : q = Bytes(m, s, n) /\ Len(q) = n
    BY ONLY m \in Memory, s \in Addr, n \in Nat, s + n <= N, TextAt
  <2>2. QED
    BY <2>1 DEF Bytes
<1>9. \A j \in 1 .. i : p[j] = q[j]
  <2>1. TAKE j \in 1 .. i
  <2>2. j - 1 \in 0 .. i - 1 /\ j \in 1 .. n /\ d + (j - 1) = d + j - 1 /\ s + (j - 1) = s + j - 1
    BY <1>1
  <2>3. m[d + j - 1] = m[s + j - 1]
    BY <1>6, <2>2
  <2>4. QED
    BY <1>7, <1>8, <2>2, <2>3
<1>10. CASE i = n
  <2>1. Signs(0, p, q)
    BY <1>7, <1>8, <1>9, <1>10, Alike
  <2>2. QED
    BY <1>4, <1>5, <1>7, <1>8, <1>10, <2>1 DEF Bytes
<1>11. CASE i # n
  <2>1. d + i \in Addr /\ s + i \in Addr
    BY <1>1, <1>11
  <2>2. PICK a \in Nat, b \in Nat : a = m[d + i] /\ b = m[s + i] /\ a # b
    BY <1>1, <1>6, <1>11, <2>1
  <2>3. i + 1 \in 1 .. n /\ d + (i + 1) - 1 = d + i /\ s + (i + 1) - 1 = s + i
    BY <1>1, <1>11
  <2>4. p[i + 1] = a /\ q[i + 1] = b
    BY <1>7, <1>8, <2>2, <2>3
  <2>5. Signs(a - b, p, q)
    <3>1. /\ i \in Nat /\ i <= Len(p) /\ i <= Len(q)
          /\ IF i = Len(p) THEN a = 0 ELSE a = p[i + 1]
          /\ IF i = Len(q) THEN b = 0 ELSE b = q[i + 1]
      BY <1>7, <1>8, <1>11, <2>4
    <3>2. QED
      BY ONLY <1>9, <2>2, <3>1, a \in Nat, b \in Nat, p \in Seq(Byte), q \in Seq(Byte), Part
  <2>6. QED
    BY <1>4, <1>5, <1>7, <1>8, <1>11, <2>2, <2>5 DEF Bytes
<1>12. QED
  BY <1>10, <1>11

(* strncmp compares two texts that end at k and l, if n reaches the first  *)
(* end and, at the first text's own, behind it or no further than both.    *)
LEMMA StrNCmpOrders ==
  ASSUME NEW m \in Memory, NEW d \in Addr, NEW s \in Addr, NEW n \in Nat,
         NEW k \in Nat, NEW l \in Nat,
         \A j \in 0 .. k - 1 : m[d + j] # 0, \A j \in 0 .. l - 1 : m[s + j] # 0,
         k <= n, k < n => m[d + k] = 0 /\ d + k < N, d + k <= N,
         l < n => m[s + l] = 0 /\ s + l < N, s + l <= N,
         k < n \/ l <= n
  PROVE  Signs(StrNCmp(m, d, s, n),
               [i \in 1 .. k |-> m[d + i - 1]], [i \in 1 .. l |-> m[s + i - 1]])
<1>1. N \in Nat \ {0} /\ Addr = 0 .. N - 1 /\ m \in [Addr -> Byte] /\ Byte \subseteq Nat
  BY Bytes0 DEF Addr, Memory
<1> DEFINE P(i) == /\ i = n \/ m[d + i] # m[s + i] \/ m[d + i] = 0
                   /\ \A j \in 0 .. i - 1 : ~(m[d + j] # m[s + j] \/ m[d + j] = 0)
           T == {i \in 0 .. n : i = n \/ m[d + i] # m[s + i] \/ m[d + i] = 0}
           c == CHOOSE i \in 0 .. n : P(i)
<1>2. \E i \in 0 .. n : P(i)
  <2>1. n \in T /\ T \in SUBSET Nat
    OBVIOUS
  <2>2. PICK x \in T : \A j \in T : x <= j
    BY <2>1, LeastOfNat
  <2>3. ASSUME NEW j \in 0 .. x - 1
        PROVE  ~(m[d + j] # m[s + j] \/ m[d + j] = 0)
    <3>1. j \in 0 .. n /\ ~(x <= j)
      BY <2>2
    <3>2. QED
      BY <2>2, <3>1
  <2>4. QED
    BY <2>2, <2>3
<1> HIDE DEF P
<1>3. c \in 0 .. n /\ P(c)
  BY <1>2, Zenon
<1>4. StrNCmp(m, d, s, n) = IF c = n THEN 0 ELSE m[d + c] - m[s + c]
  BY DEF StrNCmp, FirstAt, P
<1> HIDE DEF c
<1>5. PICK i \in 0 .. n : i = c
  BY <1>3
<1>6. /\ i = n \/ m[d + i] # m[s + i] \/ m[d + i] = 0
      /\ \A j \in 0 .. i - 1 : m[d + j] = m[s + j] /\ m[d + j] # 0
  BY <1>3, <1>5 DEF P
<1>7. PICK p \in Seq(Byte) : p = [j \in 1 .. k |-> m[d + j - 1]] /\ Len(p) = k
  <2>1. PICK p \in Seq(Byte) : p = Bytes(m, d, k) /\ Len(p) = k
    BY ONLY m \in Memory, d \in Addr, k \in Nat, d + k <= N, TextAt
  <2>2. QED
    BY <2>1 DEF Bytes
<1>8. PICK q \in Seq(Byte) : q = [j \in 1 .. l |-> m[s + j - 1]] /\ Len(q) = l
  <2>1. PICK q \in Seq(Byte) : q = Bytes(m, s, l) /\ Len(q) = l
    BY ONLY m \in Memory, s \in Addr, l \in Nat, s + l <= N, TextAt
  <2>2. QED
    BY <2>1 DEF Bytes
<1>9. i <= k
  <2>1. ASSUME k < i PROVE FALSE
    <3>1. k \in 0 .. i - 1 /\ k < n
      BY <2>1
    <3>2. QED
      BY <1>6, <3>1
  <2>2. QED
    BY <2>1
<1>10. i <= l
  <2>1. ASSUME l < i PROVE FALSE
    <3>1. l \in 0 .. i - 1 /\ l < n
      BY <2>1
    <3>2. QED
      BY <1>6, <3>1
  <2>2. QED
    BY <2>1
<1>11. \A j \in 1 .. i : p[j] = q[j]
  <2>1. TAKE j \in 1 .. i
  <2>2. /\ j - 1 \in 0 .. i - 1 /\ j \in 1 .. k /\ j \in 1 .. l
        /\ d + (j - 1) = d + j - 1 /\ s + (j - 1) = s + j - 1
    BY <1>1, <1>9, <1>10
  <2>3. m[d + j - 1] = m[s + j - 1]
    BY <1>6, <2>2
  <2>4. QED
    BY <1>7, <1>8, <2>2, <2>3
<1>12. CASE i = n
  <2>1. k = n /\ l = n
    BY <1>9, <1>10, <1>12
  <2>2. Signs(0, p, q)
    BY <1>7, <1>8, <1>11, <1>12, <2>1, Alike
  <2>3. QED
    BY <1>4, <1>5, <1>7, <1>8, <1>12, <2>2
<1>13. CASE i # n
  <2>1. i < n /\ d + i \in Addr /\ s + i \in Addr
    BY <1>1, <1>9, <1>10, <1>13
  <2>2. PICK a \in Nat, b \in Nat : a = m[d + i] /\ b = m[s + i]
    BY <1>1, <2>1
  <2>3. IF i = k THEN a = 0 ELSE a = p[i + 1] /\ a # 0
    <3>1. CASE i = k
      BY <2>1, <2>2, <3>1
    <3>2. CASE i # k
      <4>1. i + 1 \in 1 .. k /\ i \in 0 .. k - 1 /\ d + (i + 1) - 1 = d + i
        BY <1>1, <1>9, <3>2
      <4>2. QED
        BY <1>7, <2>2, <3>2, <4>1
    <3>3. QED
      BY <3>1, <3>2
  <2>4. IF i = l THEN b = 0 ELSE b = q[i + 1] /\ b # 0
    <3>1. CASE i = l
      BY <2>1, <2>2, <3>1
    <3>2. CASE i # l
      <4>1. i + 1 \in 1 .. l /\ i \in 0 .. l - 1 /\ s + (i + 1) - 1 = s + i
        BY <1>1, <1>10, <3>2
      <4>2. QED
        BY <1>8, <2>2, <3>2, <4>1
    <3>3. QED
      BY <3>1, <3>2
  <2>5. Signs(a - b, p, q)
    <3>1. CASE a # b
      <4>1. /\ i \in Nat /\ i <= Len(p) /\ i <= Len(q)
            /\ IF i = Len(p) THEN a = 0 ELSE a = p[i + 1]
            /\ IF i = Len(q) THEN b = 0 ELSE b = q[i + 1]
        BY <1>7, <1>8, <1>9, <1>10, <2>3, <2>4
      <4>2. QED
        BY ONLY <1>11, <3>1, <4>1, a \in Nat, b \in Nat, p \in Seq(Byte), q \in Seq(Byte), Part
    <3>2. CASE a = b
      <4>1. a = 0 /\ i = k /\ i = l
        BY <1>6, <2>1, <2>2, <2>3, <2>4, <3>2
      <4>2. Signs(0, p, q)
        <5>1. Len(p) = Len(q) /\ \A j \in 1 .. Len(p) : p[j] = q[j]
          BY <1>7, <1>8, <1>11, <4>1
        <5>2. QED
          BY <5>1, Alike
      <4>3. a - b = 0
        BY <3>2, <4>1
      <4>4. QED
        BY <4>2, <4>3
    <3>3. QED
      BY <3>1, <3>2
  <2>6. QED
    BY <1>4, <1>5, <1>7, <1>8, <1>13, <2>2, <2>5
<1>14. QED
  BY <1>12, <1>13

LEMMA OrdersIsSigns ==
  ASSUME NEW p, NEW q
  PROVE  Orders(p, q) <=> Signs(ret[1], p, q)
BY DEF Orders, Signs

(* strcmp: the second string may go on behind the end of the first.        *)
LEMMA StrCmpOrders ==
  ASSUME NEW m \in Memory, NEW d \in Addr, NEW s \in Addr, Ended(m, d), Ended(m, s)
  PROVE  Signs(StrCmp(m, d, s), StringAt(m, d), StringAt(m, s))
<1>1. N \in Nat \ {0} /\ Addr = 0 .. N - 1
  BY Bytes0 DEF Addr
<1>2. PICK k \in 0 .. N - 1 - d :
           /\ StrLen(m, d) = k /\ m[d + k] = 0
           /\ \A j \in 0 .. k - 1 : m[d + j] # 0
           /\ StringAt(m, d) = [i \in 1 .. k |-> m[d + i - 1]]
           /\ StringAt(m, d) \in Seq(Byte) /\ Len(StringAt(m, d)) = k
  BY ONLY m \in Memory, d \in Addr, Ended(m, d), StringOf
<1>3. PICK l \in 0 .. N - 1 - s :
           /\ StrLen(m, s) = l /\ m[s + l] = 0
           /\ \A j \in 0 .. l - 1 : m[s + j] # 0
           /\ StringAt(m, s) = [i \in 1 .. l |-> m[s + i - 1]]
           /\ StringAt(m, s) \in Seq(Byte) /\ Len(StringAt(m, s)) = l
  BY ONLY m \in Memory, s \in Addr, Ended(m, s), StringOf
<1>4. PICK n \in Nat : n = k + 1
  BY <1>1
<1>5. /\ k \in Nat /\ l \in Nat /\ k < n /\ k <= n
      /\ d + k < N /\ d + k <= N /\ s + l < N /\ s + l <= N
  BY <1>1, <1>4
<1>6. Signs(StrNCmp(m, d, s, n),
            [i \in 1 .. k |-> m[d + i - 1]], [i \in 1 .. l |-> m[s + i - 1]])
  BY <1>2, <1>3, <1>5, StrNCmpOrders
<1>7. StrCmp(m, d, s) = StrNCmp(m, d, s, n)
  BY <1>2, <1>4 DEF StrCmp
<1>8. QED
  BY <1>2, <1>3, <1>6, <1>7

(* strncmp: nothing behind the first n bytes counts.                       *)
LEMMA StrNCmpTexts ==
  ASSUME NEW m \in Memory, NEW d \in Addr, NEW s \in Addr, NEW n \in Nat,
         (Fits(d, n) /\ Fits(s, n)) \/ (Ended(m, s) /\ Ended(m, d))
  PROVE  Signs(StrNCmp(m, d, s, n), Text(m, d, n), Text(m, s, n))
<1>1. N \in Nat \ {0} /\ Addr = 0 .. N - 1
  BY Bytes0 DEF Addr
<1>2. (d + n <= N \/ Ended(m, d)) /\ (s + n <= N \/ Ended(m, s))
  BY DEF Fits
<1>3. PICK k \in 0 .. n :
           /\ EndsAt(m, d, n, k) /\ d + k <= N
           /\ Ended(m, d) => d + k < N
           /\ Text(m, d, n) = [i \in 1 .. k |-> m[d + i - 1]]
           /\ Text(m, d, n) \in Seq(Byte) /\ Len(Text(m, d, n)) = k
  BY ONLY <1>2, m \in Memory, d \in Addr, n \in Nat, TextOf
<1>4. PICK l \in 0 .. n :
           /\ EndsAt(m, s, n, l) /\ s + l <= N
           /\ Ended(m, s) => s + l < N
           /\ Text(m, s, n) = [i \in 1 .. l |-> m[s + i - 1]]
           /\ Text(m, s, n) \in Seq(Byte) /\ Len(Text(m, s, n)) = l
  BY ONLY <1>2, m \in Memory, s \in Addr, n \in Nat, TextOf
<1>5. /\ \A j \in 0 .. k - 1 : m[d + j] # 0
      /\ \A j \in 0 .. l - 1 : m[s + j] # 0
      /\ k < n => m[d + k] = 0
      /\ l < n => m[s + l] = 0
  BY <1>3, <1>4 DEF EndsAt
<1>6. /\ k \in Nat /\ l \in Nat /\ k <= n /\ l <= n
      /\ k < n => d + k < N
      /\ l < n => s + l < N
  BY <1>1, <1>2, <1>3, <1>4
<1>7. Signs(StrNCmp(m, d, s, n),
            [i \in 1 .. k |-> m[d + i - 1]], [i \in 1 .. l |-> m[s + i - 1]])
  <2>1. /\ k < n => m[d + k] = 0 /\ d + k < N
        /\ l < n => m[s + l] = 0 /\ s + l < N
        /\ k < n \/ l <= n
        /\ d + k <= N /\ s + l <= N
    BY <1>3, <1>4, <1>5, <1>6
  <2>2. QED
    BY ONLY <1>5, <1>6, <2>1, m \in Memory, d \in Addr, s \in Addr, n \in Nat,
            StrNCmpOrders
<1>8. QED
  BY <1>3, <1>4, <1>7

LEMMA ComparesRight == KlibInv => ComparesCorrect
<1> SUFFICES ASSUME KlibInv PROVE ComparesCorrect
  OBVIOUS
<1>n. N \in Nat \ {0} /\ Addr = 0 .. N - 1
  BY Bytes0 DEF Addr
<1>1. ASSUME Done("strcmp")
      PROVE  Orders(StringAt(call.m, call.d), StringAt(call.m, call.s))
  <2>1. call.op = "strcmp" /\ Memory2("strcmp") /\ ret[1] = Result
    BY <1>1, Returned DEF StringOps
  <2>2. PICK m \in Memory, d \in Addr, s \in Addr, n \in 0 .. N :
          /\ call = [op |-> "strcmp", m |-> m, d |-> d, s |-> s, n |-> n]
          /\ Ended(m, s) /\ Ended(m, d)
    BY <2>1 DEF Memory2, Allowed
  <2>3. ret[1] = StrCmp(m, d, s)
    BY <2>1, <2>2 DEF Result
  <2>4. Signs(StrCmp(m, d, s), StringAt(m, d), StringAt(m, s))
    BY <2>2, StrCmpOrders
  <2>5. QED
    BY <2>2, <2>3, <2>4, OrdersIsSigns
<1>2. ASSUME Done("memcmp")
      PROVE  Orders(Bytes(call.m, call.d, call.n), Bytes(call.m, call.s, call.n))
  <2>1. call.op = "memcmp" /\ Memory2("memcmp") /\ ret[1] = Result
    BY <1>2, Returned DEF StringOps
  <2>2. PICK m \in Memory, d \in Addr, s \in Addr, n \in 0 .. N :
          /\ call = [op |-> "memcmp", m |-> m, d |-> d, s |-> s, n |-> n]
          /\ Fits(d, n) /\ Fits(s, n)
    BY <2>1 DEF Memory2, Allowed
  <2>3. ret[1] = MemCmp(m, d, s, n)
    BY <2>1, <2>2 DEF Result
  <2>4. n \in Nat /\ d + n <= N /\ s + n <= N
    BY <1>n, <2>2 DEF Fits
  <2>5. Signs(MemCmp(m, d, s, n), Bytes(m, d, n), Bytes(m, s, n))
    BY <2>4, MemCmpOrders
  <2>6. QED
    BY <2>2, <2>3, <2>5, OrdersIsSigns
<1>3. ASSUME Done("strncmp")
      PROVE  Orders(Text(call.m, call.d, call.n), Text(call.m, call.s, call.n))
  <2>1. call.op = "strncmp" /\ Memory2("strncmp") /\ ret[1] = Result
    BY <1>3, Returned DEF StringOps
  <2>2. PICK m \in Memory, d \in Addr, s \in Addr, n \in 0 .. N :
          /\ call = [op |-> "strncmp", m |-> m, d |-> d, s |-> s, n |-> n]
          /\ (Fits(d, n) /\ Fits(s, n)) \/ (Ended(m, s) /\ Ended(m, d))
    BY <2>1 DEF Memory2, Allowed
  <2>3. ret[1] = StrNCmp(m, d, s, n)
    BY <2>1, <2>2 DEF Result
  <2>4. n \in Nat
    BY <1>n, <2>2
  <2>5. Signs(StrNCmp(m, d, s, n), Text(m, d, n), Text(m, s, n))
    BY <2>2, <2>4, StrNCmpTexts
  <2>6. QED
    BY <2>2, <2>3, <2>5, OrdersIsSigns
<1>4. QED
  BY <1>1, <1>2, <1>3 DEF ComparesCorrect

(* strcmp, strncmp and memcmp order any two strings as a dictionary does,  *)
(* the bytes being unsigned, and say of equal ones that they are.          *)
THEOREM StringsCompareRight == Spec => []ComparesCorrect
BY KlibInvariant, ComparesRight, PTL

-----------------------------------------------------------------------------
(* vsprintf.  What it does at a place p, if h is what it does behind it.   *)
Then(text, rest) == [rest EXCEPT !.text = text \o @]
Places(fmt) == {p \in (1 .. Len(fmt) + 1) \X (1 .. Len(fmt) + 1) : p[2] <= p[1]}

Piece(fmt, args, h, p) ==
  LET i == p[1]  k == p[2] IN
  IF i > Len(fmt) THEN [text |-> <<>>, past |-> FALSE]
  ELSE IF fmt[i] # "%" THEN Then(<<fmt[i]>>, h[<<i + 1, k>>])
  ELSE IF i = Len(fmt) THEN [text |-> <<>>, past |-> TRUE]
  ELSE CASE fmt[i + 1] = "d" -> Then(IntToStr(args[k]), h[<<Behind(i), k + 1>>])
         [] fmt[i + 1] = "u" ->
              Then(UintToStr(Unsigned(args[k])), h[<<Behind(i), k + 1>>])
         [] fmt[i + 1] = "s" -> Then(args[k], h[<<Behind(i), k + 1>>])
         [] OTHER -> Then(<<fmt[i + 1]>>, h[<<Behind(i), k>>])

(* The places that a place looks at are behind it.                         *)
LEMMA PlacesBehind ==
  ASSUME NEW fmt \in Seq(STRING), NEW i \in Nat, NEW k \in Nat, <<i, k>> \in Places(fmt)
  PROVE  /\ i <= Len(fmt) => <<i + 1, k>> \in Places(fmt)
         /\ i < Len(fmt) => /\ <<Behind(i), k + 1>> \in Places(fmt)
                            /\ <<Behind(i), k>> \in Places(fmt)
         /\ Behind(i) = i + 2 /\ i >= 1
<1>1. PICK l \in Nat : l = Len(fmt)
  OBVIOUS
<1>2. i \in 1 .. l + 1 /\ k \in 1 .. l + 1 /\ k <= i
  BY <1>1 DEF Places
<1>3. QED
  BY <1>1, <1>2 DEF Places, Behind

LEMMA PieceLooksBehind ==
  ASSUME NEW fmt \in Seq(STRING), NEW args, NEW h, NEW g,
         NEW i \in Nat, NEW k \in Nat, <<i, k>> \in Places(fmt),
         \A q \in Places(fmt) : q[1] > i => h[q] = g[q]
  PROVE  Piece(fmt, args, h, <<i, k>>) = Piece(fmt, args, g, <<i, k>>)
<1>1. PICK l \in Nat : l = Len(fmt)
  OBVIOUS
<1>2. CASE i > l
  BY <1>1, <1>2 DEF Piece
<1>3. CASE i <= l /\ fmt[i] # "%"
  <2>1. h[<<i + 1, k>>] = g[<<i + 1, k>>]
    <3>1. PICK q \in Places(fmt) : q = <<i + 1, k>>
      BY <1>1, <1>3, PlacesBehind
    <3>2. q[1] > i
      BY <3>1
    <3>3. QED
      BY <3>1, <3>2
  <2>2. QED
    BY <1>1, <1>3, <2>1 DEF Piece
<1>4. CASE i = l /\ fmt[i] = "%"
  BY <1>1, <1>4 DEF Piece
<1>5. CASE i < l /\ fmt[i] = "%"
  <2>1. /\ h[<<Behind(i), k + 1>>] = g[<<Behind(i), k + 1>>]
        /\ h[<<Behind(i), k>>] = g[<<Behind(i), k>>]
    <3>1. PICK x \in Places(fmt), y \in Places(fmt) :
            x = <<Behind(i), k + 1>> /\ y = <<Behind(i), k>>
      BY <1>1, <1>5, PlacesBehind
    <3>2. Behind(i) = i + 2
      BY PlacesBehind
    <3>3. x[1] > i /\ y[1] > i
      BY <3>1, <3>2
    <3>4. QED
      BY <3>1, <3>3
  <2>2. QED
    BY <1>1, <1>5, <2>1 DEF Piece
<1>6. QED
  BY <1>1, <1>2, <1>3, <1>4, <1>5

(* The recursion has a solution: one for the last places goes on to the    *)
(* place before them.                                                      *)
Solves(fmt, args, h, j) ==
  \A p \in Places(fmt) : p[1] >= j => h[p] = Piece(fmt, args, h, p)

LEMMA Solvable ==
  ASSUME NEW fmt \in Seq(STRING), NEW args
  PROVE  \E h : h = [p \in Places(fmt) |-> Piece(fmt, args, h, p)]
<1>1. PICK l \in Nat : l = Len(fmt)
  OBVIOUS
<1> DEFINE T == {n \in 0 .. l + 1 : ~\E h : Solves(fmt, args, h, l + 2 - n)}
<1>2. ASSUME T # {} PROVE FALSE
  <2>1. T \in SUBSET Nat
    OBVIOUS
  <2>2. PICK n \in T : \A y \in T : n <= y
    BY <1>2, <2>1, LeastOfNat
  <2>3. \A p \in Places(fmt) : /\ p = <<p[1], p[2]>> /\ p[1] \in Nat /\ p[2] \in Nat
                               /\ p[1] <= l + 1
    BY <1>1 DEF Places
  <2>4. CASE n = 0
    <3>1. Solves(fmt, args, fmt, l + 2)
      BY <2>3 DEF Solves
    <3>2. QED
      BY <2>2, <2>4, <3>1
  <2>5. CASE n # 0
    <3>1. n - 1 \in 0 .. l + 1 /\ ~(n <= n - 1)
      BY <2>5
    <3>2. PICK h : Solves(fmt, args, h, l + 2 - (n - 1))
      BY <2>2, <3>1
    <3>3. PICK j \in Nat : j = l + 2 - n /\ l + 2 - (n - 1) = j + 1
      OBVIOUS
    <3> DEFINE g == [p \in Places(fmt) |->
                      IF p[1] = j THEN Piece(fmt, args, h, p) ELSE h[p]]
    <3>4. ASSUME NEW p \in Places(fmt), p[1] >= j
          PROVE  g[p] = Piece(fmt, args, g, p)
      <4>1. PICK i \in Nat, k \in Nat : p = <<i, k>> /\ i = p[1]
        BY <2>3
      <4>2. i >= j
        BY <3>4, <4>1
      <4>3. \A q \in Places(fmt) : q[1] > i => h[q] = g[q]
        <5>1. TAKE q \in Places(fmt)
        <5>2. q[1] > i => q[1] # j
          BY <2>3, <4>2
        <5>3. QED
          BY <5>2
      <4> HIDE DEF g
      <4>4. Piece(fmt, args, h, p) = Piece(fmt, args, g, p)
        BY <4>1, <4>3, PieceLooksBehind
      <4>5. i # j => h[p] = Piece(fmt, args, h, p)
        <5>1. i # j => i >= j + 1
          BY <4>2
        <5>2. QED
          BY <3>2, <3>3, <4>1, <5>1 DEF Solves
      <4>6. g[p] = IF p[1] = j THEN Piece(fmt, args, h, p) ELSE h[p]
        BY DEF g
      <4>7. QED
        BY <4>1, <4>4, <4>5, <4>6
    <3> HIDE DEF g
    <3>5. Solves(fmt, args, g, j)
      BY <3>4 DEF Solves
    <3>6. QED
      BY <2>2, <3>3, <3>5
  <2>6. QED
    BY <2>4, <2>5
<1>3. l + 1 \in 0 .. l + 1 /\ l + 2 - (l + 1) = 1 /\ l + 1 \notin T
  <2>1. l + 1 \notin T
    BY ONLY <1>2
  <2>2. QED
    BY <2>1
<1>4. PICK h : Solves(fmt, args, h, 1)
  BY <1>3
<1> DEFINE g == [p \in Places(fmt) |-> h[p]]
<1>5. ASSUME NEW p \in Places(fmt)
      PROVE  g[p] = Piece(fmt, args, g, p)
  <2>1. PICK i \in Nat, k \in Nat : p = <<i, k>> /\ i = p[1] /\ i >= 1
    BY <1>1 DEF Places
  <2>2. \A q \in Places(fmt) : q[1] > i => h[q] = g[q]
    OBVIOUS
  <2>3. g[p] = h[p]
    OBVIOUS
  <2> HIDE DEF g
  <2>4. Piece(fmt, args, h, p) = Piece(fmt, args, g, p)
    BY <2>1, <2>2, PieceLooksBehind
  <2>5. h[p] = Piece(fmt, args, h, p)
    BY <1>4, <2>1 DEF Solves
  <2>6. QED
    BY <2>3, <2>4, <2>5
<1>6. g = [p \in Places(fmt) |-> g[p]]
  OBVIOUS
<1> HIDE DEF g
<1>7. g = [p \in Places(fmt) |-> Piece(fmt, args, g, p)]
  BY <1>5, <1>6
<1>8. QED
  BY <1>7

LEMMA VSPrintfSolves ==
  ASSUME NEW fmt \in Seq(STRING), NEW args
  PROVE  \E h : /\ \A p \in Places(fmt) : h[p] = Piece(fmt, args, h, p)
                /\ VSPrintf(fmt, args) = h[<<1, 1>>]
<1> DEFINE Rec(h) == h = [p \in Places(fmt) |-> Piece(fmt, args, h, p)]
           r == CHOOSE h : Rec(h)
<1>1. \E h : Rec(h)
  BY Solvable
<1>2. VSPrintf(fmt, args) = r[<<1, 1>>]
  BY DEF VSPrintf, Places, Piece, Then
<1> HIDE DEF Rec
<1>3. Rec(r)
  BY <1>1, Zenon
<1> HIDE DEF r
<1>4. \A p \in Places(fmt) : r[p] = Piece(fmt, args, r, p)
  <2>1. r = [p \in Places(fmt) |-> Piece(fmt, args, r, p)]
    BY <1>3 DEF Rec
  <2>2. QED
    BY <2>1
<1>5. QED
  BY <1>2, <1>4

(* The % at the end of a format, from the place t on.                      *)
TailFrom(fmt, t) ==
  /\ t \in 1 .. Len(fmt) + 1
  /\ \A i \in 1 .. Len(fmt) :
       t <= i <=> \A j \in i .. Len(fmt) : fmt[j] = "%"

LEMMA TailExists ==
  ASSUME NEW fmt \in Seq(STRING)
  PROVE  \E t : TailFrom(fmt, t)
<1>1. PICK l \in Nat : l = Len(fmt)
  OBVIOUS
<1> DEFINE T == {i \in 1 .. l + 1 : \A j \in i .. l : fmt[j] = "%"}
<1>2. l + 1 \in T /\ T \in SUBSET Nat
  OBVIOUS
<1>3. PICK t \in T : \A i \in T : t <= i
  BY <1>2, LeastOfNat
<1>4. ASSUME NEW i \in 1 .. l
      PROVE  t <= i <=> \A j \in i .. l : fmt[j] = "%"
  <2>1. ASSUME t <= i, NEW j \in i .. l PROVE fmt[j] = "%"
    <3>1. j \in t .. l
      BY <2>1
    <3>2. QED
      BY <1>3, <3>1
  <2>2. ASSUME \A j \in i .. l : fmt[j] = "%" PROVE t <= i
    <3>1. i \in T
      BY <2>2
    <3>2. QED
      BY <1>3, <3>1
  <2>3. QED
    BY <2>1, <2>2
<1>5. QED
  BY <1>1, <1>3, <1>4 DEF TailFrom

LEMMA TailCounts ==
  ASSUME NEW fmt \in Seq(STRING), NEW t, TailFrom(fmt, t)
  PROVE  Cardinality({i \in DOMAIN fmt : \A j \in i .. Len(fmt) : fmt[j] = "%"}) =
           Len(fmt) + 1 - t
<1>1. PICK l \in Nat : l = Len(fmt) /\ DOMAIN fmt = 1 .. l
  OBVIOUS
<1>2. t \in 1 .. l + 1
  BY <1>1 DEF TailFrom
<1>3. {i \in DOMAIN fmt : \A j \in i .. Len(fmt) : fmt[j] = "%"} = t .. l
  <2>1. \A i \in 1 .. l : t <= i <=> \A j \in i .. l : fmt[j] = "%"
    BY <1>1 DEF TailFrom
  <2>2. \A i : i \in t .. l <=> i \in 1 .. l /\ t <= i
    BY <1>2
  <2>3. QED
    BY <1>1, <2>1, <2>2
<1>4. Cardinality(t .. l) = IF t > l THEN 0 ELSE l - t + 1
  BY <1>2, FS_Interval
<1>5. (IF t > l THEN 0 ELSE l - t + 1) = Len(fmt) + 1 - t
  BY <1>1, <1>2
<1>6. QED
  BY <1>3, <1>4, <1>5

(* Whether the end is passed, from a place on.                             *)
PastFrom(fmt, t, i) == (Len(fmt) + 1 - (IF i < t THEN t ELSE i)) % 2 = 1

Tells(fmt, t, h, p) ==
  /\ "past" \in DOMAIN h[p]
  /\ h[p].past = IF PastFrom(fmt, t, p[1]) THEN TRUE ELSE FALSE

LEMMA ThenPast ==
  ASSUME NEW text, NEW rest, "past" \in DOMAIN rest
  PROVE  "past" \in DOMAIN Then(text, rest) /\ Then(text, rest).past = rest.past
BY DEF Then

LEMMA PieceTells ==
  ASSUME NEW fmt \in Seq(STRING), NEW args, NEW h, NEW t, TailFrom(fmt, t),
         NEW i \in Nat, NEW k \in Nat, <<i, k>> \in Places(fmt),
         h[<<i, k>>] = Piece(fmt, args, h, <<i, k>>),
         \A q \in Places(fmt) : q[1] > i => Tells(fmt, t, h, q)
  PROVE  Tells(fmt, t, h, <<i, k>>)
<1>1. PICK l \in Nat : l = Len(fmt)
  OBVIOUS
<1>2. /\ t \in 1 .. l + 1 /\ i \in 1 .. l + 1
      /\ \A x \in 1 .. l : t <= x <=> \A j \in x .. l : fmt[j] = "%"
  BY <1>1 DEF TailFrom, Places
<1>t. ASSUME NEW x, x = h[<<i, k>>], "past" \in DOMAIN x,
             x.past = IF PastFrom(fmt, t, i) THEN TRUE ELSE FALSE
      PROVE  Tells(fmt, t, h, <<i, k>>)
  <2>1. <<i, k>>[1] = i
    OBVIOUS
  <2>2. QED
    BY <1>t, <2>1, Zenon DEF Tells
<1>3. CASE i = l + 1
  <2>1. h[<<i, k>>] = [text |-> <<>>, past |-> FALSE]
    BY <1>1, <1>3 DEF Piece
  <2>2. ~PastFrom(fmt, t, i)
    <3>1. Len(fmt) + 1 - (IF i < t THEN t ELSE i) = 0
      BY <1>1, <1>2, <1>3
    <3>2. 0 % 2 # 1
      OBVIOUS
    <3>3. QED
      BY <3>1, <3>2 DEF PastFrom
  <2>3. PICK x : x = h[<<i, k>>]
    OBVIOUS
  <2>4. "past" \in DOMAIN x /\ x.past = FALSE
    BY <2>1, <2>3
  <2>5. QED
    BY <1>t, <2>2, <2>3, <2>4
<1>4. CASE i <= l /\ fmt[i] # "%"
  <2>1. PICK q \in Places(fmt) : q = <<i + 1, k>>
    BY <1>1, <1>4, PlacesBehind
  <2>2. h[<<i, k>>] = Then(<<fmt[i]>>, h[q])
    BY <1>1, <1>4, <2>1 DEF Piece
  <2>3. Tells(fmt, t, h, q) /\ q[1] = i + 1
    BY <2>1
  <2>4. ~(t <= i)
    BY <1>2, <1>4
  <2>5. PastFrom(fmt, t, i) <=> PastFrom(fmt, t, i + 1)
    <3>1. (IF i < t THEN t ELSE i) = t /\ (IF i + 1 < t THEN t ELSE i + 1) = t
      BY <1>2, <2>4
    <3>2. QED
      BY <3>1 DEF PastFrom
  <2>6. /\ "past" \in DOMAIN h[q]
        /\ h[q].past = IF PastFrom(fmt, t, i + 1) THEN TRUE ELSE FALSE
    BY <2>3, Zenon DEF Tells
  <2>7. PICK x : x = h[<<i, k>>]
    OBVIOUS
  <2>8. "past" \in DOMAIN x /\ x.past = h[q].past
    BY <2>2, <2>6, <2>7, ThenPast
  <2>9. QED
    BY <1>t, <2>5, <2>6, <2>7, <2>8
<1>5. CASE i = l /\ fmt[i] = "%"
  <2>1. h[<<i, k>>] = [text |-> <<>>, past |-> TRUE]
    BY <1>1, <1>5 DEF Piece
  <2>2. t <= i
    BY <1>2, <1>5
  <2>3. PastFrom(fmt, t, i)
    <3>1. Len(fmt) + 1 - (IF i < t THEN t ELSE i) = 1
      BY <1>1, <1>2, <1>5, <2>2
    <3>2. 1 % 2 = 1
      OBVIOUS
    <3>3. QED
      BY <3>1, <3>2 DEF PastFrom
  <2>4. PICK x : x = h[<<i, k>>]
    OBVIOUS
  <2>5. "past" \in DOMAIN x /\ x.past = TRUE
    BY <2>1, <2>4
  <2>6. QED
    BY <1>t, <2>3, <2>4, <2>5
<1>6. CASE i < l /\ fmt[i] = "%"
  <2>1. PICK x \in Places(fmt), y \in Places(fmt) :
          x = <<i + 2, k + 1>> /\ y = <<i + 2, k>>
    BY <1>1, <1>6, PlacesBehind
  <2>2. \E text : h[<<i, k>>] = Then(text, h[x]) \/ h[<<i, k>>] = Then(text, h[y])
    <3>1. Behind(i) = i + 2
      BY DEF Behind
    <3>2. CASE fmt[i + 1] = "d"
      BY <1>1, <1>6, <2>1, <3>1, <3>2 DEF Piece
    <3>3. CASE fmt[i + 1] = "u"
      BY <1>1, <1>6, <2>1, <3>1, <3>3 DEF Piece
    <3>4. CASE fmt[i + 1] = "s"
      BY <1>1, <1>6, <2>1, <3>1, <3>4 DEF Piece
    <3>5. CASE fmt[i + 1] \notin {"d", "u", "s"}
      BY <1>1, <1>6, <2>1, <3>1, <3>5 DEF Piece
    <3>6. QED
      BY <3>2, <3>3, <3>4, <3>5
  <2>3. Tells(fmt, t, h, x) /\ Tells(fmt, t, h, y) /\ x[1] = i + 2 /\ y[1] = i + 2
    BY <2>1
  <2>4. PastFrom(fmt, t, i) <=> PastFrom(fmt, t, i + 2)
    <3>1. i + 1 \in 1 .. l /\ i \in 1 .. l
      BY <1>2, <1>6
    <3>2. t <= i <=> t <= i + 1
      <4>1. \A j \in i .. l : j = i \/ j \in i + 1 .. l
        BY <1>6
      <4>2. t <= i + 1 => t <= i
        BY <1>2, <1>6, <3>1, <4>1
      <4>3. QED
        BY <1>2, <4>2
    <3>3. CASE t <= i
      BY <1>1, <1>2, <1>6, <3>3 DEF PastFrom
    <3>4. CASE ~(t <= i)
      <4>1. i + 2 <= t
        BY <1>2, <3>2, <3>4
      <4>2. (IF i < t THEN t ELSE i) = t /\ (IF i + 2 < t THEN t ELSE i + 2) = t
        BY <1>2, <3>4, <4>1
      <4>3. QED
        BY <4>2 DEF PastFrom
    <3>5. QED
      BY <3>3, <3>4
  <2>5. PICK z \in {x, y} : \E text : h[<<i, k>>] = Then(text, h[z])
    BY <2>2
  <2>6. /\ "past" \in DOMAIN h[z]
        /\ h[z].past = IF PastFrom(fmt, t, i + 2) THEN TRUE ELSE FALSE
    <3>1. Tells(fmt, t, h, z) /\ z[1] = i + 2
      BY <2>3, <2>5
    <3>2. QED
      BY <3>1, Zenon DEF Tells
  <2>7. PICK w : w = h[<<i, k>>]
    OBVIOUS
  <2>8. "past" \in DOMAIN w /\ w.past = h[z].past
    BY <2>5, <2>6, <2>7, ThenPast
  <2>9. QED
    BY <1>t, <2>4, <2>6, <2>7, <2>8
<1>7. QED
  BY <1>2, <1>3, <1>4, <1>5, <1>6

LEMMA VSPrintfTells ==
  ASSUME NEW fmt \in Seq(STRING), NEW args, NEW t, TailFrom(fmt, t)
  PROVE  VSPrintf(fmt, args).past = IF (Len(fmt) + 1 - t) % 2 = 1 THEN TRUE ELSE FALSE
<1>1. PICK h : /\ \A p \in Places(fmt) : h[p] = Piece(fmt, args, h, p)
               /\ VSPrintf(fmt, args) = h[<<1, 1>>]
  BY VSPrintfSolves
<1>2. PICK l \in Nat : l = Len(fmt)
  OBVIOUS
<1> DEFINE T == {n \in 0 .. l : \E p \in Places(fmt) : p[1] = l + 1 - n /\ ~Tells(fmt, t, h, p)}
<1>3. ASSUME T # {} PROVE FALSE
  <2>1. T \in SUBSET Nat
    OBVIOUS
  <2>2. PICK n \in T : \A y \in T : n <= y
    BY <1>3, <2>1, LeastOfNat
  <2>3. PICK p \in Places(fmt) : p[1] = l + 1 - n /\ ~Tells(fmt, t, h, p)
    BY <2>2
  <2>4. PICK i \in Nat, k \in Nat : p = <<i, k>> /\ i = l + 1 - n
    BY <1>2, <2>3 DEF Places
  <2>5. ASSUME NEW q \in Places(fmt), q[1] > i, ~Tells(fmt, t, h, q) PROVE FALSE
    <3>1. PICK j \in 1 .. l + 1 : j = q[1]
      BY <1>2 DEF Places
    <3>2. l + 1 - j \in 0 .. l /\ q[1] = l + 1 - (l + 1 - j)
      BY <3>1
    <3>3. l + 1 - j \in T
      BY <2>5, <3>2
    <3>4. n <= l + 1 - j
      BY <2>2, <3>3
    <3>5. QED
      BY <2>4, <2>5, <3>1, <3>4
  <2>6. h[<<i, k>>] = Piece(fmt, args, h, <<i, k>>) /\ <<i, k>> \in Places(fmt)
    BY <1>1, <2>4
  <2>7. Tells(fmt, t, h, <<i, k>>)
    BY <2>5, <2>6, PieceTells
  <2>8. QED
    BY <2>3, <2>4, <2>7
<1>4. PICK p \in Places(fmt) : p = <<1, 1>>
  <2>1. 1 \in 1 .. Len(fmt) + 1
    BY <1>2
  <2>2. <<1, 1>> \in Places(fmt)
    BY <2>1 DEF Places
  <2>3. QED
    BY <2>2
<1>5. Tells(fmt, t, h, p)
  <2>1. l \in 0 .. l /\ p[1] = l + 1 - l
    BY <1>4
  <2>2. l \notin T
    BY ONLY <1>3
  <2>3. QED
    BY <2>1, <2>2
<1>6. PastFrom(fmt, t, p[1]) <=> (l + 1 - t) % 2 = 1
  <2>1. t \in 1 .. l + 1 /\ p[1] = 1
    BY <1>2, <1>4 DEF TailFrom
  <2>2. (IF 1 < t THEN t ELSE 1) = t
    BY <2>1
  <2>3. QED
    BY <1>2, <2>1, <2>2 DEF PastFrom
<1>7. QED
  BY <1>1, <1>2, <1>4, <1>5, <1>6 DEF Tells

LEMMA PastRight == KlibInv => ReadsPast
<1> SUFFICES ASSUME KlibInv, Done("format") PROVE
      ret[1].past <=>
        Cardinality({i \in DOMAIN call.raw : \A j \in i .. Len(call.raw) : call.raw[j] = "%"}) % 2 = 1
  BY DEF ReadsPast
<1>1. call.op = "format" /\ call.raw \in RawFormats /\ ret[1] = Result
  BY DEF Done, KlibInv, Raw, Returns
<1>2. PICK raw \in Seq(STRING) : raw = call.raw
  BY <1>1, RawAssumption
<1>3. ret[1] = VSPrintf(raw, <<>>)
  BY <1>1, <1>2 DEF Result
<1>4. PICK t : TailFrom(raw, t)
  BY TailExists
<1>5. ret[1].past = IF (Len(raw) + 1 - t) % 2 = 1 THEN TRUE ELSE FALSE
  BY <1>3, <1>4, VSPrintfTells
<1>6. Cardinality({i \in DOMAIN raw : \A j \in i .. Len(raw) : raw[j] = "%"}) =
        Len(raw) + 1 - t
  BY <1>4, TailCounts
<1>7. QED
  BY <1>2, <1>5, <1>6

(* Whatever the format, vsprintf reads past its end exactly if it ends in  *)
(* an odd number of %: the last one then skips the 0 behind it.            *)
THEOREM FormatEndIsPassed == Spec => []ReadsPast
BY KlibInvariant, PastRight, PTL

-----------------------------------------------------------------------------
(* Characters and digits.                                                  *)
Glyph == {"0", "1", "2", "3", "4", "5", "6", "7", "8", "9", " ", "x"}

LEMMA DigitChars ==
  ASSUME NEW i \in 0 .. 9
  PROVE  /\ Char(i) \in Glyph /\ Char(i) # " " /\ Char(i) # "x"
         /\ IsDigit(Char(i)) /\ Value(Char(i)) = i
<1>1. /\ Char(0) = "0" /\ Char(1) = "1" /\ Char(2) = "2" /\ Char(3) = "3"
      /\ Char(4) = "4" /\ Char(5) = "5" /\ Char(6) = "6" /\ Char(7) = "7"
      /\ Char(8) = "8" /\ Char(9) = "9"
  BY DEF Char, Numeral
<1>2. \/ i = 0 \/ i = 1 \/ i = 2 \/ i = 3 \/ i = 4
      \/ i = 5 \/ i = 6 \/ i = 7 \/ i = 8 \/ i = 9
  OBVIOUS
<1>3. Char(i) \in Glyph /\ Char(i) # " " /\ Char(i) # "x"
  BY <1>1, <1>2 DEF Glyph
<1>4. \A a, b \in 0 .. 9 : Char(a) = Char(b) => a = b
  BY DEF Char, Numeral
<1>5. IsDigit(Char(i)) /\ Value(Char(i)) = i
  BY <1>4 DEF Value, IsDigit
<1>6. QED
  BY <1>3, <1>5

LEMMA NoDigit == ~IsDigit("x")
BY DigitChars DEF IsDigit

LEMMA Tenth ==
  ASSUME NEW n \in Nat
  PROVE  /\ n = (n \div 10) * 10 + (n % 10) /\ n % 10 \in 0 .. 9
         /\ n \div 10 \in Nat /\ n \div 10 <= n /\ (n > 0 => n \div 10 < n)
OBVIOUS

(* The recursion of DigitsUp has a solution.                               *)
Up(h, n) == IF n = 0 THEN <<>> ELSE <<Char(n % 10)>> \o h[n \div 10]

LEMMA DigitsSolvable ==
  ASSUME NEW num \in Nat
  PROVE  \E h : h = [n \in 0 .. num |-> Up(h, n)]
<1> DEFINE Upto(h, n) == \A k \in 0 .. n : h[k] = Up(h, k)
           T == {n \in 0 .. num : ~\E h : Upto(h, n)}
<1>1. ASSUME T # {} PROVE FALSE
  <2>1. T \in SUBSET Nat
    OBVIOUS
  <2> HIDE DEF Upto
  <2>2. PICK n \in T : \A y \in T : n <= y
    BY <1>1, <2>1, LeastOfNat
  <2>3. CASE n = 0
    <3> DEFINE g == [k \in 0 .. 0 |-> <<>>]
    <3>1. \A k \in 0 .. 0 : g[k] = Up(g, k)
      BY DEF Up
    <3>2. Upto(g, 0)
      BY <3>1 DEF Upto
    <3>3. QED
      BY <2>2, <2>3, <3>2
  <2>4. CASE n # 0
    <3>1. n - 1 \in 0 .. num /\ ~(n <= n - 1)
      BY <2>4
    <3>2. PICK h : Upto(h, n - 1)
      BY <2>2, <3>1
    <3> DEFINE g == [k \in 0 .. n |-> IF k = n THEN Up(h, n) ELSE h[k]]
    <3>3. ASSUME NEW k \in 0 .. n PROVE g[k] = Up(g, k)
      <4>1. g[k] = Up(h, k)
        <5>1. CASE k = n
          BY <5>1
        <5>2. CASE k # n
          <6>1. k \in 0 .. n - 1
            BY <5>2
          <6>2. h[k] = Up(h, k)
            BY <3>2, <6>1 DEF Upto
          <6>3. QED
            BY <5>2, <6>2
        <5>3. QED
          BY <5>1, <5>2
      <4>2. CASE k = 0
        BY <4>1, <4>2 DEF Up
      <4>3. CASE k # 0
        <5>1. k \in Nat /\ k > 0
          BY <4>3
        <5>2. PICK e \in Nat : e = k \div 10 /\ e < k
          BY <5>1, Tenth
        <5>3. e \in 0 .. n /\ e # n
          BY <5>2
        <5>4. g[e] = h[e]
          BY <5>3
        <5> HIDE DEF g
        <5>5. Up(h, k) = Up(g, k)
          BY <4>3, <5>2, <5>4 DEF Up
        <5>6. QED
          BY <4>1, <5>5
      <4>4. QED
        BY <4>2, <4>3
    <3> HIDE DEF g
    <3>4. Upto(g, n)
      BY <3>3 DEF Upto
    <3>5. QED
      BY <2>2, <3>4
  <2>5. QED
    BY <2>3, <2>4
<1>2. num \in 0 .. num /\ num \notin T
  <2>1. num \notin T
    BY ONLY <1>1
  <2>2. QED
    BY <2>1
<1>3. PICK h : Upto(h, num)
  BY <1>2
<1> DEFINE g == [n \in 0 .. num |-> h[n]]
<1>4. ASSUME NEW n \in 0 .. num PROVE g[n] = Up(g, n)
  <2>1. h[n] = Up(h, n) /\ g[n] = h[n]
    BY <1>3
  <2>2. n \div 10 \in 0 .. num
    <3>1. n \in Nat
      OBVIOUS
    <3>2. n \div 10 \in Nat /\ n \div 10 <= n
      BY <3>1, Tenth
    <3>3. QED
      BY <3>2
  <2>3. g[n \div 10] = h[n \div 10]
    BY <2>2
  <2> HIDE DEF g
  <2>4. Up(g, n) = Up(h, n)
    BY <2>3 DEF Up
  <2>5. QED
    BY <2>1, <2>4
<1>5. g = [n \in 0 .. num |-> g[n]]
  OBVIOUS
<1> HIDE DEF g
<1>6. g = [n \in 0 .. num |-> Up(g, n)]
  BY <1>4, <1>5
<1>7. QED
  BY <1>6

LEMMA DigitsSolve ==
  ASSUME NEW num \in Nat
  PROVE  \E h : (\A n \in 0 .. num : h[n] = Up(h, n)) /\ DigitsUp(num) = h[num]
<1> DEFINE Rec(h) == h = [n \in 0 .. num |-> Up(h, n)]
           r == CHOOSE h : Rec(h)
<1>1. \E h : Rec(h)
  BY DigitsSolvable
<1>2. DigitsUp(num) = r[num]
  BY DEF DigitsUp, Up
<1> HIDE DEF Rec
<1>3. Rec(r)
  BY <1>1, Zenon
<1> HIDE DEF r
<1>4. \A n \in 0 .. num : r[n] = Up(r, n)
  <2>1. r = [n \in 0 .. num |-> Up(r, n)]
    BY <1>3 DEF Rec
  <2>2. QED
    BY <2>1
<1>5. QED
  BY <1>2, <1>4

(* The digits s of n, the last one first: v[j] is the number of the first  *)
(* j of them, read from the front.                                         *)
Spells(s, v, n) ==
  /\ s \in Seq(Glyph) /\ v \in [0 .. Len(s) -> Nat]
  /\ v[0] = 0 /\ v[Len(s)] = n
  /\ \A j \in 1 .. Len(s) : /\ v[j - 1] = v[j] \div 10
                            /\ s[Len(s) + 1 - j] = Char(v[j] % 10)
  /\ \A j \in 0 .. Len(s) : v[j] <= n

LEMMA OneMore ==
  ASSUME NEW n \in Nat, NEW s, NEW v, Spells(s, v, n \div 10)
  PROVE  \E w : Spells(<<Char(n % 10)>> \o s, w, n)
<1>1. PICK l \in Nat : l = Len(s) /\ s \in Seq(Glyph)
  BY DEF Spells
<1>2. /\ v \in [0 .. l -> Nat] /\ v[0] = 0 /\ v[l] = n \div 10
      /\ \A j \in 1 .. l : v[j - 1] = v[j] \div 10 /\ s[l + 1 - j] = Char(v[j] % 10)
      /\ \A j \in 0 .. l : v[j] <= n \div 10
  BY <1>1 DEF Spells
<1>3. PICK c \in Glyph : c = Char(n % 10)
  BY Tenth, DigitChars
<1>4. PICK t \in Seq(Glyph) : t = <<c>> \o s /\ Len(t) = l + 1 /\ t[1] = c
                              /\ \A i \in 1 .. l : t[i + 1] = s[i]
  <2>1. PICK z \in Seq(Glyph) : z = <<c>> /\ Len(z) = 1 /\ z[1] = c
    <3>1. <<c>> \in Seq(Glyph) /\ Len(<<c>>) = 1 /\ <<c>>[1] = c
      OBVIOUS
    <3>2. QED
      BY <3>1
  <2>2. /\ z \o s \in Seq(Glyph) /\ Len(z \o s) = 1 + l
        /\ \A i \in 1 .. 1 + l : (z \o s)[i] = IF i <= 1 THEN z[i] ELSE s[i - 1]
    BY <1>1, <2>1, ConcatProperties
  <2>3. PICK t : t = z \o s
    OBVIOUS
  <2>4. t[1] = c
    BY <2>1, <2>2, <2>3
  <2>5. \A i \in 1 .. l : t[i + 1] = s[i]
    <3>1. TAKE i \in 1 .. l
    <3>2. i + 1 \in 1 .. 1 + l /\ ~(i + 1 <= 1) /\ (i + 1) - 1 = i
      OBVIOUS
    <3>3. QED
      BY <2>2, <2>3, <3>2
  <2>6. t \in Seq(Glyph) /\ t = <<c>> \o s
    BY <2>1, <2>2, <2>3
  <2>7. Len(t) = l + 1
    BY <2>2, <2>3
  <2>8. QED
    BY <2>4, <2>5, <2>6, <2>7
<1> DEFINE w == [j \in 0 .. l + 1 |-> IF j = l + 1 THEN n ELSE v[j]]
<1>5. w \in [0 .. l + 1 -> Nat] /\ w[0] = 0 /\ w[l + 1] = n
  BY <1>2
<1>6. ASSUME NEW j \in 1 .. l + 1
      PROVE  w[j - 1] = w[j] \div 10 /\ t[(l + 1) + 1 - j] = Char(w[j] % 10)
  <2>1. CASE j = l + 1
    <3>1. w[j] = n /\ w[j - 1] = v[l] /\ (l + 1) + 1 - j = 1
      BY <2>1
    <3>2. QED
      BY <1>2, <1>3, <1>4, <3>1
  <2>2. CASE j # l + 1
    <3>1. j \in 1 .. l /\ w[j] = v[j] /\ w[j - 1] = v[j - 1]
      BY <2>2
    <3>2. l + 1 - j \in 1 .. l /\ (l + 1) + 1 - j = (l + 1 - j) + 1
      BY <3>1
    <3>3. t[(l + 1) + 1 - j] = s[l + 1 - j]
      BY <1>4, <3>2
    <3>4. QED
      BY <1>2, <3>1, <3>3
  <2>3. QED
    BY <2>1, <2>2
<1>7. \A j \in 0 .. l + 1 : w[j] <= n
  <2>1. n \div 10 \in Nat /\ n \div 10 <= n
    BY Tenth
  <2>2. TAKE j \in 0 .. l + 1
  <2>3. CASE j = l + 1
    BY <2>3
  <2>4. CASE j # l + 1
    <3>1. j \in 0 .. l /\ w[j] = v[j] /\ v[j] \in Nat
      BY <1>2, <2>4
    <3>2. QED
      BY <1>2, <2>1, <3>1
  <2>5. QED
    BY <2>3, <2>4
<1> HIDE DEF w
<1>8. Spells(t, w, n)
  BY <1>4, <1>5, <1>6, <1>7 DEF Spells
<1>9. QED
  BY <1>3, <1>4, <1>8

LEMMA DigitsSpell ==
  ASSUME NEW num \in Nat
  PROVE  \E v : Spells(DigitsUp(num), v, num)
<1>1. PICK h : (\A n \in 0 .. num : h[n] = Up(h, n)) /\ DigitsUp(num) = h[num]
  BY DigitsSolve
<1> DEFINE T == {n \in 0 .. num : ~\E v : Spells(h[n], v, n)}
<1>2. ASSUME T # {} PROVE FALSE
  <2>1. T \in SUBSET Nat
    OBVIOUS
  <2>2. PICK n \in T : \A y \in T : n <= y
    BY <1>2, <2>1, LeastOfNat
  <2>3. CASE n = 0
    <3>1. h[n] = <<>>
      BY <1>1, <2>3 DEF Up
    <3> DEFINE v == [j \in 0 .. 0 |-> 0]
    <3>2. Spells(<<>>, v, 0)
      BY DEF Spells
    <3>3. QED
      BY <2>2, <2>3, <3>1, <3>2
  <2>4. CASE n # 0
    <3>1. n \in Nat /\ n > 0
      BY <2>4
    <3>2. PICK e \in Nat : e = n \div 10 /\ e < n
      BY <3>1, Tenth
    <3>3. e \in 0 .. num /\ ~(n <= e)
      BY <3>2
    <3>4. PICK v : Spells(h[e], v, e)
      BY <2>2, <3>3
    <3>5. \E w : Spells(<<Char(n % 10)>> \o h[e], w, n)
      BY <3>1, <3>2, <3>4, OneMore
    <3>6. h[n] = <<Char(n % 10)>> \o h[e]
      BY <1>1, <2>4, <3>2 DEF Up
    <3>7. QED
      BY <2>2, <3>5, <3>6
  <2>5. QED
    BY <2>3, <2>4
<1>3. num \in 0 .. num /\ num \notin T
  <2>1. num \notin T
    BY ONLY <1>2
  <2>2. QED
    BY <2>1
<1>4. QED
  BY <1>1, <1>3

(* What uint_to_str leaves of a number u: its digits, the first one first. *)
LEMMA UintSpells ==
  ASSUME NEW u \in Nat
  PROVE  \E t \in Seq(Glyph), l \in Nat \ {0} : \E v \in [0 .. l -> Nat] :
           /\ t = UintToStr(u) /\ Len(t) = l /\ v[0] = 0 /\ v[l] = u
           /\ \A j \in 1 .. l : v[j - 1] = v[j] \div 10 /\ t[j] = Char(v[j] % 10)
           /\ \A j \in 1 .. l : v[j] <= u
<1>1. CASE u = 0
  <2>1. PICK c \in Glyph : c = Char(0) /\ c = "0"
    <3>1. 0 \in 0 .. 9
      OBVIOUS
    <3>2. Char(0) \in Glyph
      BY <3>1, DigitChars
    <3>3. Char(0) = "0"
      BY DEF Char, Numeral
    <3>4. QED
      BY <3>2, <3>3
  <2>2. PICK t \in Seq(Glyph) : t = <<c>> /\ Len(t) = 1 /\ t[1] = c
    <3>1. <<c>> \in Seq(Glyph) /\ Len(<<c>>) = 1 /\ <<c>>[1] = c
      OBVIOUS
    <3>2. QED
      BY <3>1
  <2>3. UintToStr(u) = t
    BY <1>1, <2>1, <2>2 DEF UintToStr
  <2>4. PICK v \in [0 .. 1 -> Nat] : v[0] = 0 /\ v[1] = 0
    <3> DEFINE w == [j \in 0 .. 1 |-> 0]
    <3>1. w \in [0 .. 1 -> Nat] /\ w[0] = 0 /\ w[1] = 0
      OBVIOUS
    <3>2. QED
      BY <3>1
  <2>5. 0 \div 10 = 0 /\ 0 % 10 = 0
    OBVIOUS
  <2>6. \A j \in 1 .. 1 : v[j - 1] = v[j] \div 10 /\ t[j] = Char(v[j] % 10)
    <3>1. TAKE j \in 1 .. 1
    <3>2. j = 1 /\ j - 1 = 0
      OBVIOUS
    <3>3. QED
      BY <2>1, <2>2, <2>4, <2>5, <3>2
  <2>7. v[1] = u /\ 1 \in Nat \ {0}
    BY <1>1, <2>4
  <2>8. QED
    <3>1. \A j \in 1 .. 1 : v[j] <= u
      <4>1. TAKE j \in 1 .. 1
      <4>2. j = 1
        OBVIOUS
      <4>3. QED
        BY <1>1, <2>4, <4>2
    <3>2. QED
      BY <2>2, <2>3, <2>4, <2>6, <2>7, <3>1
<1>2. CASE u # 0
  <2>1. PICK s : s = DigitsUp(u)
    OBVIOUS
  <2>2. PICK v : Spells(s, v, u)
    BY <2>1, DigitsSpell
  <2>3. PICK l \in Nat : l = Len(s) /\ s \in Seq(Glyph) /\ DOMAIN s = 1 .. l
    BY <2>2 DEF Spells
  <2>4. /\ v \in [0 .. l -> Nat] /\ v[0] = 0 /\ v[l] = u
        /\ \A j \in 1 .. l : v[j - 1] = v[j] \div 10 /\ s[l + 1 - j] = Char(v[j] % 10)
    BY <2>2, <2>3 DEF Spells
  <2>5. l # 0
    BY <1>2, <2>4
  <2>6. UintToStr(u) = SwapStr(s, 1, l)
    BY <1>2, <2>1, <2>3 DEF UintToStr
  <2>7. SwapStr(s, 1, l) = [i \in 1 .. l |-> s[1 + l - i]]
    BY <2>3 DEF SwapStr
  <2>8. PICK t \in Seq(Glyph) : t = UintToStr(u) /\ Len(t) = l /\ \A i \in 1 .. l : t[i] = s[1 + l - i]
    <3>1. \A i \in 1 .. l : s[1 + l - i] \in Glyph
      <4>1. TAKE i \in 1 .. l
      <4>2. 1 + l - i \in 1 .. l
        OBVIOUS
      <4>3. QED
        BY <2>3, <4>2
    <3>2. PICK f : f = [i \in 1 .. l |-> s[1 + l - i]]
      OBVIOUS
    <3>3. f \in Seq(Glyph) /\ Len(f) = l /\ \A i \in 1 .. l : f[i] = s[1 + l - i]
      BY <3>1, <3>2
    <3>4. QED
      BY <2>6, <2>7, <3>2, <3>3
  <2>9. \A j \in 1 .. l : v[j - 1] = v[j] \div 10 /\ t[j] = Char(v[j] % 10)
    <3>1. TAKE j \in 1 .. l
    <3>2. t[j] = s[1 + l - j] /\ 1 + l - j = l + 1 - j
      BY <2>8
    <3>3. QED
      BY <2>4, <3>2
  <2>10. l \in Nat \ {0}
    BY <2>3, <2>5
  <2>11. \A j \in 1 .. l : v[j] <= u
    BY <2>2, <2>3 DEF Spells
  <2>12. QED
    BY <2>4, <2>8, <2>9, <2>10, <2>11
<1>3. QED
  BY <1>1, <1>2

-----------------------------------------------------------------------------
(* atoi.  What it does at a place, if h is what it does behind it.         *)
Read(str, h, p) ==
  LET i == p[1]  x == p[2] IN
  IF i > Len(str) \/ ~IsDigit(str[i]) THEN x
  ELSE LET y == x * 10 + Value(str[i])
       IN  IF y >= 2^(Bits - 1) THEN Overflow ELSE h[<<i + 1, y>>]

ReadPlaces(str) == (1 .. Len(str) + 1) \X Nat

LEMMA DigitValue ==
  ASSUME NEW c, IsDigit(c)
  PROVE  Value(c) \in 0 .. 9
<1>1. PICK i \in 0 .. 9 : Char(i) = c
  BY DEF IsDigit
<1>2. QED
  BY <1>1, DigitChars

LEMMA ReadBehind ==
  ASSUME NEW str \in Seq(Glyph), NEW h, NEW g, NEW i \in Nat, NEW x \in Nat,
         <<i, x>> \in ReadPlaces(str),
         \A q \in ReadPlaces(str) : q[1] > i => h[q] = g[q]
  PROVE  Read(str, h, <<i, x>>) = Read(str, g, <<i, x>>)
<1>1. PICK l \in Nat : l = Len(str)
  OBVIOUS
<1>2. CASE i > l \/ ~IsDigit(str[i])
  BY <1>1, <1>2 DEF Read
<1>3. CASE i <= l /\ IsDigit(str[i])
  <2>1. PICK y \in Nat : y = x * 10 + Value(str[i])
    <3>1. Value(str[i]) \in 0 .. 9
      BY <1>3, DigitValue
    <3>2. QED
      BY <3>1
  <2>2. PICK q \in ReadPlaces(str) : q = <<i + 1, y>> /\ q[1] > i
    <3>1. i \in 1 .. Len(str) + 1
      BY DEF ReadPlaces
    <3>2. i + 1 \in 1 .. Len(str) + 1 /\ i + 1 > i
      BY <1>1, <1>3, <3>1
    <3>3. PICK q : q = <<i + 1, y>>
      OBVIOUS
    <3>4. q \in ReadPlaces(str) /\ q[1] = i + 1
      BY <2>1, <3>2, <3>3 DEF ReadPlaces
    <3>5. QED
      BY <3>2, <3>3, <3>4
  <2>3. h[q] = g[q]
    BY <2>2
  <2>4. /\ Read(str, h, <<i, x>>) = IF y >= 2^(Bits - 1) THEN Overflow ELSE h[q]
        /\ Read(str, g, <<i, x>>) = IF y >= 2^(Bits - 1) THEN Overflow ELSE g[q]
    BY <1>1, <1>3, <2>1, <2>2 DEF Read
  <2>5. QED
    BY <2>3, <2>4
<1>4. QED
  BY <1>1, <1>2, <1>3

SolvesRead(str, h, j) ==
  \A p \in ReadPlaces(str) : p[1] >= j => h[p] = Read(str, h, p)

LEMMA ReadSolvable ==
  ASSUME NEW str \in Seq(Glyph)
  PROVE  \E h : h = [p \in ReadPlaces(str) |-> Read(str, h, p)]
<1>1. PICK l \in Nat : l = Len(str)
  OBVIOUS
<1> DEFINE T == {n \in 0 .. l + 1 : ~\E h : SolvesRead(str, h, l + 2 - n)}
<1>2. ASSUME T # {} PROVE FALSE
  <2>1. T \in SUBSET Nat
    OBVIOUS
  <2>2. PICK n \in T : \A y \in T : n <= y
    BY <1>2, <2>1, LeastOfNat
  <2>3. \A p \in ReadPlaces(str) : /\ p = <<p[1], p[2]>> /\ p[1] \in Nat /\ p[2] \in Nat
                                   /\ p[1] <= l + 1
    BY <1>1 DEF ReadPlaces
  <2>4. CASE n = 0
    <3>1. SolvesRead(str, str, l + 2)
      BY <2>3 DEF SolvesRead
    <3>2. QED
      BY <2>2, <2>4, <3>1
  <2>5. CASE n # 0
    <3>1. n - 1 \in 0 .. l + 1 /\ ~(n <= n - 1)
      BY <2>5
    <3>2. PICK h : SolvesRead(str, h, l + 2 - (n - 1))
      BY <2>2, <3>1
    <3>3. PICK j \in Nat : j = l + 2 - n /\ l + 2 - (n - 1) = j + 1
      OBVIOUS
    <3> DEFINE g == [p \in ReadPlaces(str) |->
                      IF p[1] = j THEN Read(str, h, p) ELSE h[p]]
    <3>4. ASSUME NEW p \in ReadPlaces(str), p[1] >= j
          PROVE  g[p] = Read(str, g, p)
      <4>1. PICK i \in Nat, x \in Nat : p = <<i, x>> /\ i = p[1]
        BY <2>3
      <4>2. i >= j
        BY <3>4, <4>1
      <4>3. \A q \in ReadPlaces(str) : q[1] > i => h[q] = g[q]
        <5>1. TAKE q \in ReadPlaces(str)
        <5>2. q[1] > i => q[1] # j
          BY <2>3, <4>2
        <5>3. QED
          BY <5>2
      <4> HIDE DEF g
      <4>4. Read(str, h, p) = Read(str, g, p)
        <5>1. <<i, x>> \in ReadPlaces(str)
          BY <4>1
        <5>2. Read(str, h, <<i, x>>) = Read(str, g, <<i, x>>)
          BY ONLY <4>3, <5>1, i \in Nat, x \in Nat, str \in Seq(Glyph), ReadBehind
        <5>3. QED
          BY <4>1, <5>2
      <4>5. i # j => h[p] = Read(str, h, p)
        <5>1. i # j => i >= j + 1
          BY <4>2
        <5>2. QED
          BY <3>2, <3>3, <4>1, <5>1 DEF SolvesRead
      <4>6. g[p] = IF p[1] = j THEN Read(str, h, p) ELSE h[p]
        BY DEF g
      <4>7. QED
        BY <4>1, <4>4, <4>5, <4>6
    <3> HIDE DEF g
    <3>5. SolvesRead(str, g, j)
      BY <3>4 DEF SolvesRead
    <3>6. QED
      BY <2>2, <3>3, <3>5
  <2>6. QED
    BY <2>4, <2>5
<1>3. l + 1 \in 0 .. l + 1 /\ l + 2 - (l + 1) = 1 /\ l + 1 \notin T
  <2>1. l + 1 \notin T
    BY ONLY <1>2
  <2>2. QED
    BY <2>1
<1>4. PICK h : SolvesRead(str, h, 1)
  BY <1>3
<1> DEFINE g == [p \in ReadPlaces(str) |-> h[p]]
<1>5. ASSUME NEW p \in ReadPlaces(str)
      PROVE  g[p] = Read(str, g, p)
  <2>1. PICK i \in Nat, x \in Nat : p = <<i, x>> /\ i = p[1] /\ i >= 1
    BY <1>1 DEF ReadPlaces
  <2>2. \A q \in ReadPlaces(str) : q[1] > i => h[q] = g[q]
    OBVIOUS
  <2>3. g[p] = h[p]
    OBVIOUS
  <2> HIDE DEF g
  <2>4. Read(str, h, p) = Read(str, g, p)
    BY <2>1, <2>2, ReadBehind
  <2>5. h[p] = Read(str, h, p)
    BY <1>4, <2>1 DEF SolvesRead
  <2>6. QED
    BY <2>3, <2>4, <2>5
<1>6. g = [p \in ReadPlaces(str) |-> g[p]]
  OBVIOUS
<1> HIDE DEF g
<1>7. g = [p \in ReadPlaces(str) |-> Read(str, g, p)]
  BY <1>5, <1>6
<1>8. QED
  BY <1>7

(* Where the blanks of a text end, if they do.                             *)
BlanksAre(str, b) ==
  /\ \A j \in 1 .. b : str[j] = " "
  /\ b < Len(str) => str[b + 1] # " "

LEMMA AtoiSolves ==
  ASSUME NEW str \in Seq(Glyph), NEW b \in 0 .. Len(str), b < Len(str), BlanksAre(str, b)
  PROVE  \E h : /\ \A p \in ReadPlaces(str) : h[p] = Read(str, h, p)
                /\ Atoi(str) = h[<<b + 1, 0>>]
<1> DEFINE Rec(h) == h = [p \in ReadPlaces(str) |-> Read(str, h, p)]
           r == CHOOSE h : Rec(h)
           c == CHOOSE n \in 0 .. Len(str) : BlanksAre(str, n)
<1>1. \E h : Rec(h)
  BY ReadSolvable
<1>2. Atoi(str) = r[<<c + 1, 0>>]
  BY DEF Atoi, ReadPlaces, Read, BlanksAre
<1> HIDE DEF Rec
<1>3. Rec(r)
  BY <1>1, Zenon
<1> HIDE DEF r
<1>4. \A p \in ReadPlaces(str) : r[p] = Read(str, r, p)
  <2>1. r = [p \in ReadPlaces(str) |-> Read(str, r, p)]
    BY <1>3 DEF Rec
  <2>2. QED
    BY <2>1
<1>5. c \in 0 .. Len(str) /\ BlanksAre(str, c)
  BY Zenon
<1> HIDE DEF c
<1>6. c = b
  <2>1. PICK l \in Nat : l = Len(str)
    OBVIOUS
  <2>2. PICK n \in 0 .. l : n = c
    BY <1>5, <2>1
  <2>3. CASE n < b
    <3>1. n + 1 \in 1 .. b
      BY <2>1, <2>3
    <3>2. n < Len(str)
      BY <2>1, <2>3
    <3>3. str[n + 1] = " " /\ str[n + 1] # " "
      BY <1>5, <2>2, <3>1, <3>2 DEF BlanksAre
    <3>4. QED
      BY <3>3
  <2>4. CASE b < n
    <3>1. b + 1 \in 1 .. n
      BY <2>1, <2>4
    <3>2. str[b + 1] = " " /\ str[b + 1] # " "
      BY <1>5, <2>2, <3>1 DEF BlanksAre
    <3>3. QED
      BY <3>2
  <2>5. QED
    BY <2>1, <2>2, <2>3, <2>4
<1>7. QED
  BY <1>2, <1>4, <1>6

(* Blanks, the text of a number, and a character that is no digit.         *)
Pads(b, t, l, str) ==
  /\ str = Blanks(b) \o t \o <<"x">> /\ Len(str) = b + l + 1
  /\ \A j \in 1 .. b : str[j] = " "
  /\ \A j \in 1 .. l : str[b + j] = t[j]
  /\ str[b + l + 1] = "x"

LEMMA Padded ==
  ASSUME NEW b \in Nat, NEW t \in Seq(Glyph), NEW l \in Nat, l = Len(t)
  PROVE  \E str \in Seq(Glyph) : Pads(b, t, l, str)
<1>1. PICK p \in Seq(Glyph) : p = Blanks(b) /\ Len(p) = b /\ \A j \in 1 .. b : p[j] = " "
  <2>1. PICK p : p = [i \in 1 .. b |-> " "]
    OBVIOUS
  <2>2. PICK c \in Glyph : c = " "
    BY DEF Glyph
  <2>3. p = [i \in 1 .. b |-> c]
    BY <2>1, <2>2
  <2>4. p \in Seq(Glyph) /\ Len(p) = b /\ \A j \in 1 .. b : p[j] = c
    BY <2>3
  <2>5. QED
    BY <2>1, <2>2, <2>4 DEF Blanks
<1>2. PICK z \in Seq(Glyph) : z = <<"x">> /\ Len(z) = 1 /\ z[1] = "x"
  <2>1. "x" \in Glyph
    BY DEF Glyph
  <2>2. <<"x">> \in Seq(Glyph) /\ Len(<<"x">>) = 1 /\ <<"x">>[1] = "x"
    BY <2>1
  <2>3. QED
    BY <2>2
<1>3. Len(t) = l /\ l \in Nat
  OBVIOUS
<1>4. PICK q \in Seq(Glyph) :
        /\ q = p \o t /\ Len(q) = b + l
        /\ \A i \in 1 .. b + l : q[i] = IF i <= b THEN p[i] ELSE t[i - b]
  <2>1. /\ p \o t \in Seq(Glyph) /\ Len(p \o t) = Len(p) + Len(t)
        /\ \A i \in 1 .. Len(p) + Len(t) :
             (p \o t)[i] = IF i <= Len(p) THEN p[i] ELSE t[i - Len(p)]
    BY ConcatProperties
  <2>2. Len(p) = b /\ Len(p) + Len(t) = b + l
    BY <1>1, <1>3
  <2>3. PICK q : q = p \o t
    OBVIOUS
  <2>4. \A i \in 1 .. b + l : q[i] = IF i <= b THEN p[i] ELSE t[i - b]
    BY <2>1, <2>2, <2>3
  <2>5. q \in Seq(Glyph) /\ Len(q) = b + l
    BY <2>1, <2>2, <2>3
  <2>6. QED
    BY <2>3, <2>4, <2>5
<1>5. PICK str \in Seq(Glyph) :
        /\ str = q \o z /\ Len(str) = b + l + 1
        /\ \A i \in 1 .. b + l + 1 : str[i] = IF i <= b + l THEN q[i] ELSE z[i - (b + l)]
  <2>1. /\ q \o z \in Seq(Glyph) /\ Len(q \o z) = Len(q) + Len(z)
        /\ \A i \in 1 .. Len(q) + Len(z) :
             (q \o z)[i] = IF i <= Len(q) THEN q[i] ELSE z[i - Len(q)]
    BY ConcatProperties
  <2>2. Len(q) + Len(z) = b + l + 1
    BY <1>2, <1>4
  <2>3. PICK str : str = q \o z
    OBVIOUS
  <2>4. \A i \in 1 .. b + l + 1 : str[i] = IF i <= b + l THEN q[i] ELSE z[i - (b + l)]
    BY <1>4, <2>1, <2>2, <2>3
  <2>5. QED
    BY <2>1, <2>2, <2>3, <2>4
<1>6. ASSUME NEW j \in 1 .. b PROVE str[j] = " "
  <2>1. j \in 1 .. b + l /\ j \in 1 .. b + l + 1 /\ j <= b /\ j <= b + l
    OBVIOUS
  <2>2. QED
    BY <1>1, <1>4, <1>5, <2>1
<1>7. ASSUME NEW j \in 1 .. l PROVE str[b + j] = t[j]
  <2>1. /\ b + j \in 1 .. b + l /\ b + j \in 1 .. b + l + 1
        /\ ~(b + j <= b) /\ b + j <= b + l /\ (b + j) - b = j
    OBVIOUS
  <2>2. QED
    BY <1>4, <1>5, <2>1
<1>8. str[b + l + 1] = "x"
  <2>1. /\ b + l + 1 \in 1 .. b + l + 1 /\ ~(b + l + 1 <= b + l)
        /\ (b + l + 1) - (b + l) = 1
    OBVIOUS
  <2>2. QED
    BY <1>2, <1>5, <2>1
<1>9. str = Blanks(b) \o t \o <<"x">>
  BY <1>1, <1>2, <1>4, <1>5
<1>10. QED
  BY <1>5, <1>6, <1>7, <1>8, <1>9 DEF Pads

LEMMA AtoiReads ==
  ASSUME NEW u \in Nat, u < 2^(Bits - 1), NEW b \in Nat
  PROVE  Atoi(Blanks(b) \o UintToStr(u) \o <<"x">>) = u
<1>t. PICK t \in Seq(Glyph), l \in Nat \ {0} : \E v \in [0 .. l -> Nat] :
        /\ t = UintToStr(u) /\ Len(t) = l /\ v[0] = 0 /\ v[l] = u
        /\ \A j \in 1 .. l : v[j - 1] = v[j] \div 10 /\ t[j] = Char(v[j] % 10)
        /\ \A j \in 1 .. l : v[j] <= u
  BY UintSpells
<1>1. PICK v \in [0 .. l -> Nat] :
        /\ t = UintToStr(u) /\ Len(t) = l /\ v[0] = 0 /\ v[l] = u
        /\ \A j \in 1 .. l : v[j - 1] = v[j] \div 10 /\ t[j] = Char(v[j] % 10)
        /\ \A j \in 1 .. l : v[j] <= u
  BY <1>t
<1>2. PICK str \in Seq(Glyph) :
        /\ str = Blanks(b) \o t \o <<"x">> /\ Len(str) = b + l + 1
        /\ \A j \in 1 .. b : str[j] = " "
        /\ \A j \in 1 .. l : str[b + j] = t[j]
        /\ str[b + l + 1] = "x"
  <2>1. l \in Nat /\ l = Len(t)
    BY <1>1
  <2>2. \E str \in Seq(Glyph) : Pads(b, t, l, str)
    BY ONLY <2>1, b \in Nat, t \in Seq(Glyph), Padded
  <2>3. QED
    BY <2>2 DEF Pads
<1>3. ASSUME NEW j \in 1 .. l
      PROVE  /\ str[b + j] # " " /\ IsDigit(str[b + j])
             /\ v[j - 1] \in Nat /\ v[j] \in Nat
             /\ v[j - 1] * 10 + Value(str[b + j]) = v[j]
  <2>1. j - 1 \in 0 .. l /\ j \in 0 .. l
    OBVIOUS
  <2>2. PICK n \in Nat : n = v[j]
    BY <1>1, <2>1
  <2>3. PICK c \in 0 .. 9, d \in Nat : c = n % 10 /\ d = n \div 10 /\ n = d * 10 + c
    BY <2>2, Tenth
  <2>4. str[b + j] = Char(c) /\ v[j - 1] = d
    BY <1>1, <1>2, <2>2, <2>3
  <2>5. QED
    BY <2>2, <2>3, <2>4, DigitChars
<1>4. b \in 0 .. Len(str) /\ b < Len(str) /\ BlanksAre(str, b)
  <2>1. b + l + 1 \in Nat /\ b < b + l + 1 /\ 1 \in 1 .. l
    OBVIOUS
  <2>2. str[b + 1] # " "
    BY <1>3, <2>1
  <2>3. BlanksAre(str, b)
    BY <1>2, <2>2 DEF BlanksAre
  <2>4. PICK k \in Nat : k = b + l + 1 /\ b \in 0 .. k /\ b < k
    OBVIOUS
  <2>5. QED
    BY <1>2, <2>3, <2>4
<1>5. PICK h : /\ \A p \in ReadPlaces(str) : h[p] = Read(str, h, p)
               /\ Atoi(str) = h[<<b + 1, 0>>]
  BY <1>4, AtoiSolves
<1>6. \A j \in 0 .. l, x \in Nat :
        /\ <<b + 1 + j, x>> \in ReadPlaces(str)
        /\ h[<<b + 1 + j, x>>] = Read(str, h, <<b + 1 + j, x>>)
  <2>1. TAKE j \in 0 .. l, x \in Nat
  <2>2. b + 1 + j \in 1 .. (b + l + 1) + 1
    OBVIOUS
  <2>3. <<b + 1 + j, x>> \in ReadPlaces(str)
    BY <1>2, <2>2 DEF ReadPlaces
  <2>4. QED
    BY <1>5, <2>3
<1> DEFINE T == {n \in 0 .. l : h[<<b + 1 + (l - n), v[l - n]>>] # u}
<1>7. ASSUME T # {} PROVE FALSE
  <2>1. T \in SUBSET Nat
    OBVIOUS
  <2>2. PICK n \in T : \A y \in T : n <= y
    BY <1>7, <2>1, LeastOfNat
  <2>3. PICK j \in 0 .. l : j = l - n
    OBVIOUS
  <2>4. PICK x \in Nat : x = v[j]
    BY <1>1, <2>3
  <2>5. h[<<b + 1 + j, x>>] # u /\ h[<<b + 1 + j, x>>] = Read(str, h, <<b + 1 + j, x>>)
    BY <1>6, <2>2, <2>3, <2>4
  <2>6. CASE j = l
    <3>0. b + 1 + j = b + l + 1
      BY <2>6
    <3>1. str[b + 1 + j] = "x" /\ ~IsDigit("x")
      BY <1>2, <3>0, NoDigit
    <3>2. Read(str, h, <<b + 1 + j, x>>) = x
      BY <3>1 DEF Read
    <3>3. QED
      BY <1>1, <2>4, <2>5, <2>6, <3>2
  <2>7. CASE j # l
    <3>1. PICK k \in 1 .. l : k = j + 1 /\ k - 1 = j /\ b + 1 + j = b + k
      BY <2>7
    <3>2. PICK y \in Nat : y = v[k] /\ IsDigit(str[b + k]) /\ x * 10 + Value(str[b + k]) = y
      BY <1>3, <2>4, <3>1
    <3>3. b + k \in Nat /\ ~(b + k > b + l + 1) /\ (b + k) + 1 = b + 1 + k
      OBVIOUS
    <3>4. Read(str, h, <<b + k, x>>) = h[<<b + 1 + k, y>>]
      <4>1. y <= u
        BY <1>1, <3>2
      <4>2. ~(y >= 2^(Bits - 1))
        BY <4>1, BitsAssumption
      <4>3. QED
        BY <1>2, <3>2, <3>3, <4>2 DEF Read
    <3>5. h[<<b + 1 + k, y>>] = u
      <4>1. n - 1 \in 0 .. l /\ ~(n <= n - 1) /\ l - (n - 1) = k
        BY <2>3, <2>7, <3>1
      <4>2. n - 1 \notin T
        BY <2>2, <4>1
      <4>3. QED
        BY <3>2, <4>1, <4>2
    <3>6. QED
      BY <2>5, <3>1, <3>4, <3>5
  <2>8. QED
    BY <2>6, <2>7
<1>8. h[<<b + 1 + 0, v[0]>>] = u
  <2>1. l \in 0 .. l /\ l - l = 0
    OBVIOUS
  <2>2. l \notin T
    BY ONLY <1>7
  <2>3. QED
    BY <2>1, <2>2
<1>9. b + 1 + 0 = b + 1
  OBVIOUS
<1>10. QED
  BY <1>1, <1>2, <1>5, <1>8, <1>9

LEMMA AtoiRight == KlibInv => AtoiReadsBack
<1> SUFFICES ASSUME KlibInv, Done("atoi") PROVE ret[1] = call.u
  BY DEF AtoiReadsBack
<1>1. /\ call.op = "atoi" /\ call.u \in Uints /\ call.u < 2^(Bits - 1)
      /\ call.b \in 0 .. 2 /\ ret[1] = Result
  BY DEF Done, KlibInv, Number, Returns
<1>2. PICK u \in Nat : u = call.u
  <2>1. call.u \in 0 .. 2^Bits - 1
    BY <1>1, BitsAssumption
  <2>2. QED
    BY <2>1
<1>3. PICK b \in Nat : b = call.b
  BY <1>1
<1>4. ret[1] = Atoi(Blanks(b) \o UintToStr(u) \o <<"x">>)
  BY <1>1, <1>2, <1>3 DEF Result
<1>5. QED
  BY <1>1, <1>2, <1>4, AtoiReads

(* Whatever int that is not negative uint_to_str has written, behind any   *)
(* of the blanks of a call, atoi gives it back: it stops at the character  *)
(* behind the digits, and overflows at none of them.                       *)
THEOREM AtoiReadsNumbers == Spec => []AtoiReadsBack
BY KlibInvariant, AtoiRight, PTL
=============================================================================
