---------------------------- MODULE X86VmeProofs ----------------------------
(***************************************************************************)
(* Page tables, and the TLB that only a write of cr3 empties, implement    *)
(* address spaces: for any number of spaces, threads and pages, and        *)
(* whichever free page the allocator returns.                              *)
(*                                                                         *)
(* The invariant describes the page tables as a forest: a live space owns  *)
(* its directory and, for each present entry outside the kernel's part,    *)
(* one table; no page is owned twice and the owned pages are those that    *)
(* are not free.                                                           *)
(***************************************************************************)
EXTENDS X86Vme, TLAPS

User == Index \ KDir

(* The directory entry of space a at index i.                              *)
Dirent(a, i) == mem[as[a]][i]

(* A page-table entry below a directory of a space.                        *)
LeafEntry ==
  {e \in Pte : e = ZeroPte \/ \E pa \in Pa, w \in Prot : e = Entry(pa, w, TRUE)}

KptEntry(i) == IF i \in KDir THEN Entry(KTab(i), TRUE, FALSE) ELSE ZeroPte

KptKept == mem[Kpt] = [i \in Index |-> KptEntry(i)]

Directories ==
  \A a \in Live : /\ as[a] \notin free
                  /\ \A b \in Live : as[a] = as[b] => a = b

KernelPart == \A a \in Live, k \in KDir : Dirent(a, k) = KptEntry(k)

(* What a present entry of the user area points to.                        *)
UserPart ==
  \A a \in Live, i \in User : Dirent(a, i).p =>
    /\ Dirent(a, i).u
    /\ Dirent(a, i).addr \in Page \ free
    /\ \A b \in Live : Dirent(a, i).addr # as[b]
    /\ mem[Dirent(a, i).addr] \in [Index -> LeafEntry]

TablesOnce ==
  \A a, b \in Live, i, j \in User :
    Dirent(a, i).p /\ Dirent(b, j).p /\ Dirent(a, i).addr = Dirent(b, j).addr
      => a = b /\ i = j

NoLeak ==
  \A q \in Page \ free : \E a \in Live :
    q = as[a] \/ \E i \in User : Dirent(a, i).p /\ q = Dirent(a, i).addr

(* The directory that is loaded, and those that returns will load, exist.  *)
Loaded ==
  /\ cr3 = Kpt \/ \E a \in Live : cr3 = as[a]
  /\ \A t \in KThread :
       \/ ctx[t] \in {Kpt, Null, "new", "gone"}
       \/ \E a \in Live : ctx[t] = as[a]

(* A user thread, once it has a context, returns to its own space.         *)
OwnSpace ==
  \A t \in UThread :
    \/ ctx[t] \in {"new", "gone"}
    \/ AsOf(t) \in Live /\ ctx[t] = as[AsOf(t)]

(* While a user thread runs, its space is loaded and the TLB holds nothing *)
(* that the tables do not say.  In the kernel the TLB may be stale.        *)
Coherent ==
  running \in UThread =>
    /\ AsOf(running) \in Live /\ cr3 = as[AsOf(running)]
    /\ \A va \in Va : tlb[va] # NoLeaf => tlb[va] = Lookup(mem, cr3, va)

Forest == /\ KptKept /\ Directories /\ KernelPart /\ UserPart /\ TablesOnce
          /\ NoLeak

VmeInv == TypeOK /\ Forest /\ Loaded /\ OwnSpace /\ Coherent
-----------------------------------------------------------------------------
(* Where things are.                                                       *)

LEMMA UserPages ==
  ASSUME NEW va \in Va
  PROVE  va[1] \in User /\ va[1] \in Index /\ va[2] \in Index
BY IndexAssumption DEF User

LEMMA FreshPage ==
  ASSUME TypeOK, free # {}
  PROVE  Pick(free) \in free /\ Pick(free) \in Page
<1>1. free \in (SUBSET Page) \ {{}}
  BY DEF TypeOK
<1> QED BY <1>1, PickAssumption DEF TypeOK

LEMMA LiveDirectory ==
  ASSUME TypeOK, NEW a \in Live
  PROVE  /\ a \in Space /\ as[a] \in Page /\ as[a] # Kpt /\ as[a] # Null
         /\ mem[as[a]] \in [Index -> Pte]
<1>1. a \in Space /\ as[a] # Null
  BY DEF Live
<1>2. as[a] \in Page
  BY <1>1 DEF TypeOK
<1> QED BY <1>1, <1>2, PageAssumption DEF TypeOK

LEMMA EntryFields ==
  /\ ~ZeroPte.p /\ ~ZeroPte.u
  /\ \A q, w, u : /\ Entry(q, w, u).p = TRUE /\ Entry(q, w, u).u = u
                 /\ Entry(q, w, u).addr = q /\ Entry(q, w, u).w = w
BY DEF ZeroPte, Entry

LEMMA EntryTypes ==
  /\ ZeroPte \in LeafEntry
  /\ \A pa \in Pa, w \in Prot : Entry(pa, w, TRUE) \in LeafEntry
  /\ LeafEntry \subseteq Pte
  /\ \A q \in Page : PdeFor(q) \in Pte
  /\ \A i \in Index : KptEntry(i) \in Pte
<1>1. ZeroPte \in Pte
  BY DEF ZeroPte, Pte
<1>2. \A q \in Page \cup Pa \cup {Null}, w \in BOOLEAN, u \in BOOLEAN : Entry(q, w, u) \in Pte
  BY DEF Entry, Pte
<1>3. \A k \in KDir : Entry(KTab(k), TRUE, FALSE) \in Pte
  BY DEF Entry, Pte
<1>4. ZeroPte \in LeafEntry /\ LeafEntry \subseteq Pte
  BY <1>1 DEF LeafEntry
<1>5. \A q \in Page : PdeFor(q) \in Pte
  BY <1>2 DEF PdeFor
<1>6. \A i \in Index : KptEntry(i) \in Pte
  BY <1>1, <1>3 DEF KptEntry
<1>7. \A pa \in Pa, w \in Prot : Entry(pa, w, TRUE) \in LeafEntry
  BY <1>2, ProtAssumption DEF LeafEntry
<1> QED BY <1>4, <1>5, <1>6, <1>7

LEMMA PageTypes ==
  /\ ZeroPage \in [Index -> LeafEntry]
  /\ Garbage \in [Index -> Pte]
<1>1. Entry(Null, TRUE, TRUE) \in Pte
  BY DEF Entry, Pte
<1> QED BY <1>1, EntryTypes DEF ZeroPage, Garbage

LEMMA KernelEntries == \A i \in Index : ~KptEntry(i).u
BY EntryFields DEF KptEntry

(* What the MMU finds: the entry of the table, if there is a table.        *)
LeafOf(e) == IF e.p THEN [pa |-> e.addr, w |-> e.w] ELSE NoLeaf

LEMMA LeafOfEntry ==
  ASSUME NEW e \in LeafEntry
  PROVE  /\ LeafOf(e) \in Leaf \cup {NoLeaf}
         /\ (LeafOf(e) = NoLeaf) <=> (e = ZeroPte)
         /\ e.p => e.u
<1>1. CASE e = ZeroPte
  BY <1>1 DEF LeafOf, ZeroPte
<1>2. ASSUME NEW pa \in Pa, NEW w \in Prot, e = Entry(pa, w, TRUE)
      PROVE  /\ LeafOf(e) = [pa |-> pa, w |-> w]
             /\ pa # Null /\ e # ZeroPte /\ e.u
  BY <1>2, PageAssumption DEF LeafOf, Entry, ZeroPte
<1>3. ASSUME NEW pa \in Pa, NEW w \in Prot, pa # Null
      PROVE  [pa |-> pa, w |-> w] \in Leaf /\ [pa |-> pa, w |-> w] # NoLeaf
  BY <1>3 DEF Leaf, NoLeaf
<1> QED BY <1>1, <1>2, <1>3 DEF LeafEntry

LEMMA LookupInSpace ==
  ASSUME TypeOK, UserPart, NEW a \in Live, NEW va \in Va
  PROVE  /\ Lookup(mem, as[a], va) =
              IF Dirent(a, va[1]).p
                THEN LeafOf(mem[Dirent(a, va[1]).addr][va[2]]) ELSE NoLeaf
         /\ Lookup(mem, as[a], va) \in Leaf \cup {NoLeaf}
<1>1. CASE ~Dirent(a, va[1]).p
  BY <1>1 DEF Lookup, Dirent
<1>2. CASE Dirent(a, va[1]).p
  <2>1. /\ Dirent(a, va[1]).u
        /\ mem[Dirent(a, va[1]).addr][va[2]] \in LeafEntry
    BY <1>2, UserPages DEF UserPart
  <2>2. Lookup(mem, as[a], va) = LeafOf(mem[Dirent(a, va[1]).addr][va[2]])
    BY <1>2, <2>1, LeafOfEntry DEF Lookup, Dirent, LeafOf
  <2> QED BY <1>2, <2>1, <2>2, LeafOfEntry
<1> QED BY <1>1, <1>2

(* teardown frees the tables of the user area, and only those.             *)
LEMMA TablesOfSpace ==
  ASSUME TypeOK, KernelPart, UserPart, NEW a \in Live
  PROVE  Tables(as[a]) = {Dirent(a, i).addr : i \in {j \in User : Dirent(a, j).p}}
<1>1. ASSUME NEW j \in Index
      PROVE  (mem[as[a]][j].p /\ mem[as[a]][j].u) <=> (j \in User /\ Dirent(a, j).p)
  <2>1. CASE j \in KDir
    BY <2>1, KernelEntries DEF KernelPart, User, Dirent
  <2>2. CASE j \in User
    BY <2>2 DEF UserPart, User, Dirent
  <2> QED BY <2>1, <2>2 DEF User
<1> QED BY <1>1 DEF Tables, Dirent, User
-----------------------------------------------------------------------------
(* The four ways in which the forest changes.                              *)

TablesTyped ==
  /\ mem \in [Page \cup {Kpt} -> [Index -> Pte]]
  /\ free \subseteq Page
  /\ as \in [Space -> Page \cup {Null}]

(* An entry of a table that is there is written.                           *)
WriteLeaf(a, va, e) ==
  /\ Dirent(a, va[1]).p
  /\ mem' = [mem EXCEPT ![Dirent(a, va[1]).addr][va[2]] = e]
  /\ free' = free /\ as' = as

(* A table with one entry is hung into a directory.                        *)
AddTable(a, va, e) ==
  /\ ~Dirent(a, va[1]).p /\ free # {}
  /\ mem' = [mem EXCEPT ![Pick(free)] = [ZeroPage EXCEPT ![va[2]] = e],
                        ![as[a]] = [@ EXCEPT ![va[1]] = PdeFor(Pick(free))]]
  /\ free' = free \ {Pick(free)} /\ as' = as

NewSpace(a) ==
  /\ as[a] = Null /\ free # {}
  /\ as' = [as EXCEPT ![a] = Pick(free)]
  /\ mem' = [mem EXCEPT ![Pick(free)] = NewDirectory]
  /\ free' = free \ {Pick(free)}

FreedBy(a) == Tables(as[a]) \cup {as[a]}

DropSpace(a) ==
  /\ free' = free \cup FreedBy(a)
  /\ mem' = [q \in DOMAIN mem |-> IF q \in FreedBy(a) THEN Garbage ELSE mem[q]]
  /\ as' = [as EXCEPT ![a] = Null]

LEMMA LeafWritten ==
  ASSUME TypeOK, Forest, NEW a \in Live, NEW va \in Va, NEW e \in LeafEntry,
         WriteLeaf(a, va, e)
  PROVE  LET pt == Dirent(a, va[1]).addr
         IN  /\ mem' \in [Page \cup {Kpt} -> [Index -> Pte]]
             /\ mem'[pt] = [mem[pt] EXCEPT ![va[2]] = e]
             /\ mem'[pt] \in [Index -> LeafEntry]
             /\ \A q \in Page \cup {Kpt} : q # pt => mem'[q] = mem[q]
             /\ Live' = Live
             /\ \A b \in Live, i \in Index : Dirent(b, i)' = Dirent(b, i)
<1> DEFINE pt == Dirent(a, va[1]).addr
<1>1. /\ pt \in Page \ free /\ mem[pt] \in [Index -> LeafEntry]
      /\ \A b \in Live : pt # as[b]
  BY UserPages DEF Forest, UserPart, WriteLeaf
<1> HIDE DEF pt
<1>2. /\ mem' = [mem EXCEPT ![pt] = [mem[pt] EXCEPT ![va[2]] = e]]
      /\ mem \in [Page \cup {Kpt} -> [Index -> Pte]]
  BY DEF WriteLeaf, TypeOK, pt
<1>3. [mem[pt] EXCEPT ![va[2]] = e] \in [Index -> LeafEntry]
  BY <1>1
<1>4. [mem[pt] EXCEPT ![va[2]] = e] \in [Index -> Pte]
  BY <1>3, EntryTypes
<1>5. mem' \in [Page \cup {Kpt} -> [Index -> Pte]]
  BY <1>2, <1>4
<1>6. mem'[pt] = [mem[pt] EXCEPT ![va[2]] = e]
  BY <1>1, <1>2
<1>7. \A q \in Page \cup {Kpt} : q # pt => mem'[q] = mem[q]
  BY <1>2
<1>8. as' = as /\ Live' = Live
  BY DEF WriteLeaf, Live
<1>9. \A b \in Live, i \in Index : Dirent(b, i)' = Dirent(b, i)
  BY <1>1, <1>7, <1>8, LiveDirectory DEF Dirent
<1> QED BY <1>3, <1>5, <1>6, <1>7, <1>8, <1>9 DEF pt

LEMMA LeafWrittenForest ==
  ASSUME TypeOK, Forest, NEW a \in Live, NEW va \in Va, NEW e \in LeafEntry,
         WriteLeaf(a, va, e)
  PROVE  TablesTyped' /\ Forest'
<1> DEFINE pt == Dirent(a, va[1]).addr
<1>1. /\ mem' \in [Page \cup {Kpt} -> [Index -> Pte]]
      /\ mem'[pt] \in [Index -> LeafEntry]
      /\ \A q \in Page \cup {Kpt} : q # pt => mem'[q] = mem[q]
      /\ Live' = Live
      /\ \A b \in Live, i \in Index : Dirent(b, i)' = Dirent(b, i)
  BY LeafWritten
<1>2. free' = free /\ as' = as
  BY DEF WriteLeaf
<1>3. pt \in Page
  BY UserPages DEF Forest, UserPart, WriteLeaf
<1> HIDE DEF pt
<1>4. User \subseteq Index /\ KDir \subseteq Index
  BY IndexAssumption DEF User
<1>5. TablesTyped'
  BY <1>1, <1>2 DEF TablesTyped, TypeOK
<1>6. KptKept'
  BY <1>1, <1>3, PageAssumption DEF Forest, KptKept
<1>7. Directories'
  BY <1>1, <1>2 DEF Forest, Directories
<1>8. KernelPart'
  BY <1>1, <1>4 DEF Forest, KernelPart
<1>9. UserPart'
  <2> SUFFICES ASSUME NEW b \in Live', NEW i \in User, (Dirent(b, i).p)'
               PROVE  (/\ Dirent(b, i).u
                       /\ Dirent(b, i).addr \in Page \ free
                       /\ \A c \in Live : Dirent(b, i).addr # as[c]
                       /\ mem[Dirent(b, i).addr] \in [Index -> LeafEntry])'
    BY DEF UserPart
  <2>1. b \in Live /\ Dirent(b, i)' = Dirent(b, i)
    BY <1>1, <1>4
  <2>2. Dirent(b, i).p
    BY <2>1
  <2>3. /\ Dirent(b, i).u
        /\ Dirent(b, i).addr \in Page \ free
        /\ \A c \in Live : Dirent(b, i).addr # as[c]
        /\ mem[Dirent(b, i).addr] \in [Index -> LeafEntry]
    BY <2>1, <2>2 DEF Forest, UserPart
  <2> QED BY <1>1, <1>2, <2>1, <2>3
<1>10. TablesOnce'
  BY <1>1, <1>4 DEF Forest, TablesOnce
<1>11. NoLeak'
  <2> SUFFICES ASSUME NEW q \in (Page \ free)'
               PROVE  (\E b \in Live : q = as[b] \/
                          \E i \in User : Dirent(b, i).p /\ q = Dirent(b, i).addr)'
    BY DEF NoLeak
  <2>1. PICK b \in Live :
          q = as[b] \/ \E i \in User : Dirent(b, i).p /\ q = Dirent(b, i).addr
    BY <1>2 DEF Forest, NoLeak
  <2> QED BY <1>1, <1>2, <1>4, <2>1
<1> QED BY <1>5, <1>6, <1>7, <1>8, <1>9, <1>10, <1>11 DEF Forest

LEMMA TableAdded ==
  ASSUME TypeOK, Forest, NEW a \in Live, NEW va \in Va, NEW e \in LeafEntry,
         AddTable(a, va, e)
  PROVE  LET pt == Pick(free)
         IN  /\ pt \in free /\ pt \in Page
             /\ mem' \in [Page \cup {Kpt} -> [Index -> Pte]]
             /\ mem'[pt][va[2]] = e
             /\ \A j \in Index : j # va[2] => mem'[pt][j] = ZeroPte
             /\ mem'[pt] \in [Index -> LeafEntry]
             /\ \A q \in Page \cup {Kpt} : q # pt /\ q # as[a] => mem'[q] = mem[q]
             /\ Live' = Live
             /\ \A b \in Live, i \in Index :
                  Dirent(b, i)' = IF b = a /\ i = va[1] THEN PdeFor(pt) ELSE Dirent(b, i)
<1> DEFINE pt == Pick(free)
           d == as[a]
           newpt == [ZeroPage EXCEPT ![va[2]] = e]
           newd == [mem[d] EXCEPT ![va[1]] = PdeFor(pt)]
<1>1. pt \in free /\ pt \in Page
  BY FreshPage DEF AddTable
<1>2. d \in Page /\ mem[d] \in [Index -> Pte]
  BY LiveDirectory
<1>3. \A b \in Live : as[b] # pt
  BY <1>1 DEF Forest, Directories
<1>4. newpt \in [Index -> LeafEntry]
  BY PageTypes
<1>5. newpt \in [Index -> Pte]
  BY <1>4, EntryTypes
<1>6. newd \in [Index -> Pte]
  BY <1>1, <1>2, EntryTypes
<1>7. mem \in [Page \cup {Kpt} -> [Index -> Pte]] /\ d # pt
  BY <1>3 DEF TypeOK
<1>8. mem' = [mem EXCEPT ![pt] = newpt, ![d] = newd]
  <2>1. mem' = [mem EXCEPT ![pt] = newpt, ![d] = [@ EXCEPT ![va[1]] = PdeFor(pt)]]
    BY DEF AddTable
  <2> HIDE DEF pt, newpt
  <2>2. [mem EXCEPT ![pt] = newpt][d] = mem[d]
    BY <1>1, <1>2, <1>7
  <2> QED BY <2>1, <2>2
<1>9. as' = as /\ Live' = Live
  BY DEF AddTable, Live
<1> HIDE DEF pt, d, newpt, newd
<1>10. /\ mem' \in [Page \cup {Kpt} -> [Index -> Pte]]
       /\ mem'[pt] = newpt
       /\ mem'[d] = newd
       /\ \A q \in Page \cup {Kpt} : q # pt /\ q # d => mem'[q] = mem[q]
  BY <1>1, <1>2, <1>5, <1>6, <1>7, <1>8
<1>11. ASSUME NEW b \in Live, NEW i \in Index
       PROVE  Dirent(b, i)' = IF b = a /\ i = va[1] THEN PdeFor(pt) ELSE Dirent(b, i)
  <2>1. as[b] \in Page /\ as[b] # pt
    BY <1>3, LiveDirectory
  <2>2. CASE b = a
    <3>1. newd[i] = IF i = va[1] THEN PdeFor(pt) ELSE mem[d][i]
      BY <1>2 DEF newd
    <3> QED BY <2>2, <3>1, <1>9, <1>10 DEF Dirent, d
  <2>3. CASE b # a
    <3>1. as[b] # d
      BY <2>3 DEF Forest, Directories, d
    <3>2. mem'[as[b]] = mem[as[b]]
      BY <2>1, <3>1, <1>10
    <3> QED BY <2>3, <3>2, <1>9 DEF Dirent
  <2> QED BY <2>2, <2>3
<1>12. newpt[va[2]] = e /\ \A j \in Index : j # va[2] => newpt[j] = ZeroPte
  BY UserPages DEF newpt, ZeroPage
<1> QED BY <1>1, <1>4, <1>9, <1>10, <1>11, <1>12 DEF pt, d

LEMMA TableAddedForest ==
  ASSUME TypeOK, Forest, NEW a \in Live, NEW va \in Va, NEW e \in LeafEntry,
         AddTable(a, va, e)
  PROVE  TablesTyped' /\ Forest'
<1> DEFINE pt == Pick(free)
<1>1. /\ pt \in free /\ pt \in Page
      /\ mem' \in [Page \cup {Kpt} -> [Index -> Pte]]
      /\ mem'[pt] \in [Index -> LeafEntry]
      /\ \A q \in Page \cup {Kpt} : q # pt /\ q # as[a] => mem'[q] = mem[q]
      /\ Live' = Live
  BY TableAdded
<1>2. \A b \in Live, i \in Index :
        Dirent(b, i)' = IF b = a /\ i = va[1] THEN PdeFor(pt) ELSE Dirent(b, i)
  BY TableAdded
<1>3. free' = free \ {pt} /\ as' = as
  BY DEF AddTable
<1> HIDE DEF pt
<1>4. User \subseteq Index /\ KDir \subseteq Index /\ va[1] \in User /\ va[1] \notin KDir
  BY IndexAssumption, UserPages DEF User
<1>5. PdeFor(pt).p = TRUE /\ PdeFor(pt).u = TRUE /\ PdeFor(pt).addr = pt
  BY DEF PdeFor, Entry
<1>6. \A b \in Live : as[b] # pt /\ as[b] \notin free
  BY <1>1 DEF Forest, Directories
<1>7. TablesTyped'
  BY <1>1, <1>3 DEF TablesTyped, TypeOK
<1>8. KptKept'
  BY <1>1, PageAssumption, LiveDirectory DEF Forest, KptKept
<1>9. Directories'
  BY <1>1, <1>3 DEF Forest, Directories
<1>10. KernelPart'
  BY <1>1, <1>2, <1>4 DEF Forest, KernelPart
<1>11. UserPart'
  <2> SUFFICES ASSUME NEW b \in Live', NEW i \in User, (Dirent(b, i).p)'
               PROVE  (/\ Dirent(b, i).u
                       /\ Dirent(b, i).addr \in Page \ free
                       /\ \A c \in Live : Dirent(b, i).addr # as[c]
                       /\ mem[Dirent(b, i).addr] \in [Index -> LeafEntry])'
    BY DEF UserPart
  <2>1. b \in Live /\ i \in Index
    BY <1>1, <1>4
  <2>2. CASE b = a /\ i = va[1]
    <3>1. Dirent(b, i)' = PdeFor(pt)
      BY <1>2, <2>1, <2>2
    <3> QED BY <1>1, <1>3, <1>5, <1>6, <3>1
  <2>3. CASE ~(b = a /\ i = va[1])
    <3>1. Dirent(b, i)' = Dirent(b, i)
      BY <1>2, <2>1, <2>3
    <3>2. /\ Dirent(b, i).u
          /\ Dirent(b, i).addr \in Page \ free
          /\ \A c \in Live : Dirent(b, i).addr # as[c]
          /\ mem[Dirent(b, i).addr] \in [Index -> LeafEntry]
      BY <2>1, <3>1 DEF Forest, UserPart
    <3>3. mem'[Dirent(b, i).addr] = mem[Dirent(b, i).addr]
      BY <1>1, <3>2
    <3> QED BY <1>1, <1>3, <3>1, <3>2, <3>3
  <2> QED BY <2>2, <2>3
<1>12. \A b \in Live, i \in User :
         ~(b = a /\ i = va[1]) /\ Dirent(b, i).p => Dirent(b, i).addr # pt
  BY <1>1 DEF Forest, UserPart
<1>13. TablesOnce'
  <2> SUFFICES ASSUME NEW b \in Live, NEW c \in Live, NEW i \in User, NEW j \in User,
                      (Dirent(b, i).p)', (Dirent(c, j).p)',
                      (Dirent(b, i).addr)' = (Dirent(c, j).addr)'
               PROVE  b = c /\ i = j
    BY <1>1 DEF TablesOnce
  <2>1. i \in Index /\ j \in Index
    BY <1>4
  <2>2. CASE b = a /\ i = va[1]
    <3>1. (Dirent(b, i).addr)' = pt
      BY <1>2, <1>5, <2>1, <2>2
    <3> QED BY <1>2, <1>12, <2>1, <2>2, <3>1
  <2>3. CASE c = a /\ j = va[1]
    <3>1. (Dirent(c, j).addr)' = pt
      BY <1>2, <1>5, <2>1, <2>3
    <3> QED BY <1>2, <1>12, <2>1, <2>3, <3>1
  <2>4. CASE ~(b = a /\ i = va[1]) /\ ~(c = a /\ j = va[1])
    <3>1. Dirent(b, i)' = Dirent(b, i) /\ Dirent(c, j)' = Dirent(c, j)
      BY <1>2, <2>1, <2>4
    <3> QED BY <3>1 DEF Forest, TablesOnce
  <2> QED BY <2>2, <2>3, <2>4
<1>14. NoLeak'
  <2> SUFFICES ASSUME NEW q \in (Page \ free)'
               PROVE  (\E b \in Live : q = as[b] \/
                          \E i \in User : Dirent(b, i).p /\ q = Dirent(b, i).addr)'
    BY DEF NoLeak
  <2>1. CASE q = pt
    <3>1. Dirent(a, va[1])' = PdeFor(pt)
      BY <1>2, <1>4
    <3> QED BY <1>1, <1>4, <1>5, <2>1, <3>1
  <2>2. CASE q # pt
    <3>1. PICK b \in Live :
            q = as[b] \/ \E i \in User : Dirent(b, i).p /\ q = Dirent(b, i).addr
      BY <1>3, <2>2 DEF Forest, NoLeak
    <3>2. CASE q = as[b]
      BY <1>1, <1>3, <3>2
    <3>3. ASSUME NEW i \in User, Dirent(b, i).p, q = Dirent(b, i).addr
          PROVE  (Dirent(b, i).p /\ q = Dirent(b, i).addr)'
      <4>1. ~(b = a /\ i = va[1])
        BY <3>3 DEF AddTable
      <4>2. Dirent(b, i)' = Dirent(b, i)
        BY <1>2, <1>4, <4>1
      <4> QED BY <3>3, <4>2
    <3> QED BY <1>1, <3>1, <3>2, <3>3
  <2> QED BY <2>1, <2>2
<1> QED BY <1>7, <1>8, <1>9, <1>10, <1>11, <1>13, <1>14 DEF Forest

LEMMA SpaceAdded ==
  ASSUME TypeOK, Forest, NEW a \in Space, NewSpace(a)
  PROVE  LET pt == Pick(free)
         IN  /\ pt \in free /\ pt \in Page
             /\ mem' \in [Page \cup {Kpt} -> [Index -> Pte]]
             /\ \A q \in Page \cup {Kpt} : q # pt => mem'[q] = mem[q]
             /\ as' \in [Space -> Page \cup {Null}]
             /\ Live' = Live \cup {a} /\ a \notin Live
             /\ as'[a] = pt /\ \A b \in Live : as'[b] = as[b]
             /\ \A i \in Index : Dirent(a, i)' = KptEntry(i)
             /\ \A b \in Live, i \in Index : Dirent(b, i)' = Dirent(b, i)
<1> DEFINE pt == Pick(free)
<1>1. pt \in free /\ pt \in Page
  BY FreshPage DEF NewSpace
<1>2. pt # Null /\ pt # Kpt
  BY <1>1, PageAssumption
<1>3. NewDirectory = [i \in Index |-> KptEntry(i)]
  <2>1. ASSUME NEW i \in Index
        PROVE  (IF i \in KDir THEN mem[Kpt][i] ELSE ZeroPte) = KptEntry(i)
    BY DEF Forest, KptKept, KptEntry
  <2> QED BY <2>1 DEF NewDirectory
<1>4. NewDirectory \in [Index -> Pte]
  BY <1>3, EntryTypes
<1>5. /\ mem \in [Page \cup {Kpt} -> [Index -> Pte]]
      /\ as \in [Space -> Page \cup {Null}]
      /\ as[a] = Null /\ a \notin Live
  BY DEF TypeOK, NewSpace, Live
<1>6. /\ mem' = [mem EXCEPT ![pt] = NewDirectory]
      /\ as' = [as EXCEPT ![a] = pt]
  BY DEF NewSpace
<1> HIDE DEF pt
<1>7. /\ mem' \in [Page \cup {Kpt} -> [Index -> Pte]]
      /\ mem'[pt] = NewDirectory
      /\ \A q \in Page \cup {Kpt} : q # pt => mem'[q] = mem[q]
  BY <1>1, <1>4, <1>5, <1>6
<1>8. /\ as' \in [Space -> Page \cup {Null}]
      /\ as'[a] = pt /\ \A b \in Space : b # a => as'[b] = as[b]
  BY <1>1, <1>5, <1>6
<1>9. Live' = Live \cup {a}
  BY <1>2, <1>8 DEF Live
<1>10. \A b \in Live : as'[b] = as[b] /\ as[b] \in Page /\ as[b] # pt
  BY <1>1, <1>5, <1>8, LiveDirectory DEF Forest, Directories
<1>11. \A i \in Index : Dirent(a, i)' = KptEntry(i)
  BY <1>3, <1>7, <1>8 DEF Dirent
<1>12. \A b \in Live, i \in Index : Dirent(b, i)' = Dirent(b, i)
  BY <1>7, <1>10 DEF Dirent
<1> QED BY <1>1, <1>5, <1>7, <1>8, <1>9, <1>10, <1>11, <1>12 DEF pt

LEMMA SpaceAddedForest ==
  ASSUME TypeOK, Forest, NEW a \in Space, NewSpace(a)
  PROVE  TablesTyped' /\ Forest'
<1> DEFINE pt == Pick(free)
<1>1. /\ pt \in free /\ pt \in Page
      /\ mem' \in [Page \cup {Kpt} -> [Index -> Pte]]
      /\ \A q \in Page \cup {Kpt} : q # pt => mem'[q] = mem[q]
      /\ as' \in [Space -> Page \cup {Null}]
  BY SpaceAdded
<1>2. /\ Live' = Live \cup {a} /\ a \notin Live
      /\ as'[a] = pt /\ \A b \in Live : as'[b] = as[b]
  BY SpaceAdded
<1>3. /\ \A i \in Index : Dirent(a, i)' = KptEntry(i)
      /\ \A b \in Live, i \in Index : Dirent(b, i)' = Dirent(b, i)
  BY SpaceAdded
<1>4. free' = free \ {pt}
  BY DEF NewSpace
<1> HIDE DEF pt
<1>5. User \subseteq Index /\ KDir \subseteq Index
  BY IndexAssumption DEF User
<1>6. \A i \in User : Dirent(a, i)' = ZeroPte
  BY <1>3, <1>5 DEF KptEntry, User
<1>7. \A i \in User : ~(Dirent(a, i).p)'
  BY <1>6, EntryFields
<1>8. \A b \in Live : as[b] # pt /\ as[b] \notin free
  BY <1>1 DEF Forest, Directories
<1>9. TablesTyped'
  BY <1>1, <1>4 DEF TablesTyped, TypeOK
<1>10. KptKept'
  BY <1>1, PageAssumption DEF Forest, KptKept
<1>11. Directories'
  BY <1>2, <1>4, <1>8 DEF Forest, Directories
<1>12. KernelPart'
  BY <1>2, <1>3, <1>5 DEF Forest, KernelPart
<1>13. ASSUME NEW b \in Live', NEW i \in User, (Dirent(b, i).p)'
       PROVE  /\ b \in Live /\ Dirent(b, i)' = Dirent(b, i) /\ Dirent(b, i).p
              /\ Dirent(b, i).u
              /\ Dirent(b, i).addr \in Page \ free
              /\ \A c \in Live : Dirent(b, i).addr # as[c]
              /\ mem[Dirent(b, i).addr] \in [Index -> LeafEntry]
  <2>1. b \in Live
    BY <1>2, <1>7, <1>13
  <2>2. Dirent(b, i)' = Dirent(b, i)
    BY <1>3, <1>5, <2>1
  <2>3. Dirent(b, i).p
    BY <1>13, <2>2
  <2> QED BY <2>1, <2>2, <2>3 DEF Forest, UserPart
<1>14. UserPart'
  <2> SUFFICES ASSUME NEW b \in Live', NEW i \in User, (Dirent(b, i).p)'
               PROVE  (/\ Dirent(b, i).u
                       /\ Dirent(b, i).addr \in Page \ free
                       /\ \A c \in Live : Dirent(b, i).addr # as[c]
                       /\ mem[Dirent(b, i).addr] \in [Index -> LeafEntry])'
    BY DEF UserPart
  <2>1. /\ Dirent(b, i)' = Dirent(b, i)
        /\ Dirent(b, i).u
        /\ Dirent(b, i).addr \in Page \ free
        /\ \A c \in Live : Dirent(b, i).addr # as[c]
        /\ mem[Dirent(b, i).addr] \in [Index -> LeafEntry]
    BY <1>13
  <2>2. mem'[Dirent(b, i).addr] = mem[Dirent(b, i).addr] /\ Dirent(b, i).addr # pt
    BY <1>1, <2>1
  <2>3. \A c \in Live' : Dirent(b, i).addr # as'[c]
    BY <1>2, <2>1, <2>2
  <2> QED BY <1>4, <2>1, <2>2, <2>3
<1>15. TablesOnce'
  <2> SUFFICES ASSUME NEW b \in Live', NEW c \in Live', NEW i \in User, NEW j \in User,
                      (Dirent(b, i).p)', (Dirent(c, j).p)',
                      (Dirent(b, i).addr)' = (Dirent(c, j).addr)'
               PROVE  b = c /\ i = j
    BY DEF TablesOnce
  <2>1. b \in Live /\ Dirent(b, i)' = Dirent(b, i) /\ Dirent(b, i).p
    BY <1>13
  <2>2. c \in Live /\ Dirent(c, j)' = Dirent(c, j) /\ Dirent(c, j).p
    BY <1>13
  <2> QED BY <2>1, <2>2 DEF Forest, TablesOnce
<1>16. NoLeak'
  <2> SUFFICES ASSUME NEW q \in (Page \ free)'
               PROVE  (\E b \in Live : q = as[b] \/
                          \E i \in User : Dirent(b, i).p /\ q = Dirent(b, i).addr)'
    BY DEF NoLeak
  <2>1. CASE q = pt
    BY <1>2, <2>1
  <2>2. CASE q # pt
    <3>1. PICK b \in Live :
            q = as[b] \/ \E i \in User : Dirent(b, i).p /\ q = Dirent(b, i).addr
      BY <1>4, <2>2 DEF Forest, NoLeak
    <3>2. \A i \in User : Dirent(b, i)' = Dirent(b, i)
      BY <1>3, <1>5
    <3> QED BY <1>2, <3>1, <3>2
  <2> QED BY <2>1, <2>2
<1> QED BY <1>9, <1>10, <1>11, <1>12, <1>14, <1>15, <1>16 DEF Forest

LEMMA SpaceDropped ==
  ASSUME TypeOK, Forest, NEW a \in Live, DropSpace(a)
  PROVE  /\ FreedBy(a) \subseteq Page
         /\ \A q : q \in FreedBy(a) <=>
              q = as[a] \/ \E i \in User : Dirent(a, i).p /\ q = Dirent(a, i).addr
         /\ mem' \in [Page \cup {Kpt} -> [Index -> Pte]]
         /\ \A q \in Page \cup {Kpt} : q \notin FreedBy(a) => mem'[q] = mem[q]
         /\ as' \in [Space -> Page \cup {Null}]
         /\ Live' = Live \ {a}
         /\ \A b \in Live : b # a => as'[b] = as[b]
<1>1. FreedBy(a) = {as[a]} \cup {Dirent(a, i).addr : i \in {j \in User : Dirent(a, j).p}}
  BY TablesOfSpace DEF FreedBy, Forest
<1>2. \A q : q \in FreedBy(a) <=>
        q = as[a] \/ \E i \in User : Dirent(a, i).p /\ q = Dirent(a, i).addr
  BY <1>1
<1>3. \A i \in User : Dirent(a, i).p => Dirent(a, i).addr \in Page
  BY DEF Forest, UserPart
<1>4. FreedBy(a) \subseteq Page
  <2> SUFFICES ASSUME NEW q \in FreedBy(a) PROVE q \in Page
    OBVIOUS
  <2>1. q = as[a] \/ \E i \in User : Dirent(a, i).p /\ q = Dirent(a, i).addr
    BY <1>2
  <2> QED BY <1>3, <2>1, LiveDirectory
<1>5. /\ mem \in [Page \cup {Kpt} -> [Index -> Pte]]
      /\ as \in [Space -> Page \cup {Null}]
      /\ a \in Space
  BY LiveDirectory DEF TypeOK
<1>6. mem' = [q \in Page \cup {Kpt} |-> IF q \in FreedBy(a) THEN Garbage ELSE mem[q]]
  BY <1>5 DEF DropSpace
<1>7. /\ mem' \in [Page \cup {Kpt} -> [Index -> Pte]]
      /\ \A q \in Page \cup {Kpt} : q \notin FreedBy(a) => mem'[q] = mem[q]
  BY <1>5, <1>6, PageTypes
<1>8. as' = [as EXCEPT ![a] = Null]
  BY DEF DropSpace
<1>9. /\ as' \in [Space -> Page \cup {Null}]
      /\ as'[a] = Null /\ \A b \in Space : b # a => as'[b] = as[b]
  BY <1>5, <1>8
<1>10. Live' = Live \ {a}
  BY <1>9 DEF Live
<1> QED BY <1>2, <1>4, <1>7, <1>9, <1>10 DEF Live

(* What another space owns, the teardown does not free.                    *)
LEMMA OthersKept ==
  ASSUME TypeOK, Forest, NEW a \in Live, DropSpace(a), NEW b \in Live, b # a
  PROVE  /\ as[b] \notin FreedBy(a) /\ as'[b] = as[b]
         /\ \A i \in Index : Dirent(b, i)' = Dirent(b, i)
         /\ \A i \in User : Dirent(b, i).p => Dirent(b, i).addr \notin FreedBy(a)
<1>1. /\ \A q : q \in FreedBy(a) <=>
             q = as[a] \/ \E i \in User : Dirent(a, i).p /\ q = Dirent(a, i).addr
      /\ \A q \in Page \cup {Kpt} : q \notin FreedBy(a) => mem'[q] = mem[q]
      /\ as'[b] = as[b]
  BY SpaceDropped
<1>2. as[b] \notin FreedBy(a) /\ as[b] \in Page
  <2>1. as[b] \in Page /\ as[b] # as[a]
    BY LiveDirectory DEF Forest, Directories
  <2>2. \A i \in User : Dirent(a, i).p => Dirent(a, i).addr # as[b]
    BY DEF Forest, UserPart
  <2> QED BY <1>1, <2>1, <2>2
<1>3. \A i \in Index : Dirent(b, i)' = Dirent(b, i)
  BY <1>1, <1>2 DEF Dirent
<1>4. ASSUME NEW i \in User, Dirent(b, i).p
      PROVE  Dirent(b, i).addr \notin FreedBy(a)
  <2>1. Dirent(b, i).addr # as[a]
    BY <1>4 DEF Forest, UserPart
  <2>2. \A j \in User : Dirent(a, j).p => Dirent(b, i).addr # Dirent(a, j).addr
    BY <1>4 DEF Forest, TablesOnce
  <2> QED BY <1>1, <2>1, <2>2
<1> QED BY <1>1, <1>2, <1>3, <1>4

LEMMA SpaceDroppedForest ==
  ASSUME TypeOK, Forest, NEW a \in Live, DropSpace(a)
  PROVE  TablesTyped' /\ Forest'
<1>1. /\ FreedBy(a) \subseteq Page
      /\ \A q : q \in FreedBy(a) <=>
           q = as[a] \/ \E i \in User : Dirent(a, i).p /\ q = Dirent(a, i).addr
      /\ mem' \in [Page \cup {Kpt} -> [Index -> Pte]]
      /\ \A q \in Page \cup {Kpt} : q \notin FreedBy(a) => mem'[q] = mem[q]
      /\ as' \in [Space -> Page \cup {Null}]
  BY SpaceDropped
<1>2. Live' = Live \ {a} /\ Live' \subseteq Live
  BY SpaceDropped
<1>3. ASSUME NEW b \in Live'
      PROVE  /\ b \in Live /\ b # a
             /\ as[b] \notin FreedBy(a) /\ as'[b] = as[b]
             /\ \A i \in Index : Dirent(b, i)' = Dirent(b, i)
             /\ \A i \in User : Dirent(b, i).p => Dirent(b, i).addr \notin FreedBy(a)
  BY <1>2, <1>3, OthersKept
<1>4. free' = free \cup FreedBy(a)
  BY DEF DropSpace
<1>5. User \subseteq Index /\ KDir \subseteq Index
  BY IndexAssumption DEF User
<1>6. TablesTyped'
  BY <1>1, <1>4 DEF TablesTyped, TypeOK
<1>7. KptKept'
  <2>1. Kpt \notin FreedBy(a)
    BY <1>1, PageAssumption
  <2> QED BY <1>1, <2>1 DEF Forest, KptKept
<1>8. Directories'
  BY <1>2, <1>3, <1>4 DEF Forest, Directories
<1>9. KernelPart'
  BY <1>3, <1>5 DEF Forest, KernelPart
<1>10. ASSUME NEW b \in Live', NEW i \in User, (Dirent(b, i).p)'
       PROVE  /\ b \in Live /\ Dirent(b, i)' = Dirent(b, i) /\ Dirent(b, i).p
              /\ Dirent(b, i).u
              /\ Dirent(b, i).addr \in Page \ free
              /\ Dirent(b, i).addr \notin FreedBy(a)
              /\ \A c \in Live : Dirent(b, i).addr # as[c]
              /\ mem[Dirent(b, i).addr] \in [Index -> LeafEntry]
  <2>1. b \in Live /\ Dirent(b, i)' = Dirent(b, i)
    BY <1>3, <1>5
  <2>2. Dirent(b, i).p
    BY <1>10, <2>1
  <2>3. Dirent(b, i).addr \notin FreedBy(a)
    BY <1>3, <2>2
  <2> QED BY <2>1, <2>2, <2>3 DEF Forest, UserPart
<1>11. UserPart'
  <2> SUFFICES ASSUME NEW b \in Live', NEW i \in User, (Dirent(b, i).p)'
               PROVE  (/\ Dirent(b, i).u
                       /\ Dirent(b, i).addr \in Page \ free
                       /\ \A c \in Live : Dirent(b, i).addr # as[c]
                       /\ mem[Dirent(b, i).addr] \in [Index -> LeafEntry])'
    BY DEF UserPart
  <2>1. /\ Dirent(b, i)' = Dirent(b, i)
        /\ Dirent(b, i).u
        /\ Dirent(b, i).addr \in Page \ free
        /\ Dirent(b, i).addr \notin FreedBy(a)
        /\ \A c \in Live : Dirent(b, i).addr # as[c]
        /\ mem[Dirent(b, i).addr] \in [Index -> LeafEntry]
    BY <1>10
  <2>2. mem'[Dirent(b, i).addr] = mem[Dirent(b, i).addr]
    BY <1>1, <2>1
  <2>3. \A c \in Live' : Dirent(b, i).addr # as'[c]
    BY <1>3, <2>1
  <2> QED BY <1>4, <2>1, <2>2, <2>3
<1>12. TablesOnce'
  <2> SUFFICES ASSUME NEW b \in Live', NEW c \in Live', NEW i \in User, NEW j \in User,
                      (Dirent(b, i).p)', (Dirent(c, j).p)',
                      (Dirent(b, i).addr)' = (Dirent(c, j).addr)'
               PROVE  b = c /\ i = j
    BY DEF TablesOnce
  <2>1. b \in Live /\ Dirent(b, i)' = Dirent(b, i) /\ Dirent(b, i).p
    BY <1>10
  <2>2. c \in Live /\ Dirent(c, j)' = Dirent(c, j) /\ Dirent(c, j).p
    BY <1>10
  <2> QED BY <2>1, <2>2 DEF Forest, TablesOnce
<1>13. NoLeak'
  <2> SUFFICES ASSUME NEW q \in (Page \ free)'
               PROVE  (\E b \in Live : q = as[b] \/
                          \E i \in User : Dirent(b, i).p /\ q = Dirent(b, i).addr)'
    BY DEF NoLeak
  <2>1. q \in Page \ free /\ q \notin FreedBy(a)
    BY <1>4
  <2>2. PICK b \in Live :
          q = as[b] \/ \E i \in User : Dirent(b, i).p /\ q = Dirent(b, i).addr
    BY <2>1 DEF Forest, NoLeak
  <2>3. b # a
    BY <1>1, <2>1, <2>2
  <2>4. b \in Live'
    BY <1>2, <2>3
  <2>5. as'[b] = as[b] /\ \A i \in User : Dirent(b, i)' = Dirent(b, i)
    BY <1>3, <1>5, <2>4
  <2> QED BY <2>2, <2>4, <2>5
<1> QED BY <1>6, <1>7, <1>8, <1>9, <1>11, <1>12, <1>13 DEF Forest
-----------------------------------------------------------------------------
(* The steps of the specification, in these terms.                         *)

CpuKept == UNCHANGED <<cr3, tlb, ctx, running, halted>>

LEMMA ProtectStep ==
  ASSUME NEW a \in Space, Protect(a)
  PROVE  Panic \/ (NewSpace(a) /\ KernelMode /\ CpuKept /\ seen' = <<>>)
BY DEF Protect, NewSpace, CpuKept

LEMMA MapStep ==
  ASSUME TypeOK, Forest, NEW a \in Space, NEW va \in Va, NEW pa \in Pa, NEW w \in Prot,
         Map(a, va, pa, w)
  PROVE  \/ Panic
         \/ /\ \/ WriteLeaf(a, va, Entry(pa, w, TRUE))
               \/ AddTable(a, va, Entry(pa, w, TRUE))
            /\ a \in Live /\ KernelMode /\ CpuKept /\ seen' = <<>>
<1> SUFFICES ASSUME ~Panic
             PROVE  /\ \/ WriteLeaf(a, va, Entry(pa, w, TRUE))
                       \/ AddTable(a, va, Entry(pa, w, TRUE))
                    /\ a \in Live /\ KernelMode /\ CpuKept /\ seen' = <<>>
  OBVIOUS
<1> DEFINE walk == PtWalk(as[a], va)
           e == Entry(pa, w, TRUE)
<1>1. /\ NeedsPage(as[a], va) => free # {}
      /\ mem' = [walk.mem EXCEPT ![walk.pt][va[2]] = e]
      /\ free' = walk.free /\ as' = as
      /\ KernelMode /\ CpuKept /\ seen' = <<>>
  BY DEF Map, CpuKept
<1>2. a \in Live
  BY DEF Map, Live
<1>3. CASE Dirent(a, va[1]).p
  <2>1. walk = [mem |-> mem, free |-> free, pt |-> Dirent(a, va[1]).addr]
    BY <1>3 DEF PtWalk, NeedsPage, Dirent
  <2> QED BY <1>1, <1>2, <1>3, <2>1 DEF WriteLeaf
<1>4. CASE ~Dirent(a, va[1]).p
  <2> DEFINE pt == Pick(free)
             d == as[a]
             newd == [mem[d] EXCEPT ![va[1]] = PdeFor(pt)]
  <2>1. free # {} /\ walk = [mem  |-> [mem EXCEPT ![pt] = ZeroPage, ![d][va[1]] = PdeFor(pt)],
                             free |-> free \ {pt}, pt |-> pt]
    BY <1>1, <1>4 DEF PtWalk, NeedsPage, Dirent
  <2>2. pt \in Page /\ pt \in free /\ d \in Page /\ d # pt
    BY <1>2, <2>1, FreshPage, LiveDirectory DEF Forest, Directories
  <2>3. mem \in [Page \cup {Kpt} -> [Index -> Pte]]
    BY DEF TypeOK
  <2>4. /\ mem' = [[mem EXCEPT ![pt] = ZeroPage, ![d][va[1]] = PdeFor(pt)]
                     EXCEPT ![pt][va[2]] = e]
        /\ free' = free \ {pt}
    BY <1>1, <2>1
  <2> HIDE DEF pt, d, e
  <2>5. [mem EXCEPT ![pt] = ZeroPage, ![d][va[1]] = PdeFor(pt)] =
          [mem EXCEPT ![pt] = ZeroPage, ![d] = newd]
    BY <2>2, <2>3
  <2> HIDE DEF newd
  <2>6. [[mem EXCEPT ![pt] = ZeroPage, ![d] = newd] EXCEPT ![pt][va[2]] = e] =
          [mem EXCEPT ![pt] = [ZeroPage EXCEPT ![va[2]] = e], ![d] = newd]
    BY <2>2, <2>3
  <2>7. [mem EXCEPT ![pt] = [ZeroPage EXCEPT ![va[2]] = e], ![d] = newd] =
          [mem EXCEPT ![pt] = [ZeroPage EXCEPT ![va[2]] = e],
                      ![d] = [@ EXCEPT ![va[1]] = PdeFor(pt)]]
    BY <2>2, <2>3 DEF newd
  <2>8. mem' = [mem EXCEPT ![pt] = [ZeroPage EXCEPT ![va[2]] = e],
                           ![d] = [@ EXCEPT ![va[1]] = PdeFor(pt)]]
    BY <2>4, <2>5, <2>6, <2>7
  <2>9. AddTable(a, va, e)
    BY <1>1, <1>4, <2>1, <2>4, <2>8 DEF AddTable, pt, d
  <2> QED BY <1>1, <1>2, <2>9 DEF e
<1> QED BY <1>3, <1>4

LEMMA UnmapStep ==
  ASSUME TypeOK, Forest, NEW a \in Space, NEW va \in Va, Unmap(a, va)
  PROVE  \/ Panic
         \/ /\ WriteLeaf(a, va, ZeroPte)
            /\ a \in Live /\ KernelMode /\ CpuKept /\ seen' = <<>>
<1> SUFFICES ASSUME ~Panic
             PROVE  /\ WriteLeaf(a, va, ZeroPte)
                    /\ a \in Live /\ KernelMode /\ CpuKept /\ seen' = <<>>
  OBVIOUS
<1>1. a \in Live
  BY DEF Unmap, Live
<1>2. Lookup(mem, as[a], va) # NoLeaf
  BY DEF Unmap
<1>3. Dirent(a, va[1]).p
  BY <1>1, <1>2, LookupInSpace DEF Forest
<1> QED BY <1>1, <1>3 DEF Unmap, WriteLeaf, Dirent, CpuKept

LEMMA UnprotectStep ==
  ASSUME NEW a \in Space, Unprotect(a)
  PROVE  DropSpace(a) /\ a \in Live /\ Unused(a) /\ KernelMode /\ CpuKept /\ seen' = <<>>
BY DEF Unprotect, DropSpace, FreedBy, Live, CpuKept

(* Any other step leaves the tables alone.                                 *)
TablesKept == UNCHANGED <<mem, free, as>>

LEMMA ForestKept ==
  ASSUME TypeOK, Forest, TablesKept
  PROVE  TablesTyped' /\ Forest'
<1>1. mem' = mem /\ free' = free /\ as' = as
  BY DEF TablesKept
<1>2. TablesTyped'
  BY <1>1 DEF TypeOK, TablesTyped
<1>3. Live' = Live
  BY <1>1 DEF Live
<1>4. \A a, i : Dirent(a, i)' = Dirent(a, i)
  BY <1>1 DEF Dirent
<1>5. KptKept' /\ Directories'
  BY <1>1, <1>3 DEF Forest, KptKept, Directories
<1>6. KernelPart' /\ TablesOnce' 
  BY <1>3, <1>4 DEF Forest, KernelPart, TablesOnce
<1>7. UserPart'
  BY <1>1, <1>3 DEF Forest, UserPart, Dirent
<1>8. NoLeak'
  <2> SUFFICES ASSUME NEW q \in (Page \ free)'
               PROVE  (\E b \in Live : q = as[b] \/
                          \E i \in User : Dirent(b, i).p /\ q = Dirent(b, i).addr)'
    BY DEF NoLeak
  <2>1. PICK b \in Live :
          q = as[b] \/ \E i \in User : Dirent(b, i).p /\ q = Dirent(b, i).addr
    BY <1>1 DEF Forest, NoLeak
  <2> QED BY <1>1, <1>3, <1>4, <2>1
<1> QED BY <1>2, <1>5, <1>6, <1>7, <1>8 DEF Forest

(* A space that is in use survives, and so does what its threads hold.     *)
LEMMA ContextsKept ==
  ASSUME Loaded, OwnSpace, cr3' = cr3, ctx' = ctx,
         \A b \in Live : (b \in Live' /\ as'[b] = as[b]) \/ Unused(b)
  PROVE  Loaded' /\ OwnSpace'
<1>1. cr3' = Kpt \/ \E a \in Live' : cr3' = as'[a]
  BY DEF Loaded, Unused
<1>2. ASSUME NEW t \in KThread
      PROVE  \/ ctx'[t] \in {Kpt, Null, "new", "gone"}
             \/ \E a \in Live' : ctx'[t] = as'[a]
  BY DEF Loaded, Unused, Thread
<1>3. ASSUME NEW t \in UThread
      PROVE  \/ ctx'[t] \in {"new", "gone"}
             \/ AsOf(t) \in Live' /\ ctx'[t] = as'[AsOf(t)]
  BY DEF OwnSpace, Unused, Thread
<1> QED BY <1>1, <1>2, <1>3 DEF Loaded, OwnSpace

LEMMA InitVme == Init => VmeInv
<1> SUFFICES ASSUME Init PROVE VmeInv
  OBVIOUS
<1> USE DEF Init
<1>1. Live = {}
  BY DEF Live
<1>2. mem[Kpt] = [i \in Index |-> KptEntry(i)]
  BY DEF KptEntry
<1>3. [i \in Index |-> KptEntry(i)] \in [Index -> Pte]
  BY EntryTypes
<1>4. mem \in [Page \cup {Kpt} -> [Index -> Pte]]
  BY <1>2, <1>3, PageTypes
<1>5. tlb \in [Va -> Leaf \cup {NoLeaf}]
  OBVIOUS
<1>6. ctx \in [Thread -> Page \cup {Kpt, Null, "new", "gone"}]
  OBVIOUS
<1>7. running \in KThread /\ running \notin UThread /\ running \in Thread
  BY ThreadAssumption DEF Thread
<1>8. TypeOK
  BY <1>4, <1>5, <1>6, <1>7 DEF TypeOK
<1>9. Forest
  BY <1>1, <1>2 DEF Forest, KptKept, Directories, KernelPart, UserPart, TablesOnce, NoLeak
<1>10. Loaded /\ OwnSpace
  BY ThreadAssumption DEF Loaded, OwnSpace, Thread
<1>11. Coherent
  BY <1>7 DEF Coherent
<1> QED BY <1>8, <1>9, <1>10, <1>11 DEF VmeInv

(* The kernel changes the tables while no user thread runs.                *)
LEMMA KernelStep ==
  ASSUME VmeInv, TablesTyped', Forest', CpuKept, KernelMode,
         \A b \in Live : (b \in Live' /\ as'[b] = as[b]) \/ Unused(b)
  PROVE  VmeInv'
<1>1. TypeOK'
  BY DEF VmeInv, TypeOK, TablesTyped, CpuKept
<1>2. Loaded' /\ OwnSpace'
  BY ContextsKept DEF VmeInv, CpuKept
<1>3. running' \notin UThread
  BY ThreadAssumption DEF KernelMode, CpuKept
<1> QED BY <1>1, <1>2, <1>3 DEF VmeInv, Coherent

LEMMA LeafStep ==
  ASSUME VmeInv, NEW a \in Live, NEW va \in Va, NEW e \in LeafEntry,
         WriteLeaf(a, va, e) \/ AddTable(a, va, e), CpuKept, KernelMode
  PROVE  VmeInv'
<1>1. TablesTyped' /\ Forest'
  BY LeafWrittenForest, TableAddedForest DEF VmeInv
<1>2. as' = as /\ Live' = Live
  BY DEF WriteLeaf, AddTable, Live
<1> QED BY <1>1, <1>2, KernelStep

LEMMA ProtectInv ==
  ASSUME VmeInv, NEW a \in Space, NewSpace(a), CpuKept, KernelMode
  PROVE  VmeInv'
<1>1. TablesTyped' /\ Forest'
  BY SpaceAddedForest DEF VmeInv
<1>2. \A b \in Live : b \in Live' /\ as'[b] = as[b]
  BY SpaceAdded DEF VmeInv
<1> QED BY <1>1, <1>2, KernelStep

LEMMA UnprotectInv ==
  ASSUME VmeInv, NEW a \in Live, DropSpace(a), Unused(a), CpuKept, KernelMode
  PROVE  VmeInv'
<1>1. TablesTyped' /\ Forest'
  BY SpaceDroppedForest DEF VmeInv
<1>2. \A b \in Live : b # a => b \in Live' /\ as'[b] = as[b]
  BY SpaceDropped DEF VmeInv
<1> QED BY <1>1, <1>2, KernelStep

(* A thread traps: the loaded directory becomes the one it returns to.     *)
LEMMA TrapInv ==
  ASSUME VmeInv, TablesKept, running # "irq", TrapOf(running),
         UNCHANGED <<cr3, tlb, halted>>
  PROVE  VmeInv'
<1>1. TablesTyped' /\ Forest' /\ Live' = Live /\ as' = as
  BY ForestKept DEF VmeInv, TablesKept, Live
<1>2. running \in Thread /\ running' = "irq" /\ running' \notin UThread
  BY ThreadAssumption DEF VmeInv, TypeOK, TrapOf
<1>3. ctx' = [ctx EXCEPT ![running] = cr3]
  BY DEF TrapOf
<1>4. /\ cr3 \in Page \cup {Kpt}
      /\ ctx \in [Thread -> Page \cup {Kpt, Null, "new", "gone"}]
  BY DEF VmeInv, TypeOK
<1>5. ctx' \in [Thread -> Page \cup {Kpt, Null, "new", "gone"}]
  BY <1>2, <1>3, <1>4
<1>6. TypeOK'
  BY <1>1, <1>2, <1>5 DEF VmeInv, TypeOK, TablesTyped
<1>7. \A t \in Thread : ctx'[t] = IF t = running THEN cr3 ELSE ctx[t]
  BY <1>2, <1>3, <1>4
<1>8. Loaded'
  BY <1>1, <1>7 DEF VmeInv, Loaded, Thread
<1>9. OwnSpace'
  BY <1>1, <1>7 DEF VmeInv, OwnSpace, Coherent, Thread
<1> QED BY <1>1, <1>2, <1>6, <1>8, <1>9 DEF VmeInv, Coherent

LEMMA IrqReturnInv ==
  ASSUME VmeInv, NEW t \in Thread, IrqReturn(t)
  PROVE  VmeInv'
<1>1. TablesTyped' /\ Forest' /\ Live' = Live /\ as' = as
  BY ForestKept DEF VmeInv, TablesKept, IrqReturn, Live
<1>2. /\ ctx[t] \notin {"new", "gone"} /\ ctx' = ctx /\ running' = t /\ halted' = halted
      /\ cr3' = IF ctx[t] = Null THEN cr3 ELSE ctx[t]
      /\ tlb' = IF ctx[t] = Null THEN tlb ELSE [va \in Va |-> NoLeaf]
  BY DEF IrqReturn, SetCr3
<1>3. ctx[t] \in Page \cup {Kpt, Null, "new", "gone"}
  BY DEF VmeInv, TypeOK
<1>4. cr3' \in Page \cup {Kpt} /\ tlb' \in [Va -> Leaf \cup {NoLeaf}]
  BY <1>2, <1>3 DEF VmeInv, TypeOK
<1>5. TypeOK'
  BY <1>1, <1>2, <1>4 DEF VmeInv, TypeOK, TablesTyped
<1>6. CASE t \in UThread
  <2>1. AsOf(t) \in Live /\ ctx[t] = as[AsOf(t)]
    BY <1>2, <1>6 DEF VmeInv, OwnSpace
  <2>2. ctx[t] # Null
    BY <2>1, LiveDirectory DEF VmeInv
  <2>3. cr3' = as'[AsOf(t)] /\ tlb' = [va \in Va |-> NoLeaf]
    BY <1>1, <1>2, <2>1, <2>2
  <2>4. Loaded' /\ OwnSpace'
    BY <1>1, <1>2, <2>1, <2>3 DEF VmeInv, Loaded, OwnSpace
  <2>5. Coherent'
    BY <1>1, <1>2, <2>1, <2>3 DEF Coherent
  <2> QED BY <1>1, <1>5, <2>4, <2>5 DEF VmeInv
<1>7. CASE t \in KThread
  <2>1. Loaded' /\ OwnSpace'
    BY <1>1, <1>2, <1>7 DEF VmeInv, Loaded, OwnSpace
  <2>2. Coherent'
    BY <1>2, <1>7, ThreadAssumption DEF Coherent
  <2> QED BY <1>1, <1>5, <2>1, <2>2 DEF VmeInv
<1> QED BY <1>6, <1>7 DEF Thread

LEMMA NewContextInv ==
  ASSUME VmeInv, NEW t \in Thread, NewContext(t) \/ Exit(t)
  PROVE  VmeInv'
<1>1. TablesTyped' /\ Forest' /\ Live' = Live /\ as' = as
  BY ForestKept DEF VmeInv, TablesKept, NewContext, Exit, Live
<1>2. /\ cr3' = cr3 /\ tlb' = tlb /\ running' = running /\ halted' = halted
      /\ running \notin UThread
  BY ThreadAssumption DEF NewContext, Exit, KernelMode
<1>3. ctx \in [Thread -> Page \cup {Kpt, Null, "new", "gone"}]
  BY DEF VmeInv, TypeOK
<1>4. PICK c \in Page \cup {Null, "gone"} :
        /\ ctx' = [ctx EXCEPT ![t] = c]
        /\ t \in UThread => c = "gone" \/ (AsOf(t) \in Live /\ c = as[AsOf(t)])
        /\ t \in KThread => c \in {Null, "gone"}
  <2>1. CASE Exit(t)
    BY <2>1 DEF Exit
  <2>2. CASE NewContext(t) /\ t \in UThread
    <3>1. AsOf(t) \in Live
      BY <2>2, ThreadAssumption DEF NewContext, Live
    <3>2. as[AsOf(t)] \in Page
      BY <3>1, LiveDirectory DEF VmeInv
    <3> QED BY <2>2, <3>1, <3>2, ThreadAssumption DEF NewContext
  <2>3. CASE NewContext(t) /\ t \in KThread
    BY <2>3, ThreadAssumption DEF NewContext
  <2> QED BY <2>1, <2>2, <2>3 DEF Thread
<1>5. ctx' \in [Thread -> Page \cup {Kpt, Null, "new", "gone"}]
  BY <1>3, <1>4
<1>6. TypeOK'
  BY <1>1, <1>2, <1>5 DEF VmeInv, TypeOK, TablesTyped
<1>7. \A s \in Thread : ctx'[s] = IF s = t THEN c ELSE ctx[s]
  BY <1>3, <1>4
<1>8. Loaded'
  BY <1>1, <1>2, <1>4, <1>7 DEF VmeInv, Loaded, Thread
<1>9. OwnSpace'
  BY <1>1, <1>4, <1>7 DEF VmeInv, OwnSpace, Thread
<1> QED BY <1>1, <1>2, <1>6, <1>8, <1>9 DEF VmeInv, Coherent

(* The directory that is loaded is a live one's, so what the MMU caches is *)
(* a translation of that space.                                            *)
LEMMA TlbFillInv ==
  ASSUME VmeInv, NEW va \in Va, TlbFill(va)
  PROVE  VmeInv'
<1>1. TablesTyped' /\ Forest' /\ Live' = Live /\ as' = as /\ mem' = mem
  BY ForestKept DEF VmeInv, TablesKept, TlbFill, Live
<1>2. /\ cr3' = cr3 /\ ctx' = ctx /\ running' = running /\ halted' = halted
      /\ tlb' = [tlb EXCEPT ![va] = Lookup(mem, cr3, va)]
  BY DEF TlbFill
<1>3. PICK a \in Live : cr3 = as[a]
  BY DEF VmeInv, Loaded, TlbFill
<1>4. Lookup(mem, cr3, va) \in Leaf \cup {NoLeaf}
  BY <1>3, LookupInSpace DEF VmeInv, Forest
<1>5. tlb' \in [Va -> Leaf \cup {NoLeaf}]
  BY <1>2, <1>4 DEF VmeInv, TypeOK
<1>6. TypeOK'
  BY <1>1, <1>2, <1>5 DEF VmeInv, TypeOK, TablesTyped
<1>7. Loaded' /\ OwnSpace'
  BY <1>1, <1>2 DEF VmeInv, Loaded, OwnSpace
<1>8. \A v \in Va : tlb'[v] = IF v = va THEN Lookup(mem, cr3, va) ELSE tlb[v]
  BY <1>2 DEF VmeInv, TypeOK
<1>9. Coherent'
  <2> SUFFICES ASSUME running' \in UThread
               PROVE  (/\ AsOf(running) \in Live /\ cr3 = as[AsOf(running)]
                       /\ \A v \in Va : tlb[v] # NoLeaf => tlb[v] = Lookup(mem, cr3, v))'
    BY DEF Coherent
  <2>1. /\ AsOf(running) \in Live /\ cr3 = as[AsOf(running)]
        /\ \A v \in Va : tlb[v] # NoLeaf => tlb[v] = Lookup(mem, cr3, v)
    BY <1>2 DEF VmeInv, Coherent
  <2>2. \A v \in Va : tlb'[v] # NoLeaf => tlb'[v] = Lookup(mem, cr3, v)
    BY <1>8, <2>1
  <2> QED BY <1>1, <1>2, <2>1, <2>2
<1> QED BY <1>1, <1>6, <1>7, <1>9 DEF VmeInv

LEMMA IdleInv ==
  ASSUME VmeInv, TablesKept, UNCHANGED <<cr3, tlb, ctx, running>>, halted' \in BOOLEAN
  PROVE  VmeInv'
<1>1. TablesTyped' /\ Forest' /\ Live' = Live /\ as' = as /\ mem' = mem
  BY ForestKept DEF VmeInv, TablesKept, Live
<1>2. TypeOK'
  BY <1>1 DEF VmeInv, TypeOK, TablesTyped
<1>3. Loaded' /\ OwnSpace'
  BY <1>1 DEF VmeInv, Loaded, OwnSpace
<1>4. Coherent'
  BY <1>1 DEF VmeInv, Coherent
<1> QED BY <1>1, <1>2, <1>3, <1>4 DEF VmeInv

LEMMA UserAccessInv ==
  ASSUME VmeInv, NEW va \in Va, UserAccess(va)
  PROVE  VmeInv'
<1>1. TablesKept /\ UNCHANGED <<cr3, tlb, halted>> /\ running # "irq"
  BY ThreadAssumption DEF UserAccess, TablesKept
<1>2. CASE UNCHANGED <<ctx, running>>
  BY <1>1, <1>2, IdleInv DEF VmeInv, TypeOK
<1>3. CASE TrapOf(running)
  BY <1>1, <1>3, TrapInv
<1> QED BY <1>2, <1>3 DEF UserAccess

LEMMA StepVme ==
  ASSUME VmeInv, [Next]_vars
  PROVE  VmeInv'
<1>1. CASE UNCHANGED vars
  BY <1>1, IdleInv DEF vars, TablesKept, VmeInv, TypeOK
<1>2. CASE Panic
  BY <1>2, IdleInv DEF Panic, TablesKept
<1>3. CASE Trap
  BY <1>3, TrapInv DEF Trap, TablesKept
<1>4. ASSUME NEW t \in Thread, NewContext(t) \/ Exit(t) \/ IrqReturn(t)
      PROVE  VmeInv'
  BY <1>4, NewContextInv, IrqReturnInv
<1>5. ASSUME NEW va \in Va, TlbFill(va) \/ UserAccess(va)
      PROVE  VmeInv'
  BY <1>5, TlbFillInv, UserAccessInv
<1>6. ASSUME NEW a \in Space, Protect(a)
      PROVE  VmeInv'
  BY <1>2, <1>6, ProtectStep, ProtectInv
<1>7. ASSUME NEW a \in Space, Unprotect(a)
      PROVE  VmeInv'
  BY <1>7, UnprotectStep, UnprotectInv
<1>8. ASSUME NEW a \in Space, NEW va \in Va, Unmap(a, va)
      PROVE  VmeInv'
  BY <1>2, <1>8, UnmapStep, LeafStep, EntryTypes DEF VmeInv
<1>9. ASSUME NEW a \in Space, NEW va \in Va, NEW pa \in Pa, NEW w \in Prot,
             Map(a, va, pa, w)
      PROVE  VmeInv'
  BY <1>2, <1>9, MapStep, LeafStep, EntryTypes DEF VmeInv
<1> QED
  BY <1>1, <1>3, <1>4, <1>5, <1>6, <1>7, <1>8, <1>9 DEF Next

LEMMA VmeAlways == Spec => []VmeInv
<1>1. Init => VmeInv
  BY InitVme
<1>2. VmeInv /\ [Next]_vars => VmeInv'
  BY StepVme
<1> QED BY <1>1, <1>2, PTL DEF Spec

(* The registers, the page tables and the TLB stay of their types; in      *)
(* particular the MMU never caches anything but a page map() was given.    *)
THEOREM VmeTyped == Spec => []TypeOK
<1>1. VmeInv => TypeOK
  BY DEF VmeInv
<1> QED BY <1>1, VmeAlways, PTL

(* vme.c loses no page, frees none twice and never gives one to two        *)
(* address spaces, and the kernel's tables outlive every space.            *)
THEOREM PagesOnce == Spec => []PagesOwnedOnce
<1>1. ASSUME VmeInv PROVE PagesOwnedOnce
  <2> DEFINE owned(a) == {as[a]} \cup Tables(as[a])
  <2>1. ASSUME NEW a \in Live
        PROVE  /\ \A q : q \in owned(a) <=>
                    q = as[a] \/ \E i \in User : Dirent(a, i).p /\ q = Dirent(a, i).addr
               /\ \A q : q \in Tables(as[a]) <=>
                    \E i \in User : Dirent(a, i).p /\ q = Dirent(a, i).addr
    <3>1. Tables(as[a]) = {Dirent(a, i).addr : i \in {j \in User : Dirent(a, j).p}}
      BY <1>1, TablesOfSpace DEF VmeInv, Forest
    <3> QED BY <3>1
  <2>2. ASSUME NEW a \in Live
        PROVE  owned(a) \cap free = {} /\ as[a] \notin Tables(as[a]) /\ owned(a) \subseteq Page
    <3>1. as[a] \in Page /\ as[a] \notin free
      BY <1>1, LiveDirectory DEF VmeInv, Forest, Directories
    <3>2. ASSUME NEW i \in User, Dirent(a, i).p
          PROVE  Dirent(a, i).addr \in Page \ free /\ Dirent(a, i).addr # as[a]
      BY <1>1, <3>2 DEF VmeInv, Forest, UserPart
    <3>3. ASSUME NEW q \in owned(a) PROVE q \in Page \ free
      <4>1. q = as[a] \/ \E i \in User : Dirent(a, i).p /\ q = Dirent(a, i).addr
        BY <2>1
      <4> HIDE DEF owned
      <4> QED BY <3>1, <3>2, <4>1
    <3>4. as[a] \notin Tables(as[a])
      BY <2>1, <3>2
    <3> HIDE DEF owned
    <3> QED BY <3>3, <3>4
  <2>3. ASSUME NEW a \in Live, NEW b \in Live, a # b, NEW q, q \in owned(a), q \in owned(b)
        PROVE  FALSE
    <3>1. q = as[a] \/ \E i \in User : Dirent(a, i).p /\ q = Dirent(a, i).addr
      BY <2>1, <2>3
    <3>2. q = as[b] \/ \E i \in User : Dirent(b, i).p /\ q = Dirent(b, i).addr
      BY <2>1, <2>3
    <3> HIDE DEF owned
    <3>3. as[a] # as[b]
      BY <1>1, <2>3 DEF VmeInv, Forest, Directories
    <3>4. /\ \A i \in User : Dirent(a, i).p => Dirent(a, i).addr # as[b]
          /\ \A i \in User : Dirent(b, i).p => Dirent(b, i).addr # as[a]
      BY <1>1 DEF VmeInv, Forest, UserPart
    <3>5. \A i, j \in User : Dirent(a, i).p /\ Dirent(b, j).p =>
            Dirent(a, i).addr # Dirent(b, j).addr
      BY <1>1, <2>3 DEF VmeInv, Forest, TablesOnce
    <3> QED BY <3>1, <3>2, <3>3, <3>4, <3>5
  <2>4. ASSUME NEW q \in Page, q \notin free
        PROVE  \E a \in Live : q \in owned(a)
    <3>1. PICK a \in Live :
            q = as[a] \/ \E i \in User : Dirent(a, i).p /\ q = Dirent(a, i).addr
      BY <1>1, <2>4 DEF VmeInv, Forest, NoLeak
    <3>2. q \in owned(a)
      BY <2>1, <3>1
    <3> QED BY <3>2
  <2>5. free \subseteq Page
    BY <1>1 DEF VmeInv, TypeOK
  <2> HIDE DEF owned
  <2>6. Page = free \cup UNION {owned(a) : a \in Live}
    <3>1. ASSUME NEW q \in UNION {owned(a) : a \in Live} PROVE q \in Page
      BY <2>2
    <3>2. ASSUME NEW q \in Page, q \notin free PROVE q \in UNION {owned(a) : a \in Live}
      BY <2>4, <3>2
    <3> QED BY <2>5, <3>1, <3>2
  <2>7. /\ \A a \in Live : owned(a) \cap free = {} /\ as[a] \notin Tables(as[a])
        /\ \A a, b \in Live : a # b => owned(a) \cap owned(b) = {}
    BY <2>2, <2>3
  <2> QED BY <2>6, <2>7 DEF PagesOwnedOnce, owned
<1> QED BY <1>1, VmeAlways, PTL

(* Whatever directory cr3 holds, or a return from a trap will load, exists *)
(* and maps the kernel as kpt does.                                        *)
THEOREM KernelEverywhere == Spec => []KernelMapped
<1>1. ASSUME VmeInv PROVE KernelMapped
  <2>1. cr3 \in {as[a] : a \in Live} \cup {Kpt}
    BY <1>1 DEF VmeInv, Loaded
  <2>2. ASSUME NEW t \in Thread
        PROVE  ctx[t] \in {as[a] : a \in Live} \cup {Kpt, Null, "new", "gone"}
    <3>1. CASE t \in KThread
      BY <1>1, <3>1 DEF VmeInv, Loaded
    <3>2. CASE t \in UThread
      BY <1>1, <3>2 DEF VmeInv, OwnSpace
    <3> QED BY <3>1, <3>2 DEF Thread
  <2>3. \A a \in Live, k \in KDir : mem[as[a]][k] = KptEntry(k)
    BY <1>1 DEF VmeInv, Forest, KernelPart, Dirent
  <2>4. \A k \in KDir : mem[Kpt][k] = KptEntry(k)
    BY <1>1, IndexAssumption DEF VmeInv, Forest, KptKept
  <2> QED BY <2>1, <2>2, <2>3, <2>4 DEF KernelMapped
<1> QED BY <1>1, VmeAlways, PTL
-----------------------------------------------------------------------------
(* The refinement: what the spaces look like to the MMU.                   *)

Viewed == [a \in Live |-> [va \in Va |-> Lookup(mem, as[a], va)]]

(* A walk depends on the directory entry and the table only.               *)
LEMMA WalkOf ==
  ASSUME NEW m, NEW d, NEW va,
         m[d][va[1]].p => /\ m[d][va[1]].u
                          /\ m[m[d][va[1]].addr][va[2]] \in LeafEntry
  PROVE  Lookup(m, d, va) = IF m[d][va[1]].p THEN LeafOf(m[m[d][va[1]].addr][va[2]])
                            ELSE NoLeaf
BY LeafOfEntry DEF Lookup, LeafOf

LEMMA LeafWrittenView ==
  ASSUME TypeOK, Forest, NEW a \in Live, NEW va \in Va, NEW e \in LeafEntry,
         WriteLeaf(a, va, e)
  PROVE  Viewed' = [Viewed EXCEPT ![a][va] = LeafOf(e)]
<1> DEFINE pt == Dirent(a, va[1]).addr
<1>1. /\ mem'[pt] = [mem[pt] EXCEPT ![va[2]] = e]
      /\ \A q \in Page \cup {Kpt} : q # pt => mem'[q] = mem[q]
      /\ Live' = Live
      /\ \A b \in Live, i \in Index : Dirent(b, i)' = Dirent(b, i)
  BY LeafWritten
<1>2. as' = as /\ Dirent(a, va[1]).p
  BY DEF WriteLeaf
<1>3. mem[pt] \in [Index -> LeafEntry]
  BY <1>2, UserPages DEF Forest, UserPart
<1>4. ASSUME NEW b \in Live, NEW v \in Va
      PROVE  Lookup(mem', as[b], v) =
               IF b = a /\ v = va THEN LeafOf(e) ELSE Lookup(mem, as[b], v)
  <2>1. v[1] \in User /\ v[1] \in Index /\ v[2] \in Index /\ va[1] \in User
    BY UserPages
  <2>2. mem'[as[b]][v[1]] = mem[as[b]][v[1]]
    BY <1>1, <1>2, <2>1 DEF Dirent
  <2>3. mem[as[b]][v[1]].p => mem[as[b]][v[1]].addr \in Page
    BY <2>1 DEF Forest, UserPart, Dirent
  <2>4. CASE b = a /\ v = va
    <3>1. mem'[as[b]][v[1]].p /\ mem'[as[b]][v[1]].u /\ mem'[as[b]][v[1]].addr = pt
      BY <1>2, <2>1, <2>2, <2>4 DEF Forest, UserPart, Dirent
    <3> HIDE DEF pt
    <3>2. mem'[pt][v[2]] = e
      BY <1>1, <1>3, <2>1, <2>4
    <3>3. Lookup(mem', as[b], v) = LeafOf(mem'[mem'[as[b]][v[1]].addr][v[2]])
      BY <3>1, <3>2, WalkOf
    <3> QED BY <2>4, <3>1, <3>2, <3>3
  <2>5. CASE ~(b = a /\ v = va)
    <3>1. ASSUME mem[as[b]][v[1]].p
          PROVE  mem'[mem[as[b]][v[1]].addr][v[2]] = mem[mem[as[b]][v[1]].addr][v[2]]
      <4> DEFINE q == mem[as[b]][v[1]].addr
      <4>1. CASE q # pt
        <5>1. q \in Page
          BY <2>3, <3>1
        <5> QED BY <1>1, <4>1, <5>1
      <4>2. CASE q = pt
        <5>1. b = a /\ v[1] = va[1]
          BY <1>2, <2>1, <3>1, <4>2 DEF Forest, TablesOnce, Dirent
        <5>2. v[2] # va[2]
          <6>1. v = <<v[1], v[2]>> /\ va = <<va[1], va[2]>>
            BY IndexAssumption
          <6> QED BY <2>5, <5>1, <6>1
        <5> HIDE DEF pt, q
        <5>3. mem'[q][v[2]] = mem[q][v[2]]
          BY <1>1, <1>3, <2>1, <4>2, <5>2
        <5> QED BY <5>3 DEF q
      <4> QED BY <4>1, <4>2
    <3>2. Lookup(mem', as[b], v) = Lookup(mem, as[b], v)
      BY <2>2, <3>1 DEF Lookup
    <3> QED BY <2>5, <3>2
  <2> QED BY <2>4, <2>5
<1>5. Viewed' = [b \in Live |-> [v \in Va |-> Lookup(mem', as[b], v)]]
  BY <1>1, <1>2 DEF Viewed
<1>6. [Viewed EXCEPT ![a][va] = LeafOf(e)] =
        [b \in Live |-> [v \in Va |-> IF b = a /\ v = va THEN LeafOf(e)
                                     ELSE Lookup(mem, as[b], v)]]
  BY DEF Viewed
<1>7. ASSUME NEW b \in Live
      PROVE  [v \in Va |-> Lookup(mem', as[b], v)] =
               [v \in Va |-> IF b = a /\ v = va THEN LeafOf(e) ELSE Lookup(mem, as[b], v)]
  BY <1>4
<1> QED BY <1>5, <1>6, <1>7

LEMMA TableAddedView ==
  ASSUME TypeOK, Forest, NEW a \in Live, NEW va \in Va, NEW e \in LeafEntry,
         AddTable(a, va, e)
  PROVE  Viewed' = [Viewed EXCEPT ![a][va] = LeafOf(e)]
<1> DEFINE pt == Pick(free)
<1>0. /\ pt \in free /\ pt \in Page
      /\ mem'[pt][va[2]] = e /\ \A j \in Index : j # va[2] => mem'[pt][j] = ZeroPte
  BY TableAdded
<1>1. /\ \A q \in Page \cup {Kpt} : q # pt /\ q # as[a] => mem'[q] = mem[q]
      /\ Live' = Live
  BY TableAdded
<1>2. \A b \in Live, i \in Index :
        Dirent(b, i)' = IF b = a /\ i = va[1] THEN PdeFor(pt) ELSE Dirent(b, i)
  BY TableAdded
<1>3. as' = as /\ ~Dirent(a, va[1]).p
  BY DEF AddTable
<1> HIDE DEF pt
<1>4. PdeFor(pt).p = TRUE /\ PdeFor(pt).u = TRUE /\ PdeFor(pt).addr = pt
  BY DEF PdeFor, Entry
<1>5. ASSUME NEW b \in Live, NEW v \in Va
      PROVE  Lookup(mem', as[b], v) =
               IF b = a /\ v = va THEN LeafOf(e) ELSE Lookup(mem, as[b], v)
  <2>1. v[1] \in User /\ v[1] \in Index /\ v[2] \in Index
    BY UserPages
  <2>2. CASE b = a /\ v[1] = va[1]
    <3>1. mem'[as[b]][v[1]] = PdeFor(pt)
      BY <1>2, <1>3, <2>1, <2>2 DEF Dirent
    <3>2. mem'[pt][v[2]] = IF v[2] = va[2] THEN e ELSE ZeroPte
      BY <1>0, <2>1
    <3>3. mem'[pt][v[2]] \in LeafEntry
      BY <3>2, EntryTypes
    <3>4. Lookup(mem', as[b], v) = LeafOf(mem'[pt][v[2]])
      BY <1>4, <3>1, <3>3, WalkOf
    <3>5. Lookup(mem, as[b], v) = NoLeaf
      BY <1>3, <2>2, LookupInSpace DEF Forest
    <3>6. LeafOf(ZeroPte) = NoLeaf
      BY EntryFields DEF LeafOf
    <3>7. v[2] = va[2] <=> v = va
      <4>1. v = <<v[1], v[2]>> /\ va = <<va[1], va[2]>>
        BY IndexAssumption
      <4> QED BY <2>2, <4>1
    <3> QED BY <2>2, <3>2, <3>4, <3>5, <3>6, <3>7
  <2>3. CASE ~(b = a /\ v[1] = va[1])
    <3>1. mem'[as[b]][v[1]] = mem[as[b]][v[1]]
      BY <1>2, <1>3, <2>1, <2>3 DEF Dirent
    <3>2. mem[as[b]][v[1]].p => /\ mem[as[b]][v[1]].addr \in Page \ free
                                /\ mem[as[b]][v[1]].addr # as[a]
      BY <2>1 DEF Forest, UserPart, Dirent
    <3>3. mem[as[b]][v[1]].p => mem'[mem[as[b]][v[1]].addr] = mem[mem[as[b]][v[1]].addr]
      BY <1>0, <1>1, <3>2
    <3>4. Lookup(mem', as[b], v) = Lookup(mem, as[b], v)
      BY <3>1, <3>3 DEF Lookup
    <3> QED BY <2>3, <3>4
  <2> QED BY <2>2, <2>3
<1>6. Viewed' = [b \in Live |-> [v \in Va |-> Lookup(mem', as[b], v)]]
  BY <1>1, <1>3 DEF Viewed
<1>7. [Viewed EXCEPT ![a][va] = LeafOf(e)] =
        [b \in Live |-> [v \in Va |-> IF b = a /\ v = va THEN LeafOf(e)
                                     ELSE Lookup(mem, as[b], v)]]
  BY DEF Viewed
<1>8. ASSUME NEW b \in Live
      PROVE  [v \in Va |-> Lookup(mem', as[b], v)] =
               [v \in Va |-> IF b = a /\ v = va THEN LeafOf(e) ELSE Lookup(mem, as[b], v)]
  BY <1>5
<1> QED BY <1>6, <1>7, <1>8

LEMMA SpaceAddedView ==
  ASSUME TypeOK, Forest, NEW a \in Space, NewSpace(a)
  PROVE  /\ Live' = Live \cup {a} /\ a \notin Live
         /\ Viewed' = [b \in Live \cup {a} |->
                        IF b = a THEN [va \in Va |-> NoLeaf] ELSE Viewed[b]]
<1> DEFINE pt == Pick(free)
<1>1. /\ pt \in free
      /\ \A q \in Page \cup {Kpt} : q # pt => mem'[q] = mem[q]
      /\ Live' = Live \cup {a} /\ a \notin Live
  BY SpaceAdded
<1>2. /\ \A b \in Live : as'[b] = as[b]
      /\ \A i \in Index : Dirent(a, i)' = KptEntry(i)
      /\ \A b \in Live, i \in Index : Dirent(b, i)' = Dirent(b, i)
  BY SpaceAdded
<1> HIDE DEF pt
<1>3. ASSUME NEW v \in Va PROVE Lookup(mem', as'[a], v) = NoLeaf
  <2>1. v[1] \in Index /\ v[1] \notin KDir
    BY UserPages DEF User
  <2>2. mem'[as'[a]][v[1]] = ZeroPte
    BY <1>2, <2>1 DEF Dirent, KptEntry
  <2> QED BY <2>2, EntryFields DEF Lookup
<1>4. ASSUME NEW b \in Live, NEW v \in Va
      PROVE  Lookup(mem', as'[b], v) = Lookup(mem, as[b], v)
  <2>1. v[1] \in User /\ v[1] \in Index
    BY UserPages
  <2>2. as'[b] = as[b] /\ mem'[as[b]][v[1]] = mem[as[b]][v[1]]
    <3>1. as'[b] = as[b] /\ Dirent(b, v[1])' = Dirent(b, v[1])
      BY <1>2, <2>1
    <3> QED BY <3>1 DEF Dirent
  <2>3. mem[as[b]][v[1]].p => mem[as[b]][v[1]].addr \in Page \ free
    BY <2>1 DEF Forest, UserPart, Dirent
  <2>4. mem[as[b]][v[1]].p => mem'[mem[as[b]][v[1]].addr] = mem[mem[as[b]][v[1]].addr]
    BY <1>1, <2>3
  <2> QED BY <2>2, <2>4 DEF Lookup
<1>5. Viewed' = [b \in Live \cup {a} |-> [v \in Va |-> Lookup(mem', as'[b], v)]]
  BY <1>1 DEF Viewed
<1>6. ASSUME NEW b \in Live \cup {a}
      PROVE  [v \in Va |-> Lookup(mem', as'[b], v)] =
               IF b = a THEN [va \in Va |-> NoLeaf] ELSE Viewed[b]
  <2>1. CASE b = a
    BY <1>3, <2>1
  <2>2. CASE b # a
    <3>1. b \in Live
      BY <2>2
    <3>2. Viewed[b] = [v \in Va |-> Lookup(mem, as[b], v)]
      BY <3>1 DEF Viewed
    <3> QED BY <1>4, <2>2, <3>1, <3>2
  <2> QED BY <2>1, <2>2
<1> QED BY <1>1, <1>5, <1>6

LEMMA SpaceDroppedView ==
  ASSUME TypeOK, Forest, NEW a \in Live, DropSpace(a)
  PROVE  Viewed' = [b \in Live \ {a} |-> Viewed[b]]
<1>1. /\ Live' = Live \ {a}
      /\ \A q \in Page \cup {Kpt} : q \notin FreedBy(a) => mem'[q] = mem[q]
  BY SpaceDropped
<1>2. ASSUME NEW b \in Live, b # a, NEW v \in Va
      PROVE  Lookup(mem', as'[b], v) = Lookup(mem, as[b], v)
  <2>1. v[1] \in User /\ v[1] \in Index
    BY UserPages
  <2>2. /\ as'[b] = as[b]
        /\ \A i \in Index : Dirent(b, i)' = Dirent(b, i)
        /\ \A i \in User : Dirent(b, i).p => Dirent(b, i).addr \notin FreedBy(a)
    BY <1>2, OthersKept
  <2>3. mem'[as[b]][v[1]] = mem[as[b]][v[1]]
    <3>1. as'[b] = as[b] /\ Dirent(b, v[1])' = Dirent(b, v[1])
      BY <2>1, <2>2
    <3> QED BY <3>1 DEF Dirent
  <2>4. mem[as[b]][v[1]].p => /\ mem[as[b]][v[1]].addr \in Page
                              /\ mem[as[b]][v[1]].addr \notin FreedBy(a)
    BY <2>1, <2>2 DEF Forest, UserPart, Dirent
  <2>5. mem[as[b]][v[1]].p => mem'[mem[as[b]][v[1]].addr] = mem[mem[as[b]][v[1]].addr]
    BY <1>1, <2>4
  <2> QED BY <2>2, <2>3, <2>5 DEF Lookup
<1>3. Viewed' = [b \in Live \ {a} |-> [v \in Va |-> Lookup(mem', as'[b], v)]]
  BY <1>1 DEF Viewed
<1>4. ASSUME NEW b \in Live \ {a}
      PROVE  [v \in Va |-> Lookup(mem', as'[b], v)] = Viewed[b]
  <2>1. Viewed[b] = [v \in Va |-> Lookup(mem, as[b], v)]
    BY DEF Viewed
  <2> QED BY <1>2, <2>1
<1> QED BY <1>3, <1>4

LEMMA ViewKept ==
  ASSUME TablesKept
  PROVE  Viewed' = Viewed
BY DEF TablesKept, Viewed, Live

LEMMA LeafStepSpaces ==
  ASSUME TypeOK, Forest, NEW a \in Live, NEW va \in Va, NEW e \in LeafEntry,
         WriteLeaf(a, va, e) \/ AddTable(a, va, e), seen' = <<>>
  PROVE  Spaces!Next
<1>1. Viewed' = [Viewed EXCEPT ![a][va] = LeafOf(e)]
  BY LeafWrittenView, TableAddedView
<1>2. LeafOf(e) \in Leaf \cup {NoLeaf}
  BY LeafOfEntry
<1>3. Spaces!Map(a, va, LeafOf(e))
  <2>1. DOMAIN Viewed = Live
    BY DEF Viewed
  <2> QED BY <1>1, <2>1 DEF Spaces!Map, Viewed
<1>4. a \in Space
  BY LiveDirectory
<1> QED BY <1>2, <1>3, <1>4 DEF Spaces!Next

LEMMA StepSpaces ==
  ASSUME VmeInv, [Next]_vars
  PROVE  Spaces!Next \/ UNCHANGED <<Viewed, seen>>
<1> USE DEF VmeInv
<1>1. ASSUME TablesKept, seen' = <<>>
      PROVE  Spaces!Next
  BY <1>1, ViewKept DEF Spaces!Next, Spaces!Other, Viewed
<1>2. CASE UNCHANGED vars
  BY <1>2, ViewKept DEF vars, TablesKept
<1>3. ASSUME Panic PROVE Spaces!Next
  BY <1>1, <1>3 DEF Panic, TablesKept
<1>4. CASE Trap
  BY <1>1, <1>4 DEF Trap, TablesKept
<1>5. ASSUME NEW t \in Thread, NewContext(t) \/ Exit(t) \/ IrqReturn(t)
      PROVE  Spaces!Next
  BY <1>1, <1>5 DEF NewContext, Exit, IrqReturn, TablesKept
<1>6. ASSUME NEW va \in Va, TlbFill(va)
      PROVE  Spaces!Next
  BY <1>1, <1>6 DEF TlbFill, TablesKept
<1>7. ASSUME NEW va \in Va, UserAccess(va)
      PROVE  Spaces!Next
  <2> DEFINE a == AsOf(running)
  <2>1. /\ a \in Live /\ cr3 = as[a]
        /\ tlb[va] # NoLeaf => tlb[va] = Lookup(mem, cr3, va)
    BY <1>7 DEF UserAccess, Coherent
  <2>2. tlb[va] = Lookup(mem, as[a], va)
    BY <1>7, <2>1 DEF UserAccess
  <2>3. seen' = <<a, va, tlb[va]>> /\ Viewed' = Viewed
    BY <1>7, ViewKept DEF UserAccess, TablesKept
  <2> HIDE DEF a
  <2>4. Viewed[a][va] = Lookup(mem, as[a], va) /\ DOMAIN Viewed = Live
    BY <2>1 DEF Viewed
  <2>5. Spaces!Access(a, va)
    BY <2>1, <2>2, <2>3, <2>4 DEF Spaces!Access, Viewed
  <2>6. a \in Space
    BY <2>1, LiveDirectory
  <2>7. \E b \in Space, v \in Va : Spaces!Access(b, v)
    BY <2>5, <2>6
  <2> QED BY <2>7 DEF Spaces!Next
<1>8. ASSUME NEW a \in Space, Protect(a)
      PROVE  Spaces!Next
  <2>1. CASE Panic
    BY <1>3, <2>1
  <2>2. CASE NewSpace(a) /\ seen' = <<>>
    <3>1. /\ Live' = Live \cup {a} /\ a \notin Live
          /\ Viewed' = [b \in Live \cup {a} |->
                         IF b = a THEN [va \in Va |-> NoLeaf] ELSE Viewed[b]]
      BY <2>2, SpaceAddedView
    <3>2. DOMAIN Viewed = Live
      BY DEF Viewed
    <3>3. Spaces!Protect(a)
      BY <2>2, <3>1, <3>2 DEF Spaces!Protect, Spaces!Empty, Viewed
    <3> QED BY <3>3 DEF Spaces!Next
  <2> QED BY <1>8, <2>1, <2>2, ProtectStep
<1>9. ASSUME NEW a \in Space, Unprotect(a)
      PROVE  Spaces!Next
  <2>1. DropSpace(a) /\ a \in Live /\ seen' = <<>>
    BY <1>9, UnprotectStep
  <2>2. Viewed' = [b \in Live \ {a} |-> Viewed[b]] /\ DOMAIN Viewed = Live
    BY <2>1, SpaceDroppedView DEF Viewed
  <2>3. Spaces!Unprotect(a)
    BY <2>1, <2>2 DEF Spaces!Unprotect, Viewed
  <2> QED BY <2>3 DEF Spaces!Next
<1>10. ASSUME NEW a \in Space, NEW va \in Va, Unmap(a, va)
       PROVE  Spaces!Next
  <2>1. CASE Panic
    BY <1>3, <2>1
  <2>2. CASE WriteLeaf(a, va, ZeroPte) /\ a \in Live /\ seen' = <<>>
    BY <2>2, EntryTypes, LeafStepSpaces
  <2> QED BY <1>10, <2>1, <2>2, UnmapStep
<1>11. ASSUME NEW a \in Space, NEW va \in Va, NEW pa \in Pa, NEW w \in Prot,
              Map(a, va, pa, w)
       PROVE  Spaces!Next
  <2> DEFINE e == Entry(pa, w, TRUE)
  <2>1. CASE Panic
    BY <1>3, <2>1
  <2>2. CASE (WriteLeaf(a, va, e) \/ AddTable(a, va, e)) /\ a \in Live /\ seen' = <<>>
    <3>1. e \in LeafEntry
      BY EntryTypes
    <3> HIDE DEF e
    <3> QED BY <2>2, <3>1, LeafStepSpaces
  <2> QED BY <1>11, <2>1, <2>2, MapStep
<1> QED
  BY <1>2, <1>4, <1>5, <1>6, <1>7, <1>8, <1>9, <1>10, <1>11 DEF Next

(* vme.c, with a TLB that nothing but the return from a trap invalidates,  *)
(* implements AddrSpace: a user thread sees its own space as the last map()*)
(* left it.                                                                *)
THEOREM VmeRefines == Spec => ImplementsAddrSpace
<1>1. Init => Spaces!Init
  BY DEF Init, Spaces!Init, Spaces!Empty, Live
<1>2. VmeInv /\ [Next]_vars => [Spaces!Next]_<<Viewed, seen>>
  BY StepSpaces
<1> QED
  BY <1>1, <1>2, VmeAlways, PTL DEF Spec, ImplementsAddrSpace, Spaces!Spec, Viewed
=============================================================================
