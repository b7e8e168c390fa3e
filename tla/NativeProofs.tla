---------------------------- MODULE NativeProofs ----------------------------
(***************************************************************************)
(* Theorems about Native.  NativeInv is inductive; its parts are Stacks    *)
(* (whose context lies where), Lists (how the list of an address space     *)
(* looks before and after a page has been mapped twice) and WindowIsSpace. *)
(***************************************************************************)
EXTENDS Native, TLAPS

SpaceOf(t) == IF t \in UThread THEN AsOf(t) ELSE Null
StackOf(t) == IF t \in UThread THEN "user" ELSE t

(* The registers of a thread, and those of the AM.                         *)
UcOf(t) ==
  [rip : [of : {t}, n : DOMAIN Code(t)], sp : {StackOf(t)}, rdi : {Null},
   masked : BOOLEAN]

AmCpu ==
  [rip : [of : {"am"}, n : Place], sp : Thread, rdi : Thread, masked : {TRUE}]

(* The context at the top of the stack of t is one that t can resume from. *)
Resumable(t) ==
  /\ slot[t].vm_head = SpaceOf(t)
  /\ t \in UThread => slot[t].ksp = t
  /\ slot[t].uc \in UcOf(t)

Shapes ==
  /\ this = [vm_head |-> this.vm_head, ksp |-> this.ksp, ev |-> this.ev]
  /\ this.ksp \in Thread \cup {Null}
  /\ slot = [s \in Thread \cup {"user", Null} |-> slot[s]]
  /\ \A t \in Thread :
       /\ slot[t] = [vm_head |-> slot[t].vm_head, ksp |-> slot[t].ksp,
                     uc |-> slot[t].uc]
       /\ IsUc(slot[t].uc) /\ slot[t].vm_head \in Space \cup {Null}
       /\ slot[t].ksp \in Thread \cup {Null}
  /\ pcb \in [Thread -> Thread \cup {Null}]
  /\ current \in Thread /\ pend \subseteq {"TIMER", "IODEV"}

InThread ==
  /\ Running = current
  /\ cpu \in UcOf(current)
  /\ this.vm_head = SpaceOf(current)
  /\ current \in UThread => this.ksp = current

InAm ==
  /\ cpu \in AmCpu /\ cpu.rdi = current
  /\ slot[current].uc \in UcOf(current)
  /\ cpu.rip.n \in {"irq_handle", "handler", "assert"} => this.vm_head = SpaceOf(current)
  /\ cpu.rip.n = "irq_handle" => (current \in UThread => this.ksp = current)
  /\ cpu.rip.n \in {"handler", "switch", "iret"} => pcb[current] = current
  /\ cpu.rip.n = "iret" => this.vm_head = slot[current].vm_head

Stacks ==
  /\ \A t \in Thread : pcb[t] \in {t, Null}
  /\ \A t \in Thread : pcb[t] = t => Resumable(t)
  /\ InThread \/ InAm

VmHead ==
  [exists : BOOLEAN, head : Va \cup {Null}, next : [Va -> Va \cup {Null}],
   pm : [Va -> Leaf \cup {NoLeaf}], is_mapped : SUBSET Va]

(* A list that holds every page of the hash table once, and one that goes  *)
(* in a circle.                                                            *)
Proper(h) ==
  /\ Ends(h) /\ Walk(h) = {va \in Va : InHash(h, va)}
  /\ \A va \in Va : ~InHash(h, va) => h.next[va] = Null

Endless(h) == h.head # Null /\ \A va \in Walk(h) : h.next[va] # Null

Lists ==
  /\ vm \in [Space -> VmHead] /\ twice \subseteq Space
  /\ this.vm_head \in Space \cup {Null}
  /\ \A a \in Space :
       ~vm[a].exists => /\ vm[a].pm = NoVm.pm /\ vm[a].head = Null
                        /\ vm[a].is_mapped = {}
  /\ \A a \in Space : IF a \in twice THEN Endless(vm[a]) ELSE Proper(vm[a])

NativeInv == Shapes /\ Stacks /\ Lists /\ WindowIsSpace

-----------------------------------------------------------------------------
(* Lists.  What a walk finds lies in every closed set, and is closed.      *)
LEMMA WalkLeast ==
  ASSUME NEW h, NEW S \in SUBSET Va, Closed(h, S)
  PROVE  Walk(h) \subseteq S
BY DEF Walk

LEMMA WalkClosed ==
  ASSUME NEW h \in VmHead
  PROVE  Walk(h) \in SUBSET Va /\ Closed(h, Walk(h))
<1>1. Walk(h) \in SUBSET Va
  BY DEF Walk
<1>2. h.head \in Walk(h) \cup {Null}
  BY DEF Walk, Closed, VmHead
<1>3. ASSUME NEW va \in Walk(h)
      PROVE  h.next[va] \in Walk(h) \cup {Null}
  <2>1. va \in Va /\ h.next[va] \in Va \cup {Null}
    BY <1>1, <1>3 DEF VmHead
  <2>2. ASSUME NEW S \in SUBSET Va, Closed(h, S)
        PROVE  h.next[va] \in S \cup {Null}
    BY <1>3, <2>2, WalkLeast DEF Closed
  <2>3. QED
    BY <2>1, <2>2 DEF Walk
<1>4. QED
  BY <1>1, <1>2, <1>3 DEF Closed

(* The walk and the end of a list depend on head and next only.            *)
LEMMA WalkOfLinks ==
  ASSUME NEW h, NEW g, h.head = g.head, h.next = g.next
  PROVE  Walk(h) = Walk(g) /\ (Ends(h) <=> Ends(g)) /\ (Endless(h) <=> Endless(g))
<1>1. \A S : Closed(h, S) <=> Closed(g, S)
  BY DEF Closed
<1>2. Walk(h) = Walk(g)
  BY <1>1 DEF Walk
<1>3. QED
  BY <1>2 DEF Ends, Endless

LEMMA EndlessNeverEnds ==
  ASSUME NEW h, Endless(h)
  PROVE  ~Ends(h)
BY DEF Ends, Endless

(* What Insert makes of the fields of a VMHead.                            *)
LEMMA InsertFields ==
  ASSUME NEW h \in VmHead, NEW va \in Va, NEW leaf \in Leaf,
         NEW g, g = Insert(h, va, leaf)
  PROVE  /\ g \in VmHead /\ g.exists = h.exists /\ g.head = va
         /\ g.next[va] = h.head
         /\ \A v \in Va \ {va} : g.next[v] = h.next[v]
         /\ g.pm = [h.pm EXCEPT ![va] = leaf]
         /\ g.is_mapped = h.is_mapped \ {va}
BY DEF Insert, VmHead

LEMMA LeafIsLeaf == NoLeaf \notin Leaf
BY NullAssumption DEF Leaf, NoLeaf

(* A page that is not in the list yet is put in front of it.               *)
LEMMA InsertNew ==
  ASSUME NEW h \in VmHead, Proper(h), NEW va \in Va, ~InHash(h, va),
         NEW leaf \in Leaf
  PROVE  Proper(Insert(h, va, leaf))
<1> DEFINE g == Insert(h, va, leaf)
<1>1. /\ g \in VmHead /\ g.head = va /\ g.next[va] = h.head
      /\ \A v \in Va \ {va} : g.next[v] = h.next[v]
      /\ g.pm = [h.pm EXCEPT ![va] = leaf]
  BY InsertFields
<1>2. \A v \in Va : InHash(g, v) <=> v = va \/ InHash(h, v)
  BY <1>1, LeafIsLeaf DEF InHash, VmHead
<1>3. Walk(h) \in SUBSET Va /\ Closed(h, Walk(h)) /\ va \notin Walk(h)
  BY WalkClosed DEF Proper
<1> HIDE DEF g
<1>4. Walk(g) \subseteq {va} \cup Walk(h)
  <2>1. Closed(g, {va} \cup Walk(h))
    BY <1>1, <1>3 DEF Closed
  <2>2. {va} \cup Walk(h) \in SUBSET Va
    BY <1>3
  <2>3. QED
    BY <2>1, <2>2, WalkLeast
<1>5. Closed(g, Walk(g)) /\ Walk(g) \in SUBSET Va
  BY <1>1, WalkClosed
<1>6. va \in Walk(g)
  BY <1>1, <1>5, NullAssumption DEF Closed
<1>7. Walk(h) \subseteq Walk(g)
  <2>1. h.next[va] = Null
    BY DEF Proper
  <2>2. Closed(h, Walk(g))
    BY <1>1, <1>5, <1>6, <2>1 DEF Closed
  <2>3. QED
    BY <1>5, <2>2, WalkLeast
<1>8. Walk(g) = {v \in Va : InHash(g, v)}
  BY <1>2, <1>4, <1>6, <1>7 DEF Proper
<1>9. Ends(g)
  <2>1. CASE h.head = Null
    BY <1>1, <1>6, <2>1 DEF Ends
  <2>2. CASE h.head # Null
    <3>1. PICK v \in Walk(h) : h.next[v] = Null
      BY <2>2 DEF Proper, Ends
    <3>2. v \in Walk(g) /\ g.next[v] = Null
      BY <1>1, <1>3, <1>7, <3>1
    <3>3. QED
      BY <3>2 DEF Ends
  <2>3. QED
    BY <2>1, <2>2
<1>10. ASSUME NEW v \in Va, ~InHash(g, v) PROVE g.next[v] = Null
  BY <1>1, <1>2, <1>10 DEF Proper
<1>11. QED
  BY <1>8, <1>9, <1>10 DEF Proper, g

(* A page that is in the list is put in front of it once more: the links   *)
(* from it lead back to it.                                                *)
LEMMA InsertTwice ==
  ASSUME NEW h \in VmHead, Proper(h), NEW va \in Va, InHash(h, va),
         NEW leaf \in Leaf
  PROVE  Endless(Insert(h, va, leaf))
<1> DEFINE g == Insert(h, va, leaf)
           Onward(v, T) == v \in T /\ \A x \in T : h.next[x] \in T \cup {Null}
           S == {v \in Va : \A T \in SUBSET Va : Onward(v, T) => va \in T}
<1>1. /\ g \in VmHead /\ g.head = va /\ g.next[va] = h.head
      /\ \A v \in Va \ {va} : g.next[v] = h.next[v]
      /\ g.pm = [h.pm EXCEPT ![va] = leaf]
  BY InsertFields
<1>2. va \in Walk(h) /\ h.head \in Va \cup {Null} /\ h.next \in [Va -> Va \cup {Null}]
  BY DEF Proper, VmHead
<1>3. h.head # Null
  <2>1. ASSUME h.head = Null PROVE Closed(h, {})
    BY <2>1 DEF Closed
  <2>2. QED
    BY <1>2, <2>1, WalkLeast
<1>4. h.head \in S
  <2>1. ASSUME NEW T \in SUBSET Va, Onward(h.head, T) PROVE va \in T
    <3>1. Closed(h, T)
      BY <2>1 DEF Closed
    <3>2. QED
      BY <1>2, <3>1, WalkLeast
  <2>2. QED
    BY <1>2, <1>3, <2>1
<1>5. ASSUME NEW v \in S, v # va
      PROVE  h.next[v] \in S
  <2>1. ASSUME h.next[v] = Null PROVE FALSE
    <3>1. Onward(v, {v})
      BY <2>1
    <3>2. {v} \in SUBSET Va
      OBVIOUS
    <3>3. QED
      BY <1>5, <3>1, <3>2
  <2>2. ASSUME NEW T \in SUBSET Va, Onward(h.next[v], T) PROVE va \in T
    <3>1. Onward(v, T \cup {v})
      BY <2>2
    <3>2. T \cup {v} \in SUBSET Va
      OBVIOUS
    <3>3. QED
      BY <1>5, <3>1, <3>2
  <2>3. QED
    BY <1>2, <2>1, <2>2
<1>6. S \in SUBSET Va /\ va \in S
  OBVIOUS
<1> HIDE DEF g, S
<1>7. \A v \in S : g.next[v] \in S
  BY <1>1, <1>4, <1>5, <1>6
<1>8. Walk(g) \subseteq S
  BY <1>1, <1>6, <1>7, WalkLeast DEF Closed
<1>9. QED
  BY <1>1, <1>6, <1>7, <1>8, NullAssumption DEF Endless, g

(* A list that goes in a circle does so for ever.                          *)
LEMMA InsertEndless ==
  ASSUME NEW h \in VmHead, Endless(h), NEW va \in Va, NEW leaf \in Leaf
  PROVE  Endless(Insert(h, va, leaf))
<1> DEFINE g == Insert(h, va, leaf)
<1>1. /\ g \in VmHead /\ g.head = va /\ g.next[va] = h.head
      /\ \A v \in Va \ {va} : g.next[v] = h.next[v]
      /\ g.pm = [h.pm EXCEPT ![va] = leaf]
  BY InsertFields
<1>2. Walk(h) \in SUBSET Va /\ Closed(h, Walk(h)) /\ h.head \in Walk(h)
  BY WalkClosed DEF Endless, Closed
<1> HIDE DEF g
<1>3. Closed(g, {va} \cup Walk(h))
  BY <1>1, <1>2 DEF Closed, Endless
<1>4. Walk(g) \subseteq {va} \cup Walk(h)
  BY <1>2, <1>3, WalkLeast
<1>5. QED
  BY <1>1, <1>2, <1>4, NullAssumption DEF Endless, g

LEMMA NewIsProper ==
  /\ NoVm \in VmHead /\ NewVm \in VmHead /\ Proper(NoVm) /\ Proper(NewVm)
  /\ NewVm.exists /\ NewVm.pm = NoVm.pm /\ NewVm.is_mapped = {}
  /\ NoVm.head = Null /\ NoVm.is_mapped = {}
<1>1. /\ NoVm \in VmHead /\ NewVm \in VmHead
      /\ NewVm.exists /\ NewVm.pm = NoVm.pm /\ NewVm.is_mapped = {}
      /\ NewVm.head = NoVm.head /\ NewVm.next = NoVm.next
  BY DEF NoVm, NewVm, VmHead
<1>2. Closed(NoVm, {})
  BY DEF NoVm, Closed
<1>3. Walk(NoVm) = {}
  BY <1>2, WalkLeast
<1>4. Proper(NoVm)
  BY <1>3 DEF Proper, Ends, InHash, NoVm
<1>5. Proper(NewVm)
  BY <1>1, <1>4, WalkOfLinks DEF Proper, InHash
<1>6. NoVm.head = Null /\ NoVm.is_mapped = {}
  BY DEF NoVm
<1>7. QED
  BY <1>1, <1>4, <1>5, <1>6

(* The steps but for those of vme.c leave the spaces and the window alone. *)
LEMMA OtherSteps ==
  ASSUME Shapes, [Next]_vars
  PROVE  \/ \E a \in Space : Protect(a)
         \/ \E m \in Maps : Map(m[1], m[2], m[3])
         \/ Switch
         \/ UNCHANGED <<vm, win, twice>> /\ this'.vm_head = this.vm_head
<1> DEFINE Kept == UNCHANGED <<vm, win, twice>> /\ this'.vm_head = this.vm_head
<1>1. ASSUME NEW e, Deliver(e) PROVE this'.vm_head = this.vm_head
  BY <1>1 DEF Deliver, Shapes
<1>2. ASSUME NEW e \in Irq, Raise(e) \/ Interrupt(e) PROVE Kept
  BY <1>1, <1>2 DEF Raise, Interrupt
<1>3. ASSUME NEW t \in Thread, Step(t) \/ Access(t) \/ NewContext(t) \/ Schedule(t)
      PROVE  Kept
  BY <1>3 DEF Step, Access, NewContext, Schedule
<1>4. ASSUME NEW t \in Thread, Exception(t) PROVE Kept
  BY <1>1, <1>4 DEF Exception
<1>5. ASSUME IrqHandle \/ IRet PROVE Kept
  BY <1>5 DEF IrqHandle, IRet, Shapes
<1>6. ASSUME UNCHANGED vars PROVE Kept
  BY <1>6 DEF vars
<1>7. QED
  BY <1>2, <1>3, <1>4, <1>5, <1>6 DEF Next

(* What map() makes of the list of a space, loaded or not.                 *)
LEMMA MapSpace ==
  ASSUME Lists, NEW a \in Space, NEW va \in Va, NEW leaf \in Leaf,
         Map(a, va, leaf)
  PROVE  /\ vm' \in [Space -> VmHead]
         /\ \A b \in Space \ {a} : vm'[b] = vm[b]
         /\ vm'[a].exists
         /\ vm'[a].pm = [vm[a].pm EXCEPT ![va] = leaf]
         /\ vm'[a].is_mapped =
              IF this.vm_head = a THEN vm[a].is_mapped \cup {va}
              ELSE vm[a].is_mapped \ {va}
         /\ IF a \in twice \/ InHash(vm[a], va) THEN Endless(vm'[a])
            ELSE Proper(vm'[a])
<1>1. vm[a] \in VmHead /\ vm[a].exists
  BY DEF Lists, Map
<1>2. /\ vm'[a] = IF this.vm_head = a
                    THEN [Insert(vm[a], va, leaf) EXCEPT !.is_mapped = @ \cup {va}]
                    ELSE Insert(vm[a], va, leaf)
      /\ \A b \in Space \ {a} : vm'[b] = vm[b]
      /\ vm' = [b \in Space |-> IF b = a THEN vm'[a] ELSE vm[b]]
  BY DEF Map, Enforced, Lists
<1>3. PICK h : h = vm[a]
  OBVIOUS
<1>4. PICK k : k = vm'[a]
  OBVIOUS
<1> DEFINE g == Insert(h, va, leaf)
<1>5. h \in VmHead
  BY <1>1, <1>3
<1>6. /\ g \in VmHead /\ g.exists = h.exists
      /\ g.pm = [h.pm EXCEPT ![va] = leaf]
      /\ g.is_mapped = h.is_mapped \ {va}
  BY <1>5, InsertFields
<1>7. IF a \in twice \/ InHash(h, va) THEN Endless(g) ELSE Proper(g)
  <2>1. IF a \in twice THEN Endless(h) ELSE Proper(h)
    BY <1>3 DEF Lists
  <2>2. CASE a \in twice
    BY <1>5, <2>1, <2>2, InsertEndless
  <2>3. CASE a \notin twice /\ InHash(h, va)
    BY <1>5, <2>1, <2>3, InsertTwice
  <2>4. CASE a \notin twice /\ ~InHash(h, va)
    BY <1>5, <2>1, <2>4, InsertNew
  <2>5. QED
    BY <2>2, <2>3, <2>4
<1>8. k = IF this.vm_head = a THEN [g EXCEPT !.is_mapped = @ \cup {va}] ELSE g
  BY <1>2, <1>3, <1>4
<1> HIDE DEF g
<1>9. /\ k \in VmHead /\ k.exists = g.exists /\ k.pm = g.pm
      /\ k.head = g.head /\ k.next = g.next
      /\ k.is_mapped = IF this.vm_head = a THEN g.is_mapped \cup {va} ELSE g.is_mapped
  <2>1. CASE this.vm_head = a
    <3>1. k = [g EXCEPT !.is_mapped = @ \cup {va}]
      BY <1>8, <2>1
    <3>2. k \in VmHead
      BY <1>6, <3>1 DEF VmHead
    <3>3. QED
      BY <1>6, <2>1, <3>1, <3>2 DEF VmHead
  <2>2. CASE this.vm_head # a
    BY <1>6, <1>8, <2>2
  <2>3. QED
    BY <2>1, <2>2
<1>10. IF a \in twice \/ InHash(h, va) THEN Endless(k) ELSE Proper(k)
  <2>1. (Endless(k) <=> Endless(g)) /\ Walk(k) = Walk(g) /\ (Ends(k) <=> Ends(g))
    BY <1>9, WalkOfLinks
  <2>2. Proper(g) => Proper(k)
    BY <1>9, <2>1 DEF Proper, InHash
  <2>3. QED
    BY <1>7, <2>1, <2>2
<1>11. vm' \in [Space -> VmHead]
  BY <1>2, <1>4, <1>9 DEF Lists
<1>12. k.is_mapped = IF this.vm_head = a THEN h.is_mapped \cup {va}
                     ELSE h.is_mapped \ {va}
  BY <1>6, <1>9
<1>13. QED
  BY <1>1, <1>2, <1>3, <1>4, <1>6, <1>9, <1>10, <1>11, <1>12

LEMMA WalkOfEmpty ==
  ASSUME NEW h, h.head = Null
  PROVE  Walk(h) = {} /\ ~Endless(h)
<1>1. Closed(h, {})
  BY DEF Closed
<1>2. QED
  BY <1>1, WalkLeast DEF Endless

(* What __am_switch makes of the spaces when their lists end.              *)
LEMMA SwitchSpaces ==
  ASSUME Lists, NEW now, NEW head, now # head,
         vm' = VmAfter(now, head)
  PROVE  /\ vm' \in [Space -> VmHead]
         /\ \A a \in Space :
              /\ vm'[a].exists = vm[a].exists /\ vm'[a].pm = vm[a].pm
              /\ vm'[a].head = vm[a].head /\ vm'[a].next = vm[a].next
              /\ vm'[a].is_mapped =
                   IF a = now THEN vm[a].is_mapped \ Walk(vm[a])
                   ELSE IF a = head THEN vm[a].is_mapped \cup Walk(vm[a])
                   ELSE vm[a].is_mapped
<1>1. ASSUME NEW a \in Space
      PROVE  /\ vm'[a] \in VmHead
             /\ vm'[a].exists = vm[a].exists /\ vm'[a].pm = vm[a].pm
             /\ vm'[a].head = vm[a].head /\ vm'[a].next = vm[a].next
             /\ vm'[a].is_mapped =
                  IF a = now THEN vm[a].is_mapped \ Walk(vm[a])
                  ELSE IF a = head THEN vm[a].is_mapped \cup Walk(vm[a])
                  ELSE vm[a].is_mapped
  <2>1. vm[a] \in VmHead /\ Walk(vm[a]) \subseteq Va
    BY <1>1 DEF Lists, Walk
  <2>2. vm'[a] = CASE a = now  -> [vm[a] EXCEPT !.is_mapped = @ \ Walk(vm[a])]
                   [] a = head -> [vm[a] EXCEPT !.is_mapped = @ \cup Walk(vm[a])]
                   [] OTHER    -> vm[a]
    BY <1>1 DEF VmAfter
  <2>4. CASE a = now
    <3>1. vm'[a] = [vm[a] EXCEPT !.is_mapped = @ \ Walk(vm[a])]
      BY <2>2, <2>4
    <3>2. QED
      BY <2>1, <2>4, <3>1 DEF VmHead
  <2>5. CASE a # now /\ a = head
    <3>1. vm'[a] = [vm[a] EXCEPT !.is_mapped = @ \cup Walk(vm[a])]
      BY <2>2, <2>5
    <3>2. QED
      BY <2>1, <2>5, <3>1 DEF VmHead
  <2>6. CASE a # now /\ a # head
    BY <2>1, <2>2, <2>6
  <2>7. QED
    BY <2>4, <2>5, <2>6
<1>2. vm' = [a \in Space |-> vm'[a]]
  BY DEF VmAfter
<1>3. QED
  BY <1>1, <1>2

(* __am_switch leaves everything alone, or changes to a space the list of  *)
(* which ends, from one the list of which ends.                            *)
LEMMA SwitchTaken ==
  ASSUME Stacks, Shapes, Lists, Switch
  PROVE  /\ UNCHANGED twice /\ cpu.rdi = current
         /\ \/ UNCHANGED <<vm, win>> /\ this'.vm_head = this.vm_head
            \/ \E now, head \in Space \cup {Null} :
                 /\ now = this.vm_head /\ head = slot[current].vm_head
                 /\ head # now /\ this'.vm_head = head
                 /\ \A a \in Space : a \in {now, head} => a \notin twice
                 /\ win' = WinAfter(now, head) /\ vm' = VmAfter(now, head)
<1>1. cpu.rip.of = "am"
  BY DEF Switch, In
<1>2. cpu.rdi = current /\ current \in Thread
  BY <1>1, ThreadAssumption DEF Stacks, InThread, InAm, UcOf, Shapes, Thread
<1>3. PICK now, head \in Space \cup {Null} :
        now = this.vm_head /\ head = slot[cpu.rdi].vm_head
  BY <1>2 DEF Shapes, Lists
<1>4. ASSUME NEW a \in Space, Ends(vm[a]) PROVE a \notin twice
  BY <1>4, EndlessNeverEnds DEF Lists
<1>5. this = [vm_head |-> this.vm_head, ksp |-> this.ksp, ev |-> this.ev]
  BY DEF Shapes
<1>6. UNCHANGED twice
  BY DEF Switch
<1>7. CASE UNCHANGED <<this, vm, win>>
  BY <1>2, <1>6, <1>7
<1>8. CASE /\ head # now /\ \A a \in {now, head} \ {Null} : Ends(vm[a])
           /\ win' = WinAfter(now, head)
           /\ vm' = VmAfter(now, head)
           /\ this' = [this EXCEPT !.vm_head = head]
  <2>1. ASSUME NEW a \in Space, a \in {now, head} PROVE a \notin twice
    BY <1>4, <1>8, <2>1, NullAssumption
  <2>2. this'.vm_head = head
    BY <1>5, <1>8
  <2>3. QED
    BY <1>2, <1>3, <1>6, <1>8, <2>1, <2>2
<1>9. QED
  BY <1>3, <1>7, <1>8 DEF Switch

(* A step keeps Lists.                                                     *)
LEMMA ListsStep ==
  ASSUME Stacks, Shapes, Lists, [Next]_vars
  PROVE  Lists'
<1>1. ASSUME NEW a \in Space, Protect(a) PROVE Lists'
  <2>1. /\ vm' = [vm EXCEPT ![a] = NewVm] /\ UNCHANGED <<this, twice>> /\ ~vm[a].exists
    BY <1>1 DEF Protect
  <2>2. a \notin twice
    BY <2>1, WalkOfEmpty DEF Lists
  <2>3. QED
    BY <2>1, <2>2, NewIsProper DEF Lists
<1>2. ASSUME NEW m \in Maps, Map(m[1], m[2], m[3]) PROVE Lists'
  <2>1. PICK a \in Space, va \in Va, leaf \in Leaf : Map(a, va, leaf)
    BY <1>2, MapsAssumption
  <2>2. /\ vm' \in [Space -> VmHead] /\ vm'[a].exists
        /\ \A b \in Space \ {a} : vm'[b] = vm[b]
        /\ IF a \in twice \/ InHash(vm[a], va) THEN Endless(vm'[a])
           ELSE Proper(vm'[a])
    BY <2>1, MapSpace
  <2>3. /\ twice' = IF InHash(vm[a], va) THEN twice \cup {a} ELSE twice
        /\ UNCHANGED this
    BY <2>1 DEF Map
  <2>4. \A b \in Space : IF b \in twice' THEN Endless(vm'[b]) ELSE Proper(vm'[b])
    BY <2>2, <2>3 DEF Lists
  <2>5. QED
    BY <2>2, <2>3, <2>4 DEF Lists
<1>3. CASE Switch
  <2>1. CASE UNCHANGED <<vm, win>> /\ this'.vm_head = this.vm_head /\ UNCHANGED twice
    BY <2>1 DEF Lists
  <2>2. ASSUME NEW now \in Space \cup {Null}, NEW head \in Space \cup {Null},
               head # now, this'.vm_head = head, UNCHANGED twice,
               vm' = VmAfter(now, head)
        PROVE  Lists'
    <3>1. /\ vm' \in [Space -> VmHead]
          /\ \A a \in Space :
               /\ vm'[a].exists = vm[a].exists /\ vm'[a].pm = vm[a].pm
               /\ vm'[a].head = vm[a].head /\ vm'[a].next = vm[a].next
               /\ vm'[a].is_mapped =
                    IF a = now THEN vm[a].is_mapped \ Walk(vm[a])
                    ELSE IF a = head THEN vm[a].is_mapped \cup Walk(vm[a])
                    ELSE vm[a].is_mapped
      BY <2>2, SwitchSpaces
    <3>2. ASSUME NEW a \in Space
          PROVE  IF a \in twice THEN Endless(vm'[a]) ELSE Proper(vm'[a])
      <4>1. vm'[a].head = vm[a].head /\ vm'[a].next = vm[a].next /\ vm'[a].pm = vm[a].pm
        BY <3>1
      <4>2. /\ Walk(vm'[a]) = Walk(vm[a]) /\ (Ends(vm'[a]) <=> Ends(vm[a]))
            /\ (Endless(vm'[a]) <=> Endless(vm[a]))
        BY <4>1, WalkOfLinks
      <4>3. IF a \in twice THEN Endless(vm[a]) ELSE Proper(vm[a])
        BY DEF Lists
      <4>4. Proper(vm[a]) => Proper(vm'[a])
        BY <4>1, <4>2 DEF Proper, InHash
      <4>5. QED
        BY <4>2, <4>3, <4>4
    <3>3. ASSUME NEW a \in Space, ~vm'[a].exists
          PROVE  vm'[a].pm = NoVm.pm /\ vm'[a].head = Null /\ vm'[a].is_mapped = {}
      <4>1. ~vm[a].exists
        BY <3>1, <3>3
      <4>2. vm[a].pm = NoVm.pm /\ vm[a].head = Null /\ vm[a].is_mapped = {}
        BY <4>1 DEF Lists
      <4>3. Walk(vm[a]) = {}
        BY <4>2, WalkOfEmpty
      <4>4. QED
        BY <3>1, <4>2, <4>3
    <3>4. QED
      BY <2>2, <3>1, <3>2, <3>3 DEF Lists
  <2>3. QED
    BY <1>3, <2>1, <2>2, SwitchTaken
<1>4. CASE UNCHANGED <<vm, win, twice>> /\ this'.vm_head = this.vm_head
  BY <1>4 DEF Lists
<1>5. QED
  BY <1>1, <1>2, <1>3, <1>4, OtherSteps

(* A step keeps the window and is_mapped in step with the loaded space.    *)
LEMMA WindowStep ==
  ASSUME Stacks, Shapes, Lists, WindowIsSpace, [Next]_vars
  PROVE  WindowIsSpace'
<1> DEFINE mapped(a) == {va \in Va : vm[a].pm[va] # NoLeaf}
<1>1. /\ win = IF this.vm_head = Null THEN [va \in Va |-> NoLeaf]
               ELSE vm[this.vm_head].pm
      /\ \A a \in Space :
           vm[a].is_mapped = IF a = this.vm_head THEN mapped(a) ELSE {}
  BY DEF WindowIsSpace
<1>2. ASSUME NEW a \in Space, Protect(a) PROVE WindowIsSpace'
  <2>1. /\ vm' = [vm EXCEPT ![a] = NewVm] /\ UNCHANGED <<this, win>> /\ ~vm[a].exists
    BY <1>2 DEF Protect
  <2>2. /\ vm[a].pm = NewVm.pm /\ NewVm.is_mapped = {} /\ vm[a].is_mapped = {}
        /\ vm \in [Space -> VmHead] /\ this.vm_head \in Space \cup {Null}
    BY <2>1, NewIsProper DEF Lists
  <2>3. \A b \in Space : vm'[b].pm = vm[b].pm /\ vm'[b].is_mapped = vm[b].is_mapped
    BY <2>1, <2>2
  <2>4. win' = IF this.vm_head = Null THEN [va \in Va |-> NoLeaf]
               ELSE vm'[this.vm_head].pm
    BY <1>1, <2>1, <2>2, <2>3
  <2>5. \A b \in Space :
          vm'[b].is_mapped =
            IF b = this.vm_head THEN {v \in Va : vm'[b].pm[v] # NoLeaf} ELSE {}
    BY <1>1, <2>3
  <2>6. QED
    BY <2>1, <2>4, <2>5 DEF WindowIsSpace
<1>3. ASSUME NEW m \in Maps, Map(m[1], m[2], m[3]) PROVE WindowIsSpace'
  <2>1. PICK a \in Space, va \in Va, leaf \in Leaf : Map(a, va, leaf)
    BY <1>3, MapsAssumption
  <2>2. /\ vm' \in [Space -> VmHead]
        /\ \A b \in Space \ {a} : vm'[b] = vm[b]
        /\ vm'[a].exists
        /\ vm'[a].pm = [vm[a].pm EXCEPT ![va] = leaf]
        /\ vm'[a].is_mapped =
             IF this.vm_head = a THEN vm[a].is_mapped \cup {va}
             ELSE vm[a].is_mapped \ {va}
        /\ IF a \in twice \/ InHash(vm[a], va) THEN Endless(vm'[a])
           ELSE Proper(vm'[a])
    BY <2>1, MapSpace
  <2>3. /\ win' = IF this.vm_head = a THEN [win EXCEPT ![va] = leaf] ELSE win
        /\ UNCHANGED this /\ this.vm_head \in Space \cup {Null}
        /\ vm[a].pm \in [Va -> Leaf \cup {NoLeaf}] /\ leaf # NoLeaf
    BY <2>1, LeafIsLeaf DEF Map, Enforced, Lists, VmHead
  <2>4. win' = IF this.vm_head = Null THEN [v \in Va |-> NoLeaf]
               ELSE vm'[this.vm_head].pm
    BY <1>1, <2>2, <2>3, NullAssumption
  <2>5. ASSUME NEW b \in Space
        PROVE  vm'[b].is_mapped =
                 IF b = this.vm_head THEN {v \in Va : vm'[b].pm[v] # NoLeaf} ELSE {}
    <3>1. CASE b # a
      BY <1>1, <2>2, <3>1
    <3>2. CASE b = a /\ this.vm_head = a
      <4>1. /\ vm[a].is_mapped = mapped(a)
            /\ vm'[a].is_mapped = vm[a].is_mapped \cup {va}
        BY <1>1, <2>2, <3>2
      <4>2. \A v \in Va : vm'[a].pm[v] = IF v = va THEN leaf ELSE vm[a].pm[v]
        BY <2>2, <2>3
      <4>3. QED
        BY <2>3, <3>2, <4>1, <4>2
    <3>3. CASE b = a /\ this.vm_head # a
      <4>1. vm[a].is_mapped = {} /\ vm'[a].is_mapped = vm[a].is_mapped \ {va}
        BY <1>1, <2>2, <3>3
      <4>2. QED
        BY <3>3, <4>1
    <3>4. QED
      BY <3>1, <3>2, <3>3
  <2>6. QED
    BY <2>3, <2>4, <2>5 DEF WindowIsSpace
<1>4. CASE Switch
  <2>1. CASE UNCHANGED <<vm, win>> /\ this'.vm_head = this.vm_head
    BY <1>1, <2>1 DEF WindowIsSpace
  <2>2. ASSUME NEW now \in Space \cup {Null}, NEW head \in Space \cup {Null},
               now = this.vm_head, head # now, this'.vm_head = head,
               \A a \in Space : a \in {now, head} => a \notin twice,
               win' = WinAfter(now, head), vm' = VmAfter(now, head)
        PROVE  WindowIsSpace'
    <3>1. /\ vm' \in [Space -> VmHead]
          /\ \A a \in Space :
               /\ vm'[a].exists = vm[a].exists /\ vm'[a].pm = vm[a].pm
               /\ vm'[a].head = vm[a].head /\ vm'[a].next = vm[a].next
               /\ vm'[a].is_mapped =
                    IF a = now THEN vm[a].is_mapped \ Walk(vm[a])
                    ELSE IF a = head THEN vm[a].is_mapped \cup Walk(vm[a])
                    ELSE vm[a].is_mapped
      BY <2>2, SwitchSpaces
    <3>2. \A a \in Space : a \in {now, head} => Walk(vm[a]) = mapped(a)
      BY <2>2 DEF Lists, Proper, InHash
    <3>3. ASSUME NEW a \in Space
          PROVE  vm'[a].is_mapped =
                   IF a = head THEN {v \in Va : vm'[a].pm[v] # NoLeaf} ELSE {}
      <4>1. vm[a].is_mapped = IF a = now THEN mapped(a) ELSE {}
        BY <1>1, <2>2
      <4>2. a \in {now, head} => Walk(vm[a]) = mapped(a)
        BY <3>2
      <4>3. vm'[a].pm = vm[a].pm
        BY <3>1
      <4>4. vm'[a].is_mapped =
              IF a = now THEN vm[a].is_mapped \ Walk(vm[a])
              ELSE IF a = head THEN vm[a].is_mapped \cup Walk(vm[a])
              ELSE vm[a].is_mapped
        BY <3>1
      <4> DEFINE M == mapped(a)
      <4>5. M = {v \in Va : vm'[a].pm[v] # NoLeaf}
        BY <4>3
      <4> HIDE DEF M
      <4>6. vm'[a].is_mapped = IF a = head THEN M ELSE {}
        BY <2>2, <4>1, <4>2, <4>4 DEF M
      <4>7. QED
        BY <4>5, <4>6
    <3>4. now \in Space \cup {Null} /\ vm \in [Space -> VmHead] /\ Null \notin Space
      BY NullAssumption DEF Lists
    <3>5. win' = [va \in Va |->
                   IF head # Null /\ va \in Walk(vm[head]) THEN vm[head].pm[va]
                   ELSE IF now # Null /\ va \in Walk(vm[now]) /\ va \in vm[now].is_mapped
                     THEN NoLeaf ELSE win[va]]
      BY <2>2 DEF WinAfter
    <3>6. ASSUME NEW va \in Va
          PROVE  win'[va] = IF head = Null THEN NoLeaf ELSE vm[head].pm[va]
      <4>1. CASE now = Null
        BY <1>1, <2>2, <3>2, <3>4, <3>5, <4>1
      <4>2. CASE now # Null
        <5>1. now \in Space /\ win[va] = vm[now].pm[va]
          BY <1>1, <2>2, <3>4, <4>2
        <5>2. vm[now].is_mapped = mapped(now) /\ Walk(vm[now]) = mapped(now)
          BY <1>1, <2>2, <3>2, <5>1
        <5>3. head # Null => head \in Space /\ Walk(vm[head]) = mapped(head)
          BY <2>2, <3>2
        <5>4. QED
          BY <3>5, <4>2, <5>1, <5>2, <5>3
      <4>3. QED
        BY <4>1, <4>2
    <3>7. win' = IF head = Null THEN [va \in Va |-> NoLeaf] ELSE vm'[head].pm
      <4>1. CASE head = Null
        BY <3>5, <3>6, <4>1
      <4>2. CASE head # Null
        <5>1. head \in Space /\ vm[head].pm \in [Va -> Leaf \cup {NoLeaf}]
          BY <2>2, <3>4, <4>2 DEF VmHead
        <5>2. win' = vm[head].pm
          BY <3>5, <3>6, <4>2, <5>1
        <5>3. QED
          BY <3>1, <4>2, <5>1, <5>2
      <4>3. QED
        BY <4>1, <4>2
    <3>8. QED
      BY <2>2, <3>3, <3>7 DEF WindowIsSpace
  <2>3. QED
    BY <1>4, <2>1, <2>2, SwitchTaken
<1>5. CASE UNCHANGED <<vm, win, twice>> /\ this'.vm_head = this.vm_head
  BY <1>1, <1>5 DEF WindowIsSpace
<1>6. QED
  BY <1>2, <1>3, <1>4, <1>5, OtherSteps

-----------------------------------------------------------------------------
(* Stacks.  The code of a thread, and the registers of one that runs.      *)
LEMMA CodeShape ==
  ASSUME NEW t \in Thread
  PROVE  /\ Len(Code(t)) \in Nat \ {0} /\ DOMAIN Code(t) = 1 .. Len(Code(t))
         /\ \A n \in DOMAIN Code(t) :
              Code(t)[n].kind \in {"load", "store"} =>
                t \in UThread /\ Code(t)[n].va \in Va
<1> DEFINE plain  == [kind : {"work", "lib", "ret", "cli", "sti", "wild", "SYSCALL", "YIELD"}]
           access == [kind : {"load", "store"}, va : Va]
           Kinds  == IF t \in UThread THEN plain \cup access ELSE plain
<1>1. Code(t) \in Seq(Kinds) /\ Code(t) # <<>>
  BY CodeAssumption DEF Thread
<1>2. /\ \A c \in plain : c.kind \notin {"load", "store"}
      /\ \A c \in access : c.va \in Va
  OBVIOUS
<1>3. \A c \in Kinds : c.kind \in {"load", "store"} => t \in UThread /\ c.va \in Va
  BY <1>2
<1> HIDE DEF Kinds
<1>4. Len(Code(t)) \in Nat \ {0} /\ DOMAIN Code(t) = 1 .. Len(Code(t))
  BY <1>1
<1>5. \A n \in DOMAIN Code(t) : Code(t)[n] \in Kinds
  BY <1>1, <1>4
<1>6. QED
  BY <1>3, <1>4, <1>5

LEMMA ModuloInCode ==
  ASSUME NEW m \in Nat \ {0}, NEW n \in 1 .. m
  PROVE  (n % m) + 1 \in 1 .. m
<1>1. n % m \in 0 .. m - 1
  OBVIOUS
<1>2. QED
  BY <1>1

LEMMA UcFields ==
  ASSUME NEW t \in Thread, NEW uc \in UcOf(t)
  PROVE  /\ uc = [rip |-> uc.rip, sp |-> StackOf(t), rdi |-> Null, masked |-> uc.masked]
         /\ uc.rip = [of |-> t, n |-> uc.rip.n] /\ uc.rip.of = t
         /\ uc.rip.n \in DOMAIN Code(t) /\ uc.masked \in BOOLEAN
         /\ uc.sp = StackOf(t) /\ uc.rdi = Null
BY DEF UcOf

LEMMA UcIsUc ==
  ASSUME NEW t \in Thread, NEW uc \in UcOf(t)
  PROVE  IsUc(uc)
<1>1. /\ uc.rip.of = t /\ uc.rip.n \in DOMAIN Code(t) /\ uc.masked \in BOOLEAN
      /\ uc.sp = StackOf(t) /\ uc.rdi = Null
  BY UcFields
<1>2. t # "am"
  BY ThreadAssumption DEF Thread
<1>3. StackOf(t) \in Thread \cup {"user"}
  BY DEF StackOf
<1>4. QED
  BY <1>1, <1>2, <1>3 DEF IsUc

(* The place behind an instruction is in the code again.                   *)
LEMMA UcAfter ==
  ASSUME NEW t \in Thread, NEW uc \in UcOf(t), NEW b \in BOOLEAN
  PROVE  /\ After(uc.rip) = [of |-> t, n |-> (uc.rip.n % Len(Code(t))) + 1]
         /\ [uc EXCEPT !.rip = uc.rip] \in UcOf(t)
         /\ [uc EXCEPT !.rip = After(uc.rip)] \in UcOf(t)
         /\ [uc EXCEPT !.rip = After(uc.rip), !.masked = b] \in UcOf(t)
<1>1. /\ uc = [rip |-> uc.rip, sp |-> StackOf(t), rdi |-> Null, masked |-> uc.masked]
      /\ uc.rip = [of |-> t, n |-> uc.rip.n] /\ uc.rip.of = t
      /\ uc.rip.n \in DOMAIN Code(t) /\ uc.masked \in BOOLEAN
  BY UcFields
<1>2. (uc.rip.n % Len(Code(t))) + 1 \in DOMAIN Code(t)
  BY <1>1, CodeShape, ModuloInCode
<1>3. After(uc.rip) = [of |-> t, n |-> (uc.rip.n % Len(Code(t))) + 1]
  BY <1>1 DEF After
<1> DEFINE rip == After(uc.rip)
<1>4. rip \in [of : {t}, n : DOMAIN Code(t)]
  BY <1>2, <1>3
<1> HIDE DEF rip
<1>5. /\ [uc EXCEPT !.rip = uc.rip] \in UcOf(t)
      /\ [uc EXCEPT !.rip = rip] \in UcOf(t)
      /\ [uc EXCEPT !.rip = rip, !.masked = b] \in UcOf(t)
  BY <1>1, <1>4 DEF UcOf
<1>6. QED
  BY <1>3, <1>5 DEF rip

(* Who runs can be told from the registers.                                *)
LEMMA WhoRuns ==
  ASSUME Shapes, Stacks
  PROVE  /\ current \in Thread
         /\ Running = "am" => InAm
         /\ Running # "am" => InThread
         /\ ~cpu.masked => InThread
         /\ Running \in Thread => InThread
<1>1. current \in Thread /\ (InThread \/ InAm)
  BY DEF Shapes, Stacks
<1>2. InAm => Running = "am" /\ cpu.masked
  BY DEF InAm, AmCpu, Running
<1>3. "am" \notin Thread
  BY ThreadAssumption DEF Thread
<1>4. InThread => Running \in Thread
  BY <1>1 DEF InThread
<1>5. QED
  BY <1>1, <1>2, <1>3, <1>4

(* What a trap or a signal does to a thread: its context goes to its own   *)
(* stack, and irq_handle runs there.                                       *)
LEMMA Delivered ==
  ASSUME Shapes, Stacks, InThread, NEW e, Deliver(e)
  PROVE  /\ this' = [this EXCEPT !.ev = e]
         /\ \/ /\ e.event \in {"TIMER", "IODEV"} /\ ~SignalSafe(cpu.rip)
               /\ UNCHANGED <<cpu, slot>>
            \/ /\ slot' = [slot EXCEPT ![current] =
                             [@ EXCEPT !.uc = [cpu EXCEPT !.rip = SavedRip(e)]]]
               /\ cpu' = [rip |-> Am("irq_handle"), sp |-> current,
                          rdi |-> current, masked |-> TRUE]
               /\ [cpu EXCEPT !.rip = SavedRip(e)] \in UcOf(current)
<1>1. /\ current \in Thread /\ cpu.rip.of = current /\ cpu.sp = StackOf(current)
      /\ cpu \in UcOf(current) /\ this.vm_head = SpaceOf(current)
      /\ current \in UThread => this.ksp = current
  BY UcFields DEF InThread, Shapes
<1>2. (IF InUserspace(cpu.rip) THEN this.ksp ELSE cpu.sp) = current
  BY <1>1, ThreadAssumption, NullAssumption DEF InUserspace, SpaceOf, StackOf, Thread
<1>3. [cpu EXCEPT !.rip = SavedRip(e)] \in UcOf(current)
  <2>1. CASE e.event \in {"SYSCALL", "YIELD"}
    BY <1>1, <2>1, UcAfter DEF SavedRip
  <2>2. CASE e.event \notin {"SYSCALL", "YIELD"}
    BY <1>1, <2>2, UcAfter DEF SavedRip
  <2>3. QED
    BY <2>1, <2>2
<1>4. QED
  BY <1>2, <1>3 DEF Deliver

(* A thread goes on.                                                       *)
LEMMA ThreadGoesOn ==
  ASSUME Shapes, Stacks, InThread, cpu' \in UcOf(current),
         UNCHANGED <<slot, pcb, current>>, pend' \subseteq {"TIMER", "IODEV"},
         NEW e, this' = this \/ this' = [this EXCEPT !.ev = e]
  PROVE  Shapes' /\ Stacks'
<1>1. /\ this' = [vm_head |-> this.vm_head, ksp |-> this.ksp, ev |-> this'.ev]
      /\ this'.vm_head = this.vm_head /\ this'.ksp = this.ksp
  BY DEF Shapes
<1>2. Shapes'
  BY <1>1 DEF Shapes
<1>3. cpu'.rip.of = current
  BY UcFields DEF Shapes
<1>4. InThread'
  BY <1>1, <1>3 DEF InThread, Running
<1>5. QED
  BY <1>2, <1>4 DEF Stacks, Resumable

LEMMA StepStacks ==
  ASSUME Shapes, Stacks, NEW t \in Thread, Step(t) \/ Access(t)
  PROVE  Shapes' /\ Stacks'
<1>1. InThread
  BY WhoRuns DEF Step, Access, Executes
<1>2. current \in Thread /\ cpu \in UcOf(current) /\ cpu.masked \in BOOLEAN
  BY <1>1, UcFields DEF InThread, Shapes
<1>3. cpu' \in UcOf(current)
  <2>1. CASE Access(t)
    BY <1>2, <2>1, UcAfter DEF Access
  <2>2. CASE Step(t)
    <3>1. PICK b \in BOOLEAN : cpu' = [cpu EXCEPT !.rip = After(cpu.rip), !.masked = b]
      BY <1>2, <2>2 DEF Step
    <3>2. QED
      BY <1>2, <3>1, UcAfter
  <2>3. QED
    BY <2>1, <2>2
<1>4. UNCHANGED <<this, slot, pcb, current, pend>>
  BY DEF Step, Access
<1>5. pend' \subseteq {"TIMER", "IODEV"}
  BY <1>4 DEF Shapes
<1>6. QED
  BY <1>1, <1>3, <1>4, <1>5, ThreadGoesOn

(* The thread that runs is taken to irq_handle.                            *)
LEMMA DeliverStacks ==
  ASSUME Shapes, Stacks, InThread, NEW e, Deliver(e),
         UNCHANGED <<pcb, current>>, pend' \subseteq {"TIMER", "IODEV"}
  PROVE  Shapes' /\ Stacks'
<1>1. CASE UNCHANGED <<cpu, slot>> /\ this' = [this EXCEPT !.ev = e]
  BY <1>1, ThreadGoesOn DEF InThread
<1> DEFINE uc == [cpu EXCEPT !.rip = SavedRip(e)]
<1>2. CASE /\ this' = [this EXCEPT !.ev = e]
           /\ slot' = [slot EXCEPT ![current] = [@ EXCEPT !.uc = uc]]
           /\ cpu' = [rip |-> Am("irq_handle"), sp |-> current,
                      rdi |-> current, masked |-> TRUE]
           /\ uc \in UcOf(current)
  <2> HIDE DEF uc
  <2>1. /\ current \in Thread
        /\ slot = [s \in Thread \cup {"user", Null} |-> slot[s]]
        /\ slot[current] = [vm_head |-> slot[current].vm_head,
                            ksp |-> slot[current].ksp, uc |-> slot[current].uc]
    BY DEF Shapes
  <2>2. /\ this' = [vm_head |-> this.vm_head, ksp |-> this.ksp, ev |-> this'.ev]
        /\ this'.vm_head = this.vm_head /\ this'.ksp = this.ksp
    BY <1>2 DEF Shapes
  <2>3. /\ slot'[current] = [vm_head |-> slot[current].vm_head,
                              ksp |-> slot[current].ksp, uc |-> uc]
        /\ \A t \in Thread \ {current} : slot'[t] = slot[t]
        /\ slot' = [s \in Thread \cup {"user", Null} |-> slot'[s]]
    BY <1>2, <2>1
  <2>4. /\ slot'[current].vm_head = slot[current].vm_head
        /\ slot'[current].ksp = slot[current].ksp /\ slot'[current].uc = uc
    BY <2>3
  <2>5. IsUc(uc)
    BY <1>2, <2>1, UcIsUc
  <2>6. Shapes'
    BY <2>1, <2>2, <2>3, <2>4, <2>5 DEF Shapes
  <2>7. InAm'
    <3>1. /\ cpu'.rip = Am("irq_handle") /\ cpu'.rip.n = "irq_handle"
          /\ cpu'.rdi = current /\ cpu'.sp = current
      BY <1>2 DEF Am, Rip
    <3>2. cpu' \in AmCpu
      BY <1>2, <2>1 DEF AmCpu, Am, Rip, Place
    <3>3. this.vm_head = SpaceOf(current) /\ (current \in UThread => this.ksp = current)
      BY DEF InThread
    <3>4. QED
      BY <1>2, <2>2, <2>4, <3>1, <3>2, <3>3 DEF InAm
  <2>8. \A t \in Thread : Resumable(t) => Resumable(t)'
    BY <1>2, <2>3, <2>4 DEF Resumable
  <2>9. QED
    BY <2>6, <2>7, <2>8 DEF Stacks
<1>3. QED
  BY <1>1, <1>2, Delivered

LEMMA InterruptStacks ==
  ASSUME Shapes, Stacks, NEW e, Interrupt(e)
  PROVE  Shapes' /\ Stacks'
<1>1. InThread
  BY WhoRuns DEF Interrupt
<1>2. pend' \subseteq {"TIMER", "IODEV"}
  BY DEF Interrupt, Shapes
<1>3. QED
  BY <1>1, <1>2, DeliverStacks DEF Interrupt

LEMMA ExceptionStacks ==
  ASSUME Shapes, Stacks, NEW t \in Thread, Exception(t)
  PROVE  Shapes' /\ Stacks'
<1>1. InThread
  BY WhoRuns DEF Exception, Executes
<1>2. pend' \subseteq {"TIMER", "IODEV"} /\ UNCHANGED <<pcb, current>>
  BY DEF Exception, Shapes
<1>3. PICK e : Deliver(e)
  BY DEF Exception
<1>4. QED
  BY <1>1, <1>2, <1>3, DeliverStacks

(* irq_handle completes the context and hands it to the OS.                *)
LEMMA IrqHandleStacks ==
  ASSUME Shapes, Stacks, IrqHandle
  PROVE  Shapes' /\ Stacks'
<1>1. InAm /\ cpu.rip.n = "irq_handle"
  BY WhoRuns DEF IrqHandle, In, Running
<1>2. /\ current \in Thread /\ cpu.rdi = current
      /\ cpu \in AmCpu /\ slot[current].uc \in UcOf(current)
      /\ this.vm_head = SpaceOf(current)
      /\ current \in UThread => this.ksp = current
  BY <1>1 DEF InAm, Shapes
<1>3. /\ slot = [s \in Thread \cup {"user", Null} |-> slot[s]]
      /\ slot[current] = [vm_head |-> slot[current].vm_head,
                          ksp |-> slot[current].ksp, uc |-> slot[current].uc]
      /\ this.ksp \in Thread \cup {Null} /\ IsUc(slot[current].uc)
  BY <1>2 DEF Shapes
<1>4. slot' = [slot EXCEPT ![current] =
                [@ EXCEPT !.vm_head = this.vm_head, !.ksp = this.ksp]]
  BY <1>2 DEF IrqHandle, WithSpace
<1>5. /\ slot'[current] = [vm_head |-> this.vm_head, ksp |-> this.ksp,
                            uc |-> slot[current].uc]
      /\ \A t \in Thread \ {current} : slot'[t] = slot[t]
      /\ slot' = [s \in Thread \cup {"user", Null} |-> slot'[s]]
  BY <1>2, <1>3, <1>4
<1>6. /\ slot'[current].vm_head = this.vm_head /\ slot'[current].ksp = this.ksp
      /\ slot'[current].uc = slot[current].uc
  BY <1>5
<1>7. PICK p \in {"assert", "handler"} :
        /\ cpu' = [cpu EXCEPT !.rip = Am(p)]
        /\ pcb' = IF p = "assert" THEN pcb ELSE [pcb EXCEPT ![current] = current]
  BY <1>2 DEF IrqHandle
<1>8. cpu' \in AmCpu /\ cpu'.rdi = cpu.rdi /\ cpu'.rip.n = p
  BY <1>2, <1>7 DEF AmCpu, Am, Rip, Place
<1>9. UNCHANGED <<this, pend, current>>
  BY DEF IrqHandle
<1>10. /\ pcb' \in [Thread -> Thread \cup {Null}]
       /\ p = "handler" => pcb'[current] = current
       /\ \A t \in Thread \ {current} : pcb'[t] = pcb[t]
       /\ pcb'[current] \in {pcb[current], current}
  BY <1>2, <1>7 DEF Shapes
<1>11. this.vm_head \in Space \cup {Null}
  BY <1>2, ThreadAssumption DEF SpaceOf
<1>12. Shapes'
  BY <1>3, <1>5, <1>6, <1>9, <1>10, <1>11 DEF Shapes
<1>13. ASSUME NEW t \in Thread, t = current PROVE Resumable(t)'
  BY <1>2, <1>6, <1>9, <1>13 DEF Resumable
<1>14. \A t \in Thread \ {current} : Resumable(t) => Resumable(t)'
  BY <1>5 DEF Resumable
<1>15. InAm'
  BY <1>2, <1>6, <1>7, <1>8, <1>9, <1>10 DEF InAm
<1>16. ASSUME NEW t \in Thread
       PROVE  pcb'[t] \in {t, Null} /\ (pcb'[t] = t => Resumable(t)')
  <2>1. pcb[t] \in {t, Null} /\ (pcb[t] = t => Resumable(t))
    BY DEF Stacks
  <2>2. CASE t = current
    BY <1>10, <1>13, <2>1, <2>2
  <2>3. CASE t # current
    BY <1>10, <1>14, <2>1, <2>3
  <2>4. QED
    BY <2>2, <2>3
<1>17. QED
  BY <1>12, <1>15, <1>16 DEF Stacks

(* In the handler the OS has the context of the current thread; before it  *)
(* enables interrupts it runs as boot.                                     *)
LEMMA OsStacks ==
  ASSUME Shapes, Stacks, OsMode
  PROVE  \/ InThread /\ current = boot
         \/ InAm /\ cpu.rip.n = "handler" /\ pcb[current] = current
<1>1. CASE In("handler")
  BY <1>1, WhoRuns DEF In, Running, InAm
<1>2. CASE Running = boot
  <2>1. boot \in Thread
    BY ThreadAssumption DEF Thread
  <2>2. QED
    BY <1>2, <2>1, WhoRuns DEF InThread
<1>3. QED
  BY <1>1, <1>2 DEF OsMode

LEMMA NewContextStacks ==
  ASSUME Shapes, Stacks, NEW t \in Thread, NewContext(t)
  PROVE  Shapes' /\ Stacks'
<1> DEFINE c == IF t \in UThread THEN UContext(t) ELSE KContext(t)
<1>1. /\ pcb[t] = Null /\ t # boot /\ OsMode
      /\ slot' = [slot EXCEPT ![t] = c] /\ pcb' = [pcb EXCEPT ![t] = t]
      /\ UNCHANGED <<cpu, this, pend, current>>
  BY DEF NewContext
<1>2. t # Null /\ t # current
  <2>1. t # Null
    BY ThreadAssumption DEF Thread
  <2>2. QED
    BY <1>1, <2>1, OsStacks
<1>3. /\ c = [vm_head |-> c.vm_head, ksp |-> c.ksp, uc |-> c.uc]
      /\ c.vm_head = SpaceOf(t) /\ (t \in UThread => c.ksp = t)
      /\ c.ksp \in Thread \cup {Null}
      /\ c.uc = [rip |-> Rip(t, 1), sp |-> StackOf(t), rdi |-> Null, masked |-> FALSE]
  BY DEF UContext, KContext, SpaceOf, StackOf
<1>4. Rip(t, 1) \in [of : {t}, n : DOMAIN Code(t)]
  BY CodeShape DEF Rip
<1> HIDE DEF c
<1>5. c.uc \in UcOf(t)
  BY <1>3, <1>4 DEF UcOf
<1>6. IsUc(c.uc) /\ c.vm_head \in Space \cup {Null}
  BY <1>3, <1>5, UcIsUc, ThreadAssumption DEF SpaceOf
<1>7. /\ slot'[t] = c /\ \A s \in Thread \ {t} : slot'[s] = slot[s]
      /\ slot' = [s \in Thread \cup {"user", Null} |-> slot'[s]]
      /\ pcb' \in [Thread -> Thread \cup {Null}] /\ pcb'[t] = t
      /\ \A s \in Thread \ {t} : pcb'[s] = pcb[s]
  BY <1>1 DEF Shapes
<1>8. Shapes'
  BY <1>1, <1>3, <1>6, <1>7 DEF Shapes
<1>9. ASSUME NEW s \in Thread
      PROVE  pcb'[s] \in {s, Null} /\ (pcb'[s] = s => Resumable(s)')
  <2>1. CASE s = t
    BY <1>3, <1>5, <1>7, <2>1 DEF Resumable
  <2>2. CASE s # t
    BY <1>7, <2>2 DEF Stacks, Resumable
  <2>3. QED
    BY <2>1, <2>2
<1>10. InThread' \/ InAm'
  <2>1. current \in Thread /\ slot'[current] = slot[current] /\ pcb'[current] = pcb[current]
    BY <1>2, <1>7 DEF Shapes
  <2>2. InThread => InThread'
    BY <1>1, <2>1 DEF InThread, Running
  <2>3. InAm => InAm'
    BY <1>1, <2>1 DEF InAm
  <2>4. QED
    BY <2>2, <2>3 DEF Stacks
<1>11. QED
  BY <1>8, <1>9, <1>10 DEF Stacks

LEMMA ScheduleStacks ==
  ASSUME Shapes, Stacks, NEW t \in Thread, Schedule(t)
  PROVE  Shapes' /\ Stacks'
<1>1. /\ In("handler") /\ pcb[t] # Null /\ current' = t
      /\ cpu' = [cpu EXCEPT !.rip = Am("switch"), !.rdi = pcb[t]]
      /\ UNCHANGED <<this, pend, slot, pcb>>
  BY DEF Schedule
<1>2. InAm /\ pcb[t] = t /\ Resumable(t)
  BY <1>1, WhoRuns DEF In, Running, Stacks
<1>3. cpu' \in AmCpu /\ cpu'.rdi = t /\ cpu'.rip.n = "switch"
  BY <1>1, <1>2 DEF InAm, AmCpu, Am, Rip, Place
<1>4. InAm'
  BY <1>1, <1>2, <1>3 DEF InAm, Resumable
<1>5. Shapes'
  BY <1>1 DEF Shapes
<1>6. QED
  BY <1>1, <1>4, <1>5 DEF Stacks, Resumable

LEMMA SwitchStacks ==
  ASSUME Shapes, Stacks, Lists, Switch
  PROVE  Shapes' /\ Stacks'
<1>1. InAm /\ cpu.rip.n = "switch" /\ current \in Thread
  BY WhoRuns DEF Switch, In, Running
<1>2. cpu \in AmCpu /\ cpu.rdi = current
  BY <1>1 DEF InAm
<1>3. UNCHANGED <<slot, pcb, current, pend>>
  BY DEF Switch
<1>4. PICK p \in {"iret", "spin"} :
        /\ cpu' = [cpu EXCEPT !.rip = Am(p)]
        /\ \/ this' = this /\ (p = "iret" => this.vm_head = slot[current].vm_head)
           \/ this' = [this EXCEPT !.vm_head = slot[current].vm_head]
  BY <1>2 DEF Switch
<1>5. cpu' \in AmCpu /\ cpu'.rdi = current /\ cpu'.rip.n = p
  BY <1>2, <1>4 DEF AmCpu, Am, Rip, Place
<1>6. /\ this' = [vm_head |-> this'.vm_head, ksp |-> this'.ksp, ev |-> this'.ev]
      /\ this'.ksp = this.ksp
      /\ p = "iret" => this'.vm_head = slot[current].vm_head
  BY <1>4 DEF Shapes
<1>7. Shapes'
  BY <1>3, <1>6 DEF Shapes
<1>8. InAm'
  BY <1>1, <1>3, <1>5, <1>6 DEF InAm
<1>9. QED
  BY <1>3, <1>7, <1>8 DEF Stacks, Resumable

(* The context at the top of the stack is the thread's own, so it goes on  *)
(* with its space and its kernel stack.                                    *)
LEMMA IRetStacks ==
  ASSUME Shapes, Stacks, IRet
  PROVE  Shapes' /\ Stacks'
<1>1. InAm /\ cpu.rip.n = "iret" /\ current \in Thread
  BY WhoRuns DEF IRet, In, Running
<1>2. /\ cpu.rdi = current /\ pcb[current] = current
      /\ this.vm_head = slot[current].vm_head
  BY <1>1 DEF InAm
<1>3. Resumable(current)
  BY <1>1, <1>2 DEF Stacks
<1>4. /\ cpu' = slot[current].uc /\ UNCHANGED <<slot, pcb, current, pend>>
      /\ this' = [this EXCEPT !.ksp = slot[current].ksp, !.ev = Event("ERROR")]
  BY <1>2 DEF IRet, KspOf
<1>5. /\ this' = [vm_head |-> this'.vm_head, ksp |-> this'.ksp, ev |-> this'.ev]
      /\ this'.ksp = slot[current].ksp /\ this'.vm_head = this.vm_head
  BY <1>4 DEF Shapes
<1>6. cpu' \in UcOf(current) /\ cpu'.rip.of = current
  BY <1>1, <1>3, <1>4, UcFields DEF Resumable
<1>7. InThread'
  BY <1>2, <1>3, <1>4, <1>5, <1>6 DEF InThread, Running, Resumable
<1>8. Shapes'
  BY <1>1, <1>4, <1>5 DEF Shapes
<1>9. QED
  BY <1>4, <1>7, <1>8 DEF Stacks, Resumable

LEMMA StacksStep ==
  ASSUME Shapes, Stacks, Lists, [Next]_vars
  PROVE  Shapes' /\ Stacks'
<1>1. ASSUME UNCHANGED <<cpu, this, slot, pcb, current>>,
             pend' \subseteq {"TIMER", "IODEV"}
      PROVE  Shapes' /\ Stacks'
  <2>1. Shapes'
    BY <1>1 DEF Shapes
  <2>2. Stacks'
    BY <1>1 DEF Stacks, Resumable, InThread, InAm, Running
  <2>3. QED
    BY <2>1, <2>2
<1>2. pend \subseteq {"TIMER", "IODEV"}
  BY DEF Shapes
<1>3. ASSUME NEW e \in Irq, Raise(e) PROVE Shapes' /\ Stacks'
  BY <1>1, <1>2, <1>3, IrqAssumption DEF Raise
<1>4. ASSUME NEW a \in Space, Protect(a) PROVE Shapes' /\ Stacks'
  BY <1>1, <1>2, <1>4 DEF Protect
<1>5. ASSUME NEW m \in Maps, Map(m[1], m[2], m[3]) PROVE Shapes' /\ Stacks'
  BY <1>1, <1>2, <1>5 DEF Map
<1>6. CASE UNCHANGED vars
  BY <1>1, <1>2, <1>6 DEF vars
<1>7. QED
  BY <1>3, <1>4, <1>5, <1>6, StepStacks, InterruptStacks, ExceptionStacks,
     IrqHandleStacks, NewContextStacks, ScheduleStacks, SwitchStacks, IRetStacks
     DEF Next

LEMMA InitInv == Init => NativeInv
<1> SUFFICES ASSUME Init PROVE NativeInv
  OBVIOUS
<1>1. boot \in Thread /\ boot \notin UThread /\ "am" \notin Thread /\ Null \notin Thread
  BY ThreadAssumption DEF Thread
<1>2. Lists
  BY NewIsProper DEF Init, Lists
<1>3. WindowIsSpace
  BY NewIsProper DEF Init, WindowIsSpace, NoVm
<1>4. cpu \in UcOf(boot) /\ cpu.rip.of = boot
  BY <1>1, CodeShape DEF Init, UcOf, Rip, StackOf
<1>5. Shapes
  <2>1. IsUc(NoContext.uc)
    BY DEF NoContext, IsUc, Am, Rip, Place
  <2>2. /\ NoContext = [vm_head |-> Null, ksp |-> Null, uc |-> NoContext.uc]
        /\ NoContext.vm_head = Null /\ NoContext.ksp = Null
    BY DEF NoContext
  <2>3. QED
    BY <1>1, <2>1, <2>2 DEF Init, Shapes
<1>6. InThread
  BY <1>1, <1>4 DEF Init, InThread, Running, SpaceOf
<1>7. Stacks
  BY <1>1, <1>6 DEF Init, Stacks
<1>8. QED
  BY <1>2, <1>3, <1>5, <1>7 DEF NativeInv

LEMMA StepInv == NativeInv /\ [Next]_vars => NativeInv'
BY StacksStep, ListsStep, WindowStep DEF NativeInv

(* In every reachable state contexts, lists and window are in order.       *)
THEOREM NativeInvariant == Spec => []NativeInv
BY InitInv, StepInv, PTL DEF Spec

(* Type correctness.                                                       *)
THEOREM NativeTypes == Spec => []TypeOK
<1>1. NativeInv => TypeOK
  <2> SUFFICES ASSUME NativeInv PROVE TypeOK
    OBVIOUS
  <2>1. Shapes /\ Stacks /\ Lists /\ WindowIsSpace
    BY DEF NativeInv
  <2>2. current \in Thread /\ "am" \notin Thread
    BY <2>1, ThreadAssumption DEF Shapes, Thread
  <2>3. IsUc(cpu)
    <3>1. InThread => IsUc(cpu)
      BY <2>2, UcIsUc DEF InThread
    <3>2. InAm => IsUc(cpu)
      BY DEF InAm, AmCpu, IsUc
    <3>3. QED
      BY <2>1, <3>1, <3>2 DEF Stacks
  <2>4. \A a \in Space : vm[a].pm \in [Va -> Leaf \cup {NoLeaf}]
    BY <2>1 DEF Lists, VmHead
  <2>5. this.vm_head \in Space \cup {Null} /\ twice \subseteq Space
    BY <2>1 DEF Lists
  <2>6. win \in [Va -> Leaf \cup {NoLeaf}]
    <3>1. CASE this.vm_head = Null
      BY <2>1, <3>1 DEF WindowIsSpace
    <3>2. CASE this.vm_head # Null
      BY <2>1, <2>4, <2>5, <3>2 DEF WindowIsSpace
    <3>3. QED
      BY <3>1, <3>2
  <2>7. QED
    BY <2>1, <2>3, <2>4, <2>5, <2>6 DEF TypeOK, Shapes
<1>2. QED
  BY <1>1, NativeInvariant, PTL

(* The window of the process is the loaded address space (__am_switch,     *)
(* map).                                                                   *)
THEOREM WindowShowsSpace == Spec => []WindowIsSpace
<1>1. NativeInv => WindowIsSpace
  BY DEF NativeInv
<1>2. QED
  BY <1>1, NativeInvariant, PTL

(* Every waiting context lies on its own stack, and thiscpu->ksp is the    *)
(* kernel stack of the user thread that runs (irq_handle, iret).           *)
THEOREM StacksAreOwn == Spec => []OwnStack
<1>1. NativeInv => OwnStack
  <2> SUFFICES ASSUME NativeInv PROVE OwnStack
    OBVIOUS
  <2>1. Shapes /\ Stacks
    BY DEF NativeInv
  <2>2. Running \in UThread => this.ksp = Running
    BY <2>1, WhoRuns DEF InThread, Thread
  <2>3. QED
    BY <2>1, <2>2 DEF OwnStack, Stacks, Resumable, Thread
<1>2. QED
  BY <1>1, NativeInvariant, PTL

(* A list ends exactly as long as no page of its space has been mapped     *)
(* twice (map, __am_switch).                                               *)
THEOREM ListsEndUntilTwice == Spec => []ListsEnd
<1>1. NativeInv => ListsEnd
  <2> SUFFICES ASSUME NativeInv PROVE ListsEnd
    OBVIOUS
  <2>1. Lists
    BY DEF NativeInv
  <2>2. \A a \in Space : Ends(vm[a]) <=> a \notin twice
    BY <2>1, EndlessNeverEnds DEF Lists, Proper
  <2>3. \A a \in Space \ twice : Walk(vm[a]) = {va \in Va : InHash(vm[a], va)}
    BY <2>1 DEF Lists, Proper
  <2>4. QED
    BY <2>2, <2>3 DEF ListsEnd
<1>2. QED
  BY <1>1, NativeInvariant, PTL

-----------------------------------------------------------------------------
(* The refinement.  Where a thread is, and whether it has disabled         *)
(* interrupts, said of the stack that its context lies on.                 *)
Registers(t) == IF Running = t THEN cpu ELSE slot[t].uc
PlaceOf(t)   == IF Fresh(t) THEN 1 ELSE Registers(t).rip.n
Disables(t)  == ~Fresh(t) /\ Registers(t).masked

Mapped ==
  /\ places = [t \in Thread |-> PlaceOf(t)]
  /\ disabled = {t \in Thread : Disables(t)}

LEMMA MappedHolds == NativeInv => Mapped
<1> SUFFICES ASSUME NativeInv PROVE Mapped
  OBVIOUS
<1>1. Shapes /\ Stacks
  BY DEF NativeInv
<1>2. ASSUME NEW t \in Thread, ~Fresh(t)
      PROVE  ContextOf(t) = Registers(t) /\ ContextOf(t).rip.of = t
  <2>1. CASE Running = t
    BY <1>1, <2>1 DEF ContextOf, Registers, Running
  <2>2. CASE Running # t /\ current = t
    <3>1. InAm
      BY <1>1, <2>2, WhoRuns DEF InThread
    <3>2. cpu.rdi = t /\ slot[t].uc \in UcOf(t)
      BY <2>2, <3>1 DEF InAm
    <3>3. slot[t].uc.rip.of = t
      BY <3>2, UcFields
    <3>4. QED
      BY <2>2, <3>2, <3>3 DEF ContextOf, Registers
  <2>3. CASE Running # t /\ current # t
    <3>1. pcb[t] = t /\ slot[t].uc \in UcOf(t)
      BY <1>1, <1>2, <2>3 DEF Fresh, Stacks, Resumable
    <3>2. slot[t].uc.rip.of = t
      BY <3>1, UcFields
    <3>3. QED
      BY <2>3, <3>1, <3>2 DEF ContextOf, Registers
  <2>4. QED
    BY <2>1, <2>2, <2>3
<1>3. QED
  BY <1>2 DEF Mapped, places, disabled, PlaceOf, Disables

LEMMA MappedNext == NativeInv' => Mapped'
BY MappedHolds, PTL

(* The running thread is not fresh, and its registers are the CPU's.       *)
LEMMA RunnerMapped ==
  ASSUME NativeInv, InThread
  PROVE  /\ current \in Thread /\ Running = current /\ ~Fresh(current)
         /\ cpu \in UcOf(current)
         /\ PlaceOf(current) = cpu.rip.n
         /\ (Disables(current) <=> cpu.masked)
         /\ places[current] = cpu.rip.n
         /\ (current \in disabled <=> cpu.masked)
         /\ runs = current /\ spoken = <<>>
<1>1. current \in Thread /\ Running = current /\ cpu \in UcOf(current)
  BY DEF NativeInv, Shapes, InThread
<1>2. ~Fresh(current) /\ Registers(current) = cpu
  BY <1>1 DEF Fresh, Registers
<1>3. PlaceOf(current) = cpu.rip.n /\ (Disables(current) <=> cpu.masked)
  BY <1>2 DEF PlaceOf, Disables
<1>4. places[current] = cpu.rip.n /\ (current \in disabled <=> cpu.masked)
  BY <1>1, <1>3, MappedHolds DEF Mapped
<1>5. current # "am"
  BY <1>1, ThreadAssumption DEF Thread
<1>6. runs = current /\ spoken = <<>>
  BY <1>1, <1>5 DEF runs, spoken
<1>7. QED
  BY <1>1, <1>2, <1>3, <1>4, <1>6

(* A step that changes no place and no mask changes neither of the two.    *)
LEMMA SamePlaces ==
  ASSUME NativeInv, NativeInv',
         \A t \in Thread : PlaceOf(t)' = PlaceOf(t) /\ (Disables(t)' <=> Disables(t))
  PROVE  places' = places /\ disabled' = disabled
BY MappedHolds, MappedNext DEF Mapped

LEMMA OtherMoves ==
  ASSUME places' = places, disabled' = disabled, runs' = runs, spoken' = spoken,
         spaces' = spaces, seen' = <<>>
  PROVE  Promise!Next
BY DEF Promise!Next, Promise!Other, Promise!Quiet

(* Raise, Protect and a stutter of the AM: nothing that a thread could see.*)
LEMMA RaiseMoves ==
  ASSUME NativeInv, NativeInv', NEW e, Raise(e)
  PROVE  Promise!Next
<1>1. UNCHANGED <<cpu, this, slot, vm, pcb, current>> /\ seen' = <<>>
  BY DEF Raise, Quiet
<1>2. \A t \in Thread : PlaceOf(t)' = PlaceOf(t) /\ (Disables(t)' <=> Disables(t))
  BY <1>1 DEF PlaceOf, Disables, Fresh, Registers, Running
<1>3. runs' = runs /\ spoken' = spoken /\ spaces' = spaces
  BY <1>1 DEF runs, spoken, spaces, Running
<1>4. QED
  BY <1>1, <1>2, <1>3, SamePlaces, OtherMoves

LEMMA ProtectMoves ==
  ASSUME NativeInv, NativeInv', NEW a \in Space, Protect(a)
  PROVE  Promise!Next
<1>1. /\ UNCHANGED <<cpu, this, slot, pcb, current>> /\ seen' = <<>>
      /\ vm' = [vm EXCEPT ![a] = NewVm] /\ ~vm[a].exists
  BY DEF Protect, Quiet
<1>2. \A t \in Thread : PlaceOf(t)' = PlaceOf(t) /\ (Disables(t)' <=> Disables(t))
  BY <1>1 DEF PlaceOf, Disables, Fresh, Registers, Running
<1>3. runs' = runs /\ spoken' = spoken
  BY <1>1 DEF runs, spoken, Running
<1>4. vm[a].pm = NewVm.pm /\ vm \in [Space -> VmHead]
  BY <1>1, NewIsProper DEF NativeInv, Lists
<1>5. \A b \in Space : vm'[b].pm = vm[b].pm
  BY <1>1, <1>4
<1>6. spaces' = spaces
  BY <1>5 DEF spaces
<1>7. QED
  BY <1>1, <1>2, <1>3, <1>6, SamePlaces, OtherMoves

LEMMA MapMoves ==
  ASSUME NativeInv, NativeInv', NEW a \in Space, NEW va \in Va, NEW leaf \in Leaf,
         Map(a, va, leaf)
  PROVE  Promise!Next
<1>1. /\ UNCHANGED <<cpu, this, slot, pcb, current>> /\ seen' = <<>> /\ OsMode
  BY DEF Map, Quiet
<1>2. \A t \in Thread : PlaceOf(t)' = PlaceOf(t) /\ (Disables(t)' <=> Disables(t))
  BY <1>1 DEF PlaceOf, Disables, Fresh, Registers, Running
<1>3. runs' = runs /\ spoken' = spoken
  BY <1>1 DEF runs, spoken, Running
<1>4. Lists /\ vm \in [Space -> VmHead]
  BY DEF NativeInv, Lists
<1>5. /\ vm' \in [Space -> VmHead]
      /\ \A b \in Space \ {a} : vm'[b] = vm[b]
      /\ vm'[a].exists
      /\ vm'[a].pm = [vm[a].pm EXCEPT ![va] = leaf]
      /\ vm'[a].is_mapped =
           IF this.vm_head = a THEN vm[a].is_mapped \cup {va}
           ELSE vm[a].is_mapped \ {va}
      /\ IF a \in twice \/ InHash(vm[a], va) THEN Endless(vm'[a])
         ELSE Proper(vm'[a])
  BY <1>4, MapSpace
<1>6. spaces' = [spaces EXCEPT ![a][va] = leaf]
  <2>1. spaces' = [b \in Space |-> vm'[b].pm] /\ spaces = [b \in Space |-> vm[b].pm]
    BY DEF spaces
  <2>2. \A b \in Space :
          vm'[b].pm = IF b = a THEN [vm[a].pm EXCEPT ![va] = leaf] ELSE vm[b].pm
    BY <1>5
  <2>3. QED
    BY <2>1, <2>2
<1>7. runs = "os" \/ runs \in disabled
  <2>1. CASE In("handler")
    BY <2>1 DEF In, runs, Running
  <2>2. CASE Running = boot /\ cpu.masked
    <3>1. InThread
      BY <2>2, WhoRuns, ThreadAssumption DEF NativeInv, Thread
    <3>2. QED
      BY <2>2, <3>1, RunnerMapped
  <2>3. QED
    BY <1>1, <2>1, <2>2 DEF OsMode
<1>8. places' = places /\ disabled' = disabled
  BY <1>2, SamePlaces
<1>9. Promise!Map(a, va, leaf)
  BY <1>1, <1>3, <1>6, <1>7, <1>8 DEF Promise!Map, Promise!Quiet
<1>10. QED
  BY <1>9 DEF Promise!Next

(* In the AM the OS has the CPU.                                           *)
LEMMA AmMapped ==
  ASSUME NativeInv, Running = "am"
  PROVE  /\ InAm /\ current \in Thread /\ cpu.rdi = current
         /\ slot[current].uc \in UcOf(current) /\ runs = "os"
BY WhoRuns DEF NativeInv, Shapes, InAm, runs

LEMMA IrqHandleMoves ==
  ASSUME NativeInv, NativeInv', IrqHandle
  PROVE  Promise!Next
<1>1. /\ Running = "am" /\ cpu.rip.n = "irq_handle"
      /\ UNCHANGED <<this, vm, current>> /\ seen' = <<>>
      /\ slot' = [slot EXCEPT ![cpu.rdi] =
                    [@ EXCEPT !.vm_head = this.vm_head, !.ksp = this.ksp]]
  BY DEF IrqHandle, In, Running, Quiet, WithSpace
<1>2. InAm /\ current \in Thread /\ cpu.rdi = current
  BY <1>1, AmMapped
<1>3. PICK p \in {"assert", "handler"} :
        /\ cpu' = [cpu EXCEPT !.rip = Am(p)]
        /\ pcb' = IF p = "assert" THEN pcb ELSE [pcb EXCEPT ![current] = current]
  BY <1>2 DEF IrqHandle
<1>4. Running' = "am" /\ cpu'.rip.n = p
  BY <1>2, <1>3 DEF InAm, AmCpu, Am, Rip, Running
<1>5. \A t \in Thread : slot'[t].uc = slot[t].uc
  <2>1. /\ slot = [s \in Thread \cup {"user", Null} |-> slot[s]]
        /\ slot[current] = [vm_head |-> slot[current].vm_head,
                            ksp |-> slot[current].ksp, uc |-> slot[current].uc]
    BY <1>2 DEF NativeInv, Shapes
  <2>2. \A t \in Thread \ {current} : slot'[t] = slot[t]
    BY <1>1, <1>2, <2>1
  <2>3. slot'[current].uc = slot[current].uc
    BY <1>1, <1>2, <2>1
  <2>4. QED
    BY <2>2, <2>3
<1>6. \A t \in Thread \ {current} : pcb'[t] = pcb[t]
  BY <1>3 DEF NativeInv, Shapes
<1>7. "am" \notin Thread
  BY ThreadAssumption DEF Thread
<1>8. \A t \in Thread : PlaceOf(t)' = PlaceOf(t) /\ (Disables(t)' <=> Disables(t))
  <2>1. \A t \in Thread : Registers(t)' = slot'[t].uc /\ Registers(t) = slot[t].uc
    BY <1>1, <1>4, <1>7 DEF Registers
  <2>2. \A t \in Thread : Fresh(t)' <=> Fresh(t)
    BY <1>1, <1>6 DEF Fresh
  <2>3. QED
    BY <1>5, <2>1, <2>2 DEF PlaceOf, Disables
<1>9. runs' = runs /\ spoken' = spoken /\ spaces' = spaces
  BY <1>1, <1>4 DEF runs, spoken, spaces
<1>10. QED
  BY <1>1, <1>8, <1>9, SamePlaces, OtherMoves

LEMMA NewContextMoves ==
  ASSUME NativeInv, NativeInv', NEW t \in Thread, NewContext(t)
  PROVE  Promise!Next
<1> DEFINE c == IF t \in UThread THEN UContext(t) ELSE KContext(t)
<1>1. /\ pcb[t] = Null /\ t # boot /\ OsMode
      /\ slot' = [slot EXCEPT ![t] = c] /\ pcb' = [pcb EXCEPT ![t] = t]
      /\ UNCHANGED <<cpu, this, vm, current>> /\ seen' = <<>>
  BY DEF NewContext, Quiet
<1>2. t # Null /\ t # current /\ current \in Thread
  <2>1. t # Null
    BY ThreadAssumption DEF Thread
  <2>2. QED
    BY <1>1, <2>1, OsStacks DEF NativeInv, Shapes
<1>3. c.uc.rip.n = 1 /\ c.uc.masked = FALSE
  BY DEF UContext, KContext, Rip
<1> HIDE DEF c
<1>4. /\ slot'[t] = c /\ \A s \in Thread \ {t} : slot'[s] = slot[s]
      /\ pcb'[t] = t /\ \A s \in Thread \ {t} : pcb'[s] = pcb[s]
  BY <1>1 DEF NativeInv, Shapes
<1>5. Running # t
  BY <1>2, WhoRuns DEF NativeInv, InThread
<1>6. Fresh(t) /\ ~Fresh(t)'
  BY <1>1, <1>2, <1>4 DEF Fresh
<1>7. PlaceOf(t)' = 1 /\ ~Disables(t)' /\ PlaceOf(t) = 1 /\ ~Disables(t)
  BY <1>1, <1>3, <1>4, <1>5, <1>6 DEF PlaceOf, Disables, Registers, Running
<1>8. ASSUME NEW s \in Thread, s # t
      PROVE  PlaceOf(s)' = PlaceOf(s) /\ (Disables(s)' <=> Disables(s))
  BY <1>1, <1>4, <1>8 DEF PlaceOf, Disables, Fresh, Registers, Running
<1>9. \A s \in Thread : PlaceOf(s)' = PlaceOf(s) /\ (Disables(s)' <=> Disables(s))
  <2>1. SUFFICES ASSUME NEW s \in Thread
                 PROVE  PlaceOf(s)' = PlaceOf(s) /\ (Disables(s)' <=> Disables(s))
    OBVIOUS
  <2>2. CASE s = t
    BY <1>7, <2>2
  <2>3. QED
    BY <1>8, <2>2
<1>10. runs' = runs /\ spoken' = spoken /\ spaces' = spaces
  BY <1>1 DEF runs, spoken, spaces, Running
<1>11. QED
  BY <1>1, <1>9, <1>10, SamePlaces, OtherMoves

LEMMA ScheduleMoves ==
  ASSUME NativeInv, NativeInv', NEW t \in Thread, Schedule(t)
  PROVE  Promise!Next
<1>1. /\ Running = "am" /\ cpu.rip.n = "handler" /\ pcb[t] # Null /\ current' = t
      /\ cpu' = [cpu EXCEPT !.rip = Am("switch"), !.rdi = pcb[t]]
      /\ UNCHANGED <<this, slot, vm, pcb>> /\ seen' = <<>>
  BY DEF Schedule, In, Running, Quiet
<1>2. InAm /\ runs = "os" /\ current \in Thread /\ pcb[current] = current
  BY <1>1, AmMapped DEF InAm
<1>3. Running' = "am" /\ cpu'.rip.n = "switch"
  BY <1>1, <1>2 DEF InAm, AmCpu, Am, Rip, Running
<1>4. "am" \notin Thread /\ Null \notin Thread
  BY ThreadAssumption DEF Thread
<1>5. \A s \in Thread : Fresh(s)' <=> Fresh(s)
  BY <1>1, <1>2, <1>4 DEF Fresh
<1>6. \A s \in Thread : PlaceOf(s)' = PlaceOf(s) /\ (Disables(s)' <=> Disables(s))
  <2>1. \A s \in Thread : Registers(s)' = slot'[s].uc /\ Registers(s) = slot[s].uc
    BY <1>1, <1>3, <1>4 DEF Registers
  <2>2. QED
    BY <1>1, <1>5, <2>1 DEF PlaceOf, Disables
<1>7. /\ runs' = runs /\ spaces' = spaces
      /\ spoken' = <<t, Event("resume")>>
  BY <1>1, <1>3 DEF runs, spoken, spaces
<1>8. places' = places /\ disabled' = disabled
  BY <1>6, SamePlaces
<1>9. Promise!Choose(t)
  BY <1>1, <1>2, <1>7, <1>8 DEF Promise!Choose, Promise!Quiet, Promise!Go, Event
<1>10. QED
  BY <1>9 DEF Promise!Next

LEMMA SwitchMoves ==
  ASSUME NativeInv, NativeInv', Switch
  PROVE  Promise!Next
<1>1. /\ Running = "am" /\ cpu.rip.n = "switch"
      /\ UNCHANGED <<slot, pcb, current>> /\ seen' = <<>>
  BY DEF Switch, In, Running, Quiet
<1>2. InAm
  BY <1>1, AmMapped
<1>3. PICK p \in {"iret", "spin"} : cpu' = [cpu EXCEPT !.rip = Am(p)]
  BY DEF Switch
<1>4. Running' = "am" /\ cpu'.rip.n = p
  BY <1>2, <1>3 DEF InAm, AmCpu, Am, Rip, Running
<1>5. "am" \notin Thread
  BY ThreadAssumption DEF Thread
<1>6. \A s \in Thread : PlaceOf(s)' = PlaceOf(s) /\ (Disables(s)' <=> Disables(s))
  BY <1>1, <1>4, <1>5 DEF PlaceOf, Disables, Fresh, Registers
<1>7. runs' = runs /\ spoken' = spoken
  BY <1>1, <1>4 DEF runs, spoken
<1>8. spaces' = spaces
  <2>1. Stacks /\ Shapes /\ Lists
    BY DEF NativeInv
  <2>2. CASE UNCHANGED vm
    BY <2>2 DEF spaces
  <2>3. ASSUME NEW now \in Space \cup {Null}, NEW head \in Space \cup {Null},
               head # now, vm' = VmAfter(now, head)
        PROVE  spaces' = spaces
    <3>1. /\ vm' \in [Space -> VmHead]
          /\ \A a \in Space :
               /\ vm'[a].exists = vm[a].exists /\ vm'[a].pm = vm[a].pm
               /\ vm'[a].head = vm[a].head /\ vm'[a].next = vm[a].next
               /\ vm'[a].is_mapped =
                    IF a = now THEN vm[a].is_mapped \ Walk(vm[a])
                    ELSE IF a = head THEN vm[a].is_mapped \cup Walk(vm[a])
                    ELSE vm[a].is_mapped
      BY <2>1, <2>3, SwitchSpaces
    <3>2. QED
      BY <3>1 DEF spaces
  <2>4. QED
    BY <2>1, <2>2, <2>3, SwitchTaken
<1>9. QED
  BY <1>1, <1>6, <1>7, <1>8, SamePlaces, OtherMoves

LEMMA IRetMoves ==
  ASSUME NativeInv, NativeInv', IRet
  PROVE  Promise!Next
<1>1. /\ Running = "am" /\ cpu.rip.n = "iret" /\ cpu' = slot[cpu.rdi].uc
      /\ UNCHANGED <<slot, vm, pcb, current>> /\ seen' = <<>>
  BY DEF IRet, In, Running, Quiet
<1>2. /\ InAm /\ current \in Thread /\ cpu.rdi = current
      /\ slot[current].uc \in UcOf(current) /\ runs = "os"
  BY <1>1, AmMapped
<1>3. Running' = current
  BY <1>1, <1>2, UcFields DEF Running
<1>4. "am" \notin Thread
  BY ThreadAssumption DEF Thread
<1>5. \A s \in Thread : PlaceOf(s)' = PlaceOf(s) /\ (Disables(s)' <=> Disables(s))
  <2>1. \A s \in Thread : Registers(s)' = Registers(s)
    BY <1>1, <1>2, <1>3, <1>4 DEF Registers
  <2>2. QED
    BY <1>1, <2>1 DEF PlaceOf, Disables, Fresh
<1>6. /\ runs' = current /\ spaces' = spaces /\ spoken' = <<>>
      /\ spoken = <<current, Event("resume")>>
  BY <1>1, <1>2, <1>3, <1>4 DEF runs, spoken, spaces
<1>7. places' = places /\ disabled' = disabled
  BY <1>5, SamePlaces
<1>8. Promise!Resume(current)
  BY <1>1, <1>2, <1>6, <1>7 DEF Promise!Resume, Promise!Quiet, Promise!Go, Event
<1>9. QED
  BY <1>2, <1>8 DEF Promise!Next

(* What the thread that runs does next is what Tasks says.                 *)
LEMMA OpMapped ==
  ASSUME NativeInv, InThread
  PROVE  /\ Promise!Op(current) = Op
         /\ Op.kind \in {"load", "store"} => current \in UThread /\ Op.va \in Va
<1>1. /\ current \in Thread /\ Running = current /\ cpu \in UcOf(current)
      /\ places[current] = cpu.rip.n
  BY RunnerMapped
<1>2. cpu.rip.n \in DOMAIN Code(current)
  BY <1>1, UcFields
<1>3. Op = Code(current)[cpu.rip.n]
  BY <1>1 DEF Op, OpAt, Running
<1>4. QED
  BY <1>1, <1>2, <1>3, CodeShape DEF Promise!Op

LEMMA WindowMapped ==
  ASSUME NativeInv, InThread, current \in UThread
  PROVE  spaces[AsOf(current)] = win
<1>1. this.vm_head = AsOf(current) /\ AsOf(current) \in Space
  BY ThreadAssumption DEF InThread, SpaceOf
<1>2. win = vm[AsOf(current)].pm
  BY <1>1, NullAssumption DEF NativeInv, WindowIsSpace
<1>3. QED
  BY <1>1, <1>2 DEF spaces

(* A step that moves the running thread and leaves it running.             *)
LEMMA ThreadMoves ==
  ASSUME NativeInv, NativeInv', InThread,
         cpu'.rip = After(cpu.rip), UNCHANGED <<this, slot, vm, pcb, current>>
  PROVE  /\ places' = [places EXCEPT ![current] =
                        Promise!After(current, places[current])]
         /\ disabled' = IF cpu'.masked THEN disabled \cup {current}
                        ELSE disabled \ {current}
         /\ runs' = runs /\ spoken' = spoken /\ spaces' = spaces
<1>1. /\ current \in Thread /\ Running = current /\ ~Fresh(current)
      /\ cpu \in UcOf(current) /\ places[current] = cpu.rip.n
  BY RunnerMapped
<1>2. After(cpu.rip) = [of |-> current, n |-> (cpu.rip.n % Len(Code(current))) + 1]
  BY <1>1, UcAfter
<1>3. Running' = current /\ cpu'.rip.n = (cpu.rip.n % Len(Code(current))) + 1
  BY <1>2 DEF Running
<1>4. ASSUME NEW t \in Thread, t # current
      PROVE  PlaceOf(t)' = PlaceOf(t) /\ (Disables(t)' <=> Disables(t))
  BY <1>1, <1>3, <1>4 DEF PlaceOf, Disables, Fresh, Registers
<1>5. ASSUME NEW t \in Thread, t = current
      PROVE  /\ PlaceOf(t)' = Promise!After(current, places[current])
             /\ (Disables(t)' <=> cpu'.masked)
  <2>1. ~Fresh(t)' /\ Registers(t)' = cpu'
    BY <1>3, <1>5 DEF Fresh, Registers
  <2>2. QED
    BY <1>1, <1>3, <2>1 DEF PlaceOf, Disables, Promise!After
<1>6. Mapped /\ Mapped'
  BY MappedHolds, MappedNext
<1>7. places' = [places EXCEPT ![current] = Promise!After(current, places[current])]
  BY <1>1, <1>4, <1>5, <1>6 DEF Mapped
<1>8. disabled' = IF cpu'.masked THEN disabled \cup {current} ELSE disabled \ {current}
  BY <1>1, <1>4, <1>5, <1>6 DEF Mapped
<1>9. runs' = runs /\ spoken' = spoken /\ spaces' = spaces
  BY <1>1, <1>3, ThreadAssumption DEF runs, spoken, spaces, Thread
<1>10. QED
  BY <1>7, <1>8, <1>9

LEMMA StepMoves ==
  ASSUME NativeInv, NativeInv', NEW t \in Thread, Step(t)
  PROVE  Promise!Next
<1>1. InThread /\ t = current
  BY WhoRuns DEF Step, Executes, NativeInv, InThread
<1>2. /\ Running = current /\ cpu \in UcOf(current) /\ (current \in disabled <=> cpu.masked)
      /\ runs = current
  BY <1>1, RunnerMapped
<1>3. PICK b : /\ cpu' = [cpu EXCEPT !.rip = After(cpu.rip), !.masked = b]
               /\ b = CASE Op.kind = "cli" -> TRUE
                        [] Op.kind = "sti" -> FALSE
                        [] OTHER -> cpu.masked
  BY DEF Step
<1>4. cpu'.rip = After(cpu.rip) /\ cpu'.masked = b
  BY <1>2, <1>3, UcFields DEF UcOf
<1>5. /\ UNCHANGED <<this, slot, vm, pcb, current>> /\ seen' = <<>>
      /\ Op.kind \in {"work", "lib", "ret", "cli", "sti"}
  BY DEF Step, Quiet
<1>6. /\ places' = [places EXCEPT ![current] = Promise!After(current, places[current])]
      /\ disabled' = IF cpu'.masked THEN disabled \cup {current}
                     ELSE disabled \ {current}
      /\ runs' = runs /\ spoken' = spoken /\ spaces' = spaces
  BY <1>1, <1>4, <1>5, ThreadMoves
<1>7. Promise!Op(current) = Op
  BY <1>1, OpMapped
<1>8. disabled' = CASE Op.kind = "cli" -> disabled \cup {current}
                    [] Op.kind = "sti" -> disabled \ {current}
                    [] OTHER -> disabled
  <2>1. CASE Op.kind = "cli"
    BY <1>3, <1>4, <1>6, <2>1
  <2>2. CASE Op.kind = "sti"
    BY <1>3, <1>4, <1>6, <2>2
  <2>3. CASE Op.kind \notin {"cli", "sti"}
    <3>1. b = cpu.masked
      BY <1>3, <2>3
    <3>2. disabled' = disabled
      BY <1>2, <1>4, <1>6, <3>1
    <3>3. QED
      BY <2>3, <3>2
  <2>4. QED
    BY <2>1, <2>2, <2>3
<1>9. Promise!Step(current)
  BY <1>2, <1>5, <1>6, <1>7, <1>8 DEF Promise!Step, Promise!Advance, Promise!Quiet
<1>10. QED
  BY <1>1, <1>9 DEF Promise!Next

LEMMA AccessMoves ==
  ASSUME NativeInv, NativeInv', NEW t \in Thread, Access(t)
  PROVE  Promise!Next
<1>1. InThread /\ t = current
  BY WhoRuns DEF Access, Executes, NativeInv, InThread
<1>2. /\ Running = current /\ cpu \in UcOf(current) /\ (current \in disabled <=> cpu.masked)
      /\ runs = current
  BY <1>1, RunnerMapped
<1>3. /\ cpu' = [cpu EXCEPT !.rip = After(cpu.rip)]
      /\ UNCHANGED <<this, slot, vm, pcb, current>>
      /\ seen' = <<current, Op.va, win[Op.va]>>
      /\ Op.kind \in {"load", "store"} /\ Allows(win[Op.va], Op.kind)
  BY <1>1 DEF Access
<1>4. cpu'.rip = After(cpu.rip) /\ cpu'.masked = cpu.masked
  BY <1>2, <1>3, UcFields DEF UcOf
<1>5. /\ places' = [places EXCEPT ![current] = Promise!After(current, places[current])]
      /\ disabled' = IF cpu'.masked THEN disabled \cup {current}
                     ELSE disabled \ {current}
      /\ runs' = runs /\ spoken' = spoken /\ spaces' = spaces
  BY <1>1, <1>3, <1>4, ThreadMoves
<1>6. disabled' = disabled
  BY <1>2, <1>4, <1>5
<1>7. Promise!Op(current) = Op /\ current \in UThread
  BY <1>1, <1>3, OpMapped
<1>8. spaces[AsOf(current)] = win
  BY <1>1, <1>7, WindowMapped
<1>9. Promise!Access(current)
  BY <1>2, <1>3, <1>5, <1>6, <1>7, <1>8
     DEF Promise!Access, Promise!Advance, Promise!Allows, Allows
<1>10. QED
  BY <1>1, <1>9 DEF Promise!Next

(* A trap or an interrupt that is delivered.                               *)
LEMMA TrapMoves ==
  ASSUME NativeInv, NativeInv', InThread, NEW e,
         this' = [this EXCEPT !.ev = e],
         slot' = [slot EXCEPT ![current] =
                   [@ EXCEPT !.uc = [cpu EXCEPT !.rip = SavedRip(e)]]],
         cpu' = [rip |-> Am("irq_handle"), sp |-> current, rdi |-> current,
                 masked |-> TRUE],
         UNCHANGED <<vm, pcb, current>>
  PROVE  /\ places' = IF e.event \in {"SYSCALL", "YIELD"}
                        THEN [places EXCEPT ![current] =
                               Promise!After(current, places[current])]
                        ELSE places
         /\ disabled' = disabled /\ spaces' = spaces
         /\ runs = current /\ runs' = "os" /\ spoken' = <<current, e>>
<1>1. /\ current \in Thread /\ Running = current /\ ~Fresh(current)
      /\ cpu \in UcOf(current) /\ places[current] = cpu.rip.n
      /\ PlaceOf(current) = cpu.rip.n /\ runs = current
      /\ (Disables(current) <=> cpu.masked)
  BY RunnerMapped
<1>2. After(cpu.rip) = [of |-> current, n |-> (cpu.rip.n % Len(Code(current))) + 1]
  BY <1>1, UcAfter
<1> DEFINE rip == SavedRip(e)
           uc == [cpu EXCEPT !.rip = rip]
<1>3. rip.n = IF e.event \in {"SYSCALL", "YIELD"}
                THEN Promise!After(current, places[current]) ELSE places[current]
  BY <1>1, <1>2 DEF SavedRip, Promise!After
<1> HIDE DEF rip
<1>4. uc.rip.n = rip.n /\ uc.masked = cpu.masked
  BY <1>1, UcFields DEF UcOf
<1> HIDE DEF uc
<1>5. slot'[current].uc = uc /\ \A t \in Thread \ {current} : slot'[t] = slot[t]
  <2>1. /\ slot = [s \in Thread \cup {"user", Null} |-> slot[s]]
        /\ slot[current] = [vm_head |-> slot[current].vm_head,
                            ksp |-> slot[current].ksp, uc |-> slot[current].uc]
    BY <1>1 DEF NativeInv, Shapes
  <2>2. slot' = [slot EXCEPT ![current] = [@ EXCEPT !.uc = uc]]
    BY DEF uc, rip
  <2>3. QED
    BY <1>1, <2>1, <2>2
<1>6. /\ Running' = "am" /\ cpu'.rip.n = "irq_handle" /\ "am" \notin Thread
      /\ this'.ev = e
  BY ThreadAssumption DEF Running, Am, Rip, Thread, NativeInv, Shapes
<1>7. ASSUME NEW t \in Thread, t # current
      PROVE  PlaceOf(t)' = PlaceOf(t) /\ (Disables(t)' <=> Disables(t))
  BY <1>1, <1>5, <1>6, <1>7 DEF PlaceOf, Disables, Fresh, Registers
<1>8. ASSUME NEW t \in Thread, t = current
      PROVE  PlaceOf(t)' = rip.n /\ (Disables(t)' <=> Disables(t))
  <2>1. ~Fresh(t)' /\ Registers(t)' = uc
    BY <1>5, <1>6, <1>8 DEF Fresh, Registers
  <2>2. QED
    BY <1>1, <1>4, <1>8, <2>1 DEF PlaceOf, Disables
<1>9. Mapped /\ Mapped'
  BY MappedHolds, MappedNext
<1>10. places' = [places EXCEPT ![current] = rip.n]
  BY <1>1, <1>7, <1>8, <1>9 DEF Mapped
<1>11. places = [places EXCEPT ![current] = places[current]]
  BY <1>9 DEF Mapped
<1>12. disabled' = disabled
  BY <1>7, <1>8, <1>9 DEF Mapped
<1>13. spaces' = spaces /\ runs' = "os" /\ spoken' = <<current, e>>
  BY <1>6 DEF spaces, runs, spoken
<1>14. QED
  BY <1>1, <1>3, <1>10, <1>11, <1>12, <1>13

LEMMA InterruptMoves ==
  ASSUME NativeInv, NativeInv', NEW i \in Irq, Interrupt(i)
  PROVE  Promise!Next
<1> DEFINE e == Event(i)
<1>1. /\ Deliver(e) /\ ~cpu.masked /\ UNCHANGED <<vm, pcb, current>> /\ seen' = <<>>
  BY DEF Interrupt, Quiet
<1>2. InThread
  BY <1>1, WhoRuns DEF NativeInv
<1>3. e = [event |-> i] /\ i \in {"TIMER", "IODEV"}
  BY IrqAssumption DEF Event
<1>4. current \in Thread /\ current \notin disabled /\ Running = current
  BY <1>1, <1>2, RunnerMapped
<1> HIDE DEF e
<1>5. CASE UNCHANGED <<cpu, slot>> /\ this' = [this EXCEPT !.ev = e]
  <2>1. \A t \in Thread : PlaceOf(t)' = PlaceOf(t) /\ (Disables(t)' <=> Disables(t))
    BY <1>1, <1>5 DEF PlaceOf, Disables, Fresh, Registers, Running
  <2>2. runs' = runs /\ spoken' = spoken /\ spaces' = spaces
    BY <1>1, <1>4, <1>5, ThreadAssumption DEF runs, spoken, spaces, Running, Thread
  <2>3. QED
    BY <1>1, <2>1, <2>2, SamePlaces, OtherMoves
<1>6. CASE /\ this' = [this EXCEPT !.ev = e]
           /\ slot' = [slot EXCEPT ![current] =
                         [@ EXCEPT !.uc = [cpu EXCEPT !.rip = SavedRip(e)]]]
           /\ cpu' = [rip |-> Am("irq_handle"), sp |-> current, rdi |-> current,
                      masked |-> TRUE]
  <2>1. /\ places' = IF e.event \in {"SYSCALL", "YIELD"}
                       THEN [places EXCEPT ![current] =
                              Promise!After(current, places[current])]
                       ELSE places
        /\ disabled' = disabled /\ spaces' = spaces
        /\ runs = current /\ runs' = "os" /\ spoken' = <<current, e>>
    BY <1>1, <1>2, <1>6, TrapMoves
  <2>2. places' = places
    BY <1>3, <2>1
  <2>3. Promise!Preempt(current)
    BY <1>1, <1>3, <1>4, <2>1, <2>2 DEF Promise!Preempt, Promise!Enter, Promise!Quiet
  <2>4. QED
    BY <1>4, <2>3 DEF Promise!Next
<1>7. QED
  BY <1>1, <1>2, <1>5, <1>6, Delivered DEF NativeInv

LEMMA ExceptionMoves ==
  ASSUME NativeInv, NativeInv', NEW t \in Thread, Exception(t)
  PROVE  Promise!Next
<1>1. InThread /\ t = current
  BY WhoRuns DEF Exception, Executes, NativeInv, InThread
<1>2. current \in Thread
  BY <1>1
<1>3. UNCHANGED <<vm, pcb, current>> /\ seen' = <<>>
  BY DEF Exception, Quiet
<1>4. ASSUME NEW e, Deliver(e), e.event \notin {"TIMER", "IODEV"}
      PROVE  /\ places' = IF e.event \in {"SYSCALL", "YIELD"}
                            THEN [places EXCEPT ![current] =
                                   Promise!After(current, places[current])]
                            ELSE places
             /\ disabled' = disabled /\ spaces' = spaces
             /\ runs = current /\ runs' = "os" /\ spoken' = <<current, e>>
  <2>1. /\ this' = [this EXCEPT !.ev = e]
        /\ slot' = [slot EXCEPT ![current] =
                      [@ EXCEPT !.uc = [cpu EXCEPT !.rip = SavedRip(e)]]]
        /\ cpu' = [rip |-> Am("irq_handle"), sp |-> current, rdi |-> current,
                   masked |-> TRUE]
    BY <1>1, <1>4, Delivered DEF NativeInv
  <2>2. QED
    BY <1>1, <1>3, <2>1, TrapMoves
<1>5. Promise!Op(current) = Op
  BY <1>1, OpMapped
<1>6. CASE Op.kind \in {"SYSCALL", "YIELD"} /\ Deliver(Event(Op.kind))
  <2> DEFINE e == Event(Op.kind)
  <2>1. e = [event |-> Op.kind] /\ e.event = Op.kind
    BY DEF Event
  <2>2. Deliver(e)
    BY <1>6
  <2> HIDE DEF e
  <2>3. /\ places' = [places EXCEPT ![current] = Promise!After(current, places[current])]
        /\ disabled' = disabled /\ spaces' = spaces
        /\ runs = current /\ runs' = "os" /\ spoken' = <<current, e>>
    BY <1>4, <1>6, <2>1, <2>2
  <2>4. Promise!Call(current)
    BY <1>3, <1>5, <1>6, <2>1, <2>3
       DEF Promise!Call, Promise!Advance, Promise!Enter, Promise!Quiet
  <2>5. QED
    BY <1>2, <2>4 DEF Promise!Next
<1>7. ASSUME Op.kind \in {"load", "store"}, ~Allows(win[Op.va], Op.kind),
             Deliver([event |-> "PAGEFAULT", ref |-> Op.va,
                      cause |-> IF win[Op.va] = NoLeaf THEN "read" ELSE "write"])
      PROVE  Promise!Next
  <2>1. PICK e : e = [event |-> "PAGEFAULT", ref |-> Op.va,
                      cause |-> IF win[Op.va] = NoLeaf THEN "read" ELSE "write"]
    OBVIOUS
  <2>2. Deliver(e) /\ e.event = "PAGEFAULT"
    BY <1>7, <2>1
  <2>3. /\ places' = places
        /\ disabled' = disabled /\ spaces' = spaces
        /\ runs = current /\ runs' = "os" /\ spoken' = <<current, e>>
    BY <1>4, <2>2
  <2>4. spaces[AsOf(current)] = win
    BY <1>1, <1>7, OpMapped, WindowMapped
  <2>5. Promise!Fault(current)
    BY <1>3, <1>5, <1>7, <2>1, <2>3, <2>4
       DEF Promise!Fault, Promise!Enter, Promise!Quiet, Promise!Allows, Allows
  <2>6. QED
    BY <1>2, <2>5 DEF Promise!Next
<1>8. CASE Op.kind = "wild" /\ Deliver(Event("ERROR"))
  <2>1. Event("ERROR") = [event |-> "ERROR"] /\ Event("ERROR").event = "ERROR"
    BY DEF Event
  <2>2. /\ places' = places
        /\ disabled' = disabled /\ spaces' = spaces
        /\ runs = current /\ runs' = "os" /\ spoken' = <<current, Event("ERROR")>>
    BY <1>4, <1>8, <2>1
  <2>3. Promise!Wild(current)
    BY <1>3, <1>5, <1>8, <2>1, <2>2 DEF Promise!Wild, Promise!Enter, Promise!Quiet
  <2>4. QED
    BY <1>2, <2>3 DEF Promise!Next
<1>9. QED
  BY <1>6, <1>7, <1>8 DEF Exception

LEMMA InitMoves == Init => Promise!Init
<1> SUFFICES ASSUME Init PROVE Promise!Init
  OBVIOUS
<1>1. NativeInv
  BY InitInv
<1>2. boot \in Thread /\ "am" \notin Thread
  BY ThreadAssumption DEF Thread
<1>3. /\ cpu = [rip |-> Rip(boot, 1), sp |-> boot, rdi |-> Null, masked |-> TRUE]
      /\ current = boot /\ pcb = [t \in Thread |-> Null] /\ seen = <<>>
      /\ vm = [a \in Space |-> NoVm]
  BY DEF Init
<1>4. Running = boot /\ cpu.rip.n = 1 /\ cpu.masked = TRUE
  BY <1>3 DEF Running, Rip
<1>5. \A t \in Thread : PlaceOf(t) = 1 /\ (Disables(t) <=> t = boot)
  BY <1>3, <1>4 DEF PlaceOf, Disables, Fresh, Registers
<1>6. places = [t \in Thread |-> 1] /\ disabled = {boot}
  BY <1>1, <1>2, <1>5, MappedHolds DEF Mapped
<1>7. runs = boot /\ spoken = <<>>
  BY <1>2, <1>4 DEF runs, spoken
<1>8. spaces = [a \in Space |-> [va \in Va |-> NoLeaf]]
  BY <1>3 DEF spaces, NoVm
<1>9. QED
  BY <1>2, <1>3, <1>6, <1>7, <1>8 DEF Promise!Init

LEMMA StepsMove ==
  ASSUME NativeInv, NativeInv', [Next]_vars
  PROVE  [Promise!Next]_(Promise!vars)
<1>1. ASSUME UNCHANGED vars PROVE UNCHANGED Promise!vars
  <2>1. UNCHANGED <<cpu, this, slot, vm, pcb, current, seen>>
    BY <1>1 DEF vars
  <2>2. \A t \in Thread : PlaceOf(t)' = PlaceOf(t) /\ (Disables(t)' <=> Disables(t))
    BY <2>1 DEF PlaceOf, Disables, Fresh, Registers, Running
  <2>3. runs' = runs /\ spoken' = spoken /\ spaces' = spaces
    BY <2>1 DEF runs, spoken, spaces, Running
  <2>4. QED
    BY <2>1, <2>2, <2>3, SamePlaces DEF Promise!vars
<1>2. ASSUME NEW m \in Maps, Map(m[1], m[2], m[3]) PROVE Promise!Next
  BY <1>2, MapMoves, MapsAssumption
<1>3. QED
  BY <1>1, <1>2, RaiseMoves, InterruptMoves, StepMoves, AccessMoves, ExceptionMoves,
     NewContextMoves, ScheduleMoves, IrqHandleMoves, SwitchMoves, IRetMoves,
     ProtectMoves DEF Next

(* The traps, contexts and address spaces of the AM implement Tasks: every *)
(* thread runs its own code, in its own space, and is resumed where it     *)
(* left (cte.c, vme.c).                                                    *)
THEOREM NativeImplementsTasks == Spec => ImplementsTasks
BY InitMoves, StepsMove, NativeInvariant, PTL DEF Spec, ImplementsTasks, Promise!Spec
=============================================================================
