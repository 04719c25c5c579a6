-------------------------- MODULE GenGCNames_proofs --------------------------
(***************************************************************************)
(* The refinement: GenGC implements a heap whose objects never move and are*)
(* never reclaimed, for every size of the spaces and of the pool, with     *)
(* major collections as long as nothing dangles.                           *)
(***************************************************************************)
EXTENDS GenGCNames, GenGC_proofs

-----------------------------------------------------------------------------
(***************************************************************************)
(* What is visible of a heap.                                              *)
(***************************************************************************)
LEMMA ReachedLeast ==
    ASSUME NEW ss, NEW vs, NEW bs, NEW K \in SUBSET MH!Object, MH!Closed(K, ss, vs, bs)
    PROVE  MH!Reached(ss, vs, bs) \subseteq K
  BY DEF MH!Reached

LEMMA ReachedClosed ==
    ASSUME NEW ss, NEW vs, NEW bs, NEW R, R = MH!Reached(ss, vs, bs)
    PROVE  R \in SUBSET MH!Object /\ MH!Closed(R, ss, vs, bs)
  <1>1. R \in SUBSET MH!Object
    BY DEF MH!Reached
  <1>2. MH!Named(vs, bs) \cap MH!Object \subseteq R
    BY DEF MH!Reached, MH!Closed
  <1>3. ASSUME NEW o \in R, NEW s \in 1..NSlots, ss[o][s] \in MH!Object
        PROVE  ss[o][s] \in R
    <2>1. ASSUME NEW K \in SUBSET MH!Object, MH!Closed(K, ss, vs, bs)
          PROVE  ss[o][s] \in K
      <3>1. o \in K
        BY <2>1 DEF MH!Reached
      <3> QED
        BY <1>3, <2>1, <3>1 DEF MH!Closed
    <2> QED
      BY <1>3, <2>1 DEF MH!Reached
  <1> QED
    BY <1>1, <1>2, <1>3 DEF MH!Closed

(* Two heaps that agree on a closed set of the first.                      *)
LEMMA AgreeClosed ==
    ASSUME NEW ss, NEW tt, NEW vs, NEW bs, NEW K, MH!Closed(K, ss, vs, bs),
           \A o \in K : tt[o] = ss[o]
    PROVE  MH!Closed(K, tt, vs, bs)
  BY DEF MH!Closed

LEMMA AgreeReached ==
    ASSUME NEW ss, NEW tt, NEW vs, NEW bs, NEW K \in SUBSET MH!Object,
           MH!Closed(K, ss, vs, bs), \A o \in K : tt[o] = ss[o]
    PROVE  MH!Reached(ss, vs, bs) \subseteq MH!Reached(tt, vs, bs)
  <1>1. PICK R : R = MH!Reached(tt, vs, bs)
    OBVIOUS
  <1>2. R \in SUBSET MH!Object /\ MH!Closed(R, tt, vs, bs)
    BY <1>1, ReachedClosed
  <1>3. K \cap R \in SUBSET MH!Object /\ MH!Closed(K \cap R, ss, vs, bs)
    BY <1>2 DEF MH!Closed
  <1>4. MH!Reached(ss, vs, bs) \subseteq K \cap R
    BY <1>3, ReachedLeast
  <1> QED
    BY <1>1, <1>4

(* They look the same.                                                     *)
LEMMA AgreeVisible ==
    ASSUME NEW ss, NEW tt, NEW vs, NEW bs, NEW K \in SUBSET MH!Object,
           MH!Closed(K, ss, vs, bs), \A o \in K : tt[o] = ss[o]
    PROVE  MH!Visible(tt, vs, bs) = MH!Visible(ss, vs, bs)
  <1>1. MH!Closed(K, tt, vs, bs) /\ \A o \in K : ss[o] = tt[o]
    BY AgreeClosed
  <1>2. MH!Reached(ss, vs, bs) \subseteq MH!Reached(tt, vs, bs)
    BY AgreeReached
  <1>3. MH!Reached(tt, vs, bs) \subseteq MH!Reached(ss, vs, bs)
    BY <1>1, AgreeReached
  <1>4. PICK R : R = MH!Reached(ss, vs, bs)
    OBVIOUS
  <1>5. R = MH!Reached(tt, vs, bs) /\ R \subseteq K
    BY <1>2, <1>3, <1>4, ReachedLeast
  <1> QED
    BY <1>4, <1>5 DEF MH!Visible

(* What is visible of a heap hides nothing from what it leads to.          *)
LEMMA SeenFacts ==
    ASSUME NEW ss, NEW vs, NEW bs, NEW seen, NEW R,
           seen = MH!Visible(ss, vs, bs), R = MH!Reached(ss, vs, bs)
    PROVE  /\ R \in SUBSET MH!Object /\ MH!Closed(R, ss, vs, bs)
           /\ \A o \in R : seen[o] = ss[o]
           /\ DOMAIN seen = MH!Object /\ seen = [o \in MH!Object |-> seen[o]]
  <1>1. R \in SUBSET MH!Object /\ MH!Closed(R, ss, vs, bs)
    BY ReachedClosed
  <1>2. seen = [o \in MH!Object |-> IF o \in R THEN ss[o] ELSE MH!NoSlots]
    BY DEF MH!Visible
  <1> QED
    BY <1>1, <1>2

-----------------------------------------------------------------------------
(***************************************************************************)
(* The names of cells.  The inductive invariant of NSpec is TypeOK, HeapInv*)
(* and NInv.                                                               *)
(***************************************************************************)
(* An object that is asked for has got a number and no cell.               *)
NumbersInv ==
    /\ name \in [Addr -> Nat]
    /\ \A a \in Addr : name[a] <= allocs
    /\ req.dst # 0 => allocs # 0 /\ \A a \in Addr : name[a] # allocs

RequestInv ==
    /\ req = NoReq \/ req.dst # 0
    /\ pc = "mutator" => req = NoReq
    /\ pc = "alloc" => req.dst # 0

(* The cells in use are copies of objects, or boxes; a forwarded cell and  *)
(* where it leads are copies of one object, which has one current copy.    *)
CopiesInv ==
    /\ \A a \in Addr : name[a] # 0 <=> Live(a) /\ a \notin BoxAddr
    /\ \A a \in Addr : mem[a].fwd # Nil => name[mem[a].fwd] = name[a] /\ a \notin BoxAddr
    /\ \A a, b \in Addr :
          name[a] # 0 /\ name[a] = name[b] /\ mem[a].fwd = Nil /\ mem[b].fwd = Nil => a = b

(* Boxes are reached by their number, never through a reference.           *)
NoBoxRefs ==
    /\ \A r \in Roots : root[r] \notin BoxAddr
    /\ \A a \in Addr, s \in Slots : Live(a) => mem[a].slots[s] \notin BoxAddr

NInv == NumbersInv /\ RequestInv /\ CopiesInv /\ NoBoxRefs

NoNames == [s \in Slots |-> Nil]
NamesIn(a, m, nm) == [s \in Slots |-> NameOf(m[a].slots[s], nm)]

(* The slots of an object are those of its current copy.                   *)
LEMMA SlotsAt ==
    ASSUME NEW m, NEW nm, NEW a \in Addr, NEW o, nm[a] = o, m[a].fwd = Nil,
           \A b \in Addr : nm[b] = o /\ m[b].fwd = Nil => b = a
    PROVE  SlotsOf(o, m, nm) = NamesIn(a, m, nm)
  <1>1. Copies(o, m, nm) = {a}
    BY DEF Copies
  <1>2. (CHOOSE b \in {a} : TRUE) = a
    OBVIOUS
  <1> QED
    BY <1>1, <1>2 DEF SlotsOf, NamesIn

LEMMA SlotsNone ==
    ASSUME NEW m, NEW nm, NEW o, \A b \in Addr : nm[b] = o => m[b].fwd # Nil
    PROVE  SlotsOf(o, m, nm) = NoNames
  <1>1. Copies(o, m, nm) = {}
    BY DEF Copies
  <1> QED
    BY <1>1 DEF SlotsOf, NoNames

(* The forwarding addresses after a visit.                                 *)
LEMMA VisitFwds ==
    ASSUME TypeOK, HeapInv, Collecting, NEW v, NEW pa, NEW h, NEW m, NEW w,
           VisitStep(v, pa, h, m, w), NEW d, d = dst
    PROVE  /\ ~Moves(v) => \A a \in Addr : mem'[a].fwd = mem[a].fwd
           /\ Moves(v) => /\ v \in Addr /\ d \in Addr /\ v # d
                          /\ mem[v].fwd = Nil /\ mem[d].fwd = Nil
                          /\ mem'[v].fwd = d /\ mem'[d].fwd = Nil
                          /\ \A a \in Addr : a # v => mem'[a].fwd = mem[a].fwd
  <1>1. /\ v \in Ref /\ Valid(v) /\ Unmoved(v) /\ Visit(v, pa) /\ m = MemAfter(v)
        /\ \A a \in Addr : mem'[a].fwd = m[a].fwd
    BY DEF VisitStep
  <1>2. TopsInv /\ FwdInv /\ pc \notin Failed
    BY DEF HeapInv, Collecting, MinorPhase, MajorPhase, Failed
  <1>3. CASE ~Moves(v)
    <2>1. m = mem
      BY <1>1, <1>3 DEF MemAfter
    <2> QED
      BY <1>1, <1>3, <2>1
  <1>4. CASE Moves(v)
    <2>1. v \in Addr /\ v # d
      BY <1>1, <1>2, <1>4, MovesFacts
    <2>2. d \in Addr
      BY <1>1, <1>2, <1>4, VisitMem
    <2>3. d[1] \notin LeftSpaces
      BY FilledSpace DEF dst
    <2>4. mem[v].fwd = Nil /\ mem[d].fwd = Nil
      BY <1>2, <1>4, <2>2, <2>3 DEF Moves, FwdInv
    <2>5. m = [mem EXCEPT ![d] = CopyOf(v), ![v].fwd = d] /\ mem \in [Addr -> Cell]
      BY <1>1, <1>4 DEF MemAfter, TypeOK
    <2>6. m[d] = CopyOf(v) /\ m[v] = [mem[v] EXCEPT !.fwd = d]
          /\ \A a \in Addr : a # d /\ a # v => m[a] = mem[a]
      BY <2>1, <2>2, <2>5
    <2>7. mem[v] \in Cell
      BY <2>1, CellFacts
    <2>8. m[v].fwd = d
      BY <2>6, <2>7 DEF Cell
    <2>9. CopyOf(v).fwd = mem[v].fwd
      BY <2>7 DEF CopyOf, Cell
    <2> QED
      BY <1>1, <1>4, <2>1, <2>2, <2>4, <2>6, <2>8, <2>9
  <1> QED
    BY <1>3, <1>4

(* What a visit does to the names.                                         *)
Renamed(v, d) == name' = IF Moves(v) THEN [name EXCEPT ![d] = name[v]] ELSE name

LEMMA VisitNames ==
    ASSUME TypeOK, HeapInv, NInv, Collecting, NEW v, NEW pa, NEW h, NEW m, NEW w,
           VisitStep(v, pa, h, m, w), v \notin BoxAddr, NEW d, d = dst, Renamed(v, d)
    PROVE  /\ \A a \in Addr : a # d => name'[a] = name[a]
           /\ Moves(v) => name'[d] = name[v] /\ name[v] # 0
           /\ ~Moves(v) => name' = name
           /\ \A x \in Ref : Valid(x) => NameOf(x, name') = NameOf(x, name)
           /\ NameOf(w, name') = NameOf(v, name)
           /\ w \notin BoxAddr
  <1>1. /\ v \in Ref /\ Valid(v) /\ w = Forwarded(v) /\ TopsInv /\ FwdInv /\ pc \notin Failed
    BY DEF VisitStep, HeapInv, Collecting, MinorPhase, MajorPhase, Failed
  <1>2. Moves(v) => d \in Addr /\ ~Live(d) /\ v \in Addr /\ Live(v)
    BY StepMem DEF HeapInv
  <1>3. name \in [Addr -> Nat] /\ \A a \in Addr : name[a] # 0 <=> Live(a) /\ a \notin BoxAddr
    BY DEF NInv, NumbersInv, CopiesInv
  <1>4. /\ \A a \in Addr : a # d => name'[a] = name[a]
        /\ Moves(v) => name'[d] = name[v] /\ name[v] # 0
        /\ ~Moves(v) => name' = name
    BY <1>2, <1>3 DEF Renamed
  <1>5. ASSUME NEW x \in Ref, Valid(x) PROVE NameOf(x, name') = NameOf(x, name)
    <2>1. CASE x = Nil
      BY <2>1 DEF NameOf
    <2>2. CASE x # Nil
      <3>1. x \in Addr /\ Live(x)
        BY <1>5, <2>2 DEF Valid, Ref
      <3>2. name'[x] = name[x]
        BY <1>2, <1>4, <3>1
      <3> QED
        BY <2>2, <3>2 DEF NameOf
    <2> QED
      BY <2>1, <2>2
  <1>6. NameOf(w, name') = NameOf(v, name) /\ w \notin BoxAddr
    <2>1. CASE Moves(v)
      <3>1. w = d /\ v # Nil /\ d # Nil
        BY <1>1, <1>2, <2>1, AddrFacts DEF Forwarded
      <3>2. d[1] # "perm"
        BY FilledSpace DEF dst
      <3> QED
        BY <1>2, <1>4, <2>1, <3>1, <3>2, AddrFacts DEF NameOf
    <2>2. CASE ~Moves(v) /\ v # Nil /\ mem[v].fwd # Nil
      <3>1. w = mem[v].fwd /\ v \in Addr /\ Live(v)
        BY <1>1, <2>2 DEF Forwarded, Valid, Ref
      <3>2. w \in Addr
        BY <2>2, <3>1, CellFacts DEF Ref
      <3>3. name[w] = name[v]
        BY <2>2, <3>1 DEF NInv, CopiesInv
      <3>4. name[v] # 0 /\ w \notin BoxAddr
        BY <1>3, <3>1, <3>2, <3>3
      <3> QED
        BY <1>4, <2>2, <3>2, <3>3, <3>4, AddrFacts DEF NameOf
    <2>3. CASE ~Moves(v) /\ (v = Nil \/ mem[v].fwd = Nil)
      <3>1. w = v
        BY <1>1, <2>3 DEF Forwarded
      <3> QED
        BY <1>4, <2>3, <3>1
    <2> QED
      BY <2>1, <2>2, <2>3
  <1> QED
    BY <1>4, <1>5, <1>6

(* A visit changes no name of a variable and no name in a slot.            *)
LEMMA VisitSlotNames ==
    ASSUME TypeOK, HeapInv, NInv, Collecting, NEW v, NEW pa, NEW h, NEW m, NEW w,
           VisitStep(v, pa, h, m, w), v \notin BoxAddr, NEW d, d = dst, Renamed(v, d)
    PROVE  /\ \A a \in Addr, s \in Slots : Live(a) =>
                 NameOf(mem'[a].slots[s], name') = NameOf(mem[a].slots[s], name)
           /\ Moves(v) => \A s \in Slots :
                 NameOf(mem'[d].slots[s], name') = NameOf(mem[v].slots[s], name)
           /\ \A a \in Addr, s \in Slots : Live(a)' => mem'[a].slots[s] \notin BoxAddr
  <1>1. /\ \A a \in Addr : Live(a) =>
              \A s \in Slots :
                 mem'[a].slots[s] = IF a = h /\ s = slot THEN w ELSE mem[a].slots[s]
        /\ \A a \in Addr : Live(a)' => Live(a) \/ (a = d /\ Moves(v))
        /\ Moves(v) => /\ v \in Addr /\ Live(v)
                       /\ \A s \in Slots : mem'[d].slots[s] = mem[v].slots[s]
    BY StepMem DEF HeapInv
  <1>2. /\ \A x \in Ref : Valid(x) => NameOf(x, name') = NameOf(x, name)
        /\ NameOf(w, name') = NameOf(v, name)
        /\ w \notin BoxAddr
    BY VisitNames
  <1>3. h # Nil => v = mem[h].slots[slot]
    BY DEF VisitStep
  <1>4. \A a \in Addr, s \in Slots : Live(a) =>
           mem[a].slots[s] \in Ref /\ Valid(mem[a].slots[s]) /\ mem[a].slots[s] \notin BoxAddr
    BY CellFacts DEF HeapInv, SlotsInv, SlotOK, NInv, NoBoxRefs
  <1>5. \A a \in Addr : a # Nil
    BY AddrFacts
  <1>6. \A a \in Addr, s \in Slots : Live(a) =>
           /\ NameOf(mem'[a].slots[s], name') = NameOf(mem[a].slots[s], name)
           /\ mem'[a].slots[s] \notin BoxAddr
    <2>1. ASSUME NEW a \in Addr, NEW s \in Slots, Live(a), a = h /\ s = slot
          PROVE  /\ NameOf(mem'[a].slots[s], name') = NameOf(mem[a].slots[s], name)
                 /\ mem'[a].slots[s] \notin BoxAddr
      <3>1. mem'[a].slots[s] = w /\ mem[a].slots[s] = v
        BY <1>1, <1>3, <1>5, <2>1
      <3> QED
        BY <1>2, <3>1
    <2>2. ASSUME NEW a \in Addr, NEW s \in Slots, Live(a), ~(a = h /\ s = slot)
          PROVE  /\ NameOf(mem'[a].slots[s], name') = NameOf(mem[a].slots[s], name)
                 /\ mem'[a].slots[s] \notin BoxAddr
      <3>1. mem'[a].slots[s] = mem[a].slots[s]
        BY <1>1, <2>2
      <3> QED
        BY <1>2, <1>4, <2>2, <3>1
    <2> QED
      BY <2>1, <2>2
  <1>7. Moves(v) => \A s \in Slots :
           /\ NameOf(mem'[d].slots[s], name') = NameOf(mem[v].slots[s], name)
           /\ mem'[d].slots[s] \notin BoxAddr
    BY <1>1, <1>2, <1>4
  <1> QED
    BY <1>1, <1>6, <1>7

LEMMA VisitNInv ==
    ASSUME TypeOK, HeapInv, NInv, Collecting, NEW v, NEW pa, NEW h, NEW m, NEW w,
           VisitStep(v, pa, h, m, w), v \notin BoxAddr, NEW d, d = dst, Renamed(v, d),
           \A r \in Roots : root'[r] = root[r] \/ root'[r] = w
    PROVE  NInv'
  <1>1. /\ \A a \in Addr : a # d => name'[a] = name[a]
        /\ Moves(v) => name'[d] = name[v] /\ name[v] # 0
        /\ ~Moves(v) => name' = name
        /\ w \notin BoxAddr
    BY VisitNames
  <1>2. /\ \A a \in Addr : Live(a) => Live(a)'
        /\ \A a \in Addr : Live(a)' => Live(a) \/ (a = d /\ Moves(v))
        /\ Moves(v) => d \in Addr /\ ~Live(d) /\ v \in Addr /\ Live(v) /\ Live(d)'
    <2>1. /\ \A a \in Addr : Live(a) => Live(a)'
          /\ \A a \in Addr : Live(a)' => Live(a) \/ (a = d /\ Moves(v))
          /\ Moves(v) => d \in Addr /\ ~Live(d) /\ v \in Addr /\ Live(v)
      BY StepMem DEF HeapInv
    <2>2. v \in Ref /\ Valid(v) /\ Unmoved(v) /\ Visit(v, pa) /\ m = MemAfter(v) /\ TopsInv
      BY DEF VisitStep, HeapInv
    <2>3. Moves(v) => Live(d)'
      BY <2>2, VisitMem
    <2> QED
      BY <2>1, <2>3
  <1>3. /\ ~Moves(v) => \A a \in Addr : mem'[a].fwd = mem[a].fwd
        /\ Moves(v) => /\ v # d /\ mem[v].fwd = Nil /\ mem[d].fwd = Nil
                       /\ mem'[v].fwd = d /\ mem'[d].fwd = Nil
                       /\ \A a \in Addr : a # v => mem'[a].fwd = mem[a].fwd
    BY VisitFwds
  <1>4. NumbersInv'
    <2>1. NumbersInv /\ req' = req /\ allocs' = allocs
      BY DEF NInv, VisitStep
    <2>2. name' \in [Addr -> Nat]
      BY <2>1, <1>2 DEF NumbersInv, Renamed
    <2>3. \A a \in Addr : \E b \in Addr : name'[a] = name[b]
      BY <1>1, <1>2
    <2> QED
      BY <2>1, <2>2, <2>3 DEF NumbersInv
  <1>5. RequestInv'
    BY DEF NInv, RequestInv, VisitStep
  <1>6. \A a \in Addr : name[a] # 0 <=> Live(a) /\ a \notin BoxAddr
    BY DEF NInv, CopiesInv
  <1>7. Moves(v) => d \notin BoxAddr
    <2>1. d[1] # "perm"
      BY FilledSpace DEF dst
    <2> QED
      BY <1>2, <2>1, AddrFacts
  <1>8. \A a \in Addr : name'[a] # 0 <=> Live(a)' /\ a \notin BoxAddr
    <2>1. ASSUME NEW a \in Addr, ~(a = d /\ Moves(v))
          PROVE  name'[a] # 0 <=> Live(a)' /\ a \notin BoxAddr
      <3>1. name'[a] = name[a] /\ (Live(a)' <=> Live(a))
        BY <1>1, <1>2, <2>1
      <3> QED
        BY <1>6, <3>1
    <2> QED
      BY <1>1, <1>2, <1>7, <2>1
  <1>9. \A a \in Addr : mem'[a].fwd # Nil => name'[mem'[a].fwd] = name'[a] /\ a \notin BoxAddr
    <2>1. ASSUME NEW a \in Addr, mem'[a].fwd # Nil, ~(a = v /\ Moves(v))
          PROVE  name'[mem'[a].fwd] = name'[a] /\ a \notin BoxAddr
      <3>1. mem'[a].fwd = mem[a].fwd /\ mem[a].fwd # Nil /\ ~(a = d /\ Moves(v))
        BY <1>3, <2>1
      <3>2. mem[a].fwd \in Addr /\ Live(mem[a].fwd)
        <4>1. pc \notin Failed /\ FwdInv
          BY DEF HeapInv, Collecting, MinorPhase, MajorPhase, Failed
        <4> QED
          BY <3>1, <4>1, CellFacts DEF FwdInv, Ref
      <3>3. name[mem[a].fwd] = name[a] /\ a \notin BoxAddr
        BY <3>1 DEF NInv, CopiesInv
      <3>4. name'[a] = name[a] /\ name'[mem[a].fwd] = name[mem[a].fwd]
        BY <1>1, <1>2, <3>1, <3>2
      <3> QED
        BY <3>1, <3>3, <3>4
    <2>2. ASSUME NEW a \in Addr, a = v, Moves(v)
          PROVE  name'[mem'[a].fwd] = name'[a] /\ a \notin BoxAddr
      BY <1>1, <1>3, <2>2
    <2> QED
      BY <2>1, <2>2
  <1>10. ASSUME NEW a \in Addr, NEW b \in Addr, name'[a] # 0, name'[a] = name'[b],
                mem'[a].fwd = Nil, mem'[b].fwd = Nil
         PROVE  a = b
    <2>1. \A x, y \in Addr :
             name[x] # 0 /\ name[x] = name[y] /\ mem[x].fwd = Nil /\ mem[y].fwd = Nil => x = y
      BY DEF NInv, CopiesInv
    <2>2. CASE ~Moves(v)
      BY <1>1, <1>3, <1>10, <2>1, <2>2
    <2>3. CASE Moves(v)
      <3>1. \A x \in Addr : mem'[x].fwd = Nil => x # v /\ mem[x].fwd = Nil
        BY <1>2, <1>3, <2>3, AddrFacts
      <3>2. a # v /\ b # v /\ mem[a].fwd = Nil /\ mem[b].fwd = Nil
        BY <1>10, <3>1
      <3>3. CASE a # d /\ b # d
        BY <1>1, <1>10, <2>1, <3>2, <3>3
      <3>4. CASE a = d /\ b # d
        <4>1. name[b] = name[v] /\ name[v] # 0
          BY <1>1, <1>10, <2>3, <3>4
        <4> QED
          BY <1>2, <1>3, <2>1, <2>3, <3>2, <4>1
      <3>5. CASE a # d /\ b = d
        <4>1. name[a] = name[v] /\ name[v] # 0
          BY <1>1, <1>10, <2>3, <3>5
        <4> QED
          BY <1>2, <1>3, <2>1, <2>3, <3>2, <4>1
      <3> QED
        BY <3>3, <3>4, <3>5
    <2> QED
      BY <2>2, <2>3
  <1>11. CopiesInv'
    BY <1>8, <1>9, <1>10 DEF CopiesInv
  <1>12. NoBoxRefs'
    <2>1. \A a \in Addr, s \in Slots : Live(a)' => mem'[a].slots[s] \notin BoxAddr
      BY VisitSlotNames
    <2>2. \A r \in Roots : root'[r] \notin BoxAddr
      BY <1>1 DEF NInv, NoBoxRefs
    <2> QED
      BY <2>1, <2>2 DEF NoBoxRefs
  <1> QED
    BY <1>4, <1>5, <1>11, <1>12 DEF NInv

(* The slots of an object are the same after a visit, those of its new copy*)
(* when it is the one that moved.                                          *)
LEMMA VisitSlotsOf ==
    ASSUME TypeOK, HeapInv, NInv, Collecting, NEW v, NEW pa, NEW h, NEW m, NEW w,
           VisitStep(v, pa, h, m, w), v \notin BoxAddr, NEW d, d = dst, Renamed(v, d),
           \A r \in Roots : root'[r] = root[r] \/ root'[r] = w,
           NEW o \in 1..MaxAllocs
    PROVE  SlotsOf(o, mem', name') = SlotsOf(o, mem, name)
  <1>1. /\ \A a \in Addr : a # d => name'[a] = name[a]
        /\ Moves(v) => name'[d] = name[v] /\ name[v] # 0
        /\ ~Moves(v) => name' = name
    BY VisitNames
  <1>2. /\ ~Moves(v) => \A a \in Addr : mem'[a].fwd = mem[a].fwd
        /\ Moves(v) => /\ v \in Addr /\ d \in Addr /\ d # Nil
                       /\ v # d /\ mem[v].fwd = Nil /\ mem[d].fwd = Nil
                       /\ mem'[v].fwd = d /\ mem'[d].fwd = Nil
                       /\ \A a \in Addr : a # v => mem'[a].fwd = mem[a].fwd
    BY VisitFwds, AddrFacts
  <1>3. /\ \A a, b \in Addr :
              name[a] # 0 /\ name[a] = name[b] /\ mem[a].fwd = Nil /\ mem[b].fwd = Nil => a = b
        /\ \A a \in Addr : name[a] # 0 => Live(a)
    BY DEF NInv, CopiesInv
  <1>4. \A a, b \in Addr :
           name'[a] # 0 /\ name'[a] = name'[b] /\ mem'[a].fwd = Nil /\ mem'[b].fwd = Nil => a = b
    BY VisitNInv DEF NInv, CopiesInv
  <1>5. /\ \A a \in Addr, s \in Slots : Live(a) =>
              NameOf(mem'[a].slots[s], name') = NameOf(mem[a].slots[s], name)
        /\ Moves(v) => \A s \in Slots :
              NameOf(mem'[d].slots[s], name') = NameOf(mem[v].slots[s], name)
    BY VisitSlotNames
  <1>6. Moves(v) => name[d] = 0
    <2>1. Moves(v) => d \in Addr /\ ~Live(d)
      BY StepMem DEF HeapInv
    <2> QED
      BY <1>3, <2>1
  <1>7. PICK n, nm : n = mem' /\ nm = name'
    OBVIOUS
  <1>8. o # 0
    OBVIOUS
  <1>9. CASE \A a \in Addr : name[a] = o => mem[a].fwd # Nil
    <2>1. SlotsOf(o, mem, name) = NoNames
      BY <1>9, SlotsNone
    <2>2. ASSUME NEW a \in Addr, nm[a] = o PROVE n[a].fwd # Nil
      <3>1. CASE Moves(v)
        <4>1. a # d
          BY <1>1, <1>2, <1>7, <1>9, <2>2, <3>1
        <4> QED
          BY <1>1, <1>2, <1>7, <1>9, <2>2, <3>1, <4>1
      <3>2. CASE ~Moves(v)
        BY <1>1, <1>2, <1>7, <1>9, <2>2, <3>2
      <3> QED
        BY <3>1, <3>2
    <2>3. SlotsOf(o, n, nm) = NoNames
      BY <2>2, SlotsNone
    <2> QED
      BY <1>7, <2>1, <2>3
  <1>10. ASSUME NEW a \in Addr, name[a] = o, mem[a].fwd = Nil
         PROVE  SlotsOf(o, mem', name') = SlotsOf(o, mem, name)
    <2>1. SlotsOf(o, mem, name) = NamesIn(a, mem, name)
      <3>1. \A b \in Addr : name[b] = o /\ mem[b].fwd = Nil => b = a
        BY <1>3, <1>8, <1>10
      <3> QED
        BY <1>10, <3>1, SlotsAt
    <2>2. PICK c \in Addr : c = IF Moves(v) /\ a = v THEN d ELSE a
      BY <1>2, <1>10
    <2>3. nm[c] = o /\ n[c].fwd = Nil
      <3>1. a # d \/ ~Moves(v)
        BY <1>6, <1>8, <1>10
      <3>2. CASE Moves(v) /\ a = v
        BY <1>1, <1>2, <1>7, <1>10, <2>2, <3>2
      <3>3. CASE ~(Moves(v) /\ a = v)
        <4>1. c = a /\ name'[a] = name[a] /\ mem'[a].fwd = mem[a].fwd
          BY <1>1, <1>2, <1>10, <2>2, <3>1, <3>3
        <4> QED
          BY <1>7, <1>10, <4>1
      <3> QED
        BY <3>2, <3>3
    <2>4. \A b \in Addr : nm[b] = o /\ n[b].fwd = Nil => b = c
      BY <1>4, <1>7, <1>8, <2>3
    <2>5. SlotsOf(o, n, nm) = NamesIn(c, n, nm)
      BY <2>3, <2>4, SlotsAt
    <2>6. \A s \in Slots : NameOf(n[c].slots[s], nm) = NameOf(mem[a].slots[s], name)
      BY <1>3, <1>5, <1>7, <1>8, <1>10, <2>2
    <2>7. NamesIn(c, n, nm) = NamesIn(a, mem, name)
      BY <2>6 DEF NamesIn
    <2> QED
      BY <1>7, <2>1, <2>5, <2>7
  <1> QED
    BY <1>9, <1>10

(* Two states that give the same names look the same.                      *)
LEMMA SameView ==
    ASSUME NEW m, NEW n, NEW rt, NEW ru, NEW nm, NEW nn,
           \A r \in Roots : NameOf(ru[r], nn) = NameOf(rt[r], nm),
           \A g \in 1..NGlobals :
              NameOf(n[<<"perm", g>>].slots[1], nn) = NameOf(m[<<"perm", g>>].slots[1], nm),
           \A o \in 1..MaxAllocs : SlotsOf(o, n, nn) = SlotsOf(o, m, nm)
    PROVE  View(n, ru, nn) = View(m, rt, nm)
  <1>1. VarNames(ru, nn) = VarNames(rt, nm)
    BY DEF VarNames
  <1>2. BoxNames(n, nn) = BoxNames(m, nm)
    BY DEF BoxNames
  <1>3. SlotNames(n, nn) = SlotNames(m, nm)
    BY DEF SlotNames
  <1> QED
    BY <1>1, <1>2, <1>3 DEF View

LEMMA BoxFacts ==
    ASSUME TypeOK, HeapInv, NEW g \in 1..NGlobals
    PROVE  /\ <<"perm", g>> \in Addr /\ <<"perm", g>> \in BoxAddr /\ Live(<<"perm", g>>)
           /\ 1 \in Slots
  <1>1. g <= top["perm"]
    BY SizesAssumption DEF HeapInv, TopsInv
  <1> QED
    BY <1>1, SizesAssumption DEF Addr, BoxAddr, Live, Slots

LEMMA VisitView ==
    ASSUME TypeOK, HeapInv, NInv, Collecting, NEW v, NEW pa, NEW h, NEW m, NEW w,
           VisitStep(v, pa, h, m, w), v \notin BoxAddr, NEW d, d = dst, Renamed(v, d),
           \A r \in Roots : root'[r] = root[r] \/ (root[r] = v /\ root'[r] = w)
    PROVE  View(mem', root', name') = View(mem, root, name)
  <1>1. PICK n, ru, nn : n = mem' /\ ru = root' /\ nn = name'
    OBVIOUS
  <1>2. /\ \A x \in Ref : Valid(x) => NameOf(x, name') = NameOf(x, name)
        /\ NameOf(w, name') = NameOf(v, name)
    BY VisitNames
  <1>3. \A r \in Roots : NameOf(ru[r], nn) = NameOf(root[r], name)
    <2>1. \A r \in Roots : root[r] \in Ref /\ Valid(root[r])
      BY DEF HeapInv, RootsInv, TypeOK, Collecting, MinorPhase, MajorPhase, Failed
    <2> QED
      BY <1>1, <1>2, <2>1
  <1>4. \A g \in 1..NGlobals :
           NameOf(n[<<"perm", g>>].slots[1], nn) = NameOf(mem[<<"perm", g>>].slots[1], name)
    <2>1. \A a \in Addr, s \in Slots : Live(a) =>
             NameOf(mem'[a].slots[s], name') = NameOf(mem[a].slots[s], name)
      BY VisitSlotNames
    <2> QED
      BY <1>1, <2>1, BoxFacts
  <1>5. \A o \in 1..MaxAllocs : SlotsOf(o, n, nn) = SlotsOf(o, mem, name)
    BY <1>1, VisitSlotsOf
  <1>6. View(n, ru, nn) = View(mem, root, name)
    BY <1>3, <1>4, <1>5, SameView
  <1> QED
    BY <1>1, <1>6

LEMMA RenameVisit ==
    ASSUME Rename, Collecting, pc' = pc, Visiting, NEW v, v = Visited, NEW pa, Visit(v, pa),
           NEW d, d = dst
    PROVE  Renamed(v, d)
  <1>1. pc # "alloc" /\ pc' \notin Failed
    BY DEF Collecting, MinorPhase, MajorPhase, Failed
  <1>2. ~Moves(v) => top' = top
    BY DEF Visit
  <1> QED
    BY <1>1, <1>2 DEF Rename, Renamed

(* Each of the five visits renames what it moves.                          *)
VisitsAndRenames(v, pa, h, m, w, d) ==
    /\ VisitStep(v, pa, h, m, w) /\ Collecting /\ v \notin BoxAddr
    /\ d = dst /\ Renamed(v, d)
    /\ \A r \in Roots : root'[r] = root[r] \/ (root[r] = v /\ root'[r] = w)

LEMMA VisitedStep ==
    ASSUME TypeOK, HeapInv, NInv, Rename,
           PromoteEntry \/ TraceRemembered \/ Scan \/ TraceRoot \/ TraceGlobal
    PROVE  \E v, pa, h, m, w, d : VisitsAndRenames(v, pa, h, m, w, d)
  <1> PICK d : d = dst
    OBVIOUS
  <1>1. slot \in Slots /\ \A a \in Addr : Live(a) => mem[a].slots[slot] \notin BoxAddr
    BY DEF TypeOK, NInv, NoBoxRefs
  <1>2. ASSUME NEW v, NEW pa, NEW h, NEW m, NEW w, VisitStep(v, pa, h, m, w),
               h # Nil
        PROVE  v \notin BoxAddr
    BY <1>1, <1>2 DEF VisitStep
  <1>3. ASSUME NEW v, NEW pa, NEW h, NEW m, NEW w, VisitStep(v, pa, h, m, w), Collecting,
               Visiting, v = Visited
        PROVE  Renamed(v, d)
    <2>1. Visit(v, pa) /\ pc' = pc
      BY <1>3 DEF VisitStep
    <2> QED
      BY <1>3, <2>1, RenameVisit
  <1>4. CASE PromoteEntry
    <2> PICK pa, v, m, w : pa = FALSE /\ v = orefs[cur] /\ m = MemAfter(v) /\ w = Forwarded(v)
      OBVIOUS
    <2>1. VisitStep(v, pa, Nil, m, w)
      BY <1>4, PromoteEntryVisits
    <2>2. pc = "y2o" /\ Collecting /\ root' = root /\ Visiting /\ v = Visited /\ cur <= y2o
      <3>1. pc = "y2o" /\ root' = root /\ cur <= y2o
        BY <1>4 DEF PromoteEntry
      <3>2. v = Visited
        BY <3>1 DEF Visited, ScanPhase
      <3> QED
        BY <3>1, <3>2 DEF Collecting, MinorPhase, Visiting
    <2>3. v \notin BoxAddr
      <3>1. PromoteSpace = from /\ PromoteEnd = y2o /\ pc \notin Failed
        BY <2>2 DEF PromoteSpace, PromoteEnd, Stage2, Failed
      <3>2. cur \in 1..y2o
        BY <2>2 DEF TypeOK
      <3>3. v[1] = from
        BY <3>1, <3>2 DEF HeapInv, PoolPartsInv
      <3> QED
        BY <3>3, SpaceFacts DEF BoxAddr
    <2> QED
      BY <1>3, <2>1, <2>2, <2>3 DEF VisitsAndRenames
  <1>5. CASE TraceRemembered
    <2> PICK pa, h, v, m, w : pa = FALSE /\ h = PoolHolder /\ v = PoolSlot
                              /\ m = MemAfter(v) /\ w = Forwarded(v)
      OBVIOUS
    <2>1. VisitStep(v, pa, h, m, w) /\ h \in PoolTail
      BY <1>5, TraceRememberedVisits
    <2>2. pc = "remembered" /\ Collecting /\ root' = root /\ Visiting /\ v = Visited
      <3>1. pc = "remembered" /\ root' = root /\ cur <= Len(orefs)
        BY <1>5, RememberedStep
      <3>2. v = Visited
        BY <3>1 DEF Visited, ScanPhase, PoolHolder, PoolSlot
      <3> QED
        BY <3>1, <3>2 DEF Collecting, MinorPhase, Visiting
    <2>3. h # Nil
      <3>1. \A i \in y2o + 1..Len(orefs) : orefs[i] \in Addr
        BY DEF TypeOK
      <3> QED
        BY <2>1, <3>1, AddrFacts DEF PoolTail
    <2> QED
      BY <1>2, <1>3, <2>1, <2>2, <2>3 DEF VisitsAndRenames
  <1>6. CASE Scan
    <2> PICK h, pa, v, m, w : h = Scanned /\ pa = mem[h].added /\ v = mem[h].slots[slot]
                              /\ m = MemAfter(v) /\ w = Forwarded(v)
      OBVIOUS
    <2>1. VisitStep(v, pa, h, m, w) /\ Collecting /\ h \in Addr
      BY <1>6, ScanVisits
    <2>2. root' = root /\ Visiting /\ v = Visited
      BY <1>6 DEF Scan, Visiting, Visited, ScanPhase
    <2> QED
      BY <1>2, <1>3, <2>1, <2>2, AddrFacts DEF VisitsAndRenames
  <1>7. CASE TraceRoot
    <2> PICK pa, v, m, w : pa = FALSE /\ v = root[cur] /\ m = MemAfter(v) /\ w = Forwarded(v)
      OBVIOUS
    <2>1. VisitStep(v, pa, Nil, m, w) /\ cur \in Roots /\ root' = [root EXCEPT ![cur] = w]
      BY <1>7, TraceRootVisits
    <2>2. Collecting /\ Visiting /\ v = Visited
      BY <1>7 DEF TraceRoot, Collecting, MinorPhase, MajorPhase, Visiting, Visited, ScanPhase
    <2>3. v \notin BoxAddr /\ root \in [Roots -> Ref]
      BY <2>1 DEF NInv, NoBoxRefs, TypeOK
    <2>4. \A r \in Roots : root'[r] = root[r] \/ (root[r] = v /\ root'[r] = w)
      BY <2>1, <2>3
    <2> QED
      BY <1>3, <2>1, <2>2, <2>3, <2>4 DEF VisitsAndRenames
  <1>8. CASE TraceGlobal
    <2> PICK pa, h, v, m, w : pa = FALSE /\ h = <<"perm", cur>> /\ v = mem[h].slots[slot]
                              /\ m = MemAfter(v) /\ w = Forwarded(v)
      OBVIOUS
    <2>1. VisitStep(v, pa, h, m, w) /\ Collecting /\ h \in Addr
      BY <1>8, TraceGlobalVisits
    <2>2. root' = root /\ Visiting /\ v = Visited
      BY <1>8 DEF TraceGlobal, Visiting, Visited, ScanPhase
    <2> QED
      BY <1>2, <1>3, <2>1, <2>2, AddrFacts DEF VisitsAndRenames
  <1> QED
    BY <1>4, <1>5, <1>6, <1>7, <1>8

(* A visit is a stutter of the visible heap.                               *)
LEMMA VisitsStutter ==
    ASSUME TypeOK, HeapInv, NInv, Rename,
           PromoteEntry \/ TraceRemembered \/ Scan \/ TraceRoot \/ TraceGlobal
    PROVE  /\ NInv' /\ UNCHANGED <<req, allocs>>
           /\ View(mem', root', name') = View(mem, root, name)
  <1>1. PICK v, pa, h, m, w, d : VisitsAndRenames(v, pa, h, m, w, d)
    BY VisitedStep
  <1>2. /\ VisitStep(v, pa, h, m, w) /\ Collecting /\ v \notin BoxAddr
        /\ d = dst /\ Renamed(v, d)
        /\ \A r \in Roots : root'[r] = root[r] \/ (root[r] = v /\ root'[r] = w)
    BY <1>1 DEF VisitsAndRenames
  <1>3. NInv'
    BY <1>2, VisitNInv
  <1>4. View(mem', root', name') = View(mem, root, name)
    BY <1>2, VisitView
  <1> QED
    BY <1>2, <1>3, <1>4 DEF VisitStep

-----------------------------------------------------------------------------
(***************************************************************************)
(* The other steps of the collector.                                       *)
(***************************************************************************)
LEMMA SameNames ==
    ASSUME NInv, UNCHANGED <<mem, top, root, req, allocs, name>>, RequestInv'
    PROVE  NInv'
  <1>1. NumbersInv'
    BY DEF NInv, NumbersInv
  <1>2. CopiesInv'
    BY DEF NInv, CopiesInv, Live
  <1>3. NoBoxRefs'
    BY DEF NInv, NoBoxRefs, Live
  <1> QED
    BY <1>1, <1>2, <1>3 DEF NInv

(* A step that turns to another loop, starts a collection or stops.        *)
LEMMA TurnStutters ==
    ASSUME NInv, Rename, UNCHANGED <<mem, top, root, req, allocs>>,
           pc' \notin {"mutator", "alloc"}, pc' \in Failed \/ ~Visiting
    PROVE  /\ NInv' /\ UNCHANGED <<req, allocs>>
           /\ View(mem', root', name') = View(mem, root, name)
  <1>1. name' = name
    BY DEF Rename
  <1>2. RequestInv'
    BY DEF NInv, RequestInv
  <1> QED
    BY <1>1, <1>2, SameNames

(* Where nothing dangles, every reference in use leads to a cell.          *)
RefsValid ==
    /\ \A r \in Roots : root[r] \in Ref /\ Valid(root[r])
    /\ \A a \in Addr, s \in Slots :
          Live(a) => mem[a].slots[s] \in Ref /\ Valid(mem[a].slots[s])

LEMMA DefinedValid == TypeOK /\ HeapInv /\ Quiescent /\ Defined => RefsValid
  BY DefinedFacts, CellFacts DEF HeapInv, TypeOK, RefsValid

(* The end of a collection: the cells left lose their names, the cells that*)
(* stay are the current copies of their objects.                           *)
EndsCollection ==
    /\ Collecting /\ ~Visiting /\ Reclaim(LeftSpaces)
    /\ root' = root /\ allocs' = allocs /\ req' \in {req, NoReq}
    /\ pc' \in {"mutator", "alloc"}

LEMMA EndNames ==
    ASSUME TypeOK, HeapInv, NInv, Rename, EndsCollection
    PROVE  /\ \A a \in Addr : Live(a)' => Live(a) /\ mem'[a] = mem[a] /\ mem[a].fwd = Nil
           /\ \A a \in Addr : mem'[a].fwd = Nil
           /\ name' \in [Addr -> Nat]
           /\ \A a \in Addr : name'[a] = IF Live(a)' THEN name[a] ELSE 0
  <1>1. LeftSpaces \in SUBSET (YoungSpace \cup OldSpace)
    BY SpaceFacts DEF LeftSpaces
  <1>2. /\ \A a \in Addr : mem'[a] = IF a[1] \in LeftSpaces THEN FreeCell ELSE mem[a]
        /\ \A sp \in Spaces : top'[sp] = IF sp \in LeftSpaces THEN 0 ELSE top[sp]
        /\ \A a \in Addr : Live(a)' <=> Live(a) /\ a[1] \notin LeftSpaces
    BY <1>1, ReclaimFacts DEF EndsCollection
  <1>3. \A a \in Addr : mem[a].fwd # Nil => a[1] \in LeftSpaces
    BY DEF EndsCollection, HeapInv, FwdInv, Collecting, MinorPhase, MajorPhase, Failed
  <1>4. FreeCell.fwd = Nil
    BY DEF FreeCell, NewCell
  <1>5. /\ name \in [Addr -> Nat]
        /\ \A a \in Addr : name[a] # 0 => Live(a)
    BY DEF NInv, NumbersInv, CopiesInv
  <1>6. pc # "alloc" /\ ~Visiting
    BY DEF EndsCollection, Collecting, MinorPhase, MajorPhase
  <1>7. CASE top' = top
    <2>1. name' = name
      BY <1>6, <1>7 DEF Rename
    <2>2. \A a \in Addr : Live(a)' <=> Live(a)
      BY <1>7 DEF Live
    <2> QED
      BY <1>2, <1>3, <1>4, <1>5, <2>1, <2>2
  <1>8. CASE top' # top
    <2>1. name' = [a \in Addr |-> IF top'[a[1]] < a[2] THEN 0 ELSE name[a]]
      BY <1>6, <1>8 DEF Rename
    <2>2. \A a \in Addr : name'[a] = IF top'[a[1]] < a[2] THEN 0 ELSE name[a]
      BY <2>1
    <2>3. \A a \in Addr : top'[a[1]] \in Nat /\ a[2] \in Nat
      BY <1>2, AddrFacts, TopFacts
    <2>4. \A a \in Addr : top'[a[1]] < a[2] <=> ~Live(a)'
      BY <2>3 DEF Live
    <2>5. name' \in [Addr -> Nat]
      BY <1>5, <2>1
    <2> QED
      BY <1>2, <1>3, <1>4, <2>2, <2>4, <2>5
  <1> QED
    BY <1>7, <1>8

LEMMA EndNInv ==
    ASSUME TypeOK, HeapInv, NInv, Rename, EndsCollection, RequestInv'
    PROVE  NInv'
  <1>1. /\ \A a \in Addr : Live(a)' => Live(a) /\ mem'[a] = mem[a] /\ mem[a].fwd = Nil
        /\ \A a \in Addr : mem'[a].fwd = Nil
        /\ name' \in [Addr -> Nat]
        /\ \A a \in Addr : name'[a] = IF Live(a)' THEN name[a] ELSE 0
    BY EndNames
  <1>2. NumbersInv'
    <2>1. NumbersInv /\ allocs' = allocs /\ (req'.dst # 0 => req' = req) /\ allocs \in Nat
      BY DEF NInv, EndsCollection, NoReq, TypeOK
    <2>2. \A a \in Addr : name'[a] = name[a] \/ name'[a] = 0
      BY <1>1
    <2>3. \A a \in Addr : name'[a] <= allocs
      BY <2>1, <2>2 DEF NumbersInv
    <2>4. req'.dst # 0 => allocs # 0 /\ \A a \in Addr : name'[a] # allocs
      BY <2>1, <2>2 DEF NumbersInv
    <2> QED
      BY <1>1, <2>1, <2>3, <2>4 DEF NumbersInv
  <1>3. CopiesInv'
    <2>1. CopiesInv
      BY DEF NInv
    <2>2. \A a \in Addr : name'[a] # 0 <=> Live(a)' /\ a \notin BoxAddr
      BY <1>1, <2>1 DEF CopiesInv
    <2>3. ASSUME NEW a \in Addr, NEW b \in Addr, name'[a] # 0, name'[a] = name'[b]
          PROVE  a = b
      <3>1. Live(a)' /\ Live(b)' /\ name'[a] = name[a] /\ name'[b] = name[b]
        BY <1>1, <2>3
      <3> QED
        BY <1>1, <2>1, <2>3, <3>1 DEF CopiesInv
    <2> QED
      BY <1>1, <2>2, <2>3 DEF CopiesInv
  <1>4. NoBoxRefs'
    BY <1>1 DEF NInv, NoBoxRefs, EndsCollection
  <1> QED
    BY <1>2, <1>3, <1>4 DEF NInv

(* The references that stay valid keep their names, and those of variables,*)
(* boxes and cells in use all do.                                          *)
LEMMA EndRefs ==
    ASSUME TypeOK, HeapInv, NInv, Rename, EndsCollection, TypeOK', HeapInv', Defined'
    PROVE  /\ \A r \in Roots : root[r] \in Ref /\ Valid(root[r])'
           /\ \A a \in Addr, s \in Slots : Live(a)' =>
                 mem'[a] = mem[a] /\ mem[a].slots[s] \in Ref /\ Valid(mem[a].slots[s])'
           /\ \A x \in Ref : Valid(x)' => NameOf(x, name') = NameOf(x, name)
  <1>1. Quiescent'
    BY DEF EndsCollection, Quiescent
  <1>2. RefsValid'
    BY <1>1, DefinedValid, PTL
  <1>3. /\ \A a \in Addr : Live(a)' => mem'[a] = mem[a]
        /\ \A a \in Addr : name'[a] = IF Live(a)' THEN name[a] ELSE 0
    BY EndNames
  <1>4. \A r \in Roots : root[r] \in Ref /\ Valid(root[r])'
    BY <1>2 DEF EndsCollection, RefsValid, Valid, Live
  <1>5. \A a \in Addr, s \in Slots : Live(a)' =>
           mem'[a] = mem[a] /\ mem[a].slots[s] \in Ref /\ Valid(mem[a].slots[s])'
    BY <1>2, <1>3 DEF RefsValid
  <1>6. ASSUME NEW x \in Ref, Valid(x)' PROVE NameOf(x, name') = NameOf(x, name)
    <2>1. CASE x = Nil
      BY <2>1 DEF NameOf
    <2>2. CASE x # Nil
      <3>1. x \in Addr /\ Live(x)'
        BY <1>6, <2>2 DEF Ref, Valid, Live
      <3>2. name'[x] = name[x]
        BY <1>3, <3>1
      <3> QED
        BY <2>2, <3>2 DEF NameOf
    <2> QED
      BY <2>1, <2>2
  <1>7. \A x \in Ref : Valid(x)' => NameOf(x, name') = NameOf(x, name)
    BY <1>6
  <1> QED
    BY <1>4, <1>5, <1>7

(* Two heaps that agree on a set of objects that holds what variables,     *)
(* boxes and its members refer to look the same.                           *)
LEMMA ViewAgree ==
    ASSUME NEW m, NEW n, NEW rt, NEW ru, NEW nm, NEW nn,
           \A r \in Roots : NameOf(ru[r], nn) = NameOf(rt[r], nm),
           \A g \in 1..NGlobals :
              NameOf(n[<<"perm", g>>].slots[1], nn) = NameOf(m[<<"perm", g>>].slots[1], nm),
           NEW K \in SUBSET MH!Object,
           MH!Closed(K, SlotNames(m, nm), VarNames(rt, nm), BoxNames(m, nm)),
           \A o \in K : SlotsOf(o, n, nn) = SlotsOf(o, m, nm)
    PROVE  View(n, ru, nn) = View(m, rt, nm)
  <1>1. VarNames(ru, nn) = VarNames(rt, nm)
    BY DEF VarNames
  <1>2. BoxNames(n, nn) = BoxNames(m, nm)
    BY DEF BoxNames
  <1>3. PICK ss, tt, vs, bs : /\ ss = SlotNames(m, nm) /\ tt = SlotNames(n, nn)
                              /\ vs = VarNames(rt, nm) /\ bs = BoxNames(m, nm)
    OBVIOUS
  <1>4. \A o \in K : tt[o] = ss[o]
    BY <1>3 DEF SlotNames, MH!Object
  <1>5. MH!Visible(tt, vs, bs) = MH!Visible(ss, vs, bs)
    BY <1>3, <1>4, AgreeVisible
  <1> QED
    BY <1>1, <1>2, <1>3, <1>5 DEF View

(* The name of a cell is 0 or the number of an object.                     *)
LEMMA ObjectNames ==
    ASSUME TypeOK, NInv, NEW a \in Addr, name[a] # 0
    PROVE  name[a] \in MH!Object
  <1>1. name[a] \in Nat /\ name[a] <= allocs
    BY DEF NInv, NumbersInv
  <1>2. allocs \in 0..MaxAllocs /\ MaxAllocs \in Nat
    BY SizesAssumption DEF TypeOK
  <1> QED
    BY <1>1, <1>2 DEF MH!Object

(* The end of a collection is a stutter of the visible heap.               *)
LEMMA EndView ==
    ASSUME TypeOK, HeapInv, NInv, Rename, EndsCollection, TypeOK', HeapInv', Defined'
    PROVE  View(mem', root', name') = View(mem, root, name)
  <1>1. PICK n, nn, ru : n = mem' /\ nn = name' /\ ru = root'
    OBVIOUS
  <1>2. /\ \A a \in Addr : Live(a)' => Live(a) /\ mem'[a] = mem[a] /\ mem[a].fwd = Nil
        /\ \A a \in Addr : name'[a] = IF Live(a)' THEN name[a] ELSE 0
    BY EndNames
  <1>3. /\ \A r \in Roots : root[r] \in Ref /\ Valid(root[r])'
        /\ \A a \in Addr, s \in Slots : Live(a)' =>
              mem'[a] = mem[a] /\ mem[a].slots[s] \in Ref /\ Valid(mem[a].slots[s])'
        /\ \A x \in Ref : Valid(x)' => NameOf(x, name') = NameOf(x, name)
    BY EndRefs
  <1>4. PICK kept : kept = {a \in Addr : Live(a)' /\ a \notin BoxAddr}
    OBVIOUS
  <1>5. PICK K : K = {name[a] : a \in kept}
    OBVIOUS
  <1>6. /\ \A a \in Addr : name[a] # 0 <=> Live(a) /\ a \notin BoxAddr
        /\ \A a, b \in Addr :
              name[a] # 0 /\ name[a] = name[b] /\ mem[a].fwd = Nil /\ mem[b].fwd = Nil => a = b
    BY DEF NInv, CopiesInv
  <1>7. K \in SUBSET MH!Object
    <2>2. \A a \in kept : a \in Addr /\ name[a] # 0
      BY <1>2, <1>4, <1>6
    <2>3. \A a \in kept : name[a] \in MH!Object
      BY <2>2, ObjectNames
    <2> QED
      BY <1>5, <2>3
  <1>8. ASSUME NEW x \in Ref, x \notin BoxAddr, Valid(x)', NameOf(x, name) \in MH!Object
        PROVE  NameOf(x, name) \in K
    <2>1. x # Nil
      BY <1>8, NamesAssumption DEF NameOf, MH!Object
    <2>2. x \in kept
      BY <1>4, <1>8, <2>1 DEF Ref, Valid, Live
    <2> QED
      BY <1>5, <2>1, <2>2 DEF NameOf
  <1>9. \A g \in 1..NGlobals : <<"perm", g>> \in Addr /\ Live(<<"perm", g>>)' /\ 1 \in Slots
    <2>1. LeftSpaces \in SUBSET (YoungSpace \cup OldSpace) /\ "perm" \notin LeftSpaces
      BY SpaceFacts DEF LeftSpaces
    <2>2. \A a \in Addr : Live(a)' <=> Live(a) /\ a[1] \notin LeftSpaces
      BY <2>1, ReclaimFacts DEF EndsCollection
    <2> QED
      BY <2>1, <2>2, BoxFacts
  <1>10. /\ \A r \in Roots : root[r] \notin BoxAddr
         /\ \A a \in Addr, s \in Slots : Live(a)' => mem[a].slots[s] \notin BoxAddr
    BY <1>2 DEF NInv, NoBoxRefs
  <1>11. \A o \in K : \E a \in kept : o = name[a]
    BY <1>5
  <1>12. ASSUME NEW a \in kept
         PROVE  SlotsOf(name[a], mem, name) = NamesIn(a, mem, name)
    <2>1. a \in Addr /\ mem[a].fwd = Nil /\ name[a] # 0
      BY <1>2, <1>4, <1>6
    <2>2. \A b \in Addr : name[b] = name[a] /\ mem[b].fwd = Nil => b = a
      BY <1>6, <2>1
    <2> QED
      BY <2>1, <2>2, SlotsAt
  <1>13. ASSUME NEW a \in kept
         PROVE  SlotsOf(name[a], n, nn) = NamesIn(a, mem, name)
    <2>1. a \in Addr /\ Live(a)' /\ name[a] # 0 /\ mem[a].fwd = Nil
      BY <1>2, <1>4, <1>6
    <2>2. nn[a] = name[a] /\ n[a].fwd = Nil /\ n[a] = mem[a]
      BY <1>1, <1>2, <2>1
    <2>3. ASSUME NEW b \in Addr, nn[b] = name[a] PROVE b = a
      <3>1. Live(b)' /\ name[b] = name[a] /\ mem[b].fwd = Nil
        BY <1>1, <1>2, <2>1, <2>3
      <3> QED
        BY <1>6, <2>1, <3>1
    <2>4. SlotsOf(name[a], n, nn) = NamesIn(a, n, nn)
      BY <2>1, <2>2, <2>3, SlotsAt
    <2>5. \A s \in Slots : NameOf(n[a].slots[s], nn) = NameOf(mem[a].slots[s], name)
      BY <1>1, <1>3, <2>1, <2>2
    <2>6. NamesIn(a, n, nn) = NamesIn(a, mem, name)
      BY <2>5 DEF NamesIn
    <2> QED
      BY <2>4, <2>6
  <1>14. \A o \in K : SlotsOf(o, n, nn) = SlotsOf(o, mem, name)
    BY <1>11, <1>12, <1>13
  <1>15. MH!Closed(K, SlotNames(mem, name), VarNames(root, name), BoxNames(mem, name))
    <2>1. \A r \in 1..NRoots : VarNames(root, name)[r] \in MH!Object => VarNames(root, name)[r] \in K
      <3>1. \A r \in Roots : NameOf(root[r], name) \in MH!Object => NameOf(root[r], name) \in K
        <4>1. ASSUME NEW r \in Roots, NameOf(root[r], name) \in MH!Object
              PROVE  NameOf(root[r], name) \in K
          <5>1. PICK x : x = root[r]
            OBVIOUS
          <5>2. x \in Ref /\ x \notin BoxAddr /\ Valid(x)'
            BY <1>3, <1>10, <4>1, <5>1 DEF EndsCollection, Valid, Live
          <5> QED
            BY <1>8, <4>1, <5>1, <5>2
        <4> QED
          BY <4>1
      <3> QED
        BY <3>1 DEF VarNames, Roots
    <2>2. \A a \in Addr, s \in Slots : Live(a)' /\ NameOf(mem[a].slots[s], name) \in MH!Object
             => NameOf(mem[a].slots[s], name) \in K
      <3>1. ASSUME NEW a \in Addr, NEW s \in Slots, Live(a)',
                   NameOf(mem[a].slots[s], name) \in MH!Object
            PROVE  NameOf(mem[a].slots[s], name) \in K
        <4>1. PICK x : x = mem[a].slots[s]
          OBVIOUS
        <4>2. x \in Ref /\ x \notin BoxAddr /\ Valid(x)'
          BY <1>3, <1>10, <3>1, <4>1 DEF Valid, Live
        <4> QED
          BY <1>8, <3>1, <4>1, <4>2
      <3> QED
        BY <3>1
    <2>3. \A g \in 1..NGlobals : BoxNames(mem, name)[g] \in MH!Object => BoxNames(mem, name)[g] \in K
      BY <1>9, <2>2 DEF BoxNames
    <2>4. ASSUME NEW o \in K, NEW s \in 1..NSlots, SlotNames(mem, name)[o][s] \in MH!Object
          PROVE  SlotNames(mem, name)[o][s] \in K
      <3>1. PICK a \in kept : o = name[a]
        BY <1>11
      <3>2. SlotNames(mem, name)[o] = NamesIn(a, mem, name)
        BY <1>7, <1>12, <3>1 DEF SlotNames, MH!Object
      <3>3. SlotNames(mem, name)[o][s] = NameOf(mem[a].slots[s], name)
        BY <3>2 DEF NamesIn, Slots
      <3> QED
        BY <1>4, <2>2, <2>4, <3>3 DEF Slots
    <2> QED
      BY <2>1, <2>3, <2>4 DEF MH!Closed, MH!Named
  <1>16. \A r \in Roots : NameOf(ru[r], nn) = NameOf(root[r], name)
    BY <1>1, <1>3 DEF EndsCollection, Valid, Live
  <1>17. \A g \in 1..NGlobals :
            NameOf(n[<<"perm", g>>].slots[1], nn) = NameOf(mem[<<"perm", g>>].slots[1], name)
    <2>1. ASSUME NEW a \in Addr, NEW s \in Slots, Live(a)'
          PROVE  NameOf(n[a].slots[s], nn) = NameOf(mem[a].slots[s], name)
      BY <1>1, <1>3, <2>1
    <2> QED
      BY <1>9, <2>1
  <1>18. View(n, ru, nn) = View(mem, root, name)
    BY <1>7, <1>14, <1>15, <1>16, <1>17, ViewAgree
  <1> QED
    BY <1>1, <1>18

LEMMA EndsAreEnds ==
    ASSUME TypeOK, HeapInv, NInv, EndMinor \/ EndMajor
    PROVE  /\ EndsCollection /\ RequestInv'
           /\ req' = req \/ (req' = NoReq /\ req.dst # 0)
  <1>1. NoReq.dst = 0 /\ RequestInv
    BY DEF NoReq, NInv
  <1>2. Blk \in Spaces /\ top[Blk] \in Nat
    BY SpaceFacts, TopFacts DEF Blk
  <1>3. CASE EndMinor
    <2>1. /\ pc = "scan_young" /\ scan = top[Blk] /\ Reclaim({from}) /\ pc' = Resume
          /\ UNCHANGED <<root, req, allocs>>
      BY <1>3 DEF EndMinor, Goto
    <2>2. Collecting /\ ~Visiting /\ LeftSpaces = {from}
      BY <1>2, <2>1 DEF Collecting, MinorPhase, MajorPhase, Visiting, ScanPhase, LeftSpaces
    <2> QED
      BY <1>1, <2>1, <2>2 DEF EndsCollection, RequestInv, Resume
  <1>4. CASE EndMajor
    <2>1. /\ pc = "major_scan" /\ scan = top[oto] /\ Reclaim({from, ofrom})
          /\ (req' = NoReq /\ pc' = "mutator") \/ (req' = req /\ pc' = Resume)
          /\ UNCHANGED <<root, allocs>>
      BY <1>4 DEF EndMajor, Goto
    <2>2. Collecting /\ ~Visiting /\ LeftSpaces = {from, ofrom}
      BY <1>2, <2>1 DEF Collecting, MinorPhase, MajorPhase, Visiting, ScanPhase, LeftSpaces, Blk
    <2> QED
      BY <1>1, <2>1, <2>2 DEF EndsCollection, RequestInv, Resume
  <1> QED
    BY <1>3, <1>4

-----------------------------------------------------------------------------
(***************************************************************************)
(* The steps of the mutator and the allocator.                             *)
(***************************************************************************)
LEMMA QuietRename ==
    ASSUME Quiescent, Rename, top' = top, pc # "alloc" \/ pc' # "mutator"
    PROVE  name' = name
  <1>1. ~Visiting
    BY DEF Quiescent, Visiting, ScanPhase
  <1> QED
    BY <1>1 DEF Rename

LEMMA QuietNInv ==
    ASSUME NInv, UNCHANGED <<top, req, allocs, name>>, RequestInv', NoBoxRefs',
           \A a \in Addr : mem'[a].fwd = mem[a].fwd
    PROVE  NInv'
  <1>1. NumbersInv'
    BY DEF NInv, NumbersInv
  <1>2. CopiesInv'
    BY DEF NInv, CopiesInv, Live
  <1> QED
    BY <1>1, <1>2 DEF NInv

(* Between collections every number in use has one cell, and every         *)
(* reference a name.                                                       *)
LEMMA QuietNames ==
    ASSUME TypeOK, HeapInv, NInv, Quiescent, Defined
    PROVE  /\ \A a \in Addr : mem[a].fwd = Nil
           /\ \A r \in Roots : root[r] \in Ref /\ Valid(root[r]) /\ root[r] \notin BoxAddr
           /\ \A a \in Addr, s \in Slots : Live(a) =>
                 mem[a].slots[s] \in Ref /\ Valid(mem[a].slots[s]) /\ mem[a].slots[s] \notin BoxAddr
           /\ \A a \in Addr : name[a] # 0 <=> Live(a) /\ a \notin BoxAddr
           /\ \A a, b \in Addr : name[a] # 0 /\ name[a] = name[b] => a = b
  <1>1. \A a \in Addr : mem[a].fwd = Nil
    BY QuiescentFacts DEF HeapInv, FwdInv, Collecting
  <1>2. RefsValid
    BY DefinedValid
  <1> QED
    BY <1>1, <1>2 DEF RefsValid, NInv, NoBoxRefs, CopiesInv

(* Two memories give an object the same slots when its one cell has the    *)
(* same in both.                                                           *)
LEMMA SameSlots ==
    ASSUME NEW m, NEW n, NEW nm, NEW nn, NEW o,
           \A a \in Addr : m[a].fwd = Nil /\ n[a].fwd = Nil,
           \A a \in Addr : nn[a] = o <=> nm[a] = o,
           \A a, b \in Addr : nm[a] = o /\ nm[b] = o => a = b,
           \A a \in Addr : nm[a] = o => NamesIn(a, n, nn) = NamesIn(a, m, nm)
    PROVE  SlotsOf(o, n, nn) = SlotsOf(o, m, nm)
  <1>1. CASE \E a \in Addr : nm[a] = o
    <2>1. PICK a \in Addr : nm[a] = o
      BY <1>1
    <2>2. SlotsOf(o, m, nm) = NamesIn(a, m, nm)
      BY <2>1, SlotsAt
    <2>3. SlotsOf(o, n, nn) = NamesIn(a, n, nn)
      BY <2>1, SlotsAt
    <2> QED
      BY <2>1, <2>2, <2>3
  <1>2. CASE \A a \in Addr : nm[a] # o
    BY <1>2, SlotsNone
  <1> QED
    BY <1>1, <1>2

LEMMA ViewFacts ==
    ASSUME NEW m, NEW rt, NEW nm, NEW sh, sh = View(m, rt, nm)
    PROVE  /\ sh.var = VarNames(rt, nm) /\ sh.box = BoxNames(m, nm)
           /\ sh.slots = MH!Visible(SlotNames(m, nm), VarNames(rt, nm), BoxNames(m, nm))
  BY DEF View

(* What variables and boxes refer to, and what the slots of what can be    *)
(* reached do, can be reached.                                             *)
LEMMA ReachedNames ==
    ASSUME NEW R, R = MH!Reached(SlotNames(mem, name), VarNames(root, name), BoxNames(mem, name))
    PROVE  /\ R \in SUBSET MH!Object
           /\ \A r \in Roots : NameOf(root[r], name) \in MH!Object => NameOf(root[r], name) \in R
           /\ \A g \in 1..NGlobals :
                 BoxNames(mem, name)[g] \in MH!Object => BoxNames(mem, name)[g] \in R
           /\ \A o \in R, s \in Slots : SlotNames(mem, name)[o][s] \in MH!Object
                 => SlotNames(mem, name)[o][s] \in R
  <1>1. /\ R \in SUBSET MH!Object
        /\ MH!Closed(R, SlotNames(mem, name), VarNames(root, name), BoxNames(mem, name))
    BY ReachedClosed
  <1>2. \A r \in 1..NRoots : VarNames(root, name)[r] \in MH!Object => VarNames(root, name)[r] \in R
    BY <1>1 DEF MH!Closed, MH!Named
  <1>3. \A r \in Roots : VarNames(root, name)[r] = NameOf(root[r], name)
    BY DEF VarNames
  <1> QED
    BY <1>1, <1>2, <1>3 DEF MH!Closed, MH!Named, Roots, Slots

(* A protected variable is assigned what can be reached.                   *)
LEMMA AssignStep ==
    ASSUME shown = View(mem, root, name), shown' = View(mem', root', name'),
           UNCHANGED <<mem, name, req, allocs>>,
           NEW r \in Roots, NEW x, root' = [root EXCEPT ![r] = x], DOMAIN root = Roots,
           NEW R, R = MH!Reached(SlotNames(mem, name), VarNames(root, name), BoxNames(mem, name)),
           NameOf(x, name) \in MH!Object => NameOf(x, name) \in R
    PROVE  MH!Assign(r, NameOf(x, name))
  <1>1. PICK vs, bs, ss, vt, seen : /\ vs = VarNames(root, name) /\ bs = BoxNames(mem, name)
                                    /\ ss = SlotNames(mem, name) /\ vt = VarNames(root', name)
                                    /\ seen = MH!Visible(ss, vs, bs)
    OBVIOUS
  <1>2. shown.var = vs /\ shown.box = bs /\ shown.slots = seen
    BY <1>1, ViewFacts
  <1>3. PICK rt, sh : rt = root' /\ sh = shown'
    OBVIOUS
  <1>4. sh = View(mem, rt, name) /\ vt = VarNames(rt, name)
    BY <1>1, <1>3
  <1>5. sh.var = vt /\ sh.box = bs /\ sh.slots = MH!Visible(ss, vt, bs)
    BY <1>1, <1>4, ViewFacts
  <1>6. rt = [root EXCEPT ![r] = x]
    BY <1>3
  <1>7. vt = [vs EXCEPT ![r] = NameOf(x, name)]
    <2>1. /\ vt = [q \in Roots |-> NameOf(rt[q], name)]
          /\ vs = [q \in Roots |-> NameOf(root[q], name)]
      BY <1>1, <1>4 DEF VarNames
    <2>2. \A q \in Roots : rt[q] = IF q = r THEN x ELSE root[q]
      BY <1>6
    <2> QED
      BY <2>1, <2>2
  <1>8. /\ R \in SUBSET MH!Object /\ MH!Closed(R, ss, vs, bs)
        /\ \A o \in R : seen[o] = ss[o]
    BY <1>1, SeenFacts
  <1>9. MH!Closed(R, ss, vt, bs)
    <2>1. \A q \in Roots : vt[q] = NameOf(x, name) \/ vt[q] = vs[q]
      BY <1>1, <1>7 DEF VarNames
    <2>2. \A q \in Roots : vt[q] \in MH!Object => vt[q] \in R
      BY <1>8, <2>1 DEF MH!Closed, MH!Named, Roots
    <2> QED
      BY <1>8, <2>2 DEF MH!Closed, MH!Named, Roots
  <1>10. MH!Visible(seen, vt, bs) = MH!Visible(ss, vt, bs)
    BY <1>8, <1>9, AgreeVisible
  <1> QED
    BY <1>2, <1>3, <1>5, <1>7, <1>10 DEF MH!Assign

(* The objects of holders and their slots.                                 *)
LEMMA HolderNames ==
    ASSUME TypeOK, HeapInv, NInv, Quiescent, Defined, NEW h \in Holders
    PROVE  /\ h \in Addr /\ Live(h)
           /\ h \in BoxAddr => h[2] \in 1..NGlobals /\ h = <<"perm", h[2]>>
           /\ h \notin BoxAddr =>
                 /\ name[h] # 0 /\ name[h] \in MH!Object
                 /\ \E r \in Roots : h = root[r] /\ NameOf(root[r], name) = name[h]
                 /\ SlotNames(mem, name)[name[h]] = NamesIn(h, mem, name)
  <1>1. h \in Addr /\ Live(h)
    BY HolderLive
  <1>2. h \in BoxAddr => h[2] \in 1..NGlobals /\ h = <<"perm", h[2]>>
    BY DEF BoxAddr
  <1>3. ASSUME h \notin BoxAddr
        PROVE  /\ name[h] # 0 /\ name[h] \in MH!Object
               /\ \E r \in Roots : h = root[r] /\ NameOf(root[r], name) = name[h]
               /\ SlotNames(mem, name)[name[h]] = NamesIn(h, mem, name)
    <2>1. name[h] # 0 /\ name[h] \in MH!Object
      BY <1>1, <1>3, QuietNames, ObjectNames
    <2>2. \E r \in Roots : h = root[r] /\ NameOf(root[r], name) = name[h]
      BY <1>3 DEF Holders, NameOf
    <2>3. SlotsOf(name[h], mem, name) = NamesIn(h, mem, name)
      <3>1. mem[h].fwd = Nil /\ \A b \in Addr : name[b] = name[h] => b = h
        BY <1>1, <2>1, QuietNames
      <3> QED
        BY <1>1, <3>1, SlotsAt
    <2> QED
      BY <2>1, <2>2, <2>3 DEF SlotNames, MH!Object
  <1> QED
    BY <1>1, <1>2, <1>3

(* What a step of the program between collections must show.               *)
Shows == shown = View(mem, root, name) /\ shown' = View(mem', root', name')

LEMMA LoadStep ==
    ASSUME TypeOK, HeapInv, NInv, Shows, Rename,
           NEW r \in Roots, NEW h \in Holders, NEW s \in HolderSlots(h), Load(r, h, s)
    PROVE  NInv' /\ MH!HNext
  <1>1. /\ pc = "mutator" /\ pc' = "mutator" /\ Defined /\ Quiescent
        /\ UNCHANGED <<mem, top, from, ofrom, req, allocs>>
    BY DEF Load, Mutating, heap, Quiescent
  <1>2. PICK x : x = mem[h].slots[s]
    OBVIOUS
  <1>3. root' = [root EXCEPT ![r] = x] /\ DOMAIN root = Roots
    BY <1>2 DEF Load, TypeOK
  <1>4. name' = name
    BY <1>1, QuietRename
  <1>5. /\ h \in Addr /\ Live(h) /\ s \in Slots
        /\ h \in BoxAddr => h[2] \in 1..NGlobals /\ h = <<"perm", h[2]>>
        /\ h \notin BoxAddr =>
              /\ name[h] # 0 /\ name[h] \in MH!Object
              /\ \E i \in Roots : h = root[i] /\ NameOf(root[i], name) = name[h]
              /\ SlotNames(mem, name)[name[h]] = NamesIn(h, mem, name)
    BY <1>1, HolderNames, HolderFacts
  <1>6. x \in Ref /\ Valid(x) /\ x \notin BoxAddr
    BY <1>1, <1>2, <1>5, QuietNames
  <1>7. NInv'
    <2>1. RequestInv'
      BY <1>1 DEF NInv, RequestInv
    <2>2. NoBoxRefs'
      <3>1. \A q \in Roots : root'[q] = x \/ root'[q] = root[q]
        BY <1>3
      <3> QED
        BY <1>1, <1>6, <3>1 DEF NInv, NoBoxRefs, Live
    <2> QED
      BY <1>1, <1>4, <2>1, <2>2, QuietNInv
  <1>8. PICK R : R = MH!Reached(SlotNames(mem, name), VarNames(root, name), BoxNames(mem, name))
    OBVIOUS
  <1>9. req.dst = 0
    BY <1>1 DEF NInv, RequestInv, NoReq
  <1>10. shown = View(mem, root, name) /\ shown' = View(mem', root', name')
    BY DEF Shows
  <1>12. shown.box = BoxNames(mem, name)
         /\ shown.var = VarNames(root, name)
         /\ shown.slots = MH!Visible(SlotNames(mem, name), VarNames(root, name), BoxNames(mem, name))
    BY <1>10, ViewFacts
  <1>13. CASE h \in BoxAddr
    <2>1. PICK g \in 1..NGlobals : g = h[2] /\ h = <<"perm", g>>
      BY <1>5, <1>13
    <2>2. s = 1
      BY <2>1 DEF HolderSlots, IsBox
    <2>3. shown.box[g] = NameOf(x, name)
      BY <1>2, <1>12, <2>1, <2>2 DEF BoxNames
    <2>4. NameOf(x, name) \in MH!Object => NameOf(x, name) \in R
      BY <1>8, <1>12, <2>3, ReachedNames
    <2>5. MH!Assign(r, shown.box[g])
      BY <1>1, <1>3, <1>4, <1>8, <1>10, <2>3, <2>4, AssignStep
    <2>6. MH!HLoadBox
      BY <2>5 DEF MH!HLoadBox, Roots
    <2> QED
      BY <1>7, <1>9, <2>6 DEF MH!HNext
  <1>14. CASE h \notin BoxAddr
    <2>1. PICK i \in Roots : NameOf(root[i], name) = name[h] /\ name[h] \in MH!Object
      BY <1>5, <1>14
    <2>2. SlotNames(mem, name)[name[h]][s] = NameOf(x, name)
      BY <1>2, <1>5, <1>14 DEF NamesIn
    <2>3. name[h] \in R /\ shown.var[i] = name[h]
      BY <1>8, <1>12, <2>1, ReachedNames DEF VarNames
    <2>4. NameOf(x, name) \in MH!Object => NameOf(x, name) \in R
      BY <1>5, <1>8, <2>2, <2>3, ReachedNames
    <2>5. shown.slots[shown.var[i]][s] = NameOf(x, name)
      BY <1>8, <1>12, <2>2, <2>3, SeenFacts
    <2>6. MH!Assign(r, shown.slots[shown.var[i]][s]) /\ shown.var[i] # Nil
      <3>1. MH!Assign(r, NameOf(x, name))
        BY <1>1, <1>3, <1>4, <1>8, <1>10, <2>4, AssignStep
      <3> QED
        BY <2>1, <2>3, <2>5, <3>1, NamesAssumption DEF MH!Object
    <2>7. MH!HLoad
      BY <1>5, <2>6 DEF MH!HLoad, Roots, Slots
    <2> QED
      BY <1>7, <1>9, <2>7 DEF MH!HNext
  <1> QED
    BY <1>13, <1>14

LEMMA DropStep ==
    ASSUME TypeOK, HeapInv, NInv, Shows, Rename, NEW r \in Roots, Drop(r)
    PROVE  NInv' /\ MH!HNext
  <1>1. /\ pc = "mutator" /\ pc' = "mutator" /\ Defined /\ Quiescent
        /\ UNCHANGED <<mem, top, from, ofrom, req, allocs>>
    BY DEF Drop, Mutating, heap, Quiescent
  <1>2. root' = [root EXCEPT ![r] = Nil] /\ DOMAIN root = Roots
    BY DEF Drop, TypeOK
  <1>3. name' = name
    BY <1>1, QuietRename
  <1>4. NInv'
    <2>1. RequestInv'
      BY <1>1 DEF NInv, RequestInv
    <2>2. NoBoxRefs'
      <3>1. \A q \in Roots : root'[q] = Nil \/ root'[q] = root[q]
        BY <1>2
      <3>2. Nil \notin BoxAddr
        BY NilAssumption DEF Addr
      <3> QED
        BY <1>1, <3>1, <3>2 DEF NInv, NoBoxRefs, Live
    <2> QED
      BY <1>1, <1>3, <2>1, <2>2, QuietNInv
  <1>5. NameOf(Nil, name) = Nil /\ Nil \notin MH!Object
    BY NamesAssumption DEF NameOf, MH!Object
  <1>6. shown = View(mem, root, name) /\ shown' = View(mem', root', name')
    BY DEF Shows
  <1>7. MH!Assign(r, NameOf(Nil, name))
    BY <1>1, <1>2, <1>3, <1>5, <1>6, AssignStep
  <1>8. MH!HDrop
    BY <1>5, <1>7 DEF MH!HDrop, Roots
  <1> QED
    BY <1>1, <1>4, <1>8 DEF MH!HNext, NInv, RequestInv, NoReq

(* A store into a slot changes that slot of that object.                   *)
LEMMA StoreSlots ==
    ASSUME TypeOK, HeapInv, NInv, Quiescent, Defined, NEW n, NEW h \in Addr, NEW s \in Slots,
           NEW v, \A a \in Addr : n[a].fwd = mem[a].fwd,
           \A a \in Addr, t \in Slots :
              n[a].slots[t] = IF a = h /\ t = s THEN v ELSE mem[a].slots[t],
           NEW o \in MH!Object, NEW ss, ss = SlotNames(mem, name), NEW tt, tt = SlotNames(n, name)
    PROVE  /\ o # name[h] => tt[o] = ss[o]
           /\ o = name[h] => tt[o] = [ss[o] EXCEPT ![s] = NameOf(v, name)]
  <1>1. /\ \A a \in Addr : mem[a].fwd = Nil /\ n[a].fwd = Nil
        /\ \A a, b \in Addr : name[a] # 0 /\ name[a] = name[b] => a = b
    BY QuietNames
  <1>2. o # 0 /\ tt[o] = SlotsOf(o, n, name) /\ ss[o] = SlotsOf(o, mem, name)
    BY DEF SlotNames, MH!Object
  <1>3. CASE o # name[h]
    <2>1. ASSUME NEW a \in Addr, name[a] = o PROVE NamesIn(a, n, name) = NamesIn(a, mem, name)
      <3>1. \A t \in Slots : n[a].slots[t] = mem[a].slots[t]
        BY <1>3, <2>1
      <3> QED
        BY <3>1 DEF NamesIn
    <2>2. \A a, b \in Addr : name[a] = o /\ name[b] = o => a = b
      BY <1>1, <1>2
    <2>3. SlotsOf(o, n, name) = SlotsOf(o, mem, name)
      BY <1>1, <2>1, <2>2, SameSlots
    <2> QED
      BY <1>2, <1>3, <2>3
  <1>4. CASE o = name[h]
    <2>1. \A b \in Addr : name[b] = o => b = h
      BY <1>1, <1>2, <1>4
    <2>2. SlotsOf(o, n, name) = NamesIn(h, n, name)
      BY <1>1, <1>4, <2>1, SlotsAt
    <2>3. SlotsOf(o, mem, name) = NamesIn(h, mem, name)
      BY <1>1, <1>4, <2>1, SlotsAt
    <2>4. \A t \in Slots : n[h].slots[t] = IF t = s THEN v ELSE mem[h].slots[t]
      OBVIOUS
    <2>5. /\ NamesIn(h, n, name) = [t \in Slots |-> NameOf(n[h].slots[t], name)]
          /\ NamesIn(h, mem, name) = [t \in Slots |-> NameOf(mem[h].slots[t], name)]
      BY DEF NamesIn
    <2>6. NamesIn(h, n, name) = [NamesIn(h, mem, name) EXCEPT ![s] = NameOf(v, name)]
      BY <2>4, <2>5
    <2> QED
      BY <1>2, <1>4, <2>2, <2>3, <2>6
  <1> QED
    BY <1>3, <1>4

LEMMA StoreNInv ==
    ASSUME TypeOK, HeapInv, NInv, Rename, NEW h \in Holders, NEW s \in HolderSlots(h),
           NEW v \in {root[r] : r \in Roots} \cup {Nil}, Store(h, s, v)
    PROVE  NInv' /\ name' = name /\ UNCHANGED <<root, req, allocs>>
  <1>1. /\ pc = "mutator" /\ pc' \in {"mutator", "collect"} /\ Defined /\ Quiescent
        /\ UNCHANGED <<top, root, req, allocs>>
    BY DEF Store, Mutating, Quiescent
  <1>2. name' = name
    BY <1>1, QuietRename
  <1>3. /\ \A a \in Addr, t \in Slots :
              mem'[a].slots[t] = IF a = h /\ t = s THEN v ELSE mem[a].slots[t]
        /\ \A a \in Addr : mem'[a].fwd = mem[a].fwd
    BY StoreFacts
  <1>4. v \notin BoxAddr
    <2>1. Nil \notin BoxAddr
      BY NilAssumption DEF Addr
    <2> QED
      BY <2>1 DEF NInv, NoBoxRefs
  <1>5. RequestInv'
    BY <1>1 DEF NInv, RequestInv
  <1>6. NoBoxRefs'
    <2>1. \A a \in Addr : Live(a)' <=> Live(a)
      BY <1>1 DEF Live
    <2>2. \A a \in Addr, t \in Slots : mem'[a].slots[t] = v \/ mem'[a].slots[t] = mem[a].slots[t]
      BY <1>3
    <2> QED
      BY <1>1, <1>4, <2>1, <2>2 DEF NInv, NoBoxRefs
  <1> QED
    BY <1>1, <1>2, <1>3, <1>5, <1>6, QuietNInv

LEMMA StoreStep ==
    ASSUME TypeOK, HeapInv, NInv, Shows, Rename, NEW h \in Holders, NEW s \in HolderSlots(h),
           NEW v \in {root[r] : r \in Roots} \cup {Nil}, Store(h, s, v)
    PROVE  NInv' /\ MH!HNext
  <1>1. NInv' /\ name' = name /\ UNCHANGED <<root, req, allocs>>
    BY StoreNInv
  <1>2. Defined /\ Quiescent /\ req.dst = 0
    BY DEF Store, Mutating, Quiescent, NInv, RequestInv, NoReq
  <1>3. PICK n, sh, y : n = mem' /\ sh = shown' /\ y = NameOf(v, name)
    OBVIOUS
  <1>4. /\ \A a \in Addr, t \in Slots :
              n[a].slots[t] = IF a = h /\ t = s THEN v ELSE mem[a].slots[t]
        /\ \A a \in Addr : n[a].fwd = mem[a].fwd
    BY <1>3, StoreFacts
  <1>5. PICK vs, bs, bt, ss, tt, seen, R :
           /\ vs = VarNames(root, name) /\ bs = BoxNames(mem, name) /\ bt = BoxNames(n, name)
           /\ ss = SlotNames(mem, name) /\ tt = SlotNames(n, name)
           /\ seen = MH!Visible(ss, vs, bs) /\ R = MH!Reached(ss, vs, bs)
    OBVIOUS
  <1>6. /\ shown.var = vs /\ shown.box = bs /\ shown.slots = seen
        /\ sh.var = vs /\ sh.box = bt /\ sh.slots = MH!Visible(tt, vs, bt)
    <2>1. shown = View(mem, root, name) /\ sh = View(n, root, name)
      BY <1>1, <1>3 DEF Shows
    <2> QED
      BY <1>5, <2>1, ViewFacts
  <1>7. /\ h \in Addr /\ Live(h) /\ s \in Slots
        /\ h \in BoxAddr => h[2] \in 1..NGlobals /\ h = <<"perm", h[2]>>
        /\ h \notin BoxAddr =>
              /\ name[h] # 0 /\ name[h] \in MH!Object
              /\ \E i \in Roots : h = root[i] /\ NameOf(root[i], name) = name[h]
    BY <1>2, HolderNames, HolderFacts
  <1>8. /\ \A o \in MH!Object : o # name[h] => tt[o] = ss[o]
        /\ \A o \in MH!Object : o = name[h] => tt[o] = [ss[o] EXCEPT ![s] = y]
    <2>1. ASSUME NEW o \in MH!Object
          PROVE  /\ o # name[h] => tt[o] = ss[o]
                 /\ o = name[h] => tt[o] = [ss[o] EXCEPT ![s] = NameOf(v, name)]
      BY <1>2, <1>4, <1>5, <1>7, StoreSlots
    <2> QED
      BY <1>3, <2>1
  <1>9. /\ R \in SUBSET MH!Object /\ MH!Closed(R, ss, vs, bs)
        /\ \A o \in R : seen[o] = ss[o]
        /\ DOMAIN seen = MH!Object
    BY <1>5, SeenFacts
  <1>10. y \in {vs[r] : r \in 1..NRoots} \cup {Nil}
    <2>1. \A r \in Roots : vs[r] = NameOf(root[r], name)
      BY <1>5 DEF VarNames
    <2> QED
      BY <1>3, <2>1 DEF NameOf, Roots
  <1>11. y \in MH!Object => y \in R
    BY <1>9, <1>10, NamesAssumption DEF MH!Object, MH!Closed, MH!Named
  <1>12. CASE h \in BoxAddr
    <2>1. PICK g \in 1..NGlobals : h = <<"perm", g>>
      BY <1>7, <1>12
    <2>2. s = 1
      BY <2>1 DEF HolderSlots, IsBox
    <2>3. bt = [bs EXCEPT ![g] = y]
      <3>1. \A k \in 1..NGlobals :
               NameOf(n[<<"perm", k>>].slots[1], name) =
                  IF k = g THEN y ELSE NameOf(mem[<<"perm", k>>].slots[1], name)
        <4>1. ASSUME NEW k \in 1..NGlobals
              PROVE  n[<<"perm", k>>].slots[1] = IF k = g THEN v ELSE mem[<<"perm", k>>].slots[1]
          <5>1. <<"perm", k>> \in Addr /\ 1 \in Slots
            BY BoxFacts
          <5> QED
            BY <1>4, <2>1, <2>2, <5>1
        <4> QED
          BY <1>3, <4>1
      <3>2. /\ bt = [k \in 1..NGlobals |-> NameOf(n[<<"perm", k>>].slots[1], name)]
            /\ bs = [k \in 1..NGlobals |-> NameOf(mem[<<"perm", k>>].slots[1], name)]
        BY <1>5 DEF BoxNames
      <3> QED
        BY <3>1, <3>2
    <2>4. tt = ss
      <3>1. name[h] = 0
        BY <1>2, <1>7, <1>12, QuietNames
      <3>2. \A o \in MH!Object : tt[o] = ss[o]
        BY <1>8, <3>1 DEF MH!Object
      <3> QED
        BY <1>5, <3>2 DEF SlotNames, MH!Object
    <2>5. MH!Closed(R, ss, vs, bt)
      <3>1. \A k \in 1..NGlobals : bt[k] = y \/ bt[k] = bs[k]
        BY <1>5, <2>3 DEF BoxNames
      <3> QED
        BY <1>9, <1>11, <3>1 DEF MH!Closed, MH!Named
    <2>6. MH!Visible(seen, vs, bt) = MH!Visible(ss, vs, bt)
      BY <1>9, <2>5, AgreeVisible
    <2>7. MH!HStoreBox
      <3>1. /\ shown'.box = [shown.box EXCEPT ![g] = y]
            /\ shown'.slots = MH!Visible(shown.slots, shown.var, shown'.box)
            /\ shown'.var = shown.var
        BY <1>3, <1>6, <2>3, <2>4, <2>6
      <3>2. y \in {shown.var[r] : r \in 1..NRoots} \cup {Nil}
        BY <1>6, <1>10
      <3> QED
        BY <1>1, <3>1, <3>2 DEF MH!HStoreBox
    <2> QED
      BY <1>1, <1>2, <2>7 DEF MH!HNext
  <1>13. CASE h \notin BoxAddr
    <2>1. PICK i \in Roots : NameOf(root[i], name) = name[h] /\ name[h] \in MH!Object
      BY <1>7, <1>13
    <2>2. vs[i] = name[h] /\ vs[i] # Nil
      BY <1>5, <2>1, NamesAssumption DEF VarNames, MH!Object
    <2>3. bt = bs
      <3>1. \A k \in 1..NGlobals : n[<<"perm", k>>].slots[1] = mem[<<"perm", k>>].slots[1]
        <4>1. ASSUME NEW k \in 1..NGlobals
              PROVE  n[<<"perm", k>>].slots[1] = mem[<<"perm", k>>].slots[1]
          <5>1. <<"perm", k>> \in Addr /\ 1 \in Slots /\ <<"perm", k>> # h
            BY <1>13, BoxFacts
          <5> QED
            BY <1>4, <5>1
        <4> QED
          BY <4>1
      <3> QED
        BY <1>5, <3>1 DEF BoxNames
    <2>4. PICK seenE : seenE = [seen EXCEPT ![vs[i]][s] = y]
      OBVIOUS
    <2>5. vs[i] \in R
      BY <1>9, <2>1, <2>2 DEF MH!Closed, MH!Named, Roots
    <2>6. \A o \in R : seenE[o] = tt[o]
      <3>1. \A o \in R : o # vs[i] => seenE[o] = seen[o]
        BY <1>9, <2>4
      <3>2. seenE[vs[i]] = [seen[vs[i]] EXCEPT ![s] = y]
        BY <1>9, <2>4, <2>5
      <3> QED
        BY <1>8, <1>9, <2>2, <2>5, <3>1, <3>2
    <2>7. MH!Closed(R, tt, vs, bs)
      <3>1. ASSUME NEW o \in R, NEW t \in 1..NSlots, tt[o][t] \in MH!Object
            PROVE  tt[o][t] \in R
        <4>1. DOMAIN ss[o] = Slots
          <5>1. ss[o] = SlotsOf(o, mem, name)
            BY <1>5, <1>9 DEF SlotNames, MH!Object
          <5> QED
            BY <5>1 DEF SlotsOf
        <4>2. tt[o][t] = y \/ tt[o][t] = ss[o][t]
          BY <1>8, <1>9, <4>1 DEF Slots
        <4> QED
          BY <1>9, <1>11, <3>1, <4>2 DEF MH!Closed
      <3> QED
        BY <1>9, <3>1 DEF MH!Closed
    <2>8. MH!Visible(seenE, vs, bs) = MH!Visible(tt, vs, bs)
      BY <1>9, <2>6, <2>7, AgreeVisible
    <2>9. MH!HStore
      <3>1. /\ shown'.slots =
                  MH!Visible([shown.slots EXCEPT ![shown.var[i]][s] = y], shown.var, shown.box)
            /\ shown'.var = shown.var /\ shown'.box = shown.box /\ shown.var[i] # Nil
        BY <1>3, <1>6, <2>2, <2>3, <2>4, <2>8
      <3>2. y \in {shown.var[r] : r \in 1..NRoots} \cup {Nil}
        BY <1>6, <1>10
      <3>3. i \in 1..NRoots /\ s \in 1..NSlots
        BY <1>7 DEF Roots, Slots
      <3> QED
        BY <1>1, <3>1, <3>2, <3>3 DEF MH!HStore
    <2> QED
      BY <1>1, <1>2, <2>9 DEF MH!HNext
  <1> QED
    BY <1>12, <1>13

LEMMA AskStep ==
    ASSUME TypeOK, NInv, Shows, Rename, NEW d \in Roots, NEW src \in [Slots -> Roots \cup {0}],
           AskAlloc(d, src)
    PROVE  NInv' /\ MH!HNext
  <1>1. /\ pc = "mutator" /\ pc' = "alloc" /\ Quiescent
        /\ UNCHANGED <<mem, top, from, ofrom, root>>
        /\ req' = [dst |-> d, src |-> src] /\ allocs' = allocs + 1
    BY DEF AskAlloc, Mutating, heap, Quiescent
  <1>2. name' = name
    BY <1>1, QuietRename
  <1>3. req.dst = 0
    BY <1>1 DEF NInv, RequestInv, NoReq
  <1>4. d # 0 /\ d \in 1..NRoots /\ src \in [1..NSlots -> 0..NRoots]
    <2>1. Roots \cup {0} = 0..NRoots
      BY SizesAssumption DEF Roots
    <2> QED
      BY <2>1 DEF Roots, Slots
  <1>5. NInv'
    <2>1. NumbersInv'
      <3>1. NumbersInv /\ allocs \in Nat
        BY DEF NInv, TypeOK
      <3>2. \A a \in Addr : name[a] \in Nat /\ name[a] <= allocs
        BY <3>1 DEF NumbersInv
      <3>3. allocs' # 0 /\ \A a \in Addr : name[a] <= allocs' /\ name[a] # allocs'
        BY <1>1, <3>1, <3>2
      <3> QED
        BY <1>2, <3>1, <3>3 DEF NumbersInv
    <2>2. RequestInv'
      BY <1>1, <1>4 DEF RequestInv
    <2>3. CopiesInv'
      BY <1>1, <1>2 DEF NInv, CopiesInv, Live
    <2>4. NoBoxRefs'
      BY <1>1 DEF NInv, NoBoxRefs, Live
    <2> QED
      BY <2>1, <2>2, <2>3, <2>4 DEF NInv
  <1>6. shown' = shown
    BY <1>1, <1>2 DEF Shows
  <1>7. MH!HAsk
    BY <1>1, <1>3, <1>4, <1>6 DEF MH!HAsk
  <1> QED
    BY <1>5, <1>7 DEF MH!HNext

(* What the new cell holds, and its name.                                  *)
Arg(i) == IF i = 0 THEN Nil ELSE root[i]

LEMMA AllocNames ==
    ASSUME TypeOK, HeapInv, NInv, Rename, Alloc, NEW new, new = <<from, top[from] + 1>>
    PROVE  /\ new \in Addr /\ new \notin BoxAddr /\ name[new] = 0 /\ ~Live(new) /\ Live(new)'
           /\ Quiescent /\ Defined /\ req.dst \in Roots /\ req' = NoReq /\ pc' = "mutator"
           /\ allocs' = allocs /\ allocs \in MH!Object
           /\ \A a \in Addr : name[a] # allocs
           /\ root' = [root EXCEPT ![req.dst] = new]
           /\ name' = [name EXCEPT ![new] = allocs]
           /\ \A a \in Addr : mem'[a].fwd = Nil
           /\ \A a \in Addr : a # new => mem'[a] = mem[a] /\ (Live(a)' <=> Live(a))
           /\ \A s \in Slots : mem'[new].slots[s] = Arg(req.src[s])
  <1>1. /\ pc = "alloc" /\ Quiescent
        /\ new \in Addr /\ new[1] = from /\ ~Live(new)
        /\ root' = [root EXCEPT ![req.dst] = new]
        /\ mem'[new].fwd = Nil
        /\ \A a \in Addr : a # new => mem'[a] = mem[a]
        /\ \A a \in Addr : Live(a) => Live(a)'
        /\ Live(new)' /\ \A a \in Addr : Live(a)' => Live(a) \/ a = new
    BY AllocFacts
  <1>2. /\ Defined /\ req' = NoReq /\ pc' = "mutator" /\ allocs' = allocs
        /\ mem' = [mem EXCEPT ![new] = NewCell([s \in Slots |-> Arg(req.src[s])])]
    BY DEF Alloc, Arg
  <1>3. /\ \A a \in Addr : mem[a].fwd = Nil
        /\ \A a \in Addr : name[a] # 0 <=> Live(a) /\ a \notin BoxAddr
    BY <1>1, <1>2, QuietNames
  <1>4. new \notin BoxAddr /\ name[new] = 0
    <2>1. from # "perm"
      BY SpaceFacts
    <2> QED
      BY <1>1, <1>3, <2>1, AddrFacts
  <1>5. req.dst \in Roots
    BY <1>1 DEF TypeOK, Request, NInv, RequestInv
  <1>6. req.dst # 0
    BY <1>1 DEF NInv, RequestInv
  <1>7. allocs \in MH!Object /\ \A a \in Addr : name[a] # allocs
    <2>1. allocs \in 0..MaxAllocs /\ MaxAllocs \in Nat
      BY SizesAssumption DEF TypeOK
    <2>2. allocs # 0 /\ \A a \in Addr : name[a] # allocs
      BY <1>6 DEF NInv, NumbersInv
    <2> QED
      BY <2>1, <2>2 DEF MH!Object
  <1>8. name' = [name EXCEPT ![new] = allocs]
    <2>1. root'[req.dst] = new
      BY <1>1, <1>5 DEF TypeOK
    <2> QED
      BY <1>1, <1>2, <2>1 DEF Rename
  <1>9. \A a \in Addr : mem'[a].fwd = Nil
    BY <1>1, <1>3
  <1>10. \A s \in Slots : mem'[new].slots[s] = Arg(req.src[s])
    <2>1. mem'[new] = NewCell([s \in Slots |-> Arg(req.src[s])])
      BY <1>1, <1>2 DEF TypeOK
    <2> QED
      BY <2>1 DEF NewCell
  <1> QED
    BY <1>1, <1>2, <1>4, <1>5, <1>7, <1>8, <1>9, <1>10

LEMMA AllocNInv ==
    ASSUME TypeOK, HeapInv, NInv, Rename, Alloc
    PROVE  NInv'
  <1>1. PICK new : new = <<from, top[from] + 1>>
    OBVIOUS
  <1>2. /\ new \in Addr /\ new \notin BoxAddr /\ name[new] = 0 /\ Live(new)'
        /\ Quiescent /\ Defined /\ req.dst \in Roots /\ req' = NoReq /\ pc' = "mutator"
        /\ allocs' = allocs /\ allocs \in MH!Object
        /\ \A a \in Addr : name[a] # allocs
        /\ root' = [root EXCEPT ![req.dst] = new]
        /\ name' = [name EXCEPT ![new] = allocs]
        /\ \A a \in Addr : mem'[a].fwd = Nil
        /\ \A a \in Addr : a # new => mem'[a] = mem[a] /\ (Live(a)' <=> Live(a))
        /\ \A s \in Slots : mem'[new].slots[s] = Arg(req.src[s])
    BY <1>1, AllocNames
  <1>3. /\ \A r \in Roots : root[r] \in Ref /\ Valid(root[r]) /\ root[r] \notin BoxAddr
        /\ \A a \in Addr : name[a] # 0 <=> Live(a) /\ a \notin BoxAddr
        /\ \A a, b \in Addr : name[a] # 0 /\ name[a] = name[b] => a = b
    BY <1>2, QuietNames
  <1>4. allocs \in Nat /\ allocs # 0 /\ name \in [Addr -> Nat]
        /\ \A a \in Addr : name[a] <= allocs
    BY <1>2 DEF MH!Object, NInv, NumbersInv
  <1>5. \A a \in Addr : name'[a] = IF a = new THEN allocs ELSE name[a]
    BY <1>2, <1>4
  <1>6. NumbersInv'
    <2>1. name' \in [Addr -> Nat]
      BY <1>2, <1>4
    <2>2. \A a \in Addr : name'[a] <= allocs
      BY <1>4, <1>5
    <2> QED
      BY <1>2, <2>1, <2>2 DEF NumbersInv, NoReq
  <1>7. RequestInv'
    BY <1>2 DEF RequestInv
  <1>8. CopiesInv'
    <2>1. \A a \in Addr : name'[a] # 0 <=> Live(a)' /\ a \notin BoxAddr
      BY <1>2, <1>3, <1>4, <1>5
    <2>2. \A a, b \in Addr : name'[a] # 0 /\ name'[a] = name'[b] => a = b
      BY <1>2, <1>3, <1>5
    <2> QED
      BY <1>2, <2>1, <2>2 DEF CopiesInv
  <1>9. NoBoxRefs'
    <2>1. \A r \in Roots : root'[r] = new \/ root'[r] = root[r]
      BY <1>2 DEF TypeOK
    <2>2. \A i \in Roots \cup {0} : Arg(i) \notin BoxAddr
      <3>1. Nil \notin BoxAddr
        BY NilAssumption DEF Addr
      <3> QED
        BY <1>3, <3>1 DEF Arg
    <2>3. \A s \in Slots : mem'[new].slots[s] \notin BoxAddr
      BY <1>2, <2>2 DEF TypeOK, Request
    <2>4. \A a \in Addr, s \in Slots : Live(a)' => mem'[a].slots[s] \notin BoxAddr
      BY <1>2, <2>3 DEF NInv, NoBoxRefs
    <2> QED
      BY <1>2, <1>3, <2>1, <2>4 DEF NoBoxRefs
  <1> QED
    BY <1>6, <1>7, <1>8, <1>9 DEF NInv

(* The slots of the new object, and of the others.                         *)
ArgName(i, vs) == IF i = 0 THEN Nil ELSE vs[i]
Row(vs) == [s \in 1..NSlots |-> ArgName(req.src[s], vs)]

LEMMA AllocViews ==
    ASSUME TypeOK, HeapInv, NInv, Rename, Alloc,
           NEW n, n = mem', NEW nn, nn = name', NEW rt, rt = root',
           NEW vs, vs = VarNames(root, name)
    PROVE  /\ VarNames(rt, nn) = [vs EXCEPT ![req.dst] = allocs]
           /\ BoxNames(n, nn) = BoxNames(mem, name)
           /\ \A o \in MH!Object : o # allocs => SlotNames(n, nn)[o] = SlotNames(mem, name)[o]
           /\ SlotNames(n, nn)[allocs] = Row(vs)
  <1>1. PICK new : new = <<from, top[from] + 1>>
    OBVIOUS
  <1>2. /\ new \in Addr /\ new \notin BoxAddr /\ name[new] = 0 /\ ~Live(new)
        /\ Quiescent /\ Defined /\ req.dst \in Roots
        /\ allocs \in MH!Object
        /\ \A a \in Addr : name[a] # allocs
        /\ rt = [root EXCEPT ![req.dst] = new]
        /\ nn = [name EXCEPT ![new] = allocs]
        /\ \A a \in Addr : n[a].fwd = Nil
        /\ \A a \in Addr : a # new => n[a] = mem[a]
        /\ \A s \in Slots : n[new].slots[s] = Arg(req.src[s])
    BY <1>1, AllocNames
  <1>3. /\ \A a \in Addr : mem[a].fwd = Nil
        /\ \A r \in Roots : root[r] \in Ref /\ Valid(root[r]) /\ root[r] \notin BoxAddr
        /\ \A a \in Addr, s \in Slots : Live(a) =>
              mem[a].slots[s] \in Ref /\ Valid(mem[a].slots[s])
        /\ \A a \in Addr : name[a] # 0 <=> Live(a) /\ a \notin BoxAddr
        /\ \A a, b \in Addr : name[a] # 0 /\ name[a] = name[b] => a = b
    BY <1>2, QuietNames
  <1>4. /\ name \in [Addr -> Nat] /\ \A a \in Addr : nn[a] = IF a = new THEN allocs ELSE name[a]
    BY <1>2 DEF NInv, NumbersInv
  <1>5. ASSUME NEW x \in Ref, Valid(x) PROVE NameOf(x, nn) = NameOf(x, name)
    <2>1. x # Nil => x \in Addr /\ x # new
      BY <1>2, <1>5 DEF Valid, Ref
    <2> QED
      BY <1>4, <2>1 DEF NameOf
  <1>6. new # Nil
    BY <1>2, AddrFacts
  <1>7. VarNames(rt, nn) = [vs EXCEPT ![req.dst] = allocs]
    <2>1. \A r \in Roots : NameOf(rt[r], nn) = IF r = req.dst THEN allocs ELSE NameOf(root[r], name)
      <3>1. ASSUME NEW r \in Roots
            PROVE  NameOf(rt[r], nn) = IF r = req.dst THEN allocs ELSE NameOf(root[r], name)
        <4>1. rt[r] = IF r = req.dst THEN new ELSE root[r]
          BY <1>2 DEF TypeOK
        <4>2. NameOf(new, nn) = allocs
          BY <1>2, <1>4, <1>6 DEF NameOf
        <4> QED
          BY <1>3, <1>5, <4>1, <4>2
      <3> QED
        BY <3>1
    <2>2. /\ VarNames(rt, nn) = [r \in Roots |-> NameOf(rt[r], nn)]
          /\ vs = [r \in Roots |-> NameOf(root[r], name)]
      BY DEF VarNames
    <2> QED
      BY <2>1, <2>2
  <1>8. BoxNames(n, nn) = BoxNames(mem, name)
    <2>1. ASSUME NEW g \in 1..NGlobals
          PROVE  NameOf(n[<<"perm", g>>].slots[1], nn) = NameOf(mem[<<"perm", g>>].slots[1], name)
      <3>1. <<"perm", g>> \in Addr /\ <<"perm", g>> \in BoxAddr /\ Live(<<"perm", g>>) /\ 1 \in Slots
        BY BoxFacts
      <3>2. n[<<"perm", g>>] = mem[<<"perm", g>>]
        BY <1>2, <3>1
      <3> QED
        BY <1>3, <1>5, <3>1, <3>2
    <2> QED
      BY <2>1 DEF BoxNames
  <1>9. ASSUME NEW o \in MH!Object, o # allocs
        PROVE  SlotNames(n, nn)[o] = SlotNames(mem, name)[o]
    <2>1. o # 0
      BY DEF MH!Object
    <2>2. \A a \in Addr : nn[a] = o <=> name[a] = o
      BY <1>2, <1>4, <1>9, <2>1
    <2>3. \A a, b \in Addr : name[a] = o /\ name[b] = o => a = b
      BY <1>3, <2>1
    <2>4. ASSUME NEW a \in Addr, name[a] = o
          PROVE  NamesIn(a, n, nn) = NamesIn(a, mem, name)
      <3>1. Live(a) /\ n[a] = mem[a]
        BY <1>2, <1>3, <2>1, <2>4
      <3>2. \A s \in Slots : NameOf(n[a].slots[s], nn) = NameOf(mem[a].slots[s], name)
        BY <1>3, <1>5, <3>1
      <3> QED
        BY <3>2 DEF NamesIn
    <2>5. \A a \in Addr : mem[a].fwd = Nil /\ n[a].fwd = Nil
      BY <1>2, <1>3
    <2>6. SlotsOf(o, n, nn) = SlotsOf(o, mem, name)
      BY <2>2, <2>3, <2>4, <2>5, SameSlots
    <2> QED
      BY <2>6 DEF SlotNames, MH!Object
  <1>10. SlotNames(n, nn)[allocs] = Row(vs)
    <2>1. new \in Addr /\ n[new].fwd = Nil
          /\ nn[new] = allocs /\ \A b \in Addr : nn[b] = allocs => b = new
      BY <1>2, <1>4
    <2>2. SlotsOf(allocs, n, nn) = NamesIn(new, n, nn)
      BY <2>1, SlotsAt
    <2>3. ASSUME NEW s \in Slots PROVE NameOf(n[new].slots[s], nn) = ArgName(req.src[s], vs)
      <3>1. req.src[s] \in Roots \cup {0}
        BY DEF TypeOK, Request
      <3>2. n[new].slots[s] = Arg(req.src[s])
        BY <1>2
      <3>3. CASE req.src[s] = 0
        BY <3>2, <3>3 DEF Arg, ArgName, NameOf
      <3>4. CASE req.src[s] # 0
        <4>1. req.src[s] \in Roots /\ vs[req.src[s]] = NameOf(root[req.src[s]], name)
          BY <3>1, <3>4 DEF VarNames
        <4>2. n[new].slots[s] = root[req.src[s]]
          BY <3>2, <3>4 DEF Arg
        <4> QED
          BY <1>3, <1>5, <3>4, <4>1, <4>2 DEF ArgName
      <3> QED
        BY <3>3, <3>4
    <2>4. NamesIn(new, n, nn) = Row(vs)
      BY <2>3 DEF NamesIn, Row, Slots
    <2> QED
      BY <1>2, <2>2, <2>4 DEF SlotNames, MH!Object
  <1> QED
    BY <1>7, <1>8, <1>9, <1>10

LEMMA AllocStep ==
    ASSUME TypeOK, HeapInv, NInv, Shows, Rename, Alloc
    PROVE  NInv' /\ MH!HNext
  <1>1. NInv'
    BY AllocNInv
  <1>2. /\ req.dst \in Roots /\ req' = NoReq /\ allocs' = allocs /\ allocs \in MH!Object
    <2>1. PICK new : new = <<from, top[from] + 1>>
      OBVIOUS
    <2> QED
      BY <2>1, AllocNames
  <1>3. PICK n, nn, rt, sh : n = mem' /\ nn = name' /\ rt = root' /\ sh = shown'
    OBVIOUS
  <1>4. PICK vs, vt, bs, ss, tt, seen, R :
           /\ vs = VarNames(root, name) /\ vt = VarNames(rt, nn) /\ bs = BoxNames(mem, name)
           /\ ss = SlotNames(mem, name) /\ tt = SlotNames(n, nn)
           /\ seen = MH!Visible(ss, vs, bs) /\ R = MH!Reached(ss, vs, bs)
    OBVIOUS
  <1>5. /\ vt = [vs EXCEPT ![req.dst] = allocs] /\ BoxNames(n, nn) = bs
        /\ \A o \in MH!Object : o # allocs => tt[o] = ss[o]
        /\ tt[allocs] = Row(vs)
    BY <1>3, <1>4, AllocViews
  <1>6. /\ shown.var = vs /\ shown.box = bs /\ shown.slots = seen
        /\ sh.var = vt /\ sh.box = bs /\ sh.slots = MH!Visible(tt, vt, bs)
    <2>1. shown = View(mem, root, name) /\ sh = View(n, rt, nn)
      BY <1>3 DEF Shows
    <2>2. BoxNames(n, nn) = bs
      BY <1>5
    <2> QED
      BY <1>4, <2>1, <2>2, ViewFacts
  <1>7. /\ R \in SUBSET MH!Object /\ MH!Closed(R, ss, vs, bs)
        /\ \A o \in R : seen[o] = ss[o]
        /\ DOMAIN seen = MH!Object
    BY <1>4, SeenFacts
  <1>8. PICK seenE : seenE = [seen EXCEPT ![allocs] = Row(vs)]
    OBVIOUS
  <1>9. PICK K : K = R \cup {allocs}
    OBVIOUS
  <1>10. K \in SUBSET MH!Object /\ \A o \in K : seenE[o] = tt[o]
    <2>1. seenE[allocs] = Row(vs)
      BY <1>2, <1>7, <1>8
    <2>2. \A o \in R : o # allocs => seenE[o] = seen[o]
      BY <1>7, <1>8
    <2> QED
      BY <1>2, <1>5, <1>7, <1>9, <2>1, <2>2
  <1>11. MH!Closed(K, tt, vt, bs)
    <2>1. \A r \in 1..NRoots : vs[r] \in MH!Object => vs[r] \in R
      BY <1>7 DEF MH!Closed, MH!Named
    <2>2. \A r \in 1..NRoots : vt[r] \in MH!Object => vt[r] \in K
      <3>1. \A r \in Roots : vt[r] = allocs \/ vt[r] = vs[r]
        BY <1>4, <1>5 DEF VarNames
      <3> QED
        BY <1>9, <2>1, <3>1 DEF Roots
    <2>3. ASSUME NEW o \in K, NEW s \in 1..NSlots, tt[o][s] \in MH!Object
          PROVE  tt[o][s] \in K
      <3>1. CASE o = allocs
        <4>1. tt[o][s] = ArgName(req.src[s], vs)
          BY <1>5, <3>1 DEF Row
        <4>2. req.src[s] \in Roots \cup {0}
          BY DEF TypeOK, Request, Slots
        <4>3. Nil \notin MH!Object
          BY NamesAssumption DEF MH!Object
        <4> QED
          BY <1>9, <2>1, <2>3, <4>1, <4>2, <4>3 DEF ArgName, Roots
      <3>2. CASE o # allocs
        <4>1. o \in R /\ tt[o] = ss[o]
          BY <1>5, <1>7, <1>9, <3>2
        <4> QED
          BY <1>7, <1>9, <2>3, <4>1 DEF MH!Closed
      <3> QED
        BY <3>1, <3>2
    <2>4. \A g \in 1..NGlobals : bs[g] \in MH!Object => bs[g] \in K
      BY <1>7, <1>9 DEF MH!Closed, MH!Named
    <2> QED
      BY <2>2, <2>3, <2>4 DEF MH!Closed, MH!Named
  <1>12. MH!Visible(seenE, vt, bs) = MH!Visible(tt, vt, bs)
    BY <1>10, <1>11, AgreeVisible
  <1>13. MH!HNew
    <2>1. req.dst # 0
      BY <1>2 DEF Roots
    <2>2. /\ shown'.var = [shown.var EXCEPT ![req.dst] = allocs]
          /\ shown'.box = shown.box
          /\ shown'.slots = MH!Visible([shown.slots EXCEPT ![allocs] = Row(shown.var)],
                                       shown'.var, shown.box)
      BY <1>3, <1>5, <1>6, <1>8, <1>12
    <2>3. req' = MH!NoWant
      BY <1>2 DEF NoReq, MH!NoWant, Slots
    <2> QED
      BY <1>2, <2>1, <2>2, <2>3 DEF MH!HNew, Row, ArgName
  <1> QED
    BY <1>1, <1>13 DEF MH!HNext

-----------------------------------------------------------------------------
(***************************************************************************)
(* Every step.                                                             *)
(***************************************************************************)
LEMMA StutterMaps ==
    ASSUME shown' = shown, allocs' = allocs, req' = req \/ (req' = NoReq /\ req.dst # 0)
    PROVE  [MH!HNext]_MH!hvars
  <1>1. CASE req' = req
    BY <1>1 DEF MH!hvars
  <1>2. CASE req' = NoReq /\ req.dst # 0
    BY <1>2 DEF MH!HNext, MH!HRefuse, NoReq, MH!NoWant, Slots
  <1> QED
    BY <1>1, <1>2

(* The steps that only turn to another loop.                               *)
LEMMA TurnsMap ==
    ASSUME TypeOK, HeapInv, NInv, Shows, Rename,
           BeginMinor \/ MinorBecomesMajor \/ PromotedAll \/ TracedAll \/ BeginStage2
             \/ TracedRoots \/ TracedGlobals \/ Abort \/ AllocCollects \/ CallMinor \/ CallMajor
    PROVE  NInv' /\ [MH!HNext]_MH!hvars
  <1>1. UNCHANGED <<mem, top, root, req, allocs>>
    BY DEF BeginMinor, MinorBecomesMajor, PromotedAll, TracedAll, BeginStage2, TracedRoots,
           TracedGlobals, Abort, AllocCollects, CallMinor, CallMajor, BeginMajor, Goto, heap
  <1>2. pc' \notin {"mutator", "alloc"}
    BY DEF BeginMinor, MinorBecomesMajor, PromotedAll, TracedAll, BeginStage2, TracedRoots,
           TracedGlobals, Abort, AllocCollects, CallMinor, CallMajor, BeginMajor, Goto
  <1>3. pc' \in Failed \/ ~Visiting
    <2>1. CASE Abort
      BY <2>1 DEF Abort, Failed
    <2>2. CASE BeginMinor \/ MinorBecomesMajor \/ AllocCollects \/ CallMinor \/ CallMajor
      <3>1. pc \in {"mutator", "alloc", "collect"}
        BY <2>2 DEF BeginMinor, MinorBecomesMajor, AllocCollects, CallMinor, CallMajor, Mutating
      <3> QED
        BY <3>1 DEF Visiting, ScanPhase
    <2>3. CASE PromotedAll \/ TracedAll
      BY <2>3 DEF PromotedAll, TracedAll, Visiting, ScanPhase, TypeOK
    <2>4. CASE TracedRoots \/ TracedGlobals
      BY <2>4, SizesAssumption DEF TracedRoots, TracedGlobals, Visiting, ScanPhase, TypeOK
    <2>5. CASE BeginStage2
      <3>1. pc = "scan_old" /\ scan = top[Blk]
        BY <2>5 DEF BeginStage2, Blk, MajorPhase
      <3>2. top[Blk] \in Nat
        BY SpaceFacts, TopFacts DEF Blk
      <3> QED
        BY <3>1, <3>2 DEF Visiting
    <2> QED
      BY <2>1, <2>2, <2>3, <2>4, <2>5
  <1>4. NInv' /\ View(mem', root', name') = View(mem, root, name)
    BY <1>1, <1>2, <1>3, TurnStutters
  <1>5. shown' = shown
    BY <1>4 DEF Shows
  <1> QED
    BY <1>1, <1>4, <1>5, StutterMaps

LEMMA EndsMap ==
    ASSUME TypeOK, HeapInv, NInv, Shows, Rename, TypeOK', HeapInv', EndMinor \/ EndMajor
    PROVE  NInv' /\ (Defined' => [MH!HNext]_MH!hvars)
  <1>1. /\ EndsCollection /\ RequestInv'
        /\ req' = req \/ (req' = NoReq /\ req.dst # 0)
    BY EndsAreEnds
  <1>2. NInv'
    BY <1>1, EndNInv
  <1>3. ASSUME Defined' PROVE [MH!HNext]_MH!hvars
    <2>1. shown' = shown
      BY <1>1, <1>3, EndView DEF Shows
    <2> QED
      BY <1>1, <2>1, StutterMaps DEF EndsCollection
  <1> QED
    BY <1>2, <1>3

LEMMA StoppedMaps ==
    ASSUME NInv, Shows, Rename, Stopped
    PROVE  NInv' /\ [MH!HNext]_MH!hvars
  <1>1. UNCHANGED <<mem, top, root, pc, req, allocs>>
    BY DEF Stopped, vars
  <1>2. pc' \in Failed \/ ~Visiting
    BY DEF Stopped, vars, Visiting, ScanPhase
  <1>3. pc # "alloc" \/ pc' # "mutator"
    BY <1>1
  <1>4. name' = name
    BY <1>1, <1>2, <1>3 DEF Rename
  <1>5. NInv'
    BY <1>1, <1>4, SameNames DEF NInv, RequestInv
  <1>6. shown' = shown
    BY <1>1, <1>4 DEF Shows
  <1> QED
    BY <1>1, <1>5, <1>6, StutterMaps

(* Every step keeps the names right, and is one of MutatorHeap or a stutter*)
(* where nothing dangles.                                                  *)
MapsStep == (pc' \in {"mutator", "alloc"} => Defined') => (UNCHANGED MH!hvars \/ MH!HNext)

LEMMA NamesStep ==
    ASSUME TypeOK, HeapInv, NInv, Shows, Rename, Next
    PROVE  NInv' /\ MapsStep
  <1>1. TypeOK' /\ HeapInv'
    BY StepTypeOK, StepHeap
  <1>2. CASE Stopped
    BY <1>2, StoppedMaps DEF MapsStep
  <1>3. CASE BeginMinor \/ MinorBecomesMajor \/ PromotedAll \/ TracedAll \/ BeginStage2
               \/ TracedRoots \/ TracedGlobals \/ Abort \/ AllocCollects \/ CallMinor
               \/ CallMajor
    BY <1>3, TurnsMap DEF MapsStep
  <1>4. CASE PromoteEntry \/ TraceRemembered \/ Scan \/ TraceRoot \/ TraceGlobal
    <2>1. /\ NInv' /\ UNCHANGED <<req, allocs>>
          /\ View(mem', root', name') = View(mem, root, name)
      BY <1>4, VisitsStutter
    <2>2. shown' = shown
      BY <2>1 DEF Shows
    <2> QED
      BY <2>1, <2>2, StutterMaps DEF MapsStep
  <1>5. CASE EndMinor \/ EndMajor
    <2>1. NInv' /\ (Defined' => [MH!HNext]_MH!hvars)
      BY <1>1, <1>5, EndsMap
    <2>2. pc' \in {"mutator", "alloc"}
      BY <1>5, EndsAreEnds DEF EndsCollection
    <2> QED
      BY <2>1, <2>2 DEF MapsStep
  <1>6. CASE Alloc
    BY <1>6, AllocStep DEF MapsStep
  <1>7. ASSUME NEW r \in Roots, NEW h \in Holders, NEW s \in HolderSlots(h), Load(r, h, s)
        PROVE  NInv' /\ MapsStep
    BY <1>7, LoadStep DEF MapsStep
  <1>8. ASSUME NEW r \in Roots, Drop(r)
        PROVE  NInv' /\ MapsStep
    BY <1>8, DropStep DEF MapsStep
  <1>9. ASSUME NEW h \in Holders, NEW s \in HolderSlots(h),
               NEW v \in {root[r] : r \in Roots} \cup {Nil}, Store(h, s, v)
        PROVE  NInv' /\ MapsStep
    BY <1>9, StoreStep DEF MapsStep
  <1>10. ASSUME NEW d \in Roots, NEW src \in [Slots -> Roots \cup {0}], AskAlloc(d, src)
         PROVE  NInv' /\ MapsStep
    BY <1>10, AskStep DEF MapsStep
  <1> QED
    BY <1>2, <1>3, <1>4, <1>5, <1>6, <1>7, <1>8, <1>9, <1>10
    DEF Next, Collector, Allocator, Mutator

(* The inductive invariant.                                                *)
NamesInv == TypeOK /\ HeapInv /\ NInv /\ shown = View(mem, root, name)

LEMMA InitNInv == NInit => NInv
  <1> SUFFICES ASSUME NInit PROVE NInv
    OBVIOUS
  <1>1. /\ \A a \in Addr : name[a] = 0 /\ mem[a] = FreeCell
        /\ \A sp \in YoungSpace \cup OldSpace : top[sp] = 0
        /\ \A r \in Roots : root[r] = Nil
        /\ req = NoReq /\ allocs = 0 /\ pc = "mutator" /\ name \in [Addr -> Nat]
    BY DEF NInit, Init, YoungSpace, OldSpace
  <1>2. /\ FreeCell.fwd = Nil /\ \A s \in Slots : FreeCell.slots[s] = Nil
        /\ NoReq.dst = 0 /\ Nil \notin BoxAddr
    BY NilAssumption DEF FreeCell, NewCell, NoReq, Addr
  <1>3. \A a \in Addr : Live(a) => a \in BoxAddr
    <2>1. ASSUME NEW a \in Addr, a \notin BoxAddr, Live(a) PROVE FALSE
      <3>1. a[2] \in Nat \ {0} /\ a[1] \in Spaces /\ a[1] # "perm"
        BY <2>1, AddrFacts
      <3>2. top[a[1]] = 0
        BY <1>1, <3>1 DEF Spaces
      <3> QED
        BY <2>1, <3>1, <3>2 DEF Live
    <2> QED
      BY <2>1
  <1>4. NumbersInv /\ RequestInv
    BY <1>1, <1>2 DEF NumbersInv, RequestInv
  <1>5. CopiesInv
    BY <1>1, <1>2, <1>3 DEF CopiesInv
  <1>6. NoBoxRefs
    BY <1>1, <1>2 DEF NoBoxRefs
  <1> QED
    BY <1>4, <1>5, <1>6 DEF NInv

LEMMA InitNames == NInit => NamesInv
  BY InitTypeOK, InitHeap, InitNInv DEF NInit, NamesInv

LEMMA InitMaps == NInit => MH!HInit
  <1> SUFFICES ASSUME NInit PROVE MH!HInit
    OBVIOUS
  <1>1. /\ \A a \in Addr : name[a] = 0 /\ mem[a] = FreeCell
        /\ \A r \in Roots : root[r] = Nil
        /\ req = NoReq /\ allocs = 0
    BY DEF NInit, Init
  <1>2. \A s \in Slots : FreeCell.slots[s] = Nil
    BY DEF FreeCell, NewCell
  <1>3. PICK vs, bs, ss : vs = VarNames(root, name) /\ bs = BoxNames(mem, name)
                          /\ ss = SlotNames(mem, name)
    OBVIOUS
  <1>4. shown.var = vs /\ shown.box = bs /\ shown.slots = MH!Visible(ss, vs, bs)
    <2>1. shown = View(mem, root, name)
      BY DEF NInit
    <2> QED
      BY <1>3, <2>1, ViewFacts
  <1>5. vs = [r \in 1..NRoots |-> Nil]
    BY <1>1, <1>3 DEF VarNames, NameOf, Roots
  <1>6. bs = [g \in 1..NGlobals |-> Nil]
    <2>1. \A g \in 1..NGlobals : NameOf(mem[<<"perm", g>>].slots[1], name) = Nil
      <3>1. ASSUME NEW g \in 1..NGlobals PROVE mem[<<"perm", g>>].slots[1] = Nil
        <4>1. <<"perm", g>> \in Addr /\ 1 \in Slots
          BY SizesAssumption DEF Addr, BoxAddr, Slots
        <4> QED
          BY <1>1, <1>2, <4>1
      <3> QED
        BY <3>1 DEF NameOf
    <2> QED
      BY <1>3, <2>1 DEF BoxNames
  <1>7. \A o \in MH!Object : ss[o] = MH!NoSlots
    <2>1. ASSUME NEW o \in MH!Object PROVE SlotsOf(o, mem, name) = NoNames
      <3>1. \A b \in Addr : name[b] # o
        BY <1>1 DEF MH!Object
      <3> QED
        BY <3>1, SlotsNone
    <2> QED
      BY <1>3, <2>1 DEF SlotNames, MH!Object, MH!NoSlots, NoNames, Slots
  <1>8. MH!Visible(ss, vs, bs) = [o \in MH!Object |-> MH!NoSlots]
    BY <1>7 DEF MH!Visible
  <1>9. req = MH!NoWant
    BY <1>1 DEF NoReq, MH!NoWant, Slots
  <1> QED
    BY <1>1, <1>4, <1>5, <1>6, <1>8, <1>9 DEF MH!HInit

LEMMA StepNames ==
    ASSUME NamesInv, [NNext]_nvars
    PROVE  NamesInv' /\ [MapsStep]_nvars
  <1>1. [Next]_vars
    BY DEF NNext, nvars
  <1>2. TypeOK' /\ HeapInv'
    BY <1>1, StepTypeOK, StepHeap DEF NamesInv
  <1>3. CASE NNext
    <2>1. Shows /\ Rename /\ Next
      BY <1>3 DEF NNext, Shows, NamesInv
    <2>2. NInv' /\ MapsStep
      BY <2>1, NamesStep DEF NamesInv
    <2> QED
      BY <1>2, <2>1, <2>2 DEF NamesInv, Shows
  <1>4. CASE UNCHANGED nvars
    <2>1. UNCHANGED <<mem, top, root, pc, req, allocs, name, shown>>
      BY <1>4 DEF nvars, vars
    <2>2. NInv'
      BY <2>1, SameNames DEF NamesInv, NInv, RequestInv
    <2> QED
      BY <1>2, <1>4, <2>1, <2>2 DEF NamesInv
  <1> QED
    BY <1>3, <1>4

-----------------------------------------------------------------------------
(* Every step of GenGC, of a major collection too, after which nothing     *)
(* dangles where the program goes on is a step of the heap whose objects   *)
(* never move, or does not show: a collection shows as nothing but NO_MEM. *)
THEOREM StepsRefine == NSpec => StepsAsMutatorHeap
  <1>1. NInit => NamesInv
    BY InitNames
  <1>2. NamesInv /\ [NNext]_nvars => NamesInv' /\ [MapsStep]_nvars
    BY StepNames
  <1>3. NSpec => [][MapsStep]_nvars
    BY <1>1, <1>2, PTL DEF NSpec
  <1> QED
    BY <1>3 DEF StepsAsMutatorHeap, MapsStep

(* Without major collections GenGC implements MutatorHeap: the copying     *)
(* collector cannot be told from a heap that keeps every object in place.  *)
THEOREM Refines ==
    ASSUME MajorAllowed = FALSE
    PROVE  NSpec => ImplementsMutatorHeap
  <1>1. NInit => NamesInv /\ AddedInv /\ MH!HInit
    BY InitNames, InitAdded, InitMaps DEF NInit
  <1>2. ASSUME NamesInv, AddedInv, [NNext]_nvars
        PROVE  NamesInv' /\ AddedInv' /\ [MapsStep]_nvars
    <2>1. [Next]_vars
      BY <1>2 DEF NNext, nvars
    <2> QED
      BY <1>2, <2>1, StepNames, StepAdded DEF NamesInv
  <1>3. NamesInv /\ AddedInv => NoDangling
    BY AddedDefined DEF NamesInv
  <1>4. NoDangling' /\ [MapsStep]_nvars => [MH!HNext]_MH!hvars
    <2>1. CASE MapsStep
      BY <2>1 DEF NoDangling, MapsStep
    <2>2. CASE UNCHANGED nvars
      BY <2>2 DEF nvars, vars, MH!hvars
    <2> QED
      BY <2>1, <2>2
  <1>5. NSpec => MH!HInit /\ [][MH!HNext]_MH!hvars
    <2>1. NamesInv /\ AddedInv /\ [NNext]_nvars => NamesInv' /\ AddedInv' /\ [MapsStep]_nvars
      BY <1>2
    <2> QED
      BY <1>1, <1>3, <1>4, <2>1, PTL DEF NSpec
  <1> QED
    BY <1>5 DEF ImplementsMutatorHeap, MH!HSpec
=============================================================================
