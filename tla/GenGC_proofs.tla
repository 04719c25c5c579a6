---------------------------- MODULE GenGC_proofs ----------------------------
(***************************************************************************)
(* Theorems about GenGC, for all sizes, ages, slots, roots and globals.    *)
(***************************************************************************)
EXTENDS GenGC, LeastNumber, TLAPS

Spaces == YoungSpace \cup OldSpace \cup {"perm"}

(* The space being filled is a young or an old one, and a cell past its    *)
(* allocation pointer exists when room is left in it.                      *)
LEMMA BlkFacts ==
    ASSUME TypeOK
    PROVE  /\ Blk \in YoungSpace \cup OldSpace
           /\ to \in YoungSpace
           /\ oto \in OldSpace
  BY DEF TypeOK, Blk, to, oto, YoungSpace, OldSpace

LEMMA DstFacts ==
    ASSUME TypeOK, Left(Blk) # 0
    PROVE  dst \in Addr
  <1>1. Blk \in YoungSpace \cup OldSpace
    BY BlkFacts
  <1>2. top[Blk] \in Nat /\ top[Blk] <= Capacity(Blk)
    BY <1>1 DEF TypeOK
  <1>3. Capacity(Blk) \in Nat
    BY <1>1, SizesAssumption DEF Capacity
  <1>4. top[Blk] + 1 \in 1..Capacity(Blk)
    BY <1>2, <1>3 DEF Left
  <1>5. CASE Blk \in YoungSpace
    BY <1>4, <1>5 DEF Capacity, dst, Addr, YoungAddr
  <1>6. CASE Blk \in OldSpace
    BY <1>4, <1>6 DEF Capacity, dst, Addr, OldAddr, YoungSpace, OldSpace
  <1> QED
    BY <1>1, <1>5, <1>6

LEMMA InitTypeOK == Init => TypeOK
  <1> SUFFICES ASSUME Init PROVE TypeOK
    OBVIOUS
  <1>1. FreeCell \in Cell
    BY NilAssumption DEF FreeCell, NewCell, Cell, Ref
  <1>2. mem \in [Addr -> Cell]
    BY <1>1 DEF Init
  <1>3. /\ top \in [Spaces -> Nat]
        /\ \A sp \in Spaces : top[sp] <= Capacity(sp)
    BY SizesAssumption DEF Init, Spaces, YoungSpace, OldSpace, Capacity
  <1>4. root \in [Roots -> Ref] /\ req \in Request
    BY DEF Init, Ref, NoReq, Request
  <1>5. slot \in Slots /\ cur \in Nat \ {0} /\ scan \in Nat /\ allocs \in 0..MaxAllocs
    BY SizesAssumption DEF Init, Slots
  <1>6. orefs \in Seq(Addr) /\ y2o \in 0..Len(orefs)
    BY DEF Init
  <1>7. pc \in Phases /\ from \in YoungSpace /\ ofrom \in OldSpace
    BY DEF Init, Phases, YoungSpace, OldSpace
  <1> QED
    BY <1>2, <1>3, <1>4, <1>5, <1>6, <1>7 DEF TypeOK, Spaces

-----------------------------------------------------------------------------
(* Writing one slot or the ADDED bit of one object keeps the memory typed.  *)
LEMMA SlotWrite ==
    ASSUME NEW m \in [Addr -> Cell], NEW h \in Addr, NEW s \in Slots, NEW v \in Ref
    PROVE  [m EXCEPT ![h].slots[s] = v] \in [Addr -> Cell]
  <1>1. m[h] \in Cell
    OBVIOUS
  <1>2. [m[h].slots EXCEPT ![s] = v] \in [Slots -> Ref]
    BY <1>1 DEF Cell
  <1>3. [m[h] EXCEPT !.slots[s] = v] \in Cell
    BY <1>1, <1>2 DEF Cell
  <1> QED
    BY <1>3

LEMMA AddedWrite ==
    ASSUME NEW m \in [Addr -> Cell], NEW h \in Addr, NEW b \in BOOLEAN
    PROVE  [m EXCEPT ![h].added = b] \in [Addr -> Cell]
  <1>1. m[h] \in Cell
    OBVIOUS
  <1>2. [m[h] EXCEPT !.added = b] \in Cell
    BY <1>1 DEF Cell
  <1> QED
    BY <1>2

LEMMA FreeCellType == FreeCell \in Cell
  BY NilAssumption DEF FreeCell, NewCell, Cell, Ref

LEMMA CopyOfType ==
    ASSUME TypeOK, NEW v \in Addr
    PROVE  CopyOf(v) \in Cell
  <1>1. mem[v] \in Cell
    BY DEF TypeOK
  <1>2. mem[v].added \in BOOLEAN /\ mem[v].age \in 0..7
    BY <1>1 DEF Cell
  <1>3. NextAge(v) \in 0..7
    BY <1>2 DEF NextAge
  <1>4. (mem[v].added /\ IsOld(v)) \in BOOLEAN /\ (mem[v].added \/ Overaged(v)) \in BOOLEAN
    OBVIOUS
  <1>5. [mem[v] EXCEPT !.added = @ /\ IsOld(v)] \in Cell
    BY <1>1, <1>4 DEF Cell
  <1>6. [mem[v] EXCEPT !.age = NextAge(v), !.added = @ \/ Overaged(v)] \in Cell
    BY <1>1, <1>3, <1>4 DEF Cell
  <1>7. [mem[v] EXCEPT !.added = FALSE] \in Cell
    BY <1>1 DEF Cell
  <1> QED
    BY <1>5, <1>6, <1>7 DEF CopyOf

(* One visit of a reference: what it leaves in memory, in the reference, in*)
(* the allocation pointers and in the pool.                                *)
LEMMA VisitType ==
    ASSUME TypeOK, NEW v \in Ref, NEW pa \in BOOLEAN, Visit(v, pa)
    PROVE  /\ MemAfter(v) \in [Addr -> Cell]
           /\ Forwarded(v) \in Ref
           /\ top' \in [Spaces -> Nat]
           /\ \A sp \in Spaces : top'[sp] <= Capacity(sp)
           /\ orefs' \in Seq(Addr)
           /\ Len(orefs') \in Nat /\ Len(orefs) <= Len(orefs')
  <1>0. /\ mem \in [Addr -> Cell] /\ top \in [Spaces -> Nat] /\ orefs \in Seq(Addr)
        /\ \A sp \in Spaces : top[sp] <= Capacity(sp)
    BY DEF TypeOK, Spaces
  <1>1. CASE ~Moves(v)
    <2>1. MemAfter(v) = mem /\ top' = top /\ orefs' = orefs
      BY <1>1 DEF MemAfter, Visit, Enters
    <2>2. v # Nil => mem[v].fwd \in Ref
      BY <1>0 DEF Ref, Cell
    <2>3. Forwarded(v) \in Ref
      BY <1>1, <2>2 DEF Forwarded
    <2> QED
      BY <1>0, <2>1, <2>3
  <1>2. CASE Moves(v)
    <2>1. v \in Addr
      BY <1>2 DEF Moves, Ref
    <2>2. Left(Blk) # 0
      BY <1>2 DEF Visit, CopyFails
    <2>3. dst \in Addr
      BY <2>2, DstFacts
    <2>4. MemAfter(v) = [mem EXCEPT ![dst] = CopyOf(v), ![v].fwd = dst]
      BY <1>2 DEF MemAfter
    <2>5. [mem EXCEPT ![dst] = CopyOf(v)] \in [Addr -> Cell]
      BY <1>0, <2>1, <2>3, CopyOfType
    <2>6. MemAfter(v) \in [Addr -> Cell]
      <3> DEFINE m == [mem EXCEPT ![dst] = CopyOf(v)]
      <3>1. m \in [Addr -> Cell]
        BY <2>5
      <3>2. m[v] \in Cell /\ dst \in Ref
        BY <3>1, <2>1, <2>3 DEF Ref
      <3>3. [m[v] EXCEPT !.fwd = dst] \in Cell
        BY <3>2 DEF Cell
      <3>4. MemAfter(v) = [m EXCEPT ![v].fwd = dst]
        BY <2>4
      <3> HIDE DEF m
      <3> QED
        BY <3>1, <3>3, <3>4, <2>1
    <2>7. Forwarded(v) \in Ref
      BY <1>2, <2>3 DEF Forwarded, Ref
    <2>8. Blk \in Spaces
      BY BlkFacts DEF Spaces
    <2>9. top' = [top EXCEPT ![Blk] = @ + 1]
      BY <1>2 DEF Visit
    <2>10. top[Blk] \in Nat /\ top[Blk] <= Capacity(Blk)
      BY <1>0, <2>8
    <2>11. Capacity(Blk) \in Nat
      BY SizesAssumption DEF Capacity
    <2>12. top[Blk] + 1 <= Capacity(Blk)
      BY <2>2, <2>10, <2>11 DEF Left
    <2>13. /\ top' \in [Spaces -> Nat]
           /\ \A sp \in Spaces : top'[sp] <= Capacity(sp)
      BY <1>0, <2>8, <2>9, <2>10, <2>12
    <2>14. orefs' = orefs \/ orefs' = Append(orefs, dst)
      BY DEF Visit
    <2>15. /\ orefs' \in Seq(Addr)
           /\ Len(orefs') \in Nat /\ Len(orefs) <= Len(orefs')
      BY <1>0, <2>3, <2>14
    <2> QED
      BY <2>6, <2>7, <2>13, <2>15
  <1> QED
    BY <1>1, <1>2

LEMMA ReclaimType ==
    ASSUME TypeOK, NEW sps \in SUBSET Spaces, Reclaim(sps)
    PROVE  /\ mem' \in [Addr -> Cell]
           /\ top' \in [Spaces -> Nat]
           /\ \A sp \in Spaces : top'[sp] <= Capacity(sp)
  <1>1. mem' \in [Addr -> Cell]
    BY FreeCellType DEF TypeOK, Reclaim
  <1>2. DOMAIN top = Spaces /\ top \in [Spaces -> Nat]
    BY DEF TypeOK, Spaces
  <1>3. \A sp \in Spaces : Capacity(sp) \in Nat /\ top[sp] <= Capacity(sp)
    BY SizesAssumption DEF TypeOK, Spaces, Capacity
  <1> QED
    BY <1>1, <1>2, <1>3 DEF Reclaim

-----------------------------------------------------------------------------
LEMMA HolderFacts ==
    ASSUME TypeOK, NEW h \in Holders, NEW s \in HolderSlots(h)
    PROVE  h \in Addr /\ s \in Slots /\ mem[h].slots[s] \in Ref
  <1>1. h \in Addr
    BY DEF TypeOK, Holders, Ref, Addr
  <1>2. s \in Slots
    BY SizesAssumption DEF HolderSlots, Slots
  <1>3. mem[h] \in Cell
    BY <1>1 DEF TypeOK
  <1> QED
    BY <1>1, <1>2, <1>3 DEF Cell

LEMMA SlotFacts ==
    ASSUME TypeOK, NEW h \in Addr
    PROVE  mem[h].slots[slot] \in Ref /\ mem[h].added \in BOOLEAN
  BY DEF TypeOK, Cell

(* The object at the scan pointer exists.                                  *)
LEMMA ScannedFacts ==
    ASSUME TypeOK, scan < top[Blk]
    PROVE  Scanned \in Addr
  <1>1. Blk \in YoungSpace \cup OldSpace
    BY BlkFacts
  <1>2. top[Blk] \in Nat /\ top[Blk] <= Capacity(Blk)
    BY <1>1 DEF TypeOK
  <1>3. Capacity(Blk) \in Nat
    BY <1>1, SizesAssumption DEF Capacity
  <1>4. scan + 1 \in 1..Capacity(Blk)
    BY <1>2, <1>3 DEF TypeOK
  <1>5. CASE Blk \in YoungSpace
    BY <1>4, <1>5 DEF Capacity, Scanned, Addr, YoungAddr
  <1>6. CASE Blk \in OldSpace
    BY <1>4, <1>6 DEF Capacity, Scanned, Addr, OldAddr, YoungSpace, OldSpace
  <1> QED
    BY <1>1, <1>5, <1>6

LEMMA VisitSlotType ==
    ASSUME TypeOK, NEW h \in Addr, NEW pa \in BOOLEAN, VisitSlot(h, pa)
    PROVE  /\ mem' \in [Addr -> Cell]
           /\ top' \in [Spaces -> Nat]
           /\ \A sp \in Spaces : top'[sp] <= Capacity(sp)
           /\ orefs' \in Seq(Addr)
           /\ Len(orefs') \in Nat /\ Len(orefs) <= Len(orefs')
  <1> DEFINE v == mem[h].slots[slot]
  <1>1. v \in Ref
    BY SlotFacts
  <1>2. Visit(v, pa) /\ mem' = [MemAfter(v) EXCEPT ![h].slots[slot] = Forwarded(v)]
    BY DEF VisitSlot
  <1>3. slot \in Slots
    BY DEF TypeOK
  <1> HIDE DEF v
  <1>4. MemAfter(v) \in [Addr -> Cell] /\ Forwarded(v) \in Ref
    BY <1>1, <1>2, VisitType
  <1>5. mem' \in [Addr -> Cell]
    BY <1>2, <1>3, <1>4, SlotWrite
  <1> QED
    BY <1>1, <1>2, <1>5, VisitType

LEMMA NextSlotType ==
    ASSUME TypeOK, NextSlot
    PROVE  slot' \in Slots
  BY SizesAssumption DEF TypeOK, NextSlot, Slots

-----------------------------------------------------------------------------
LEMMA BeginMajorTypeOK ==
    ASSUME TypeOK, BeginMajor
    PROVE  TypeOK'
  <1>1. 1 \in Slots
    BY SizesAssumption DEF Slots
  <1>2. oto \in Spaces /\ top[oto] \in Nat
    BY BlkFacts DEF TypeOK, Spaces
  <1>3. orefs' \in Seq(Addr) /\ y2o' \in 0..Len(orefs')
    BY DEF BeginMajor
  <1> QED
    BY <1>1, <1>2, <1>3 DEF TypeOK, BeginMajor, Goto, heap, Phases, MajorPhase, Capacity

(* The mutator's and the allocator's steps.                                *)
LEMMA MutatorTypeOK ==
    ASSUME TypeOK, Mutator
    PROVE  TypeOK'
  <1>1. ASSUME NEW r \in Roots, NEW h \in Holders, NEW s \in HolderSlots(h), Load(r, h, s)
        PROVE  TypeOK'
    <2>1. root' \in [Roots -> Ref]
      BY <1>1, HolderFacts DEF TypeOK, Load
    <2> QED
      BY <1>1, <2>1 DEF TypeOK, Load, heap, pool, Capacity
  <1>2. ASSUME NEW r \in Roots, Drop(r)
        PROVE  TypeOK'
    <2>1. root' \in [Roots -> Ref]
      BY <1>2 DEF TypeOK, Drop, Ref
    <2> QED
      BY <1>2, <2>1 DEF TypeOK, Drop, heap, pool, Capacity
  <1>3. ASSUME NEW h \in Holders, NEW s \in HolderSlots(h),
               NEW v \in {root[r] : r \in Roots} \cup {Nil}, Store(h, s, v)
        PROVE  TypeOK'
    <2> DEFINE stored == [mem EXCEPT ![h].slots[s] = v]
    <2>1. h \in Addr /\ s \in Slots /\ v \in Ref
      BY HolderFacts DEF TypeOK, Ref
    <2>2. stored \in [Addr -> Cell]
      BY <2>1, SlotWrite DEF TypeOK
    <2>3. /\ mem' = stored \/ mem' = [stored EXCEPT ![h].added = TRUE]
          /\ orefs' = orefs \/ orefs' = Append(orefs, h)
          /\ pc' = pc \/ pc' = "collect" \/ pc' = "mutator"
      BY <1>3 DEF Store
    <2> HIDE DEF stored
    <2>4. mem' \in [Addr -> Cell]
      <3>1. [stored EXCEPT ![h].added = TRUE] \in [Addr -> Cell]
        BY <2>1, <2>2, AddedWrite
      <3> QED
        BY <2>2, <2>3, <3>1
    <2>5. orefs' \in Seq(Addr) /\ Len(orefs) <= Len(orefs') /\ Len(orefs') \in Nat
      <3>1. h \in Addr /\ orefs \in Seq(Addr)
        BY <2>1 DEF TypeOK
      <3> QED
        BY <2>3, <3>1
    <2>6. y2o' \in 0..Len(orefs')
      BY <1>3, <2>5 DEF TypeOK, Store
    <2>7. pc' \in Phases
      BY <2>3 DEF TypeOK, Phases
    <2>8. UNCHANGED <<top, from, ofrom, root, cur, slot, scan, req, allocs>>
      BY <1>3 DEF Store
    <2> QED
      BY <2>4, <2>5, <2>6, <2>7, <2>8 DEF TypeOK, Capacity
  <1>4. ASSUME NEW d \in Roots, NEW src \in [Slots -> Roots \cup {0}], AskAlloc(d, src)
        PROVE  TypeOK'
    <2>1. req' \in Request /\ pc' \in Phases
      BY <1>4 DEF AskAlloc, Request, Phases
    <2>2. allocs' \in 0..MaxAllocs
      BY <1>4, SizesAssumption DEF AskAlloc, TypeOK
    <2> QED
      BY <1>4, <2>1, <2>2 DEF TypeOK, AskAlloc, heap, pool, Capacity
  <1>5. CASE CallMinor
    BY <1>5 DEF TypeOK, CallMinor, heap, pool, Phases, Capacity
  <1>6. CASE CallMajor
    BY <1>6, BeginMajorTypeOK DEF CallMajor
  <1> QED
    BY <1>1, <1>2, <1>3, <1>4, <1>5, <1>6 DEF Mutator

LEMMA AllocatorTypeOK ==
    ASSUME TypeOK, Allocator
    PROVE  TypeOK'
  <1>1. CASE AllocCollects
    BY <1>1 DEF TypeOK, AllocCollects, heap, pool, Phases, Capacity
  <1>2. CASE Alloc
    <2> DEFINE new == <<from, top[from] + 1>>
               arg(i) == IF i = 0 THEN Nil ELSE root[i]
               ss == [s \in Slots |-> arg(req.src[s])]
    <2>1. from \in YoungSpace /\ from \in Spaces /\ top[from] \in Nat
      BY DEF TypeOK, Spaces
    <2>2. top[from] + 1 \in 1..NovSize /\ top[from] + 1 <= Capacity(from)
      BY <1>2, <2>1, SizesAssumption DEF Alloc, Fits, Capacity
    <2>3. new \in Addr
      BY <2>1, <2>2 DEF Addr, YoungAddr
    <2>4. \A s \in Slots : arg(req.src[s]) \in Ref
      BY DEF TypeOK, Request, Ref
    <2>5. NewCell(ss) \in Cell
      BY <2>4, NilAssumption DEF NewCell, Cell, Ref
    <2>6. mem' = [mem EXCEPT ![new] = NewCell(ss)] /\ top' = [top EXCEPT ![from] = @ + 1]
      BY <1>2 DEF Alloc
    <2>7. root' = [root EXCEPT ![req.dst] = new] /\ req' = NoReq /\ pc' = "mutator"
      BY <1>2 DEF Alloc
    <2> HIDE DEF new, ss
    <2>8. mem' \in [Addr -> Cell]
      BY <2>3, <2>5, <2>6 DEF TypeOK
    <2>9. /\ top' \in [Spaces -> Nat]
          /\ \A sp \in Spaces : top'[sp] <= Capacity(sp)
      BY <2>1, <2>2, <2>6 DEF TypeOK, Spaces
    <2>10. root' \in [Roots -> Ref]
      BY <2>3, <2>7 DEF TypeOK, Ref
    <2>11. req' \in Request /\ pc' \in Phases
      BY <2>7 DEF NoReq, Request, Phases
    <2>12. UNCHANGED <<from, ofrom, orefs, y2o, cur, slot, scan, allocs>>
      BY <1>2 DEF Alloc, pool
    <2> QED
      BY <2>8, <2>9, <2>10, <2>11, <2>12 DEF TypeOK, Spaces, Capacity
  <1> QED
    BY <1>1, <1>2 DEF Allocator

-----------------------------------------------------------------------------
(* The collector's steps that copy nothing.                                *)
LEMMA LoopTypeOK ==
    ASSUME TypeOK,
           PromotedAll \/ TracedAll \/ BeginStage2 \/ TracedRoots \/ TracedGlobals
             \/ BeginMinor \/ Abort
    PROVE  TypeOK'
  <1>1. 1 \in Slots /\ 1 \in Nat \ {0}
    BY SizesAssumption DEF Slots
  <1>2. ofrom \in Spaces /\ to \in Spaces /\ top[ofrom] \in Nat /\ top[to] \in Nat
    BY BlkFacts DEF TypeOK, Spaces
  <1>3. CASE PromotedAll
    BY <1>1, <1>3 DEF TypeOK, PromotedAll, Goto, heap, pool, Phases, MinorPhase, Capacity
  <1>4. CASE TracedAll
    <2>1. orefs' \in Seq(Addr) /\ y2o' \in 0..Len(orefs')
      BY <1>4 DEF TracedAll
    <2> QED
      BY <1>1, <1>4, <2>1 DEF TypeOK, TracedAll, Goto, heap, Phases, MinorPhase, Capacity
  <1>5. CASE BeginStage2
    BY <1>1, <1>2, <1>5 DEF TypeOK, BeginStage2, Goto, heap, pool, Phases, MinorPhase, Capacity
  <1>6. CASE TracedRoots
    BY <1>1, <1>6
       DEF TypeOK, TracedRoots, Goto, heap, pool, Phases, MinorPhase, MajorPhase, Capacity
  <1>7. CASE TracedGlobals
    BY <1>1, <1>7 DEF TypeOK, TracedGlobals, Goto, heap, pool, Phases, MajorPhase, Capacity
  <1>8. CASE BeginMinor
    BY <1>1, <1>2, <1>8 DEF TypeOK, BeginMinor, Goto, heap, pool, Phases, MinorPhase, Capacity
  <1>9. CASE Abort
    BY <1>9 DEF TypeOK, Abort, heap, pool, Phases, Failed, Capacity
  <1> QED
    BY <1>3, <1>4, <1>5, <1>6, <1>7, <1>8, <1>9

(* The collector's steps that visit one reference.                         *)
LEMMA VisitingTypeOK ==
    ASSUME TypeOK, PromoteEntry \/ TraceRemembered \/ Scan \/ TraceRoot \/ TraceGlobal
    PROVE  TypeOK'
  <1> DEFINE Written ==
        /\ mem' \in [Addr -> Cell]
        /\ top' \in [Spaces -> Nat]
        /\ \A sp \in Spaces : top'[sp] <= Capacity(sp)
        /\ orefs' \in Seq(Addr)
        /\ Len(orefs') \in Nat /\ Len(orefs) <= Len(orefs')
  <1>1. ASSUME Written, UNCHANGED <<from, ofrom, y2o, pc, req, allocs>>,
               root' \in [Roots -> Ref], slot' \in Slots, cur' \in Nat \ {0}, scan' \in Nat
        PROVE  TypeOK'
    <2>1. y2o' \in 0..Len(orefs')
      BY <1>1 DEF TypeOK
    <2> QED
      BY <1>1, <2>1 DEF TypeOK, Spaces, Capacity
  <1>2. cur + 1 \in Nat \ {0} /\ scan + 1 \in Nat /\ root \in [Roots -> Ref]
        /\ cur \in Nat \ {0} /\ scan \in Nat /\ slot \in Slots
        /\ orefs \in Seq(Addr) /\ y2o \in 0..Len(orefs)
    BY DEF TypeOK
  <1>3. CASE PromoteEntry
    <2>1. orefs[cur] \in Ref
      BY <1>2, <1>3 DEF PromoteEntry, Ref
    <2>2. Written
      BY <1>3, <2>1, VisitType DEF PromoteEntry
    <2> HIDE DEF Written
    <2> QED
      BY <1>1, <1>2, <1>3, <2>2 DEF PromoteEntry
  <1>4. CASE TraceRemembered
    <2> DEFINE d == orefs[cur]
               v == mem[d].slots[slot]
               m == [MemAfter(v) EXCEPT ![d].slots[slot] = Forwarded(v)]
    <2>1. d \in Addr
      <3>1. cur <= Len(orefs)
        BY <1>4 DEF TraceRemembered
      <3> QED
        BY <1>2, <3>1
    <2>2. v \in Ref
      BY <2>1, SlotFacts
    <2>3. Visit(v, FALSE) /\ mem' = [m EXCEPT ![d].added = FALSE]
      BY <1>4 DEF TraceRemembered
    <2>4. slot' \in Slots /\ cur' \in Nat \ {0}
      BY <1>2, <1>4, NextSlotType DEF TraceRemembered
    <2>5. UNCHANGED <<from, ofrom, y2o, root, pc, scan, req, allocs>>
      BY <1>4 DEF TraceRemembered
    <2> HIDE DEF v, d
    <2>6. MemAfter(v) \in [Addr -> Cell] /\ Forwarded(v) \in Ref
      BY <2>2, <2>3, VisitType
    <2>7. m \in [Addr -> Cell]
      BY <1>2, <2>1, <2>6, SlotWrite
    <2> HIDE DEF m
    <2>8. mem' \in [Addr -> Cell]
      BY <2>1, <2>3, <2>7, AddedWrite
    <2>9. Written
      BY <2>2, <2>3, <2>8, VisitType
    <2> HIDE DEF Written
    <2> QED
      BY <1>1, <1>2, <2>4, <2>5, <2>9
  <1>5. CASE Scan
    <2>1. Scanned \in Addr
      BY <1>5, ScannedFacts DEF Scan
    <2>2. mem[Scanned].added \in BOOLEAN
      BY <2>1, SlotFacts
    <2>3. Written
      BY <1>5, <2>1, <2>2, VisitSlotType DEF Scan
    <2>4. slot' \in Slots /\ scan' \in Nat
      BY <1>2, <1>5, NextSlotType DEF Scan
    <2>5. UNCHANGED <<from, ofrom, y2o, root, pc, cur, req, allocs>>
      BY <1>5 DEF Scan
    <2> HIDE DEF Written
    <2> QED
      BY <1>1, <1>2, <2>3, <2>4, <2>5
  <1>6. CASE TraceRoot
    <2>1. cur \in Roots /\ root[cur] \in Ref
      BY <1>2, <1>6 DEF TraceRoot, Roots
    <2>2. Visit(root[cur], FALSE) /\ mem' = MemAfter(root[cur])
          /\ root' = [root EXCEPT ![cur] = Forwarded(root[cur])]
      BY <1>6 DEF TraceRoot, VisitRoot
    <2>3. Written /\ Forwarded(root[cur]) \in Ref
      BY <2>1, <2>2, VisitType
    <2>4. root' \in [Roots -> Ref]
      BY <1>2, <2>1, <2>2, <2>3
    <2>5. UNCHANGED <<from, ofrom, y2o, pc, slot, scan, req, allocs>> /\ cur' = cur + 1
      BY <1>6 DEF TraceRoot
    <2> HIDE DEF Written
    <2> QED
      BY <1>1, <1>2, <2>3, <2>4, <2>5
  <1>7. CASE TraceGlobal
    <2>1. <<"perm", cur>> \in Addr
      BY <1>2, <1>7 DEF TraceGlobal, Addr, BoxAddr, TypeOK
    <2>2. Written
      BY <1>7, <2>1, VisitSlotType DEF TraceGlobal
    <2>3. UNCHANGED <<from, ofrom, y2o, root, pc, slot, scan, req, allocs>> /\ cur' = cur + 1
      BY <1>7 DEF TraceGlobal
    <2> HIDE DEF Written
    <2> QED
      BY <1>1, <1>2, <2>2, <2>3
  <1> QED
    BY <1>3, <1>4, <1>5, <1>6, <1>7

(* The collector's steps that reclaim spaces.                              *)
LEMMA EndTypeOK ==
    ASSUME TypeOK, EndMinor \/ EndMajor
    PROVE  TypeOK'
  <1>1. /\ 1 \in Slots /\ 1 \in Nat \ {0} /\ 0 \in Nat
        /\ Resume \in Phases /\ "mutator" \in Phases /\ NoReq \in Request
    BY SizesAssumption DEF Slots, Resume, Phases, NoReq, Request
  <1>2. to \in YoungSpace /\ oto \in OldSpace /\ from \in YoungSpace /\ ofrom \in OldSpace
        /\ orefs \in Seq(Addr) /\ Len(orefs) \in Nat
    BY BlkFacts DEF TypeOK
  <1>3. CASE EndMinor
    <2>1. {from} \in SUBSET Spaces /\ Reclaim({from})
      BY <1>2, <1>3 DEF Spaces, EndMinor
    <2>2. /\ mem' \in [Addr -> Cell] /\ top' \in [Spaces -> Nat]
          /\ \A sp \in Spaces : top'[sp] <= Capacity(sp)
      BY <2>1, ReclaimType
    <2> QED
      BY <1>1, <1>2, <1>3, <2>2 DEF TypeOK, EndMinor, Goto, Spaces, Capacity
  <1>4. CASE EndMajor
    <2>1. {from, ofrom} \in SUBSET Spaces /\ Reclaim({from, ofrom})
      BY <1>2, <1>4 DEF Spaces, EndMajor
    <2>2. /\ mem' \in [Addr -> Cell] /\ top' \in [Spaces -> Nat]
          /\ \A sp \in Spaces : top'[sp] <= Capacity(sp)
      BY <2>1, ReclaimType
    <2>3. req' \in Request /\ pc' \in Phases
      BY <1>1, <1>4 DEF EndMajor, Goto, TypeOK
    <2> QED
      BY <1>1, <1>2, <1>4, <2>2, <2>3 DEF TypeOK, EndMajor, Goto, Spaces, Capacity, pool
  <1> QED
    BY <1>3, <1>4

LEMMA CollectorTypeOK ==
    ASSUME TypeOK, Collector
    PROVE  TypeOK'
  <1>1. CASE MinorBecomesMajor
    BY <1>1, BeginMajorTypeOK DEF MinorBecomesMajor
  <1> QED
    BY <1>1, LoopTypeOK, VisitingTypeOK, EndTypeOK DEF Collector

LEMMA StepTypeOK ==
    ASSUME TypeOK, [Next]_vars
    PROVE  TypeOK'
  <1>1. CASE UNCHANGED vars \/ Stopped
    BY <1>1 DEF Stopped, TypeOK, vars, Capacity
  <1> QED
    BY <1>1, CollectorTypeOK, AllocatorTypeOK, MutatorTypeOK DEF Next

(* Every reference the collector and the mutator follow lies in a space,   *)
(* at every size of the spaces, the pool and the R-stack.                  *)
THEOREM TypeCorrect == Spec => []TypeOK
  <1>1. Init => TypeOK
    BY InitTypeOK
  <1>2. TypeOK /\ [Next]_vars => TypeOK'
    BY StepTypeOK
  <1> QED
    BY <1>1, <1>2, PTL DEF Spec

-----------------------------------------------------------------------------
(* The pool holds room for one more entry except from the moment the write *)
(* barrier filled it until the collection that follows empties it, and     *)
(* after an assert failed.                                                 *)
PoolInv ==
    /\ Len(orefs) <= PoolSize
    /\ pc \notin {"collect", "y2o", "remembered"} \cup Failed => Len(orefs) < PoolSize

(* Only chcpy_minor_young enters objects into the pool, in the root and    *)
(* Cheney loops of stage 2, and its assert bounds them.                    *)
LEMMA VisitPool ==
    ASSUME TypeOK, PoolInv, NEW v, NEW pa \in BOOLEAN, Visit(v, pa)
    PROVE  \/ orefs' = orefs
           \/ Len(orefs') < PoolSize
  <1>1. CASE ~Enters(v, pa)
    BY <1>1 DEF Visit
  <1>2. CASE Enters(v, pa)
    <2>1. ~(Len(orefs) + 1 >= PoolSize)
      BY <1>2 DEF Visit, PoolFails
    <2>2. orefs' = Append(orefs, dst)
      BY <1>2 DEF Visit
    <2>3. Len(orefs') = Len(orefs) + 1 /\ Len(orefs) \in Nat
      BY <2>2 DEF TypeOK
    <2> QED
      BY <2>1, <2>3, SizesAssumption
  <1> QED
    BY <1>1, <1>2

LEMMA VisitingPool ==
    ASSUME TypeOK, PoolInv,
           PromoteEntry \/ TraceRemembered \/ Scan \/ TraceRoot \/ TraceGlobal
    PROVE  PoolInv'
  <1>1. UNCHANGED pc
    BY DEF PromoteEntry, TraceRemembered, Scan, TraceRoot, TraceGlobal
  <1>2. orefs' = orefs \/ Len(orefs') < PoolSize
    <2>1. CASE PromoteEntry
      BY <2>1, VisitPool DEF PromoteEntry
    <2>2. CASE TraceRemembered
      BY <2>2, VisitPool DEF TraceRemembered
    <2>3. CASE Scan
      <3>1. mem[Scanned].added \in BOOLEAN
        BY <2>3, ScannedFacts, SlotFacts DEF Scan
      <3> QED
        BY <2>3, <3>1, VisitPool DEF Scan, VisitSlot
    <2>4. CASE TraceRoot
      BY <2>4, VisitPool DEF TraceRoot, VisitRoot
    <2>5. CASE TraceGlobal
      BY <2>5, VisitPool DEF TraceGlobal, VisitSlot
    <2> QED
      BY <2>1, <2>2, <2>3, <2>4, <2>5
  <1>3. Len(orefs') \in Nat
    BY VisitingTypeOK DEF TypeOK
  <1> QED
    BY <1>1, <1>2, <1>3, SizesAssumption DEF PoolInv

LEMMA StepPool ==
    ASSUME TypeOK, PoolInv, Next
    PROVE  PoolInv'
  <1>1. Len(orefs) \in Nat /\ PoolSize \in Nat \ {0}
    BY SizesAssumption DEF TypeOK
  <1>2. ASSUME NEW h \in Holders, NEW s \in HolderSlots(h),
               NEW v \in {root[r] : r \in Roots} \cup {Nil}, Store(h, s, v)
        PROVE  PoolInv'
    <2>1. Len(orefs) < PoolSize
      BY <1>2 DEF Store, Mutating, PoolInv, Failed
    <2>2. CASE UNCHANGED <<orefs, pc>>
      BY <2>2 DEF PoolInv
    <2>3. CASE orefs' = Append(orefs, h) /\ pc' = IF PoolFull THEN "collect" ELSE "mutator"
      <3>1. Len(orefs') = Len(orefs) + 1
        BY <2>3 DEF TypeOK
      <3> QED
        BY <1>1, <2>1, <2>3, <3>1 DEF PoolInv, PoolFull
    <2> QED
      BY <1>2, <2>2, <2>3 DEF Store
  <1>3. CASE CallMinor \/ CallMajor
    BY <1>1, <1>3 DEF CallMinor, CallMajor, BeginMajor, Goto, Mutating, PoolInv, Failed, pool
  <1>4. ASSUME NEW r \in Roots, NEW h \in Holders, NEW s \in HolderSlots(h), Load(r, h, s)
        PROVE  PoolInv'
    BY <1>4 DEF Load, PoolInv, pool
  <1>5. ASSUME NEW r \in Roots, Drop(r)
        PROVE  PoolInv'
    BY <1>5 DEF Drop, PoolInv, pool
  <1>6. ASSUME NEW d \in Roots, NEW src \in [Slots -> Roots \cup {0}], AskAlloc(d, src)
        PROVE  PoolInv'
    BY <1>6 DEF AskAlloc, Mutating, PoolInv, pool, Failed
  <1>7. CASE Allocator
    BY <1>7 DEF Allocator, Alloc, AllocCollects, PoolInv, pool, Failed
  <1>8. CASE BeginMinor \/ PromotedAll
    BY <1>8 DEF BeginMinor, PromotedAll, Goto, PoolInv, pool, Failed
  <1>9. CASE MinorBecomesMajor \/ TracedAll
    BY <1>1, <1>9 DEF MinorBecomesMajor, BeginMajor, TracedAll, Goto, PoolInv
  <1>10. CASE BeginStage2 \/ TracedRoots \/ TracedGlobals
    BY <1>10 DEF BeginStage2, TracedRoots, TracedGlobals, Goto, PoolInv, pool, Failed
  <1>11. CASE EndMinor
    BY <1>11 DEF EndMinor, Goto, PoolInv, Failed
  <1>12. CASE EndMajor
    BY <1>12 DEF EndMajor, Goto, PoolInv, pool, Failed
  <1>13. CASE Abort
    BY <1>13 DEF Abort, PoolInv, pool, Failed
  <1>14. CASE Stopped
    BY <1>14 DEF Stopped, vars, PoolInv
  <1> QED
    BY <1>2, <1>3, <1>4, <1>5, <1>6, <1>7, <1>8, <1>9, <1>10, <1>11, <1>12, <1>13, <1>14,
       VisitingPool
    DEF Next, Mutator, Collector

(* The pool never runs past orefslim, and the mutator always finds room for*)
(* the write barrier's next entry, at every size of the pool.              *)
THEOREM PoolSafe == Spec => []PoolInBounds
  <1>1. Init => PoolInv
    BY SizesAssumption DEF Init, PoolInv
  <1>2. TypeOK /\ PoolInv /\ [Next]_vars => PoolInv'
    BY StepPool DEF vars, PoolInv
  <1>3. PoolInv => PoolInBounds
    BY DEF PoolInv, PoolInBounds, Failed
  <1> QED
    BY <1>1, <1>2, <1>3, TypeCorrect, PTL DEF Spec

-----------------------------------------------------------------------------
(***************************************************************************)
(* Theorems about the heap GenGC keeps, for all sizes, ages, slots, roots  *)
(* and globals: what the mutator finds after a collection, and that a minor*)
(* collection's survivors fit.                                             *)
(*                                                                         *)
(* The inductive invariant is HeapInv.  During a collection every reference*)
(* in an allocated cell is in one of two states.  It still leads to a space*)
(* the collection leaves (it is not Moved), and then the cell lies in such *)
(* a space itself or the loop that will visit the slot has not reached it: *)
(* the slot is Pending.  Or it is Moved, and stays so.  When the last loop *)
(* ends nothing is Pending but the slots of Skipped holders, so the spaces *)
(* left behind can be emptied.                                             *)
(***************************************************************************)

(* Cells below the allocation pointer of their space, in any of the five   *)
(* spaces; references that lead to one.                                    *)
Live(a) == a[2] <= top[a[1]]
Valid(v) == v # Nil => Live(v)

Stage1 == {"y2o", "remembered", "scan_old"}
Stage2 == {"roots", "scan_young"}
Collecting == pc \in MinorPhase \cup MajorPhase

(* The spaces a collection copies from, and the one that holds nothing but *)
(* copies: a reference to it has been visited.                             *)
LeftSpaces == IF pc \in MajorPhase THEN {from, ofrom} ELSE {from}
NewSpace == IF pc \in MajorPhase THEN oto ELSE to
Moved(v) == v # Nil => v[1] \notin LeftSpaces
Unmoved(v) == v # Nil => v[1] # NewSpace

(* Slots of copies that cheney_copy has not reached.                       *)
Unscanned(a, s) ==
    /\ a[1] = Blk
    /\ \/ scan + 1 < a[2]
       \/ /\ a[2] = scan + 1
          /\ pc \in ScanPhase => slot <= s

(* Slots of remembered objects that the second loop has not reached.       *)
Awaits(a, s) ==
    \E i \in y2o + 1..Len(orefs) :
        /\ orefs[i] = a
        /\ pc = "y2o" \/ cur < i \/ (cur = i /\ slot <= s)

(* Old holders that the minor collection passes over because their ADDED   *)
(* bit kept them out of the pool.                                          *)
Skipped(a) ==
    /\ IsOld(a) /\ mem[a].added
    /\ pc \in {"y2o", "remembered"} => a \notin PoolTail

(* Slots outside the spaces left that may refer into them: what a loop of  *)
(* the collection still has to visit, and what none will.                  *)
Pending(a, s) ==
    \/ Unscanned(a, s)
    \/ pc \in {"y2o", "remembered"} /\ Awaits(a, s)
    \/ pc \in MinorPhase /\ Skipped(a)
    \/ /\ a[1] = "perm" /\ s = 1
       /\ pc = "major_roots" \/ (pc = "major_globals" /\ cur <= a[2])

Traced(r) == pc \in {"roots", "major_roots"} => r < cur

(* The spaces not in use are empty; the boxes are never reclaimed.         *)
TopsInv ==
    /\ top["perm"] = NGlobals
    /\ pc \notin MajorPhase \cup Failed => top[oto] = 0
    /\ pc \notin Stage2 \cup Failed => top[to] = 0
    /\ pc \in Stage2 /\ NewAgeMax = 0 => top[to] = 0

LoopsInv ==
    /\ pc = "y2o" => cur <= y2o + 1
    /\ pc = "remembered" => y2o < cur
    /\ pc = "major_globals" => slot = 1
    /\ Collecting => scan <= top[Blk]

(* The first part of the pool lists over-aged cells of the young space in  *)
(* the order they were copied, so none twice; the second part old objects. *)
(* In stage 2 the pool is being filled for the next minor collection.      *)
PromoteSpace == IF pc \in Stage2 THEN to ELSE from
PromoteEnd == IF pc \in Stage2 THEN Len(orefs) ELSE y2o

PoolPartsInv ==
    pc \notin Failed =>
        /\ \A i \in 1..PromoteEnd : orefs[i][1] = PromoteSpace /\ Live(orefs[i])
        /\ \A i, j \in 1..PromoteEnd : i < j => orefs[i][2] < orefs[j][2]
        /\ \A i \in PromoteEnd + 1..Len(orefs) : IsOld(orefs[i]) /\ Live(orefs[i])
        /\ pc \in {"scan_old"} \cup Stage2 \cup MajorPhase => y2o = 0
        /\ pc \in {"scan_old"} \cup MajorPhase => orefs = <<>>

(* Only cells of the spaces left are forwarded, to cells that stay, and in *)
(* the first loop only those whose pool entries it has passed.             *)
FwdInv ==
    pc \notin Failed =>
        \A a \in Addr :
            mem[a].fwd # Nil =>
                /\ Collecting
                /\ a[1] \in LeftSpaces
                /\ mem[a].fwd[1] \notin LeftSpaces /\ Live(mem[a].fwd)
                /\ pc = "y2o" => \E i \in 1..cur - 1 : orefs[i] = a

(* A global box has one slot.                                              *)
BoxInv == \A a \in BoxAddr : \A s \in Slots \ {1} : mem[a].slots[s] = Nil

(* No protected variable dangles; stage 1 of a minor collection does not   *)
(* touch them, and the root loop moves them one by one.                    *)
RootsInv ==
    /\ pc \notin Failed => \A r \in Roots : Valid(root[r])
    /\ Collecting => \A r \in Roots :
          IF pc \notin Stage1 /\ Traced(r) THEN Moved(root[r]) ELSE Unmoved(root[r])

(* One slot of an allocated cell during a collection.  An old holder never *)
(* refers to the young space being filled: what it refers to is promoted.  *)
SlotOK(a, s) ==
    LET v == mem[a].slots[s] IN
    /\ Valid(v)
    /\ a[1] \in LeftSpaces \/ Pending(a, s) \/ (pc \in MinorPhase /\ IsOld(a)) => Unmoved(v)
    /\ a[1] \in LeftSpaces \/ Pending(a, s) \/ Moved(v)

(* All slots, during a collection and between two.  A collection starts    *)
(* only where nothing dangles.                                             *)
SlotsInv ==
    /\ Collecting => \A a \in Addr : Live(a) => \A s \in Slots : SlotOK(a, s)
    /\ Quiescent => \A a \in Addr : Live(a) => \A s \in Slots :
          LET v == mem[a].slots[s] IN
          \/ Stale(a)
          \/ Valid(v) /\ ((IsOld(a) /\ v # Nil /\ IsYoung(v)) => a \in PoolTail)
    /\ pc = "collect" => Defined

HeapInv ==
    TopsInv /\ LoopsInv /\ PoolPartsInv /\ FwdInv /\ BoxInv /\ RootsInv /\ SlotsInv

-----------------------------------------------------------------------------
(* The five spaces, and which are young and old.                           *)
LEMMA SpaceFacts ==
    ASSUME TypeOK
    PROVE  /\ from \in YoungSpace /\ to \in YoungSpace /\ from # to
           /\ ofrom \in OldSpace /\ oto \in OldSpace /\ ofrom # oto
           /\ YoungSpace = {from, to} /\ OldSpace = {ofrom, oto}
           /\ Spaces = {from, to, ofrom, oto, "perm"}
           /\ \A sp \in YoungSpace : sp \notin OldSpace /\ sp # "perm"
           /\ "perm" \notin OldSpace
  BY DEF TypeOK, YoungSpace, OldSpace, to, oto, Spaces

(* What an address is.                                                     *)
LEMMA AddrFacts ==
    ASSUME NEW a \in Addr
    PROVE  /\ a[1] \in Spaces /\ a[2] \in Nat \ {0} /\ a # Nil
           /\ a[1] = "perm" <=> a \in BoxAddr
           /\ a[1] = "perm" => a[2] \in 1..NGlobals
           /\ a[1] \in YoungSpace => a[2] \in 1..NovSize
  BY NilAssumption DEF Addr, YoungAddr, OldAddr, BoxAddr, Spaces, YoungSpace, OldSpace

(* An address is its space and its index.                                  *)
LEMMA SameAddr ==
    ASSUME NEW a \in Addr, NEW b \in Addr, a[1] = b[1], a[2] = b[2]
    PROVE  a = b
  BY DEF Addr, YoungAddr, OldAddr, BoxAddr

LEMMA TopFacts ==
    ASSUME TypeOK
    PROVE  \A sp \in Spaces : top[sp] \in Nat
  BY DEF TypeOK, Spaces

LEMMA CellFacts ==
    ASSUME TypeOK, NEW a \in Addr
    PROVE  /\ mem[a] \in Cell /\ mem[a].fwd \in Ref /\ mem[a].added \in BOOLEAN
           /\ \A s \in Slots : mem[a].slots[s] \in Ref
  BY DEF TypeOK, Cell

(* An address in an empty space is not in use.                             *)
LEMMA EmptySpace ==
    ASSUME NEW a \in Addr, Live(a), top[a[1]] = 0
    PROVE  FALSE
  BY AddrFacts DEF Live

-----------------------------------------------------------------------------
(***************************************************************************)
(* One visit of a reference.                                               *)
(***************************************************************************)
LEMMA FilledSpace ==
    ASSUME TypeOK, Collecting
    PROVE  /\ Blk \in Spaces /\ Blk # "perm" /\ Blk \notin LeftSpaces /\ "perm" \notin LeftSpaces
           /\ pc \in MajorPhase => Blk = oto
           /\ pc \in MinorPhase => Blk \in {ofrom, to}
           /\ pc \in MinorPhase => pc \notin MajorPhase
           /\ pc \in Stage1 => Blk = ofrom
  BY SpaceFacts
  DEF Collecting, MinorPhase, MajorPhase, Stage1, Blk, LeftSpaces, Spaces, YoungSpace, OldSpace

(* What the copier runs on lies in a space the collection leaves.          *)
LEMMA MovesFacts ==
    ASSUME TypeOK, TopsInv, Collecting, NEW v \in Ref, Valid(v), Unmoved(v), Moves(v)
    PROVE  v \in Addr /\ Live(v) /\ v[1] \in LeftSpaces /\ v # dst
  <1>1. v \in Addr /\ Live(v) /\ v[1] # NewSpace /\ ~IsBox(v) /\ v[1] \in Spaces
    BY AddrFacts DEF Moves, Valid, Unmoved, Ref
  <1>2. v[1] \in LeftSpaces
    <2>1. CASE pc \in MajorPhase
      <3>1. pc \notin Stage2 \cup Failed /\ top[to] = 0
        BY <2>1 DEF TopsInv, Stage2, Failed, MajorPhase
      <3>2. v[1] # to
        BY <1>1, <3>1, EmptySpace
      <3> QED
        BY <1>1, <2>1, <3>2, SpaceFacts DEF NewSpace, LeftSpaces, IsBox
    <2>2. CASE pc \notin MajorPhase
      BY <1>1, <2>2, SpaceFacts DEF NewSpace, LeftSpaces, Moves, IsYoung
    <2> QED
      BY <2>1, <2>2
  <1>3. v # dst
    BY <1>2, FilledSpace DEF dst
  <1> QED
    BY <1>1, <1>2, <1>3

(* The memory after a visit, before the visited slot is written: every cell*)
(* in use keeps its slots, and at most one new cell comes into use.        *)
LEMMA VisitMem ==
    ASSUME TypeOK, TopsInv, Collecting, NEW v \in Ref, Valid(v), Unmoved(v),
           NEW pa, Visit(v, pa), NEW m, m = MemAfter(v), NEW d, d = dst
    PROVE  /\ \A a \in Addr : Live(a) =>
                 Live(a)' /\ m[a].slots = mem[a].slots /\ m[a].added = mem[a].added
           /\ \A a \in Addr : Live(a)' => Live(a) \/ (a = d /\ Moves(v))
           /\ Moves(v) =>
                 /\ d \in Addr /\ ~Live(d) /\ Live(d)' /\ Live(v) /\ v \in Addr
                 /\ v[1] \in LeftSpaces
                 /\ m[d].slots = mem[v].slots
                 /\ pc \in MinorPhase /\ IsOld(d) => ~m[d].added
           /\ \A a \in Addr : m[a].fwd # Nil =>
                 \/ mem[a].fwd # Nil /\ m[a].fwd = mem[a].fwd
                 \/ a = v /\ Moves(v) /\ m[a].fwd = d
  <1>1. CASE ~Moves(v)
    <2>1. m = mem /\ top' = top
      BY <1>1 DEF MemAfter, Visit
    <2> QED
      BY <1>1, <2>1 DEF Live
  <1>2. CASE Moves(v)
    <2>1. v \in Addr /\ Live(v) /\ v[1] \in LeftSpaces /\ v # d
      BY <1>2, MovesFacts
    <2>2. d \in Addr /\ Blk \in Spaces
      BY <1>2, DstFacts, FilledSpace DEF Visit, CopyFails
    <2>3. top' = [top EXCEPT ![Blk] = @ + 1] /\ mem[v].fwd = Nil
      BY <1>2 DEF Visit, Moves
    <2>4. m = [mem EXCEPT ![d] = CopyOf(v), ![v].fwd = d] /\ mem \in [Addr -> Cell]
      BY <1>2 DEF MemAfter, TypeOK
    <2>5. m[d] = CopyOf(v) /\ m[v] = [mem[v] EXCEPT !.fwd = d]
          /\ \A a \in Addr : a # d /\ a # v => m[a] = mem[a]
      BY <2>1, <2>2, <2>4
    <2>6. mem[v] \in Cell
      BY <2>1, CellFacts
    <2>7. m[v].slots = mem[v].slots /\ m[v].added = mem[v].added /\ m[v].fwd = d
      BY <2>5, <2>6 DEF Cell
    <2>8. m[d].slots = mem[v].slots /\ m[d].fwd = Nil
          /\ (pc \in MinorPhase /\ IsOld(d) => ~m[d].added)
      <3>1. CopyOf(v).slots = mem[v].slots /\ CopyOf(v).fwd = mem[v].fwd
        BY <2>6 DEF CopyOf, Cell
      <3>2. ASSUME pc \in MinorPhase, IsOld(d) PROVE ~CopyOf(v).added
        <4>1. pc \notin MajorPhase /\ Blk \notin YoungSpace
          BY <3>2, FilledSpace DEF IsOld, Collecting, dst
        <4> QED
          BY <2>6, <4>1 DEF CopyOf, Cell
      <3> QED
        BY <2>3, <2>5, <3>1, <3>2
    <2>9. d[1] = Blk /\ d[2] = top[Blk] + 1
      BY DEF dst
    <2>10. \A sp \in Spaces : top[sp] \in Nat /\ top'[sp] = IF sp = Blk THEN top[sp] + 1 ELSE top[sp]
      BY <2>2, <2>3, TopFacts DEF TypeOK, Spaces
    <2>11. ~Live(d) /\ Live(d)'
      BY <2>2, <2>9, <2>10 DEF Live
    <2>12. \A a \in Addr : Live(a) => Live(a)' /\ a # d
      BY <2>10, <2>11, AddrFacts DEF Live
    <2>13. ASSUME NEW a \in Addr, Live(a)' PROVE Live(a) \/ a = d
      <3>1. a[1] \in Spaces /\ a[2] \in Nat
        BY AddrFacts
      <3>2. CASE a[1] # Blk
        BY <2>10, <2>13, <3>1, <3>2 DEF Live
      <3>3. CASE a[1] = Blk /\ a[2] # top[Blk] + 1
        BY <2>10, <2>13, <3>1, <3>3 DEF Live
      <3>4. CASE a[1] = Blk /\ a[2] = top[Blk] + 1
        BY <2>2, <2>9, <3>4, SameAddr
      <3> QED
        BY <3>2, <3>3, <3>4
    <2>14. \A a \in Addr : Live(a) => m[a].slots = mem[a].slots /\ m[a].added = mem[a].added
      BY <2>5, <2>7, <2>12
    <2>15. \A a \in Addr : m[a].fwd # Nil =>
                 \/ mem[a].fwd # Nil /\ m[a].fwd = mem[a].fwd
                 \/ a = v /\ m[a].fwd = d
      BY <2>5, <2>7, <2>8
    <2> QED
      BY <1>2, <2>1, <2>2, <2>8, <2>11, <2>12, <2>13, <2>14, <2>15
  <1> QED
    BY <1>1, <1>2

(* What the visited slot or root holds afterwards is in use and in no space*)
(* the collection leaves.                                                  *)
LEMMA VisitRef ==
    ASSUME TypeOK, TopsInv, FwdInv, Collecting, NEW v \in Ref, Valid(v), Unmoved(v),
           NEW pa, Visit(v, pa), NEW w, w = Forwarded(v)
    PROVE  w \in Ref /\ Valid(w)' /\ Moved(w)
  <1>1. PICK m, d : m = MemAfter(v) /\ d = dst
    OBVIOUS
  <1>2. pc \notin Failed
    BY DEF Collecting, MinorPhase, MajorPhase, Failed
  <1>3. CASE Moves(v)
    <2>1. w = d /\ d \in Addr /\ Live(d)'
      BY <1>3, <1>1, VisitMem DEF Forwarded
    <2>2. d[1] \notin LeftSpaces
      BY <1>1, FilledSpace DEF dst
    <2> QED
      BY <2>1, <2>2 DEF Ref, Valid, Moved
  <1>4. CASE ~Moves(v) /\ v # Nil /\ mem[v].fwd # Nil
    <2>1. v \in Addr /\ w = mem[v].fwd /\ w \in Addr
      BY <1>4, CellFacts DEF Forwarded, Ref
    <2>2. w[1] \notin LeftSpaces /\ Live(w)
      BY <1>2, <1>4, <2>1 DEF FwdInv
    <2>3. Live(w)'
      BY <1>1, <2>1, <2>2, VisitMem
    <2> QED
      BY <2>1, <2>2, <2>3 DEF Ref, Valid, Moved
  <1>5. CASE ~Moves(v) /\ v # Nil /\ mem[v].fwd = Nil
    <2>1. v \in Addr /\ w = v /\ Live(v)
      BY <1>5 DEF Forwarded, Ref, Valid
    <2>2. Live(v)'
      BY <1>1, <2>1, VisitMem
    <2>3. v[1] \notin LeftSpaces
      <3>1. IsBox(v) \/ (pc \notin MajorPhase /\ ~IsYoung(v))
        BY <1>5 DEF Moves
      <3> QED
        BY <3>1, SpaceFacts DEF IsBox, IsYoung, LeftSpaces
    <2> QED
      BY <2>1, <2>2, <2>3 DEF Ref, Valid, Moved
  <1>6. CASE v = Nil
    <2>1. w = Nil
      BY <1>6 DEF Forwarded, Moves
    <2> QED
      BY <2>1 DEF Ref, Valid, Moved
  <1> QED
    BY <1>3, <1>4, <1>5, <1>6

Wrote(n, m, h, t, w) == n = [m EXCEPT ![h].slots[t] = w]
WroteAndCleared(n, m, h, t, w) == n = [m EXCEPT ![h].slots[t] = w, ![h].added = FALSE]

LEMMA SlotWritten ==
    ASSUME NEW m \in [Addr -> Cell], NEW h \in Addr, NEW t \in Slots, NEW w,
           NEW n, Wrote(n, m, h, t, w)
    PROVE  /\ \A a \in Addr, s \in Slots :
                 n[a].slots[s] = IF a = h /\ s = t THEN w ELSE m[a].slots[s]
           /\ \A a \in Addr : n[a].fwd = m[a].fwd /\ n[a].added = m[a].added
  <1>1. m[h] \in Cell /\ m[h].slots \in [Slots -> Ref]
    BY DEF Cell
  <1>2. n[h] = [m[h] EXCEPT !.slots = [@ EXCEPT ![t] = w]] /\ \A a \in Addr : a # h => n[a] = m[a]
    BY DEF Wrote
  <1>3. /\ n[h].slots = [m[h].slots EXCEPT ![t] = w]
        /\ n[h].fwd = m[h].fwd /\ n[h].added = m[h].added
    BY <1>1, <1>2 DEF Cell
  <1>4. \A s \in Slots : n[h].slots[s] = IF s = t THEN w ELSE m[h].slots[s]
    BY <1>1, <1>3
  <1> QED
    BY <1>2, <1>3, <1>4

LEMMA AddedCleared ==
    ASSUME NEW m \in [Addr -> Cell], NEW h \in Addr, NEW n, n = [m EXCEPT ![h].added = FALSE]
    PROVE  /\ \A a \in Addr : n[a].slots = m[a].slots /\ n[a].fwd = m[a].fwd
           /\ \A a \in Addr : n[a].added = IF a = h THEN FALSE ELSE m[a].added
  <1>1. m[h] \in Cell
    OBVIOUS
  <1>2. n[h] = [m[h] EXCEPT !.added = FALSE] /\ \A a \in Addr : a # h => n[a] = m[a]
    OBVIOUS
  <1> QED
    BY <1>1, <1>2 DEF Cell

-----------------------------------------------------------------------------
(* The entry of the object pool the collection is at, and its slot.        *)
PoolHolder == orefs[cur]
PoolSlot == mem[PoolHolder].slots[slot]

(* A step that visits reference v, held by slot `slot` of h or, when h is  *)
(* Nil, by no object; m is the memory with v copied, w what replaces v.    *)
VisitStep(v, pa, h, m, w) ==
    /\ v \in Ref /\ Valid(v) /\ Unmoved(v)
    /\ pa \in BOOLEAN /\ Visit(v, pa)
    /\ m = MemAfter(v) /\ w = Forwarded(v)
    /\ h # Nil => h \in Addr /\ Live(h) /\ h[1] \notin LeftSpaces /\ v = mem[h].slots[slot]
    /\ UNCHANGED <<from, ofrom, y2o, pc, req, allocs>>
    /\ \A a \in Addr, s \in Slots :
          mem'[a].slots[s] = IF a = h /\ s = slot THEN w ELSE m[a].slots[s]
    /\ \A a \in Addr : mem'[a].fwd = m[a].fwd /\ (mem'[a].added => m[a].added)
    /\ \A a \in Addr : a # h => mem'[a].added = m[a].added

LEMMA VisitedMem ==
    ASSUME TypeOK, NEW v \in Ref, NEW pa \in BOOLEAN, Visit(v, pa), NEW m, m = MemAfter(v)
    PROVE  m \in [Addr -> Cell]
  BY VisitType

(* The five loops each visit a valid reference that was not visited before.*)
LEMMA PromoteEntryVisits ==
    ASSUME TypeOK, HeapInv, PromoteEntry, NEW pa, pa = FALSE, NEW v, v = orefs[cur],
           NEW m, m = MemAfter(v), NEW w, w = Forwarded(v)
    PROVE  VisitStep(v, pa, Nil, m, w)
  <1>1. pc = "y2o" /\ cur \in 1..y2o /\ y2o \in 0..Len(orefs) /\ orefs \in Seq(Addr)
    BY DEF PromoteEntry, TypeOK
  <1>2. v \in Addr /\ v[1] = from /\ Live(v)
    <2>1. PromoteSpace = from /\ PromoteEnd = y2o /\ pc \notin Failed
      BY <1>1 DEF PromoteSpace, PromoteEnd, Stage2, Failed
    <2>2. cur \in 1..Len(orefs)
      BY <1>1
    <2> QED
      BY <1>1, <2>1, <2>2 DEF HeapInv, PoolPartsInv
  <1>3. Unmoved(v)
    BY <1>1, <1>2, SpaceFacts DEF Unmoved, NewSpace, MajorPhase
  <1>4. mem' = m /\ Visit(v, pa) /\ pa \in BOOLEAN /\ UNCHANGED <<from, ofrom, y2o, pc, req, allocs>>
    BY DEF PromoteEntry
  <1> QED
    BY <1>2, <1>3, <1>4, AddrFacts DEF VisitStep, Ref, Valid

(* TraceRemembered writes the slot and clears the bit.                     *)
LEMMA WrittenAndCleared ==
    ASSUME NEW m \in [Addr -> Cell], NEW h \in Addr, NEW t \in Slots, NEW w \in Ref,
           NEW n, WroteAndCleared(n, m, h, t, w)
    PROVE  /\ \A a \in Addr, s \in Slots :
                 n[a].slots[s] = IF a = h /\ s = t THEN w ELSE m[a].slots[s]
           /\ \A a \in Addr : n[a].fwd = m[a].fwd /\ (n[a].added => m[a].added)
           /\ \A a \in Addr : a # h => n[a].added = m[a].added
           /\ ~n[h].added
  <1>1. PICK k : k = [m EXCEPT ![h].slots[t] = w]
    OBVIOUS
  <1>2. k \in [Addr -> Cell]
    BY <1>1, SlotWrite
  <1>3. n = [k EXCEPT ![h].added = FALSE]
    BY <1>1 DEF WroteAndCleared
  <1>4. Wrote(k, m, h, t, w)
    BY <1>1 DEF Wrote
  <1>5. /\ \A a \in Addr, s \in Slots :
              k[a].slots[s] = IF a = h /\ s = t THEN w ELSE m[a].slots[s]
        /\ \A a \in Addr : k[a].fwd = m[a].fwd /\ k[a].added = m[a].added
    BY <1>4, SlotWritten
  <1>6. /\ \A a \in Addr : n[a].slots = k[a].slots /\ n[a].fwd = k[a].fwd
        /\ \A a \in Addr : n[a].added = IF a = h THEN FALSE ELSE k[a].added
    BY <1>2, <1>3, AddedCleared
  <1>7. \A a \in Addr : m[a].added \in BOOLEAN
    BY DEF Cell
  <1>8. /\ \A a \in Addr : a # h => n[a].added = m[a].added
        /\ ~n[h].added
    BY <1>5, <1>6, Zenon
  <1>9. \A a \in Addr : n[a].added => m[a].added
    BY <1>7, <1>8
  <1>10. \A a \in Addr, s \in Slots :
            n[a].slots[s] = IF a = h /\ s = t THEN w ELSE m[a].slots[s]
    BY <1>5, <1>6
  <1>11. \A a \in Addr : n[a].fwd = m[a].fwd
    BY <1>5, <1>6
  <1> QED
    BY <1>8, <1>9, <1>10, <1>11

(* What TraceRemembered does, with the reference it visits named.          *)
LEMMA RememberedStep ==
    ASSUME TraceRemembered
    PROVE  /\ pc = "remembered" /\ cur <= Len(orefs)
           /\ WroteAndCleared(mem', MemAfter(PoolSlot), PoolHolder, slot, Forwarded(PoolSlot))
           /\ NextSlot /\ cur' = IF LastSlot THEN cur + 1 ELSE cur
           /\ UNCHANGED <<from, ofrom, y2o, root, pc, scan, req, allocs>>
  BY Zenon DEF TraceRemembered, PoolSlot, PoolHolder, WroteAndCleared

LEMMA RememberedVisit ==
    ASSUME TraceRemembered, NEW pa, pa = FALSE
    PROVE  Visit(PoolSlot, pa)
  BY Zenon DEF TraceRemembered, PoolSlot, PoolHolder

LEMMA TraceRememberedVisits ==
    ASSUME TypeOK, HeapInv, TraceRemembered, NEW pa, pa = FALSE, NEW h, h = PoolHolder,
           NEW v, v = PoolSlot, NEW m, m = MemAfter(v), NEW w, w = Forwarded(v)
    PROVE  /\ VisitStep(v, pa, h, m, w) /\ IsOld(h) /\ h \in PoolTail
           /\ ~mem'[h].added
  <1>1. orefs \in Seq(Addr) /\ y2o \in 0..Len(orefs) /\ slot \in Slots /\ cur \in Nat \ {0}
    BY DEF TypeOK
  <1>2. pc = "remembered" /\ cur <= Len(orefs) /\ y2o < cur
    BY RememberedStep DEF HeapInv, LoopsInv
  <1>3. /\ cur \in 1..Len(orefs) /\ y2o \in Nat
    BY <1>1, <1>2
  <1>4. h \in Addr /\ IsOld(h) /\ Live(h) /\ h \in PoolTail
    <2>1. PromoteEnd = y2o /\ pc \notin Failed
      BY <1>2 DEF PromoteEnd, Stage2, Failed
    <2>2. cur \in y2o + 1..Len(orefs)
      BY <1>1, <1>2, <1>3
    <2>3. h = orefs[cur]
      BY DEF PoolHolder
    <2> QED
      BY <1>1, <1>3, <2>1, <2>2, <2>3 DEF HeapInv, PoolPartsInv, PoolTail
  <1>5. pc \in MinorPhase /\ Collecting /\ LeftSpaces = {from}
    BY <1>2 DEF MinorPhase, Collecting, LeftSpaces, MajorPhase
  <1>6. v \in Ref /\ Valid(v) /\ Unmoved(v) /\ v = mem[h].slots[slot]
    <2>1. SlotOK(h, slot)
      BY <1>1, <1>4, <1>5 DEF HeapInv, SlotsInv
    <2>2. v = mem[h].slots[slot]
      BY DEF PoolSlot
    <2> QED
      BY <1>1, <1>4, <1>5, <2>1, <2>2, CellFacts DEF SlotOK
  <1>7. h[1] \notin LeftSpaces
    BY <1>4, <1>5, SpaceFacts DEF IsOld
  <1>8. /\ Visit(v, pa) /\ pa \in BOOLEAN /\ UNCHANGED <<from, ofrom, y2o, pc, req, allocs>>
        /\ WroteAndCleared(mem', m, h, slot, w)
    BY RememberedStep, RememberedVisit
  <1>9. m \in [Addr -> Cell] /\ w \in Ref
    BY <1>6, <1>8, VisitType
  <1>10. /\ \A a \in Addr, s \in Slots :
               mem'[a].slots[s] = IF a = h /\ s = slot THEN w ELSE m[a].slots[s]
         /\ \A a \in Addr : mem'[a].fwd = m[a].fwd /\ (mem'[a].added => m[a].added)
         /\ \A a \in Addr : a # h => mem'[a].added = m[a].added
         /\ ~mem'[h].added
    BY <1>1, <1>4, <1>8, <1>9, WrittenAndCleared
  <1>11. VisitStep(v, pa, h, m, w)
    BY <1>4, <1>5, <1>6, <1>7, <1>8, <1>10 DEF VisitStep
  <1> QED
    BY <1>4, <1>10, <1>11

(* Scan and TraceGlobal visit a slot that is pending.                      *)
LEMMA VisitSlotStep ==
    ASSUME TypeOK, HeapInv, Collecting, NEW h \in Addr, Live(h), h[1] \notin LeftSpaces,
           Pending(h, slot), NEW pa \in BOOLEAN, VisitSlot(h, pa),
           UNCHANGED <<from, ofrom, y2o, pc, req, allocs>>,
           NEW v, v = mem[h].slots[slot], NEW m, m = MemAfter(v), NEW w, w = Forwarded(v)
    PROVE  /\ VisitStep(v, pa, h, m, w)
           /\ \A a \in Addr : mem'[a].added = m[a].added
  <1>1. slot \in Slots
    BY DEF TypeOK
  <1>2. v \in Ref /\ Valid(v) /\ Unmoved(v)
    <2>1. SlotOK(h, slot)
      BY <1>1 DEF HeapInv, SlotsInv
    <2> QED
      BY <1>1, <2>1, CellFacts DEF SlotOK
  <1>3. Visit(v, pa) /\ mem' = [m EXCEPT ![h].slots[slot] = w]
    BY DEF VisitSlot
  <1>4. m \in [Addr -> Cell]
    BY <1>2, <1>3, VisitedMem
  <1>5. PICK n : Wrote(n, m, h, slot, w)
    BY DEF Wrote
  <1>6. /\ \A a \in Addr, s \in Slots :
               n[a].slots[s] = IF a = h /\ s = slot THEN w ELSE m[a].slots[s]
        /\ \A a \in Addr : n[a].fwd = m[a].fwd /\ n[a].added = m[a].added
    BY <1>1, <1>4, <1>5, SlotWritten
  <1>7. mem' = n
    BY <1>3, <1>5 DEF Wrote
  <1>8. Visit(v, pa) /\ h # Nil
    BY <1>3, AddrFacts
  <1> QED
    BY <1>2, <1>6, <1>7, <1>8 DEF VisitStep

LEMMA ScanVisits ==
    ASSUME TypeOK, HeapInv, Scan, NEW h, h = Scanned, NEW pa, pa = mem[h].added,
           NEW v, v = mem[h].slots[slot], NEW m, m = MemAfter(v), NEW w, w = Forwarded(v)
    PROVE  /\ VisitStep(v, pa, h, m, w) /\ h \in Addr
           /\ Collecting /\ h[1] = Blk /\ h[2] = scan + 1
           /\ \A a \in Addr : mem'[a].added = m[a].added
  <1>1. Collecting /\ pc \in ScanPhase /\ scan < top[Blk]
    BY DEF Scan, ScanPhase, Collecting, MinorPhase, MajorPhase
  <1>2. h \in Addr /\ h[1] = Blk /\ h[2] = scan + 1
    BY <1>1, ScannedFacts DEF Scanned
  <1>3. Live(h) /\ h[1] \notin LeftSpaces
    BY <1>1, <1>2, FilledSpace, TopFacts DEF Live, TypeOK
  <1>4. Pending(h, slot)
    BY <1>2, SizesAssumption DEF Pending, Unscanned, TypeOK, Slots
  <1>5. pa \in BOOLEAN
    BY <1>2, CellFacts
  <1>6. VisitSlot(h, pa) /\ UNCHANGED <<from, ofrom, y2o, pc, req, allocs>>
    BY DEF Scan
  <1> QED
    BY <1>1, <1>2, <1>3, <1>4, <1>5, <1>6, VisitSlotStep

LEMMA TraceGlobalVisits ==
    ASSUME TypeOK, HeapInv, TraceGlobal, NEW pa, pa = FALSE, NEW h, h = <<"perm", cur>>,
           NEW v, v = mem[h].slots[slot], NEW m, m = MemAfter(v), NEW w, w = Forwarded(v)
    PROVE  /\ VisitStep(v, pa, h, m, w) /\ h \in Addr
           /\ Collecting /\ slot = 1
           /\ \A a \in Addr : mem'[a].added = m[a].added
  <1>1. pc = "major_globals" /\ cur \in 1..NGlobals /\ slot = 1
    BY DEF TraceGlobal, TypeOK, HeapInv, LoopsInv
  <1>2. Collecting
    BY <1>1 DEF Collecting, MajorPhase
  <1>3. h \in Addr /\ h[1] = "perm" /\ h[2] = cur
    BY <1>1 DEF Addr, BoxAddr
  <1>4. Live(h) /\ h[1] \notin LeftSpaces
    BY <1>1, <1>2, <1>3, FilledSpace DEF Live, HeapInv, TopsInv
  <1>5. Pending(h, slot)
    BY <1>1, <1>3 DEF Pending
  <1>6. VisitSlot(h, pa) /\ pa \in BOOLEAN /\ UNCHANGED <<from, ofrom, y2o, pc, req, allocs>>
    BY DEF TraceGlobal
  <1>7. VisitStep(v, pa, h, m, w) /\ \A a \in Addr : mem'[a].added = m[a].added
    BY <1>2, <1>3, <1>4, <1>5, <1>6, VisitSlotStep
  <1> QED
    BY <1>1, <1>2, <1>3, <1>7

LEMMA TraceRootVisits ==
    ASSUME TypeOK, HeapInv, TraceRoot, NEW pa, pa = FALSE, NEW v, v = root[cur],
           NEW m, m = MemAfter(v), NEW w, w = Forwarded(v)
    PROVE  /\ VisitStep(v, pa, Nil, m, w) /\ mem' = m
           /\ cur \in Roots /\ root' = [root EXCEPT ![cur] = w] /\ cur' = cur + 1
  <1>1. cur \in Roots /\ pc \in {"roots", "major_roots"}
    BY DEF TraceRoot, TypeOK, Roots
  <1>2. Collecting /\ pc \notin Stage1 /\ pc \notin Failed /\ ~Traced(cur)
    BY <1>1 DEF Collecting, MinorPhase, MajorPhase, Stage1, Failed, Traced, Roots
  <1>3. v \in Ref /\ Valid(v) /\ Unmoved(v)
    BY <1>1, <1>2 DEF HeapInv, RootsInv, TypeOK
  <1>4. /\ Visit(v, pa) /\ pa \in BOOLEAN /\ mem' = m /\ root' = [root EXCEPT ![cur] = w]
        /\ UNCHANGED <<from, ofrom, y2o, pc, req, allocs>> /\ cur' = cur + 1
    BY DEF TraceRoot, VisitRoot
  <1> QED
    BY <1>1, <1>3, <1>4, AddrFacts DEF VisitStep

-----------------------------------------------------------------------------
(***************************************************************************)
(* What the visits preserve.                                               *)
(***************************************************************************)
LEMMA SamePhase ==
    ASSUME TypeOK, UNCHANGED <<from, ofrom, pc>>
    PROVE  /\ LeftSpaces' = LeftSpaces /\ NewSpace' = NewSpace /\ Blk' = Blk /\ to' = to /\ oto' = oto
           /\ Collecting' = Collecting /\ Quiescent' = Quiescent
  BY DEF LeftSpaces, NewSpace, Blk, to, oto, Collecting, Quiescent

(* What a visit does to the cells in use.                                  *)
LEMMA StepMem ==
    ASSUME TypeOK, TopsInv, FwdInv, Collecting, NEW v, NEW pa, NEW h, NEW m, NEW w,
           VisitStep(v, pa, h, m, w), NEW d, d = dst
    PROVE  /\ \A a \in Addr : Live(a) =>
                 /\ Live(a)' /\ (mem'[a].added => mem[a].added)
                 /\ a # h => mem'[a].added = mem[a].added
                 /\ \A s \in Slots :
                       mem'[a].slots[s] = IF a = h /\ s = slot THEN w ELSE mem[a].slots[s]
           /\ \A a \in Addr : Live(a)' => Live(a) \/ (a = d /\ Moves(v))
           /\ Moves(v) =>
                 /\ d \in Addr /\ d # h /\ ~Live(d) /\ Live(v) /\ v \in Addr
                 /\ v[1] \in LeftSpaces
                 /\ \A s \in Slots : mem'[d].slots[s] = mem[v].slots[s]
                 /\ pc \in MinorPhase /\ IsOld(d) => ~mem'[d].added
           /\ w \in Ref /\ Valid(w)' /\ Moved(w)
  <1>1. v \in Ref /\ Valid(v) /\ Unmoved(v) /\ Visit(v, pa) /\ m = MemAfter(v) /\ w = Forwarded(v)
    BY DEF VisitStep
  <1>2. /\ \A a \in Addr, s \in Slots :
              mem'[a].slots[s] = IF a = h /\ s = slot THEN w ELSE m[a].slots[s]
        /\ \A a \in Addr : mem'[a].added => m[a].added
        /\ \A a \in Addr : a # h => mem'[a].added = m[a].added
        /\ h # Nil => h \in Addr /\ Live(h)
    BY DEF VisitStep
  <1>3. /\ \A a \in Addr : Live(a) =>
              Live(a)' /\ m[a].slots = mem[a].slots /\ m[a].added = mem[a].added
        /\ \A a \in Addr : Live(a)' => Live(a) \/ (a = d /\ Moves(v))
        /\ Moves(v) =>
              /\ d \in Addr /\ ~Live(d) /\ Live(d)' /\ Live(v) /\ v \in Addr
              /\ v[1] \in LeftSpaces
              /\ m[d].slots = mem[v].slots
              /\ pc \in MinorPhase /\ IsOld(d) => ~m[d].added
    BY <1>1, VisitMem
  <1>4. w \in Ref /\ Valid(w)' /\ Moved(w)
    BY <1>1, VisitRef
  <1>5. Moves(v) => d # h /\ \A s \in Slots : mem'[d].slots[s] = mem[v].slots[s]
    BY <1>2, <1>3, AddrFacts
  <1> QED
    BY <1>2, <1>3, <1>4, <1>5

(* A visit keeps SlotsInv, when it leaves pending what it did not visit and*)
(* the copy it makes is pending.                                           *)
LEMMA VisitSlots ==
    ASSUME TypeOK, HeapInv, Collecting, NEW v, NEW pa, NEW h, NEW m, NEW w,
           VisitStep(v, pa, h, m, w), NEW d, d = dst,
           \A a \in Addr, s \in Slots :
              Live(a) /\ a[1] \notin LeftSpaces /\ ~(a = h /\ s = slot) /\ Pending(a, s)
                => Pending(a, s)',
           \A a \in Addr, s \in Slots :
              Live(a) /\ a[1] \notin LeftSpaces /\ ~(pc \in MinorPhase /\ IsOld(a)) /\ Pending(a, s)'
                => Pending(a, s) /\ ~(a = h /\ s = slot),
           Moves(v) => \A s \in Slots : Pending(d, s)',
           pc \in MinorPhase /\ h # Nil /\ IsOld(h) => top'[to] = 0
    PROVE  SlotsInv'
  <1>1. TopsInv /\ FwdInv /\ SlotsInv
    BY DEF HeapInv
  <1>2. /\ \A a \in Addr : Live(a) =>
              /\ Live(a)' /\ (mem'[a].added => mem[a].added)
              /\ a # h => mem'[a].added = mem[a].added
              /\ \A s \in Slots :
                    mem'[a].slots[s] = IF a = h /\ s = slot THEN w ELSE mem[a].slots[s]
        /\ \A a \in Addr : Live(a)' => Live(a) \/ (a = d /\ Moves(v))
        /\ Moves(v) =>
              /\ d \in Addr /\ d # h /\ ~Live(d) /\ Live(v) /\ v \in Addr
              /\ v[1] \in LeftSpaces
              /\ \A s \in Slots : mem'[d].slots[s] = mem[v].slots[s]
              /\ pc \in MinorPhase /\ IsOld(d) => ~mem'[d].added
        /\ w \in Ref /\ Valid(w)' /\ Moved(w)
    BY <1>1, StepMem
  <1>3. /\ UNCHANGED <<from, ofrom, pc>>
        /\ h # Nil => h \in Addr /\ h[1] \notin LeftSpaces
    BY DEF VisitStep
  <1>4. LeftSpaces' = LeftSpaces /\ NewSpace' = NewSpace /\ to' = to /\ Collecting' = Collecting
        /\ Quiescent' = Quiescent
    BY <1>3, SamePhase
  <1>5. ~Quiescent /\ pc # "collect"
    BY DEF Collecting, MinorPhase, MajorPhase, Quiescent
  <1>6. \A x \in Ref : (Moved(x)' <=> Moved(x)) /\ (Unmoved(x)' <=> Unmoved(x))
                        /\ (Valid(x) => Valid(x)')
    BY <1>2, <1>4 DEF Moved, Unmoved, Valid, Ref
  <1>7. ASSUME NEW a \in Addr, Live(a), NEW s \in Slots, ~(a = h /\ s = slot)
        PROVE  SlotOK(a, s)'
    <2> PICK x : x = mem[a].slots[s]
      OBVIOUS
    <2>1. mem'[a].slots[s] = x /\ x \in Ref
      BY <1>2, <1>7, CellFacts
    <2>2. /\ Valid(x)
          /\ a[1] \in LeftSpaces \/ Pending(a, s) \/ (pc \in MinorPhase /\ IsOld(a)) => Unmoved(x)
          /\ a[1] \in LeftSpaces \/ Pending(a, s) \/ Moved(x)
      BY <1>1, <1>7 DEF SlotsInv, SlotOK
    <2>3. Valid(x)'
      BY <1>6, <2>1, <2>2
    <2>4. a[1] \in LeftSpaces \/ Pending(a, s)' \/ (pc \in MinorPhase /\ IsOld(a)) => Unmoved(x)'
      BY <1>6, <1>7, <2>1, <2>2
    <2>5. a[1] \in LeftSpaces \/ Pending(a, s)' \/ Moved(x)'
      BY <1>6, <1>7, <2>1, <2>2
    <2> QED
      BY <1>3, <1>4, <2>1, <2>3, <2>4, <2>5 DEF SlotOK, IsOld
  <1>8. ASSUME NEW a \in Addr, Live(a), NEW s \in Slots, a = h, s = slot
        PROVE  SlotOK(a, s)'
    <2>1. mem'[a].slots[s] = w /\ Valid(w)' /\ Moved(w)'
      BY <1>2, <1>6, <1>8
    <2>2. a[1] \notin LeftSpaces /\ h # Nil
      BY <1>3, <1>8, AddrFacts
    <2>3. ~(pc \in MinorPhase /\ IsOld(a)) => ~Pending(a, s)'
      BY <1>8, <2>2
    <2>4. ASSUME pc \in MinorPhase, IsOld(a) PROVE Unmoved(w)'
      <3>1. top'[to] = 0 /\ NewSpace = to
        BY <1>8, <2>2, <2>4, FilledSpace DEF NewSpace
      <3>2. w # Nil => w \in Addr /\ w[1] # to
        <4> SUFFICES ASSUME w # Nil, w[1] = to PROVE FALSE
          BY <1>2 DEF Ref
        <4>1. w[2] <= top'[w[1]] /\ w \in Addr
          BY <1>2 DEF Valid, Live, Ref
        <4> QED
          BY <3>1, <4>1, AddrFacts
      <3> QED
        BY <1>6, <1>2, <3>1, <3>2 DEF Unmoved
    <2> QED
      BY <1>3, <1>4, <2>1, <2>2, <2>3, <2>4 DEF SlotOK, IsOld
  <1>9. ASSUME Moves(v), NEW s \in Slots
        PROVE  SlotOK(d, s)'
    <2> PICK x : x = mem[v].slots[s]
      OBVIOUS
    <2>1. mem'[d].slots[s] = x /\ x \in Ref
      BY <1>2, <1>9, CellFacts
    <2>2. Valid(x) /\ Unmoved(x)
      BY <1>1, <1>2, <1>9 DEF SlotsInv, SlotOK
    <2>3. Valid(x)' /\ Unmoved(x)'
      BY <1>6, <2>1, <2>2
    <2>4. Pending(d, s)'
      BY <1>9
    <2> QED
      BY <2>1, <2>3, <2>4 DEF SlotOK
  <1>10. \A a \in Addr : Live(a)' => \A s \in Slots : SlotOK(a, s)'
    BY <1>2, <1>7, <1>8, <1>9
  <1> QED
    BY <1>4, <1>3, <1>5, <1>10 DEF SlotsInv

(* Outside the young space left, stage 1 finds old cells only.             *)
LEMMA StageOneOld ==
    ASSUME TypeOK, TopsInv, pc \in Stage1, NEW a \in Addr, Live(a), a[1] \notin LeftSpaces
    PROVE  pc \in MinorPhase /\ IsOld(a)
  <1>1. pc \in MinorPhase /\ pc \notin MajorPhase /\ pc \notin Stage2 \cup Failed
    BY DEF Stage1, MinorPhase, MajorPhase, Stage2, Failed
  <1>2. top[to] = 0 /\ LeftSpaces = {from}
    BY <1>1 DEF TopsInv, LeftSpaces
  <1>3. a[1] # to
    BY <1>2, EmptySpace
  <1> QED
    BY <1>1, <1>2, <1>3, SpaceFacts DEF IsOld

(* A copier that does not fill the young space enters nothing into the pool*)
LEMMA PoolUnchanged ==
    ASSUME TypeOK, Collecting, NEW v, NEW pa, Visit(v, pa), pc \in Stage1 \cup MajorPhase
    PROVE  orefs' = orefs
  <1>1. Blk \notin YoungSpace
    BY FilledSpace, SpaceFacts DEF Collecting
  <1> QED
    BY <1>1 DEF Visit, Enters

LEMMA TopOfTo ==
    ASSUME TypeOK, Collecting, NEW v, NEW pa, Visit(v, pa), Blk # to, top[to] = 0
    PROVE  top'[to] = 0
  <1>1. Blk \in Spaces /\ to \in Spaces /\ top \in [Spaces -> Nat]
    BY FilledSpace, SpaceFacts DEF TypeOK, Spaces
  <1> QED
    BY <1>1 DEF Visit

(* A new copy is pending until the scan pointer has passed it.             *)
LEMMA CopyUnscanned ==
    ASSUME TypeOK, HeapInv, Collecting, UNCHANGED <<from, ofrom, pc>>, NEW d, d = dst,
           \/ scan' = scan /\ (pc \in ScanPhase => scan < top[Blk])
           \/ scan' = scan + 1 /\ slot' = 1 /\ scan < top[Blk],
           NEW s \in Slots
    PROVE  Pending(d, s)'
  <1>1. d[1] = Blk /\ d[2] = top[Blk] + 1 /\ Blk' = Blk
    BY SamePhase DEF dst
  <1>2. scan <= top[Blk] /\ scan \in Nat /\ top[Blk] \in Nat /\ s \in Nat \ {0}
    BY FilledSpace, TopFacts DEF HeapInv, LoopsInv, TypeOK, Slots
  <1>3. Unscanned(d, s)'
    BY <1>1, <1>2 DEF Unscanned
  <1> QED
    BY <1>3 DEF Pending

(* SlotsInv after each of the five visits.                                 *)
LEMMA PromoteEntrySlots ==
    ASSUME TypeOK, HeapInv, PromoteEntry
    PROVE  SlotsInv'
  <1> PICK pa, v, m, w, d : pa = FALSE /\ v = orefs[cur] /\ m = MemAfter(v) /\ w = Forwarded(v) /\ d = dst
    OBVIOUS
  <1>1. VisitStep(v, pa, Nil, m, w)
    BY PromoteEntryVisits
  <1>2. VisitStep(v, pa, Nil, m, w) /\ Visit(v, pa)
    BY <1>1 DEF VisitStep
  <1>3. pc = "y2o" /\ pc \in Stage1 /\ Collecting /\ pc \notin ScanPhase
    BY DEF PromoteEntry, Stage1, Collecting, MinorPhase, ScanPhase
  <1>4. UNCHANGED <<from, ofrom, pc, y2o, slot, scan>> /\ orefs' = orefs /\ Blk' = Blk
    BY <1>2, <1>3, PoolUnchanged, SamePhase DEF PromoteEntry
  <1>5. ASSUME NEW a \in Addr, NEW s \in Slots, Live(a), a[1] \notin LeftSpaces, Pending(a, s)
        PROVE  Pending(a, s)'
    <2>1. Unscanned(a, s) => Unscanned(a, s)'
      BY <1>4 DEF Unscanned
    <2>2. Awaits(a, s) => Awaits(a, s)'
      BY <1>3, <1>4 DEF Awaits
    <2>3. mem'[a].added = mem[a].added
      BY <1>2, <1>3, <1>5, StepMem, AddrFacts DEF HeapInv
    <2>4. Skipped(a) => Skipped(a)'
      BY <1>4, <2>3 DEF Skipped, PoolTail, IsOld
    <2>5. a[1] # "perm" \/ pc \notin {"major_roots", "major_globals"}
      BY <1>3
    <2> QED
      BY <1>3, <1>4, <1>5, <2>1, <2>2, <2>4 DEF Pending
  <1>6. \A a \in Addr, s \in Slots :
           Live(a) /\ a[1] \notin LeftSpaces => pc \in MinorPhase /\ IsOld(a)
    BY <1>3, StageOneOld DEF HeapInv
  <1>7. Moves(v) => \A s \in Slots : Pending(d, s)'
    BY <1>3, <1>4, CopyUnscanned
  <1> QED
    BY <1>2, <1>3, <1>5, <1>6, <1>7, VisitSlots

LEMMA TraceRememberedSlots ==
    ASSUME TypeOK, HeapInv, TraceRemembered
    PROVE  SlotsInv'
  <1> PICK pa, h, v, m, w, d : pa = FALSE /\ h = PoolHolder /\ v = PoolSlot
                           /\ m = MemAfter(v) /\ w = Forwarded(v) /\ d = dst
    OBVIOUS
  <1>1. VisitStep(v, pa, h, m, w) /\ h \in PoolTail
    BY TraceRememberedVisits
  <1>2. VisitStep(v, pa, h, m, w) /\ Visit(v, pa) /\ h \in PoolTail
    BY <1>1 DEF VisitStep
  <1>3. pc = "remembered" /\ pc \in Stage1 /\ Collecting /\ pc \notin ScanPhase
    BY RememberedStep DEF Stage1, Collecting, MinorPhase, ScanPhase
  <1>4. UNCHANGED <<from, ofrom, pc, y2o, scan>> /\ orefs' = orefs /\ Blk' = Blk
    BY <1>2, <1>3, RememberedStep, PoolUnchanged, SamePhase
  <1>5. slot \in Nat /\ slot <= NSlots /\ NSlots \in Nat /\ cur \in Nat
    BY SizesAssumption DEF TypeOK, Slots
  <1>6. /\ slot' = IF slot < NSlots THEN slot + 1 ELSE 1
        /\ cur' = IF slot = NSlots THEN cur + 1 ELSE cur
    BY RememberedStep DEF NextSlot, LastSlot
  <1>7. /\ IF slot = NSlots THEN cur' = cur + 1 /\ slot' = 1 ELSE cur' = cur /\ slot' = slot + 1
        /\ slot \in Nat /\ slot <= NSlots /\ NSlots \in Nat /\ cur \in Nat
    BY <1>5, <1>6
  <1>8. ASSUME NEW a \in Addr, NEW s \in Slots, Live(a), a[1] \notin LeftSpaces,
               ~(a = h /\ s = slot), Pending(a, s)
        PROVE  Pending(a, s)'
    <2>1. Unscanned(a, s) => Unscanned(a, s)'
      BY <1>3, <1>4 DEF Unscanned
    <2>2. ASSUME Awaits(a, s) PROVE Awaits(a, s)'
      <3>1. PICK i \in y2o + 1..Len(orefs) : orefs[i] = a /\ (cur < i \/ (cur = i /\ slot <= s))
        BY <1>3, <2>2 DEF Awaits
      <3>2. i \in Nat /\ s \in Nat \ {0} /\ s <= NSlots
        <4>1. y2o \in Nat /\ Len(orefs) \in Nat
          BY DEF TypeOK
        <4> QED
          BY <4>1 DEF Slots
      <3>3. cur = i => s # slot
        BY <1>8, <3>1 DEF PoolHolder
      <3>4. cur' < i \/ (cur' = i /\ slot' <= s)
        BY <1>7, <3>1, <3>2, <3>3
      <3>5. y2o' = y2o /\ orefs' = orefs /\ pc' = pc
        BY <1>4
      <3> QED
        BY <1>3, <3>1, <3>4, <3>5 DEF Awaits
    <2>3. Skipped(a) => Skipped(a)'
      <3> SUFFICES ASSUME Skipped(a) PROVE Skipped(a)'
        OBVIOUS
      <3>1. a # h
        BY <1>2, <1>3 DEF Skipped
      <3>2. mem'[a].added = mem[a].added
        BY <1>2, <1>3, <1>8, <3>1, StepMem DEF HeapInv
      <3> QED
        BY <1>4, <3>2 DEF Skipped, PoolTail, IsOld
    <2> QED
      BY <1>3, <1>4, <1>8, <2>1, <2>2, <2>3 DEF Pending
  <1>9. \A a \in Addr, s \in Slots :
           Live(a) /\ a[1] \notin LeftSpaces => pc \in MinorPhase /\ IsOld(a)
    BY <1>3, StageOneOld DEF HeapInv
  <1>10. Moves(v) => \A s \in Slots : Pending(d, s)'
    BY <1>3, <1>4, CopyUnscanned
  <1>11. top'[to] = 0
    <2>1. top[to] = 0 /\ Blk # to
      BY <1>3, FilledSpace, SpaceFacts DEF HeapInv, TopsInv, Stage2, Failed
    <2> QED
      BY <1>2, <1>3, <2>1, TopOfTo
  <1> QED
    BY <1>2, <1>3, <1>8, <1>9, <1>10, <1>11, VisitSlots

LEMMA ScanSlots ==
    ASSUME TypeOK, HeapInv, Scan
    PROVE  SlotsInv'
  <1> PICK h, pa, v, m, w, d : h = Scanned /\ pa = mem[h].added /\ v = mem[h].slots[slot]
                           /\ m = MemAfter(v) /\ w = Forwarded(v) /\ d = dst
    OBVIOUS
  <1>1. /\ VisitStep(v, pa, h, m, w) /\ Visit(v, pa) /\ h \in Addr /\ Collecting
        /\ h[1] = Blk /\ h[2] = scan + 1
        /\ \A a \in Addr : mem'[a].added = m[a].added
    BY ScanVisits DEF VisitStep
  <1>2. pc \in ScanPhase /\ pc \notin {"y2o", "remembered", "major_roots", "major_globals"}
        /\ scan < top[Blk]
    BY DEF Scan, ScanPhase
  <1>3. UNCHANGED <<from, ofrom, pc, y2o, cur>> /\ Blk' = Blk
    BY SamePhase DEF Scan
  <1>4. /\ IF slot = NSlots THEN scan' = scan + 1 /\ slot' = 1 ELSE scan' = scan /\ slot' = slot + 1
        /\ slot \in Nat /\ slot <= NSlots /\ NSlots \in Nat /\ scan \in Nat
    BY SizesAssumption DEF Scan, NextSlot, LastSlot, TypeOK, Slots
  <1>5. ASSUME NEW a \in Addr, NEW s \in Slots
        PROVE  /\ Unscanned(a, s) /\ ~(a = h /\ s = slot) => Unscanned(a, s)'
               /\ Unscanned(a, s)' => Unscanned(a, s) /\ ~(a = h /\ s = slot)
    <2>1. a[2] \in Nat /\ s \in Nat \ {0} /\ s <= NSlots
      BY <1>4, AddrFacts DEF Slots
    <2>2. a = h <=> a[1] = Blk /\ a[2] = scan + 1
      BY <1>1, SameAddr
    <2>3. Unscanned(a, s) <=> a[1] = Blk /\ (scan + 1 < a[2] \/ (a[2] = scan + 1 /\ slot <= s))
      BY <1>2 DEF Unscanned
    <2>4. Unscanned(a, s)' <=> a[1] = Blk /\ (scan' + 1 < a[2] \/ (a[2] = scan' + 1 /\ slot' <= s))
      BY <1>2, <1>3 DEF Unscanned
    <2> QED
      BY <1>4, <2>1, <2>2, <2>3, <2>4
  <1>6. \A a \in Addr : Live(a) => mem'[a].added = mem[a].added
    <2>1. /\ v \in Ref /\ Valid(v) /\ Unmoved(v) /\ m = MemAfter(v) /\ TopsInv
      BY <1>1 DEF VisitStep, HeapInv
    <2>2. \A a \in Addr : Live(a) => m[a].added = mem[a].added
      BY <1>1, <2>1, VisitMem
    <2> QED
      BY <1>1, <2>2
  <1>7. ASSUME NEW a \in Addr, NEW s \in Slots, Live(a), ~(a = h /\ s = slot), Pending(a, s)
        PROVE  Pending(a, s)'
    <2>1. Skipped(a) => Skipped(a)'
      BY <1>2, <1>3, <1>6, <1>7 DEF Skipped, IsOld
    <2> QED
      BY <1>2, <1>3, <1>5, <1>7, <2>1 DEF Pending
  <1>8. ASSUME NEW a \in Addr, NEW s \in Slots, Live(a), ~(pc \in MinorPhase /\ IsOld(a)),
               Pending(a, s)'
        PROVE  Pending(a, s) /\ ~(a = h /\ s = slot)
    <2>1. ~(pc \in MinorPhase /\ Skipped(a)')
      BY <1>3, <1>8 DEF Skipped, IsOld
    <2>2. Unscanned(a, s)'
      BY <1>2, <1>3, <1>8, <2>1 DEF Pending
    <2> QED
      BY <1>5, <2>2 DEF Pending
  <1>9. Moves(v) => \A s \in Slots : Pending(d, s)'
    BY <1>1, <1>2, <1>3, <1>4, CopyUnscanned
  <1>10. ASSUME pc \in MinorPhase, IsOld(h) PROVE top'[to] = 0
    <2>1. Blk # to /\ Blk = ofrom
      BY <1>1, <1>10, FilledSpace, SpaceFacts DEF IsOld
    <2>2. top[to] = 0
      <3>1. CASE pc \in Stage2
        <4>1. NewAgeMax = 0 \/ Blk = to
          BY <3>1 DEF Blk, Stage2, MajorPhase
        <4> QED
          BY <2>1, <3>1, <4>1 DEF HeapInv, TopsInv
      <3>2. CASE pc \notin Stage2
        BY <1>10, <3>2 DEF HeapInv, TopsInv, Failed, MinorPhase
      <3> QED
        BY <3>1, <3>2
    <2> QED
      BY <1>1, <2>1, <2>2, TopOfTo
  <1> QED
    BY <1>1, <1>7, <1>8, <1>9, <1>10, VisitSlots

LEMMA TraceRootSlots ==
    ASSUME TypeOK, HeapInv, TraceRoot
    PROVE  SlotsInv'
  <1> PICK pa, v, m, w, d : pa = FALSE /\ v = root[cur]
                           /\ m = MemAfter(v) /\ w = Forwarded(v) /\ d = dst
    OBVIOUS
  <1>1. VisitStep(v, pa, Nil, m, w)
    BY TraceRootVisits
  <1>2. VisitStep(v, pa, Nil, m, w) /\ Visit(v, pa)
    BY <1>1 DEF VisitStep
  <1>3. pc \in {"roots", "major_roots"} /\ Collecting /\ pc \notin ScanPhase
    BY DEF TraceRoot, Collecting, MinorPhase, MajorPhase, ScanPhase
  <1>4. UNCHANGED <<from, ofrom, pc, y2o, slot, scan>> /\ Blk' = Blk
    BY SamePhase DEF TraceRoot
  <1>5. \A a \in Addr : Live(a) => mem'[a].added = mem[a].added
    BY <1>2, <1>3, StepMem, AddrFacts DEF HeapInv
  <1>6. ASSUME NEW a \in Addr, NEW s \in Slots, Live(a)
        PROVE  Pending(a, s)' <=> Pending(a, s)
    <2>1. Skipped(a)' <=> Skipped(a)
      BY <1>3, <1>4, <1>5, <1>6 DEF Skipped, IsOld
    <2>2. Unscanned(a, s)' <=> Unscanned(a, s)
      BY <1>4 DEF Unscanned
    <2> QED
      BY <1>3, <1>4, <2>1, <2>2 DEF Pending
  <1>7. Moves(v) => \A s \in Slots : Pending(d, s)'
    BY <1>3, <1>4, CopyUnscanned
  <1> QED
    BY <1>2, <1>3, <1>6, <1>7, AddrFacts, VisitSlots

LEMMA TraceGlobalSlots ==
    ASSUME TypeOK, HeapInv, TraceGlobal
    PROVE  SlotsInv'
  <1> PICK pa, h, v, m, w, d : pa = FALSE /\ h = <<"perm", cur>> /\ v = mem[h].slots[slot]
                           /\ m = MemAfter(v) /\ w = Forwarded(v) /\ d = dst
    OBVIOUS
  <1>1. VisitStep(v, pa, h, m, w) /\ h \in Addr /\ slot = 1
    BY TraceGlobalVisits
  <1>2. VisitStep(v, pa, h, m, w) /\ Visit(v, pa) /\ h \in Addr /\ slot = 1
    BY <1>1 DEF VisitStep
  <1>3. pc = "major_globals" /\ Collecting /\ pc \notin ScanPhase /\ pc \notin MinorPhase
    BY DEF TraceGlobal, Collecting, MinorPhase, MajorPhase, ScanPhase
  <1>4. UNCHANGED <<from, ofrom, pc, y2o, slot, scan>> /\ Blk' = Blk /\ cur' = cur + 1
    BY SamePhase DEF TraceGlobal
  <1>5. cur \in Nat
    BY DEF TypeOK
  <1>6. ASSUME NEW a \in Addr, NEW s \in Slots
        PROVE  Pending(a, s)' <=> Pending(a, s) /\ ~(a = h /\ s = slot)
    <2>1. Unscanned(a, s)' <=> Unscanned(a, s)
      BY <1>4 DEF Unscanned
    <2>2. Unscanned(a, s) => a # h
      BY <1>3, FilledSpace DEF Unscanned
    <2>3. a[2] \in Nat /\ (a = h <=> a[1] = "perm" /\ a[2] = cur)
      BY <1>2, AddrFacts, SameAddr
    <2>4. cur + 1 <= a[2] <=> cur <= a[2] /\ a[2] # cur
      BY <1>5, <2>3
    <2>5. Pending(a, s) <=> Unscanned(a, s) \/ (a[1] = "perm" /\ s = 1 /\ cur <= a[2])
      BY <1>3 DEF Pending
    <2>6. Pending(a, s)' <=> Unscanned(a, s)' \/ (a[1] = "perm" /\ s = 1 /\ cur + 1 <= a[2])
      BY <1>3, <1>4 DEF Pending
    <2> QED
      BY <1>2, <2>1, <2>2, <2>3, <2>4, <2>5, <2>6
  <1>7. Moves(v) => \A s \in Slots : Pending(d, s)'
    BY <1>3, <1>4, CopyUnscanned
  <1> QED
    BY <1>2, <1>3, <1>6, <1>7, VisitSlots

-----------------------------------------------------------------------------
(* The other parts of the heap invariant after a visit.                    *)
LEMMA VisitTops ==
    ASSUME TypeOK, HeapInv, Collecting, NEW v, NEW pa, NEW h, NEW m, NEW w,
           VisitStep(v, pa, h, m, w)
    PROVE  TopsInv' /\ \A sp \in Spaces : top[sp] <= top'[sp]
  <1>1. /\ UNCHANGED <<from, ofrom, pc>>
        /\ top' = top \/ top' = [top EXCEPT ![Blk] = @ + 1]
    BY DEF VisitStep, Visit
  <1>2. to' = to /\ oto' = oto
    BY <1>1, SamePhase
  <1>3. \A sp \in Spaces : top[sp] \in Nat /\ (sp # Blk => top'[sp] = top[sp]) /\ top[sp] <= top'[sp]
    BY <1>1, FilledSpace, TopFacts DEF TypeOK, Spaces
  <1>4. to \in Spaces /\ oto \in Spaces /\ "perm" \in Spaces /\ to # oto
    BY SpaceFacts
  <1>5. Blk # "perm" /\ (pc \notin MajorPhase => Blk # oto)
        /\ (pc \notin Stage2 => Blk # to) /\ (pc \in Stage2 /\ NewAgeMax = 0 => Blk # to)
    <2>1. pc \notin MajorPhase => Blk # oto
      BY FilledSpace, SpaceFacts DEF Collecting
    <2>2. pc \notin Stage2 => Blk # to
      BY FilledSpace, SpaceFacts DEF Collecting, Stage1, Stage2, MinorPhase
    <2>3. pc \in Stage2 /\ NewAgeMax = 0 => Blk # to
      BY SpaceFacts DEF Blk, Stage2, MajorPhase
    <2> QED
      BY <2>1, <2>2, <2>3, FilledSpace
  <1>6. TopsInv
    BY DEF HeapInv
  <1> QED
    BY <1>1, <1>2, <1>3, <1>4, <1>5, <1>6 DEF TopsInv

LEMMA LiveKept ==
    ASSUME TypeOK, \A sp \in Spaces : top[sp] <= top'[sp], top' \in [Spaces -> Nat]
    PROVE  /\ \A a \in Addr : Live(a) => Live(a)'
           /\ \A x \in Ref : Valid(x) => Valid(x)'
  <1>1. ASSUME NEW a \in Addr, Live(a) PROVE Live(a)'
    <2>1. a[1] \in Spaces /\ a[2] \in Nat /\ top[a[1]] \in Nat /\ top'[a[1]] \in Nat
      BY AddrFacts, TopFacts
    <2> QED
      BY <1>1, <2>1 DEF Live
  <1> QED
    BY <1>1 DEF Valid, Ref

LEMMA VisitLive ==
    ASSUME TypeOK, HeapInv, Collecting, NEW v, NEW pa, NEW h, NEW m, NEW w,
           VisitStep(v, pa, h, m, w)
    PROVE  /\ \A a \in Addr : Live(a) => Live(a)'
           /\ \A x \in Ref : Valid(x) => Valid(x)'
  <1>1. v \in Ref /\ pa \in BOOLEAN /\ Visit(v, pa)
    BY DEF VisitStep
  <1>2. top' \in [Spaces -> Nat]
    BY <1>1, VisitType
  <1> QED
    BY <1>2, VisitTops, LiveKept

LEMMA VisitFwd ==
    ASSUME TypeOK, HeapInv, Collecting, NEW v, NEW pa, NEW h, NEW m, NEW w,
           VisitStep(v, pa, h, m, w), 
           pc = "y2o" => orefs' = orefs /\ cur' = cur + 1 /\ v = orefs[cur]
    PROVE  FwdInv'
  <1> PICK d : d = dst
    OBVIOUS
  <1>1. /\ v \in Ref /\ Valid(v) /\ Unmoved(v) /\ Visit(v, pa) /\ m = MemAfter(v)
        /\ UNCHANGED <<from, ofrom, pc>> /\ \A a \in Addr : mem'[a].fwd = m[a].fwd
    BY DEF VisitStep
  <1>2. TopsInv /\ FwdInv /\ pc \notin Failed
    BY DEF HeapInv, Collecting, MinorPhase, MajorPhase, Failed
  <1>3. /\ \A a \in Addr : Live(a) => Live(a)'
        /\ Moves(v) => d \in Addr /\ Live(d)' /\ v[1] \in LeftSpaces
        /\ \A a \in Addr : m[a].fwd # Nil =>
              \/ mem[a].fwd # Nil /\ m[a].fwd = mem[a].fwd
              \/ a = v /\ Moves(v) /\ m[a].fwd = d
    BY <1>1, <1>2, VisitMem
  <1>4. LeftSpaces' = LeftSpaces /\ Collecting'
    BY <1>1, SamePhase
  <1>5. d[1] \notin LeftSpaces
    BY FilledSpace DEF dst
  <1>6. ASSUME NEW a \in Addr, mem'[a].fwd # Nil
        PROVE  /\ a[1] \in LeftSpaces
               /\ mem'[a].fwd[1] \notin LeftSpaces /\ Live(mem[a].fwd)'
               /\ pc = "y2o" => \E i \in 1..cur' - 1 : orefs'[i] = a
    <2> PICK x : x = mem'[a].fwd
      OBVIOUS
    <2>1. CASE mem[a].fwd # Nil /\ m[a].fwd = mem[a].fwd
      <3>1. x = mem[a].fwd /\ x \in Addr
        BY <1>1, <2>1, CellFacts DEF Ref
      <3>2. a[1] \in LeftSpaces /\ x[1] \notin LeftSpaces /\ Live(x)
            /\ (pc = "y2o" => \E i \in 1..cur - 1 : orefs[i] = a)
        BY <1>2, <2>1, <3>1 DEF FwdInv
      <3>3. pc = "y2o" => \E i \in 1..cur' - 1 : orefs'[i] = a
        <4> SUFFICES ASSUME pc = "y2o" PROVE \E i \in 1..cur' - 1 : orefs'[i] = a
          OBVIOUS
        <4>1. PICK i \in 1..cur - 1 : orefs[i] = a
          BY <3>2
        <4>2. cur \in Nat /\ i \in 1..cur' - 1
          BY <4>1 DEF TypeOK
        <4> QED
          BY <4>1, <4>2
      <3>4. Live(x)'
        BY <1>3, <3>1, <3>2
      <3> QED
        BY <3>2, <3>3, <3>4
    <2>2. CASE a = v /\ Moves(v) /\ m[a].fwd = d
      <3>1. x = d
        BY <1>1, <2>2
      <3>2. pc = "y2o" => \E i \in 1..cur' - 1 : orefs'[i] = a
        <4> SUFFICES ASSUME pc = "y2o" PROVE \E i \in 1..cur' - 1 : orefs'[i] = a
          OBVIOUS
        <4>1. cur \in 1..cur' - 1
          BY DEF TypeOK
        <4> QED
          BY <2>2, <4>1
      <3> QED
        BY <1>3, <1>5, <2>2, <3>1, <3>2
    <2> QED
      BY <1>1, <1>3, <1>6, <2>1, <2>2
  <1> QED
    BY <1>1, <1>4, <1>6 DEF FwdInv

LEMMA VisitBoxes ==
    ASSUME TypeOK, HeapInv, Collecting, NEW v, NEW pa, NEW h, NEW m, NEW w,
           VisitStep(v, pa, h, m, w)
    PROVE  BoxInv'
  <1>1. BoxInv /\ TopsInv /\ FwdInv
    BY DEF HeapInv
  <1>2. ASSUME NEW a \in BoxAddr, NEW s \in Slots, s # 1
        PROVE  mem'[a].slots[s] = Nil
    <2>1. a \in Addr /\ a[1] = "perm" /\ a[2] \in 1..NGlobals
      BY DEF Addr, BoxAddr
    <2>2. Live(a)
      BY <1>1, <2>1 DEF Live, TopsInv
    <2> PICK d : d = dst
      OBVIOUS
    <2>3. mem'[a].slots[s] = IF a = h /\ s = slot THEN w ELSE mem[a].slots[s]
      BY <1>1, <2>1, <2>2, StepMem
    <2>4. mem[a].slots[s] = Nil
      BY <1>1, <1>2 DEF BoxInv
    <2>5. CASE a = h /\ s = slot
      <3>1. v = Nil /\ w = Forwarded(v)
        BY <2>1, <2>4, <2>5, AddrFacts DEF VisitStep
      <3> QED
        BY <2>3, <2>5, <3>1 DEF Forwarded, Moves
    <2> QED
      BY <2>3, <2>4, <2>5
  <1> QED
    BY <1>2 DEF BoxInv

LEMMA VisitPoolParts ==
    ASSUME TypeOK, HeapInv, Collecting, NEW v, NEW pa, NEW h, NEW m, NEW w,
           VisitStep(v, pa, h, m, w)
    PROVE  PoolPartsInv'
  <1> PICK d : d = dst
    OBVIOUS
  <1>1. /\ v \in Ref /\ Valid(v) /\ Unmoved(v) /\ Visit(v, pa) /\ m = MemAfter(v)
        /\ UNCHANGED <<from, ofrom, pc, y2o>>
    BY DEF VisitStep
  <1>2. TopsInv /\ PoolPartsInv /\ pc \notin Failed
    BY DEF HeapInv, Collecting, MinorPhase, MajorPhase, Failed
  <1>3. \A a \in Addr : Live(a) => Live(a)'
    BY VisitLive
  <1>4. orefs \in Seq(Addr) /\ Len(orefs) \in Nat /\ y2o \in 0..Len(orefs)
    BY DEF TypeOK
  <1>5. orefs \in Seq(Addr) /\ Len(orefs) \in Nat /\ y2o \in 0..Len(orefs) /\ to' = to
    BY <1>1, <1>4 DEF to
  <1>6. \A i \in 1..Len(orefs) : orefs[i] \in Addr
    BY <1>5
  <1>7. CASE orefs' = orefs
    <2>1. PromoteSpace' = PromoteSpace /\ PromoteEnd' = PromoteEnd
      BY <1>1, <1>5, <1>7 DEF PromoteSpace, PromoteEnd
    <2>2. PromoteEnd \in 0..Len(orefs)
      BY <1>5 DEF PromoteEnd
    <2>3. \A i \in 1..Len(orefs) : Live(orefs[i]) => Live(orefs[i])'
      BY <1>3, <1>6, <1>7
    <2>4. /\ \A i \in 1..PromoteEnd : orefs[i][1] = PromoteSpace /\ Live(orefs[i])'
          /\ \A i \in PromoteEnd + 1..Len(orefs) : IsOld(orefs[i]) /\ Live(orefs[i])'
      BY <1>2, <2>2, <2>3 DEF PoolPartsInv
    <2> QED
      BY <1>1, <1>2, <1>7, <2>1, <2>4 DEF PoolPartsInv, IsOld
  <1>8. CASE orefs' # orefs
    <2>1. Enters(v, pa) /\ orefs' = Append(orefs, d)
      BY <1>1, <1>8 DEF Visit
    <2>2. Moves(v) /\ Blk \in YoungSpace
      BY <2>1 DEF Enters
    <2>3. pc \in Stage2 /\ pc \notin {"scan_old"} \cup MajorPhase /\ Blk = to
      BY <1>1, <1>8, <2>2, PoolUnchanged, FilledSpace, SpaceFacts
      DEF Collecting, Stage1, Stage2, MinorPhase, MajorPhase
    <2>4. d \in Addr /\ Live(d)' /\ d[1] = to /\ d[2] = top[to] + 1
      BY <1>1, <1>2, <2>2, <2>3, VisitMem DEF dst
    <2>5. PromoteSpace = to /\ PromoteEnd = Len(orefs) /\ PromoteSpace' = to
          /\ PromoteEnd' = Len(orefs') /\ y2o = 0
      BY <1>1, <1>2, <1>5, <2>3 DEF PromoteSpace, PromoteEnd, PoolPartsInv
    <2>6. /\ Len(orefs') = Len(orefs) + 1 /\ orefs'[Len(orefs) + 1] = d
          /\ \A i \in 1..Len(orefs) : orefs'[i] = orefs[i]
      BY <1>5, <2>1
    <2>7. \A i \in 1..Len(orefs) : orefs[i][1] = to /\ Live(orefs[i])
      BY <1>2, <2>5 DEF PoolPartsInv
    <2>8. \A i, j \in 1..Len(orefs) : i < j => orefs[i][2] < orefs[j][2]
      BY <1>2, <2>5 DEF PoolPartsInv
    <2>9. \A i \in 1..Len(orefs) : orefs[i][2] < d[2]
      <3>1. top[to] \in Nat
        BY SpaceFacts, TopFacts
      <3> QED
        BY <1>6, <2>4, <2>7, <3>1, AddrFacts DEF Live
    <2>10. ASSUME NEW i \in 1..Len(orefs') PROVE orefs'[i][1] = to /\ Live(orefs[i])'
      <3>1. CASE i \in 1..Len(orefs)
        BY <1>3, <1>6, <2>6, <2>7, <3>1
      <3>2. CASE i \notin 1..Len(orefs)
        <4>1. i = Len(orefs) + 1
          BY <1>5, <2>6, <3>2
        <4> QED
          BY <2>4, <2>6, <4>1
      <3> QED
        BY <3>1, <3>2
    <2>11. ASSUME NEW i \in 1..Len(orefs'), NEW j \in 1..Len(orefs'), i < j
           PROVE  orefs'[i][2] < orefs'[j][2]
      <3>1. i \in 1..Len(orefs) /\ (j \in 1..Len(orefs) \/ j = Len(orefs) + 1)
        BY <1>5, <2>6, <2>11
      <3> QED
        BY <2>6, <2>8, <2>9, <2>11, <3>1
    <2>12. PromoteEnd' + 1..Len(orefs') = {}
      BY <1>5, <2>5, <2>6
    <2> QED
      BY <1>1, <2>3, <2>5, <2>10, <2>11, <2>12 DEF PoolPartsInv
  <1> QED
    BY <1>7, <1>8

LEMMA VisitRootsKept ==
    ASSUME TypeOK, HeapInv, Collecting, NEW v, NEW pa, NEW h, NEW m, NEW w,
           VisitStep(v, pa, h, m, w), UNCHANGED root, pc \in {"roots", "major_roots"} => UNCHANGED cur
    PROVE  RootsInv'
  <1>1. UNCHANGED <<from, ofrom, pc>>
    BY DEF VisitStep
  <1>2. \A x \in Ref : Valid(x) => Valid(x)'
    BY VisitLive
  <1>3. LeftSpaces' = LeftSpaces /\ NewSpace' = NewSpace /\ Collecting' = Collecting
    BY <1>1, SamePhase
  <1>4. RootsInv /\ \A r \in Roots : root[r] \in Ref
    BY DEF HeapInv, TypeOK
  <1>5. pc \notin Failed => \A r \in Roots : Valid(root[r])'
    BY <1>2, <1>4 DEF RootsInv
  <1>6. \A r \in Roots : Traced(r)' <=> Traced(r)
    BY <1>1 DEF Traced
  <1>7. \A r \in Roots : (Moved(root[r])' <=> Moved(root[r])) /\ (Unmoved(root[r])' <=> Unmoved(root[r]))
    BY <1>3 DEF Moved, Unmoved
  <1> QED
    BY <1>1, <1>3, <1>4, <1>5, <1>6, <1>7 DEF RootsInv

(* How far the visits advance their loops.                                 *)
LEMMA LoopStep ==
    ASSUME PromoteEntry \/ TraceRemembered \/ Scan \/ TraceRoot \/ TraceGlobal
    PROVE  /\ UNCHANGED <<pc, y2o>>
           /\ scan' = scan \/ (scan' = scan + 1 /\ scan < top[Blk])
           /\ pc = "y2o" => cur' = cur + 1 /\ cur <= y2o
           /\ pc = "remembered" => cur' = cur \/ cur' = cur + 1
           /\ pc = "major_globals" => slot' = slot
  <1>1. CASE PromoteEntry
    BY <1>1, Zenon DEF PromoteEntry
  <1>2. CASE TraceRemembered
    BY <1>2, RememberedStep
  <1>3. CASE Scan
    <2>1. /\ pc \in ScanPhase /\ scan < top[Blk] /\ UNCHANGED <<pc, y2o>>
          /\ scan' = IF LastSlot THEN scan + 1 ELSE scan
      BY <1>3, Zenon DEF Scan
    <2> QED
      BY <2>1 DEF ScanPhase
  <1>4. CASE TraceRoot
    <2>1. pc \in {"roots", "major_roots"} /\ UNCHANGED <<pc, y2o, scan, slot>>
      BY <1>4, Zenon DEF TraceRoot
    <2> QED
      BY <2>1
  <1>5. CASE TraceGlobal
    <2>1. pc = "major_globals" /\ UNCHANGED <<pc, y2o, scan, slot>>
      BY <1>5, Zenon DEF TraceGlobal
    <2> QED
      BY <2>1
  <1> QED
    BY <1>1, <1>2, <1>3, <1>4, <1>5

LEMMA VisitedLoops ==
    ASSUME TypeOK, HeapInv,
           PromoteEntry \/ TraceRemembered \/ Scan \/ TraceRoot \/ TraceGlobal,
           \A sp \in Spaces : top[sp] <= top'[sp], top' \in [Spaces -> Nat], Blk' = Blk, Collecting
    PROVE  LoopsInv'
  <1>1. LoopsInv /\ UNCHANGED <<pc, y2o>>
    BY LoopStep DEF HeapInv
  <1>2. Blk \in Spaces
    BY FilledSpace, SpaceFacts
  <1>3. scan \in Nat /\ top[Blk] \in Nat /\ top'[Blk] \in Nat /\ top[Blk] <= top'[Blk]
    BY <1>2, TopFacts DEF TypeOK
  <1>4. cur \in Nat /\ y2o \in Nat /\ scan <= top[Blk]
    BY <1>1 DEF TypeOK, LoopsInv
  <1>5. scan' <= top'[Blk]
    BY <1>3, <1>4, LoopStep
  <1>6. pc = "y2o" => cur' <= y2o + 1
    BY <1>4, LoopStep
  <1>7. pc = "remembered" => y2o < cur
    BY <1>1 DEF LoopsInv
  <1>8. pc = "remembered" => y2o < cur'
    BY <1>4, <1>7, LoopStep
  <1>9. pc = "major_globals" => slot' = slot
    BY LoopStep
  <1> QED
    BY <1>1, <1>5, <1>6, <1>8, <1>9 DEF LoopsInv

(* What the five visits have in common.                                    *)
LEMMA VisitCommon ==
    ASSUME TypeOK, HeapInv, Collecting, NEW v, NEW pa, NEW h, NEW m, NEW w,
           VisitStep(v, pa, h, m, w),
           PromoteEntry \/ TraceRemembered \/ Scan \/ TraceRoot \/ TraceGlobal,
           pc = "y2o" => orefs' = orefs /\ cur' = cur + 1 /\ v = orefs[cur]
    PROVE  TopsInv' /\ LoopsInv' /\ PoolPartsInv' /\ FwdInv' /\ BoxInv'
  <1>1. top' \in [Spaces -> Nat]
    BY VisitingTypeOK DEF TypeOK, Spaces
  <1>2. Blk' = Blk
    BY SamePhase DEF VisitStep
  <1> QED
    BY <1>1, <1>2, VisitTops, VisitedLoops, VisitPoolParts, VisitFwd, VisitBoxes

(* The five visits keep the heap invariant.                                *)
LEMMA VisitsHeap ==
    ASSUME TypeOK, HeapInv,
           PromoteEntry \/ TraceRemembered \/ Scan \/ TraceRoot \/ TraceGlobal
    PROVE  HeapInv'
  <1>1. CASE PromoteEntry
    <2> PICK pa, v, m, w : pa = FALSE /\ v = orefs[cur] /\ m = MemAfter(v) /\ w = Forwarded(v)
      OBVIOUS
    <2>1. VisitStep(v, pa, Nil, m, w)
      BY <1>1, PromoteEntryVisits
    <2>2. pc = "y2o" /\ Collecting /\ pc \in Stage1 /\ UNCHANGED root /\ cur' = cur + 1
      BY <1>1 DEF PromoteEntry, Collecting, MinorPhase, Stage1
    <2>3. orefs' = orefs
      BY <2>1, <2>2, PoolUnchanged DEF VisitStep
    <2>4. TopsInv' /\ LoopsInv' /\ PoolPartsInv' /\ FwdInv' /\ BoxInv'
      BY <1>1, <2>1, <2>2, <2>3, VisitCommon
    <2>5. RootsInv'
      BY <2>1, <2>2, VisitRootsKept
    <2> QED
      BY <1>1, <2>4, <2>5, PromoteEntrySlots DEF HeapInv
  <1>2. CASE TraceRemembered
    <2> PICK pa, h, v, m, w : pa = FALSE /\ h = PoolHolder /\ v = PoolSlot
                              /\ m = MemAfter(v) /\ w = Forwarded(v)
      OBVIOUS
    <2>1. VisitStep(v, pa, h, m, w)
      BY <1>2, TraceRememberedVisits
    <2>2. pc = "remembered" /\ Collecting /\ UNCHANGED root
      BY <1>2, RememberedStep DEF Collecting, MinorPhase
    <2>3. TopsInv' /\ LoopsInv' /\ PoolPartsInv' /\ FwdInv' /\ BoxInv'
      BY <1>2, <2>1, <2>2, VisitCommon
    <2>4. RootsInv'
      BY <2>1, <2>2, VisitRootsKept
    <2> QED
      BY <1>2, <2>3, <2>4, TraceRememberedSlots DEF HeapInv
  <1>3. CASE Scan
    <2> PICK h, pa, v, m, w : h = Scanned /\ pa = mem[h].added /\ v = mem[h].slots[slot]
                              /\ m = MemAfter(v) /\ w = Forwarded(v)
      OBVIOUS
    <2>1. VisitStep(v, pa, h, m, w) /\ Collecting
      BY <1>3, ScanVisits
    <2>2. pc \notin {"y2o", "roots", "major_roots"} /\ UNCHANGED root
      BY <1>3 DEF Scan, ScanPhase
    <2>3. TopsInv' /\ LoopsInv' /\ PoolPartsInv' /\ FwdInv' /\ BoxInv'
      BY <1>3, <2>1, <2>2, VisitCommon
    <2>4. RootsInv'
      BY <2>1, <2>2, VisitRootsKept
    <2> QED
      BY <1>3, <2>3, <2>4, ScanSlots DEF HeapInv
  <1>4. CASE TraceRoot
    <2> PICK pa, v, m, w : pa = FALSE /\ v = root[cur] /\ m = MemAfter(v) /\ w = Forwarded(v)
      OBVIOUS
    <2>1. /\ VisitStep(v, pa, Nil, m, w) /\ cur \in Roots
          /\ root' = [root EXCEPT ![cur] = w] /\ cur' = cur + 1
      BY <1>4, TraceRootVisits
    <2>2. pc \in {"roots", "major_roots"} /\ Collecting /\ pc \notin Failed /\ pc \notin Stage1
      BY <1>4 DEF TraceRoot, Collecting, MinorPhase, MajorPhase, Failed, Stage1
    <2>3. TopsInv' /\ LoopsInv' /\ PoolPartsInv' /\ FwdInv' /\ BoxInv'
      BY <1>4, <2>1, <2>2, VisitCommon
    <2>4. RootsInv'
      <3> PICK d : d = dst
        OBVIOUS
      <3>1. w \in Ref /\ Valid(w)' /\ Moved(w)
        BY <2>1, <2>2, StepMem DEF HeapInv
      <3>2. \A x \in Ref : Valid(x) => Valid(x)'
        BY <2>1, <2>2, VisitLive
      <3>3. UNCHANGED <<from, ofrom, pc>>
        BY <2>1 DEF VisitStep
      <3>4. LeftSpaces' = LeftSpaces /\ NewSpace' = NewSpace
        BY <3>3, SamePhase
      <3>5. RootsInv /\ root \in [Roots -> Ref] /\ cur \in Nat
        BY DEF HeapInv, TypeOK
      <3>6. \A r \in Roots : root'[r] = IF r = cur THEN w ELSE root[r]
        BY <2>1, <3>5
      <3>7. \A r \in Roots : Valid(root[r])'
        <4>1. \A r \in Roots : Valid(root[r])
          BY <2>2, <3>5 DEF RootsInv
        <4> QED
          BY <3>1, <3>2, <3>5, <3>6, <4>1 DEF Valid, Live
      <3>8. ASSUME NEW r \in Roots
            PROVE  IF Traced(r)' THEN Moved(root[r])' ELSE Unmoved(root[r])'
        <4>1. r \in Nat /\ (Traced(r)' <=> r < cur + 1) /\ (Traced(r) <=> r < cur)
          BY <2>1, <2>2, <3>3 DEF Traced, Roots
        <4>2. IF Traced(r) THEN Moved(root[r]) ELSE Unmoved(root[r])
          BY <2>2, <3>5 DEF RootsInv
        <4>3. CASE r = cur
          BY <3>1, <3>4, <3>5, <3>6, <4>1, <4>3 DEF Moved
        <4>4. CASE r # cur
          <5>1. root'[r] = root[r] /\ (Traced(r)' <=> Traced(r))
            BY <3>5, <3>6, <4>1, <4>4
          <5> QED
            BY <3>4, <4>2, <5>1 DEF Moved, Unmoved
        <4> QED
          BY <4>3, <4>4
      <3> QED
        BY <2>2, <3>3, <3>7, <3>8 DEF RootsInv
    <2> QED
      BY <1>4, <2>3, <2>4, TraceRootSlots DEF HeapInv
  <1>5. CASE TraceGlobal
    <2> PICK pa, h, v, m, w : pa = FALSE /\ h = <<"perm", cur>> /\ v = mem[h].slots[slot]
                              /\ m = MemAfter(v) /\ w = Forwarded(v)
      OBVIOUS
    <2>1. VisitStep(v, pa, h, m, w)
      BY <1>5, TraceGlobalVisits
    <2>2. pc = "major_globals" /\ Collecting /\ UNCHANGED root
      BY <1>5 DEF TraceGlobal, Collecting, MajorPhase
    <2>3. TopsInv' /\ LoopsInv' /\ PoolPartsInv' /\ FwdInv' /\ BoxInv'
      BY <1>5, <2>1, <2>2, VisitCommon
    <2>4. RootsInv'
      BY <2>1, <2>2, VisitRootsKept
    <2> QED
      BY <1>5, <2>3, <2>4, TraceGlobalSlots DEF HeapInv
  <1> QED
    BY <1>1, <1>2, <1>3, <1>4, <1>5

-----------------------------------------------------------------------------
(***************************************************************************)
(* The steps between the loops, which leave memory as it is.               *)
(***************************************************************************)
LEMMA EmptyUnmoved ==
    ASSUME NEW x \in Ref, Valid(x), NEW sp, top[sp] = 0
    PROVE  x # Nil => x[1] # sp
  BY EmptySpace DEF Valid, Ref

(* Between collections an address is in use as the properties say just when*)
(* it is allocated in any space.                                           *)
LEMMA QuiescentFacts ==
    ASSUME TypeOK, TopsInv, Quiescent
    PROVE  /\ top[to] = 0 /\ top[oto] = 0
           /\ \A a \in Addr : InUse(a) <=> Live(a)
           /\ \A x \in Ref : Dangling(x) <=> ~Valid(x)
           /\ pc \notin MinorPhase \cup MajorPhase \cup Failed \cup Stage1 \cup Stage2
  <1>1. pc \notin MinorPhase \cup MajorPhase \cup Failed \cup Stage1 \cup Stage2
    BY DEF Quiescent, MinorPhase, MajorPhase, Failed, Stage1, Stage2
  <1>2. top[to] = 0 /\ top[oto] = 0
    BY <1>1 DEF TopsInv
  <1>3. ASSUME NEW a \in Addr PROVE InUse(a) <=> Live(a)
    <2>1. a[1] \in Spaces /\ (Live(a) => a[1] # to /\ a[1] # oto)
      BY <1>2, AddrFacts, EmptySpace
    <2> QED
      BY <2>1, SpaceFacts DEF InUse, Live
  <1> QED
    BY <1>1, <1>2, <1>3 DEF Dangling, Valid, Ref

LEMMA DefinedFacts ==
    ASSUME TypeOK, TopsInv, Quiescent
    PROVE  Defined <=> /\ \A r \in Roots : Valid(root[r])
                       /\ \A a \in Addr, s \in Slots : Live(a) => Valid(mem[a].slots[s])
  <1>1. \A r \in Roots : Dangling(root[r]) <=> ~Valid(root[r])
    BY QuiescentFacts DEF TypeOK
  <1>2. \A a \in Addr, s \in Slots : Dangling(mem[a].slots[s]) <=> ~Valid(mem[a].slots[s])
    BY QuiescentFacts, CellFacts
  <1>3. \A a \in Addr : a \in Allocated <=> Live(a)
    BY QuiescentFacts DEF Allocated
  <1>4. Allocated \subseteq Addr
    BY DEF Allocated
  <1> QED
    BY <1>1, <1>2, <1>3, <1>4 DEF Defined

(* A collection starts in a state where every reference is valid.          *)
LEMMA BeginMinorHeap ==
    ASSUME TypeOK, HeapInv, BeginMinor
    PROVE  HeapInv'
  <1>1. /\ pc = "collect" /\ pc' = "y2o" /\ cur' = 1 /\ slot' = 1 /\ scan' = top[ofrom]
        /\ UNCHANGED <<mem, top, from, ofrom, orefs, y2o, root>>
    BY DEF BeginMinor, Goto, heap, pool
  <1>2. /\ TopsInv /\ PoolPartsInv /\ FwdInv /\ BoxInv /\ RootsInv /\ SlotsInv
        /\ Quiescent /\ ~Collecting /\ pc \notin Failed /\ Defined
    BY <1>1 DEF HeapInv, Quiescent, Collecting, MinorPhase, MajorPhase, Failed, SlotsInv
  <1>3. /\ pc' \in MinorPhase /\ pc' \notin MajorPhase /\ pc' \notin Failed /\ pc' \in Stage1
        /\ pc' \notin Stage2 /\ pc' \notin ScanPhase /\ Collecting' /\ ~Quiescent' /\ pc' # "collect"
        /\ LeftSpaces' = {from} /\ NewSpace' = to /\ Blk' = ofrom
    BY <1>1 DEF MinorPhase, MajorPhase, Failed, Stage1, Stage2, ScanPhase, Collecting, Quiescent,
         LeftSpaces, NewSpace, Blk, to
  <1>4. top[to] = 0 /\ top[oto] = 0 /\ to' = to /\ oto' = oto
    BY <1>1, <1>2, QuiescentFacts DEF to, oto
  <1>5. TopsInv'
    BY <1>1, <1>2, <1>3, <1>4 DEF TopsInv
  <1>6. LoopsInv'
    <2>1. y2o \in Nat /\ top[ofrom] \in Nat
      BY SpaceFacts, TopFacts DEF TypeOK
    <2> QED
      BY <1>1, <1>3, <2>1 DEF LoopsInv
  <1>7. PoolPartsInv'
    <2>1. PromoteSpace' = PromoteSpace /\ PromoteEnd' = PromoteEnd
      BY <1>1, <1>2, <1>3, QuiescentFacts DEF PromoteSpace, PromoteEnd
    <2> QED
      BY <1>1, <1>2, <2>1 DEF PoolPartsInv, Live, IsOld, Stage2, MajorPhase
  <1>8. FwdInv'
    BY <1>1, <1>2 DEF FwdInv
  <1>9. BoxInv'
    BY <1>1, <1>2 DEF BoxInv
  <1>10. RootsInv'
    <2>1. \A r \in Roots : root[r] \in Ref /\ Valid(root[r])
      BY <1>2 DEF RootsInv, TypeOK
    <2>2. \A r \in Roots : Valid(root[r])' /\ Unmoved(root[r])'
      BY <1>1, <1>3, <1>4, <2>1, EmptyUnmoved DEF Valid, Live, Unmoved
    <2> QED
      BY <1>3, <2>2 DEF RootsInv
  <1>11. SlotsInv'
    <2>1. ASSUME NEW a \in Addr, Live(a), NEW s \in Slots PROVE SlotOK(a, s)'
      <3> PICK x : x = mem[a].slots[s]
        OBVIOUS
      <3>1. x \in Ref /\ Valid(x) /\ mem'[a].slots[s] = x
        BY <1>1, <1>2, <2>1, CellFacts, DefinedFacts
      <3>2. Valid(x)' /\ Unmoved(x)'
        BY <1>1, <1>3, <1>4, <3>1, EmptyUnmoved DEF Valid, Live, Unmoved
      <3>3. CASE Stale(a)
        <4>1. Skipped(a)'
          BY <1>1, <3>3 DEF Stale, Skipped, PoolTail, IsOld
        <4> QED
          BY <1>3, <3>1, <3>2, <4>1 DEF SlotOK, Pending
      <3>4. CASE a \in PoolTail
        <4>1. Awaits(a, s)'
          BY <1>1, <3>4 DEF PoolTail, Awaits
        <4> QED
          BY <1>1, <3>1, <3>2, <4>1 DEF SlotOK, Pending
      <3>5. CASE IsOld(a) /\ ~(x # Nil /\ IsYoung(x))
        <4>1. Moved(x)'
          BY <1>3, <3>5, SpaceFacts DEF Moved, IsYoung
        <4> QED
          BY <3>1, <3>2, <4>1 DEF SlotOK
      <3>6. CASE ~IsOld(a)
        <4>1. a[1] \in LeftSpaces'
          BY <1>3, <1>4, <2>1, <3>6, EmptySpace, SpaceFacts DEF IsOld
        <4> QED
          BY <3>1, <3>2, <4>1 DEF SlotOK
      <3> QED
        BY <1>2, <2>1, <3>3, <3>4, <3>5, <3>6 DEF SlotsInv
    <2> QED
      BY <1>1, <1>3, <2>1 DEF SlotsInv, Live
  <1> QED
    BY <1>5, <1>6, <1>7, <1>8, <1>9, <1>10, <1>11 DEF HeapInv

LEMMA BeginMajorHeap ==
    ASSUME TypeOK, HeapInv, Quiescent, Defined, BeginMajor
    PROVE  HeapInv'
  <1>1. /\ pc' = "major_roots" /\ cur' = 1 /\ slot' = 1 /\ scan' = top[oto]
        /\ orefs' = <<>> /\ y2o' = 0
        /\ UNCHANGED <<mem, top, from, ofrom, root>>
    BY DEF BeginMajor, Goto, heap
  <1>2. /\ TopsInv /\ FwdInv /\ BoxInv /\ RootsInv /\ SlotsInv
        /\ ~Collecting /\ pc \notin Failed
    BY QuiescentFacts DEF HeapInv, Collecting
  <1>3. /\ pc' \in MajorPhase /\ pc' \notin MinorPhase /\ pc' \notin Failed /\ pc' \notin Stage1
        /\ pc' \notin Stage2 /\ pc' \notin ScanPhase /\ Collecting' /\ ~Quiescent' /\ pc' # "collect"
        /\ LeftSpaces' = {from, ofrom} /\ NewSpace' = oto /\ Blk' = oto
    BY <1>1 DEF MinorPhase, MajorPhase, Failed, Stage1, Stage2, ScanPhase, Collecting, Quiescent,
         LeftSpaces, NewSpace, Blk, oto
  <1>4. top[to] = 0 /\ top[oto] = 0 /\ to' = to /\ oto' = oto
    BY <1>1, <1>2, QuiescentFacts DEF to, oto
  <1>5. TopsInv'
    BY <1>1, <1>2, <1>3, <1>4 DEF TopsInv
  <1>6. LoopsInv'
    BY <1>1, <1>3, <1>4 DEF LoopsInv
  <1>7. PoolPartsInv'
    BY <1>1, <1>3 DEF PoolPartsInv, PromoteEnd
  <1>8. FwdInv'
    BY <1>1, <1>2 DEF FwdInv
  <1>9. BoxInv'
    BY <1>1, <1>2 DEF BoxInv
  <1>10. RootsInv'
    <2>1. \A r \in Roots : root[r] \in Ref /\ Valid(root[r])
      BY <1>2 DEF RootsInv, TypeOK
    <2>2. \A r \in Roots : Valid(root[r])' /\ Unmoved(root[r])'
      BY <1>1, <1>3, <1>4, <2>1, EmptyUnmoved DEF Valid, Live, Unmoved
    <2>3. \A r \in Roots : ~Traced(r)'
      BY <1>1 DEF Traced, Roots
    <2> QED
      BY <1>3, <2>2, <2>3 DEF RootsInv
  <1>11. SlotsInv'
    <2>1. ASSUME NEW a \in Addr, Live(a), NEW s \in Slots PROVE SlotOK(a, s)'
      <3> PICK x : x = mem[a].slots[s]
        OBVIOUS
      <3>1. x \in Ref /\ Valid(x) /\ mem'[a].slots[s] = x
        BY <1>1, <1>2, <2>1, CellFacts, DefinedFacts
      <3>2. Valid(x)' /\ Unmoved(x)'
        BY <1>1, <1>3, <1>4, <3>1, EmptyUnmoved DEF Valid, Live, Unmoved
      <3>3. CASE a[1] = "perm"
        <4>1. s # 1 => x = Nil
          BY <1>2, <3>1, <3>3, AddrFacts DEF BoxInv
        <4>2. s # 1 => Moved(x)'
          BY <4>1 DEF Moved
        <4>3. s = 1 => Pending(a, s)'
          BY <1>1, <3>3 DEF Pending
        <4> QED
          BY <3>1, <3>2, <4>2, <4>3 DEF SlotOK
      <3>4. CASE a[1] # "perm"
        <4>1. a[1] \in LeftSpaces'
          BY <1>3, <1>4, <2>1, <3>4, AddrFacts, EmptySpace, SpaceFacts
        <4> QED
          BY <3>1, <3>2, <4>1 DEF SlotOK
      <3> QED
        BY <3>3, <3>4
    <2> QED
      BY <1>1, <1>3, <2>1 DEF SlotsInv, Live
  <1> QED
    BY <1>5, <1>6, <1>7, <1>8, <1>9, <1>10, <1>11 DEF HeapInv

(* A step from one loop of a collection to the next.                       *)
LEMMA TurnHeap ==
    ASSUME TypeOK, HeapInv, UNCHANGED <<mem, top, from, ofrom, root>>,
           \/ pc \in MinorPhase /\ pc' \in MinorPhase
           \/ pc \in MajorPhase /\ pc' \in MajorPhase,
           pc' # "y2o", pc \in Stage2 => pc' \in Stage2,
           \A r \in Roots : (pc' \notin Stage1 /\ Traced(r)') <=> (pc \notin Stage1 /\ Traced(r)),
           LoopsInv', PoolPartsInv',
           \A a \in Addr, s \in Slots :
              Live(a) /\ a[1] \notin LeftSpaces /\ Pending(a, s) => Pending(a, s)',
           \A a \in Addr, s \in Slots :
              Live(a) /\ a[1] \notin LeftSpaces /\ ~(pc \in MinorPhase /\ IsOld(a)) /\ Pending(a, s)'
                => Pending(a, s)
    PROVE  HeapInv'
  <1>1. /\ Collecting /\ Collecting' /\ ~Quiescent' /\ pc \notin Failed /\ pc' \notin Failed
        /\ pc' # "collect"
        /\ (pc' \in MajorPhase <=> pc \in MajorPhase) /\ (pc' \in MinorPhase <=> pc \in MinorPhase)
    BY DEF Collecting, Quiescent, MinorPhase, MajorPhase, Failed
  <1>2. to' = to /\ oto' = oto /\ LeftSpaces' = LeftSpaces /\ NewSpace' = NewSpace
    BY <1>1 DEF to, oto, LeftSpaces, NewSpace
  <1>3. TopsInv'
    <2>1. pc' \in Stage2 => pc \in MinorPhase
      BY <1>1 DEF Stage2, MinorPhase, MajorPhase
    <2>2. pc \notin Stage2 => top[to] = 0
      BY <1>1 DEF HeapInv, TopsInv
    <2> QED
      BY <1>1, <1>2, <2>1, <2>2 DEF HeapInv, TopsInv
  <1>4. FwdInv'
    BY <1>1, <1>2 DEF HeapInv, FwdInv, Live
  <1>5. BoxInv'
    BY DEF HeapInv, BoxInv
  <1>6. RootsInv'
    <2>1. RootsInv /\ \A r \in Roots : Valid(root[r])' <=> Valid(root[r])
      BY DEF HeapInv, Valid, Live
    <2>2. \A r \in Roots : (Moved(root[r])' <=> Moved(root[r])) /\ (Unmoved(root[r])' <=> Unmoved(root[r]))
      BY <1>2 DEF Moved, Unmoved
    <2> QED
      BY <1>1, <2>1, <2>2 DEF RootsInv
  <1>7. SlotsInv'
    <2>1. ASSUME NEW a \in Addr, Live(a), NEW s \in Slots PROVE SlotOK(a, s)'
      <3> PICK x : x = mem[a].slots[s]
        OBVIOUS
      <3>1. /\ mem'[a].slots[s] = x
            /\ Valid(x)' <=> Valid(x)
            /\ Moved(x)' <=> Moved(x)
            /\ Unmoved(x)' <=> Unmoved(x)
        BY <1>2 DEF Valid, Live, Moved, Unmoved
      <3>2. /\ Valid(x)
            /\ a[1] \in LeftSpaces \/ Pending(a, s) \/ (pc \in MinorPhase /\ IsOld(a)) => Unmoved(x)
            /\ a[1] \in LeftSpaces \/ Pending(a, s) \/ Moved(x)
        BY <1>1, <2>1 DEF HeapInv, SlotsInv, SlotOK
      <3>3. /\ Live(a) /\ a[1] \notin LeftSpaces /\ Pending(a, s) => Pending(a, s)'
            /\ Live(a) /\ a[1] \notin LeftSpaces /\ ~(pc \in MinorPhase /\ IsOld(a)) /\ Pending(a, s)'
                 => Pending(a, s)
        OBVIOUS
      <3>4. IsOld(a)' <=> IsOld(a)
        BY DEF IsOld
      <3> QED
        BY <1>1, <1>2, <2>1, <3>1, <3>2, <3>3, <3>4 DEF SlotOK
    <2> QED
      BY <1>1, <2>1 DEF SlotsInv, Live
  <1> QED
    BY <1>3, <1>4, <1>5, <1>6, <1>7 DEF HeapInv

LEMMA PromotedAllHeap ==
    ASSUME TypeOK, HeapInv, PromotedAll
    PROVE  HeapInv'
  <1>1. /\ pc = "y2o" /\ pc' = "remembered" /\ cur' = cur /\ slot' = 1 /\ scan' = scan /\ cur > y2o
        /\ UNCHANGED <<mem, top, from, ofrom, orefs, y2o, root>>
    BY DEF PromotedAll, Goto, heap, pool
  <1>2. /\ pc \in MinorPhase /\ pc' \in MinorPhase /\ pc \in Stage1 /\ pc' \in Stage1
        /\ pc \notin Stage2 /\ pc' \notin Stage2 /\ pc \notin MajorPhase /\ pc' \notin MajorPhase
        /\ pc \notin ScanPhase /\ pc' \notin ScanPhase /\ pc' \notin Failed /\ pc \notin Failed
        /\ Collecting /\ Collecting'
    BY <1>1 DEF MinorPhase, MajorPhase, Stage1, Stage2, ScanPhase, Failed, Collecting
  <1>3. Blk' = Blk
    BY <1>1 DEF Blk, MajorPhase
  <1>4. cur = y2o + 1 /\ y2o \in Nat /\ Len(orefs) \in Nat /\ cur \in Nat
    BY <1>1 DEF HeapInv, LoopsInv, TypeOK
  <1>5. LoopsInv'
    BY <1>1, <1>2, <1>3, <1>4 DEF HeapInv, LoopsInv
  <1>6. PoolPartsInv'
    <2>1. PromoteSpace' = PromoteSpace /\ PromoteEnd' = PromoteEnd
      BY <1>1, <1>2 DEF PromoteSpace, PromoteEnd
    <2> QED
      BY <1>1, <1>2, <2>1 DEF HeapInv, PoolPartsInv, Live, IsOld
  <1>7. ASSUME NEW a \in Addr, NEW s \in Slots
        PROVE  Pending(a, s)' <=> Pending(a, s)
    <2>1. Unscanned(a, s)' <=> Unscanned(a, s)
      BY <1>1, <1>2, <1>3 DEF Unscanned
    <2>2. \A i \in y2o + 1..Len(orefs) : cur < i \/ (cur = i /\ 1 <= s)
      BY <1>4 DEF Slots
    <2>3. Awaits(a, s)' <=> Awaits(a, s)
      BY <1>1, <2>2 DEF Awaits
    <2>4. Skipped(a)' <=> Skipped(a)
      BY <1>1 DEF Skipped, PoolTail, IsOld
    <2> QED
      BY <1>1, <1>2, <2>1, <2>3, <2>4 DEF Pending
  <1> QED
    BY <1>1, <1>2, <1>5, <1>6, <1>7, TurnHeap

LEMMA TracedAllHeap ==
    ASSUME TypeOK, HeapInv, TracedAll
    PROVE  HeapInv'
  <1>1. /\ pc = "remembered" /\ pc' = "scan_old" /\ cur' = 1 /\ slot' = 1 /\ scan' = scan
        /\ cur > Len(orefs) /\ orefs' = <<>> /\ y2o' = 0
        /\ UNCHANGED <<mem, top, from, ofrom, root>>
    BY DEF TracedAll, Goto, heap
  <1>2. /\ pc \in MinorPhase /\ pc' \in MinorPhase /\ pc \in Stage1 /\ pc' \in Stage1
        /\ pc \notin Stage2 /\ pc' \notin Stage2 /\ pc \notin MajorPhase /\ pc' \notin MajorPhase
        /\ pc \notin ScanPhase /\ pc' \in ScanPhase /\ pc' \notin Failed
        /\ Collecting /\ Collecting'
    BY <1>1 DEF MinorPhase, MajorPhase, Stage1, Stage2, ScanPhase, Failed, Collecting
  <1>3. Blk' = Blk
    BY <1>1 DEF Blk, MajorPhase
  <1>4. LoopsInv'
    BY <1>1, <1>2, <1>3 DEF HeapInv, LoopsInv
  <1>5. PoolPartsInv'
    <2>1. Len(orefs') = 0 /\ PromoteEnd' = 0
      BY <1>1, <1>2 DEF PromoteEnd
    <2> QED
      BY <1>1, <2>1 DEF PoolPartsInv
  <1>6. ASSUME NEW a \in Addr, NEW s \in Slots
        PROVE  /\ Pending(a, s) => Pending(a, s)'
               /\ ~IsOld(a) /\ Pending(a, s)' => Pending(a, s)
    <2>1. Unscanned(a, s)' <=> Unscanned(a, s)
      <3>1. 1 <= s
        BY DEF Slots
      <3> QED
        BY <1>1, <1>2, <1>3, <3>1 DEF Unscanned
    <2>2. ~Awaits(a, s)
      <3>1. y2o \in Nat /\ Len(orefs) \in Nat /\ cur \in Nat
        BY DEF TypeOK
      <3> QED
        BY <1>1, <3>1 DEF Awaits
    <2>3. Skipped(a) => Skipped(a)'
      BY <1>1 DEF Skipped, IsOld
    <2>4. ~IsOld(a) => ~Skipped(a)'
      BY DEF Skipped, IsOld
    <2>5. a[1] = "perm" => IsOld(a)
      BY DEF IsOld, YoungSpace
    <2>6. Pending(a, s) <=> Unscanned(a, s) \/ Skipped(a)
      BY <1>1, <1>2, <2>2 DEF Pending
    <2>7. Pending(a, s)' <=> Unscanned(a, s)' \/ Skipped(a)'
      BY <1>1, <1>2 DEF Pending
    <2> QED
      BY <2>1, <2>3, <2>4, <2>6, <2>7
  <1> QED
    BY <1>1, <1>2, <1>4, <1>5, <1>6, TurnHeap

LEMMA BeginStage2Heap ==
    ASSUME TypeOK, HeapInv, BeginStage2
    PROVE  HeapInv'
  <1>1. /\ pc = "scan_old" /\ pc' = "roots" /\ cur' = 1 /\ slot' = 1 /\ scan = top[ofrom]
        /\ scan' = IF NewAgeMax # 0 THEN top[to] ELSE top[ofrom]
        /\ UNCHANGED <<mem, top, from, ofrom, orefs, y2o, root>>
    BY DEF BeginStage2, Goto, heap, pool
  <1>2. /\ pc \in MinorPhase /\ pc' \in MinorPhase /\ pc \in Stage1 /\ pc' \notin Stage1
        /\ pc \notin Stage2 /\ pc' \in Stage2 /\ pc \notin MajorPhase /\ pc' \notin MajorPhase
        /\ pc \in ScanPhase /\ pc' \notin ScanPhase /\ pc' \notin Failed /\ pc \notin Failed
        /\ Collecting /\ Collecting'
    BY <1>1 DEF MinorPhase, MajorPhase, Stage1, Stage2, ScanPhase, Failed, Collecting
  <1>3. Blk = ofrom /\ to' = to /\ Blk' = IF NewAgeMax # 0 THEN to ELSE ofrom
    BY <1>1 DEF Blk, MajorPhase, to
  <1>4. scan' = top[Blk'] /\ top[ofrom] \in Nat /\ top[to] \in Nat
    BY <1>1, <1>3, SpaceFacts, TopFacts
  <1>5. LoopsInv'
    BY <1>1, <1>2, <1>4 DEF LoopsInv
  <1>6. PoolPartsInv'
    <2>1. orefs = <<>> /\ y2o = 0
      BY <1>1 DEF HeapInv, PoolPartsInv, Failed
    <2>2. orefs' = <<>> /\ Len(orefs') = 0 /\ PromoteEnd' = 0
      BY <1>1, <1>2, <2>1 DEF PromoteEnd
    <2> QED
      BY <1>1, <2>1, <2>2 DEF PoolPartsInv
  <1>7. ASSUME NEW a \in Addr, Live(a), NEW s \in Slots
        PROVE  Pending(a, s)' <=> Pending(a, s)
    <2>1. a[2] \in Nat /\ a[2] <= top[a[1]]
      BY <1>7, AddrFacts DEF Live
    <2>2. ~Unscanned(a, s)
      BY <1>1, <1>3, <1>4, <2>1 DEF Unscanned
    <2>3. ~Unscanned(a, s)'
      BY <1>1, <1>3, <1>4, <2>1 DEF Unscanned
    <2>4. Skipped(a)' <=> Skipped(a)
      BY <1>1 DEF Skipped, IsOld
    <2> QED
      BY <1>1, <1>2, <2>2, <2>3, <2>4 DEF Pending
  <1>8. \A r \in Roots : ~Traced(r)'
    BY <1>1 DEF Traced, Roots
  <1> QED
    BY <1>1, <1>2, <1>5, <1>6, <1>7, <1>8, TurnHeap

LEMMA TracedRootsHeap ==
    ASSUME TypeOK, HeapInv, TracedRoots
    PROVE  HeapInv'
  <1>1. /\ \/ pc = "roots" /\ pc' = "scan_young"
           \/ pc = "major_roots" /\ pc' = "major_globals"
        /\ cur' = 1 /\ slot' = 1 /\ scan' = scan /\ cur > NRoots
        /\ UNCHANGED <<mem, top, from, ofrom, orefs, y2o, root>>
    BY DEF TracedRoots, Goto, heap, pool
  <1>2. /\ \/ pc \in MinorPhase /\ pc' \in MinorPhase
           \/ pc \in MajorPhase /\ pc' \in MajorPhase
        /\ pc \notin Stage1 /\ pc' \notin Stage1 /\ pc \notin Failed /\ pc' \notin Failed
        /\ (pc \in Stage2 <=> pc' \in Stage2) /\ (pc \in MajorPhase <=> pc' \in MajorPhase)
        /\ (pc \in MinorPhase <=> pc' \in MinorPhase) /\ (pc \in Stage2 <=> pc \in MinorPhase)
        /\ Collecting /\ Collecting' /\ pc \notin ScanPhase
    BY <1>1 DEF MinorPhase, MajorPhase, Stage1, Stage2, ScanPhase, Failed, Collecting
  <1>3. Blk' = Blk
    BY <1>1 DEF Blk, MajorPhase, to, oto
  <1>4. LoopsInv'
    BY <1>1, <1>2, <1>3 DEF HeapInv, LoopsInv
  <1>5. PoolPartsInv'
    <2>1. PromoteSpace' = PromoteSpace /\ PromoteEnd' = PromoteEnd
      BY <1>1, <1>2 DEF PromoteSpace, PromoteEnd, to
    <2>2. pc' \in {"scan_old"} \cup Stage2 \cup MajorPhase <=> pc \in {"scan_old"} \cup Stage2 \cup MajorPhase
      BY <1>1, <1>2
    <2>3. pc' \in {"scan_old"} \cup MajorPhase <=> pc \in {"scan_old"} \cup MajorPhase
      BY <1>1, <1>2
    <2> QED
      BY <1>1, <1>2, <2>1, <2>2, <2>3 DEF HeapInv, PoolPartsInv, Live, IsOld
  <1>6. ASSUME NEW a \in Addr, NEW s \in Slots
        PROVE  Pending(a, s)' <=> Pending(a, s)
    <2>1. Unscanned(a, s)' <=> Unscanned(a, s)
      <3>1. 1 <= s
        BY DEF Slots
      <3> QED
        BY <1>1, <1>2, <1>3, <3>1 DEF Unscanned
    <2>2. Skipped(a)' <=> Skipped(a)
      BY <1>1 DEF Skipped, IsOld
    <2>3. a[1] = "perm" => 1 <= a[2]
      BY AddrFacts
    <2> QED
      BY <1>1, <1>2, <2>1, <2>2, <2>3 DEF Pending
  <1>7. \A r \in Roots : Traced(r) /\ Traced(r)'
    <2>1. NRoots \in Nat /\ cur \in Nat
      BY SizesAssumption DEF TypeOK
    <2> QED
      BY <1>1, <2>1 DEF Traced, Roots
  <1> QED
    BY <1>1, <1>2, <1>4, <1>5, <1>6, <1>7, TurnHeap

LEMMA TracedGlobalsHeap ==
    ASSUME TypeOK, HeapInv, TracedGlobals
    PROVE  HeapInv'
  <1>1. /\ pc = "major_globals" /\ pc' = "major_scan"
        /\ cur' = 1 /\ slot' = 1 /\ scan' = scan /\ cur > NGlobals
        /\ UNCHANGED <<mem, top, from, ofrom, orefs, y2o, root>>
    BY DEF TracedGlobals, Goto, heap, pool
  <1>2. /\ pc \in MajorPhase /\ pc' \in MajorPhase /\ pc \notin MinorPhase /\ pc' \notin MinorPhase
        /\ pc \notin Stage1 /\ pc' \notin Stage1 /\ pc \notin Failed /\ pc' \notin Failed
        /\ pc \notin Stage2 /\ pc' \notin Stage2
        /\ Collecting /\ Collecting' /\ pc \notin ScanPhase
    BY <1>1 DEF MinorPhase, MajorPhase, Stage1, Stage2, ScanPhase, Failed, Collecting
  <1>3. Blk' = Blk
    BY <1>1 DEF Blk, MajorPhase, oto
  <1>4. LoopsInv'
    BY <1>1, <1>2, <1>3 DEF HeapInv, LoopsInv
  <1>5. PoolPartsInv'
    <2>1. orefs = <<>> /\ y2o = 0
      BY <1>2 DEF HeapInv, PoolPartsInv
    <2>2. orefs' = <<>> /\ Len(orefs') = 0 /\ PromoteEnd' = 0
      BY <1>1, <1>2, <2>1 DEF PromoteEnd
    <2> QED
      BY <1>1, <2>1, <2>2 DEF PoolPartsInv
  <1>6. ASSUME NEW a \in Addr, NEW s \in Slots
        PROVE  Pending(a, s)' <=> Pending(a, s)
    <2>1. Unscanned(a, s)' <=> Unscanned(a, s)
      <3>1. 1 <= s
        BY DEF Slots
      <3> QED
        BY <1>1, <1>2, <1>3, <3>1 DEF Unscanned
    <2>2. a[1] = "perm" => ~(cur <= a[2])
      <3>1. NGlobals \in Nat /\ cur \in Nat
        BY SizesAssumption DEF TypeOK
      <3> QED
        BY <1>1, <3>1, AddrFacts
    <2> QED
      BY <1>1, <1>2, <2>1, <2>2 DEF Pending
  <1>7. \A r \in Roots : Traced(r) /\ Traced(r)'
    BY <1>1 DEF Traced
  <1> QED
    BY <1>1, <1>2, <1>4, <1>5, <1>6, <1>7, TurnHeap

(* An assert that fails leaves the heap as it is.                          *)
LEMMA AbortHeap ==
    ASSUME TypeOK, HeapInv, Abort
    PROVE  HeapInv'
  <1>1. UNCHANGED <<mem, top, from, ofrom>> /\ pc' \in Failed
    BY DEF Abort, heap, Failed
  <1>2. /\ pc' \notin MinorPhase \cup MajorPhase \cup Stage1 \cup Stage2 \cup {"collect"}
        /\ ~Collecting' /\ ~Quiescent'
    BY <1>1 DEF Failed, MinorPhase, MajorPhase, Stage1, Stage2, Collecting, Quiescent
  <1>3. TopsInv'
    BY <1>1, <1>2 DEF HeapInv, TopsInv
  <1>4. LoopsInv'
    BY <1>2 DEF LoopsInv, MajorPhase, MinorPhase
  <1>5. BoxInv'
    BY <1>1 DEF HeapInv, BoxInv
  <1>6. PoolPartsInv' /\ FwdInv' /\ RootsInv' /\ SlotsInv'
    BY <1>1, <1>2 DEF PoolPartsInv, FwdInv, RootsInv, SlotsInv
  <1> QED
    BY <1>3, <1>4, <1>5, <1>6 DEF HeapInv

-----------------------------------------------------------------------------
(***************************************************************************)
(* The end of a collection: the spaces left behind are emptied.            *)
(***************************************************************************)
LEMMA ReclaimFacts ==
    ASSUME TypeOK, NEW sps \in SUBSET (YoungSpace \cup OldSpace), Reclaim(sps)
    PROVE  /\ \A a \in Addr : mem'[a] = IF a[1] \in sps THEN FreeCell ELSE mem[a]
           /\ \A sp \in Spaces : top'[sp] = IF sp \in sps THEN 0 ELSE top[sp]
           /\ \A a \in Addr : Live(a)' <=> Live(a) /\ a[1] \notin sps
           /\ \A x \in Ref : Valid(x) /\ (x # Nil => x[1] \notin sps) => Valid(x)'
  <1>1. \A a \in Addr : mem'[a] = IF a[1] \in sps THEN FreeCell ELSE mem[a]
    BY DEF Reclaim
  <1>2. \A sp \in Spaces : top'[sp] = IF sp \in sps THEN 0 ELSE top[sp]
    BY DEF Reclaim, TypeOK, Spaces
  <1>3. ASSUME NEW a \in Addr PROVE Live(a)' <=> Live(a) /\ a[1] \notin sps
    BY <1>2, AddrFacts DEF Live
  <1>4. \A x \in Ref : Valid(x) /\ (x # Nil => x[1] \notin sps) => Valid(x)'
    BY <1>3 DEF Valid, Ref
  <1> QED
    BY <1>1, <1>2, <1>3, <1>4

(* What both ends leave: nothing is forwarded, and boxes are untouched.    *)
LEMMA ReclaimedInv ==
    ASSUME TypeOK, HeapInv, Collecting, ~Collecting', Reclaim(LeftSpaces),
           \A r \in Roots : Traced(r), pc \notin Stage1, UNCHANGED root
    PROVE  FwdInv' /\ BoxInv' /\ RootsInv'
  <1>1. LeftSpaces \in SUBSET (YoungSpace \cup OldSpace)
    BY SpaceFacts DEF LeftSpaces
  <1>2. pc \notin Failed
    BY DEF Collecting, MinorPhase, MajorPhase, Failed
  <1>3. /\ \A a \in Addr : mem'[a] = IF a[1] \in LeftSpaces THEN FreeCell ELSE mem[a]
        /\ \A x \in Ref : Valid(x) /\ (x # Nil => x[1] \notin LeftSpaces) => Valid(x)'
    BY <1>1, ReclaimFacts
  <1>4. FreeCell.fwd = Nil /\ \A s \in Slots : FreeCell.slots[s] = Nil
    BY DEF FreeCell, NewCell
  <1>5. \A a \in Addr : mem[a].fwd # Nil => a[1] \in LeftSpaces
    BY <1>2 DEF HeapInv, FwdInv
  <1>6. FwdInv'
    <2>1. \A a \in Addr : mem'[a].fwd = Nil
      BY <1>3, <1>4, <1>5
    <2> QED
      BY <2>1 DEF FwdInv
  <1>7. BoxInv'
    BY <1>3, <1>4 DEF HeapInv, BoxInv, Addr
  <1>8. RootsInv'
    <2>1. \A r \in Roots : root[r] \in Ref /\ Valid(root[r]) /\ Moved(root[r])
      BY <1>2 DEF HeapInv, RootsInv, TypeOK
    <2>2. \A r \in Roots : Valid(root[r])'
      BY <1>3, <2>1 DEF Moved, Valid, Live
    <2> QED
      BY <2>2 DEF RootsInv
  <1> QED
    BY <1>6, <1>7, <1>8

(* Everything in use has been visited but the slots of skipped holders,    *)
(* which are stale from now on.                                            *)
LEMMA EndMinorHeap ==
    ASSUME TypeOK, HeapInv, EndMinor
    PROVE  HeapInv'
  <1>1. /\ pc = "scan_young" /\ scan = top[Blk] /\ Reclaim({from})
        /\ from' = IF NewAgeMax # 0 THEN to ELSE from
        /\ y2o' = Len(orefs) /\ pc' \in {"mutator", "alloc"}
        /\ UNCHANGED <<ofrom, orefs, root>>
    BY DEF EndMinor, Goto, Resume
  <1>2. /\ pc \in MinorPhase /\ pc \in Stage2 /\ pc \notin Stage1 /\ pc \notin MajorPhase
        /\ pc \notin Failed /\ Collecting
        /\ pc' \notin MinorPhase \cup MajorPhase \cup Failed \cup Stage1 \cup Stage2
        /\ pc' # "collect" /\ ~Collecting' /\ Quiescent'
    BY <1>1 DEF MinorPhase, MajorPhase, Stage1, Stage2, Failed, Collecting, Quiescent
  <1>3. LeftSpaces = {from} /\ NewSpace = to /\ \A r \in Roots : Traced(r)
    BY <1>1, <1>2 DEF LeftSpaces, NewSpace, Traced
  <1>4. /\ \A a \in Addr : mem'[a] = IF a[1] = from THEN FreeCell ELSE mem[a]
        /\ \A sp \in Spaces : top'[sp] = IF sp = from THEN 0 ELSE top[sp]
        /\ \A a \in Addr : Live(a)' <=> Live(a) /\ a[1] # from
        /\ \A x \in Ref : Valid(x) /\ (x # Nil => x[1] # from) => Valid(x)'
    <2>1. {from} \in SUBSET (YoungSpace \cup OldSpace)
      BY SpaceFacts
    <2> QED
      BY <1>1, <2>1, ReclaimFacts
  <1>5. FwdInv' /\ BoxInv' /\ RootsInv'
    BY <1>1, <1>2, <1>3, ReclaimedInv
  <1>6. oto' = oto /\ to' = (IF NewAgeMax # 0 THEN from ELSE to) /\ (NewAgeMax = 0 => top[to] = 0)
    <2>1. NewAgeMax = 0 => top[to] = 0
      BY <1>2 DEF HeapInv, TopsInv
    <2>2. oto' = oto
      BY <1>1 DEF oto
    <2>3. NewAgeMax # 0 => to' = from
      BY <1>1 DEF to, TypeOK, YoungSpace
    <2>4. NewAgeMax = 0 => to' = to
      BY <1>1 DEF to
    <2> QED
      BY <2>1, <2>2, <2>3, <2>4
  <1>7. TopsInv'
    <2>1. top["perm"] = NGlobals /\ top[oto] = 0
      BY <1>2 DEF HeapInv, TopsInv
    <2>2. top'["perm"] = NGlobals /\ top'[oto] = 0 /\ top'[from] = 0 /\ top'[to] = top[to]
      BY <1>4, <2>1, SpaceFacts
    <2> QED
      BY <1>2, <1>6, <2>2 DEF TopsInv
  <1>8. LoopsInv'
    BY <1>2 DEF LoopsInv, MinorPhase, MajorPhase
  <1>9. PoolPartsInv'
    <2>1. /\ PromoteSpace = to /\ PromoteEnd = Len(orefs)
          /\ PromoteSpace' = from' /\ PromoteEnd' = Len(orefs) /\ Len(orefs) \in Nat
      BY <1>1, <1>2 DEF PromoteSpace, PromoteEnd, TypeOK
    <2>2. /\ \A i \in 1..Len(orefs) : orefs[i][1] = to /\ Live(orefs[i])
          /\ \A i, j \in 1..Len(orefs) : i < j => orefs[i][2] < orefs[j][2]
      BY <1>2, <2>1 DEF HeapInv, PoolPartsInv
    <2>3. ASSUME NEW i \in 1..Len(orefs) PROVE orefs[i][1] = from' /\ Live(orefs[i])'
      <3>1. orefs[i] \in Addr /\ orefs[i][1] = to /\ Live(orefs[i])
        BY <2>2 DEF TypeOK
      <3>2. NewAgeMax # 0
        BY <1>6, <3>1, EmptySpace
      <3>3. orefs[i][1] = from' /\ orefs[i][1] # from
        BY <1>1, <3>1, <3>2, SpaceFacts
      <3>4. Live(orefs[i])'
        <4>1. orefs'[i] = orefs[i]
          BY <1>1
        <4> QED
          BY <1>4, <3>1, <3>3, <4>1 DEF Live
      <3> QED
        BY <3>3, <3>4
    <2>4. PromoteEnd' + 1..Len(orefs') = {}
      BY <1>1, <2>1
    <2> QED
      BY <1>1, <1>2, <2>1, <2>2, <2>3, <2>4 DEF PoolPartsInv
  <1>10. SlotsInv'
    <2>1. ASSUME NEW a \in Addr, Live(a)', NEW s \in Slots, NEW x, x = mem'[a].slots[s]
          PROVE  \/ Stale(a)'
                 \/ Valid(x)' /\ ((IsOld(a) /\ x # Nil /\ IsYoung(x)) => a \in PoolTail')
      <3>1. Live(a) /\ a[1] # from /\ mem'[a] = mem[a] /\ x = mem[a].slots[s] /\ x \in Ref
        BY <1>4, <2>1, CellFacts
      <3>2. SlotOK(a, s)
        BY <1>2, <3>1 DEF HeapInv, SlotsInv
      <3>3. /\ Valid(x)
            /\ IsOld(a) => Unmoved(x)
            /\ Pending(a, s) \/ Moved(x)
        BY <1>2, <1>3, <3>1, <3>2 DEF SlotOK
      <3>4. ~Unscanned(a, s)
        <4>1. top[Blk] \in Nat /\ a[2] \in Nat /\ a[2] <= top[a[1]]
          BY <1>2, <3>1, AddrFacts, FilledSpace, TopFacts DEF Live
        <4> QED
          BY <1>1, <4>1 DEF Unscanned
      <3>5. CASE Skipped(a)
        <4>1. PoolTail' = {}
          <5>1. y2o' + 1..Len(orefs') = {}
            BY <1>1 DEF TypeOK
          <5> QED
            BY <5>1 DEF PoolTail
        <4>2. IsOld(a) /\ mem'[a].added
          BY <3>1, <3>5 DEF Skipped
        <4> QED
          BY <4>1, <4>2 DEF Stale
      <3>6. CASE ~Skipped(a)
        <4>1. ~Pending(a, s)
          BY <1>1, <1>2, <3>4, <3>6 DEF Pending
        <4>2. x # Nil => x[1] # from
          BY <1>3, <3>3, <4>1 DEF Moved
        <4>3. IsOld(a) /\ x # Nil => ~IsYoung(x)
          BY <1>3, <3>3, <4>2, SpaceFacts DEF Unmoved, IsYoung
        <4> QED
          BY <1>4, <3>1, <3>3, <4>2, <4>3
      <3> QED
        BY <3>5, <3>6
    <2> QED
      BY <1>2, <2>1 DEF SlotsInv, IsOld, IsYoung
  <1> QED
    BY <1>5, <1>7, <1>8, <1>9, <1>10 DEF HeapInv

(* Everything in use has been visited, so no young cell is referred to.    *)
LEMMA EndMajorHeap ==
    ASSUME TypeOK, HeapInv, EndMajor
    PROVE  HeapInv'
  <1>1. /\ pc = "major_scan" /\ scan = top[oto] /\ Reclaim({from, ofrom})
        /\ ofrom' = oto /\ pc' \in {"mutator", "alloc"}
        /\ UNCHANGED <<from, orefs, y2o, root>>
    BY DEF EndMajor, Goto, Resume, pool
  <1>2. /\ pc \in MajorPhase /\ pc \notin MinorPhase /\ pc \notin Stage1 /\ pc \notin Stage2
        /\ pc \notin Failed /\ Collecting
        /\ pc' \notin MinorPhase \cup MajorPhase \cup Failed \cup Stage1 \cup Stage2
        /\ pc' # "collect" /\ ~Collecting' /\ Quiescent'
    BY <1>1 DEF MinorPhase, MajorPhase, Stage1, Stage2, Failed, Collecting, Quiescent
  <1>3. /\ LeftSpaces = {from, ofrom} /\ NewSpace = oto /\ Blk = oto
        /\ \A r \in Roots : Traced(r)
    BY <1>1, <1>2 DEF LeftSpaces, NewSpace, Traced, Blk
  <1>4. /\ \A a \in Addr : mem'[a] = IF a[1] \in {from, ofrom} THEN FreeCell ELSE mem[a]
        /\ \A sp \in Spaces : top'[sp] = IF sp \in {from, ofrom} THEN 0 ELSE top[sp]
        /\ \A a \in Addr : Live(a)' <=> Live(a) /\ a[1] \notin {from, ofrom}
        /\ \A x \in Ref : Valid(x) /\ (x # Nil => x[1] \notin {from, ofrom}) => Valid(x)'
    <2>1. {from, ofrom} \in SUBSET (YoungSpace \cup OldSpace)
      BY SpaceFacts
    <2> QED
      BY <1>1, <2>1, ReclaimFacts
  <1>5. FwdInv' /\ BoxInv' /\ RootsInv'
    BY <1>1, <1>2, <1>3, ReclaimedInv
  <1>6. to' = to /\ oto' = ofrom
    BY <1>1 DEF to, oto, TypeOK, OldSpace
  <1>7. top["perm"] = NGlobals /\ top[to] = 0
    BY <1>2 DEF HeapInv, TopsInv
  <1>8. TopsInv'
    <2>1. top'["perm"] = NGlobals /\ top'[ofrom] = 0 /\ top'[to] = 0
      BY <1>4, <1>7, SpaceFacts
    <2> QED
      BY <1>2, <1>6, <2>1 DEF TopsInv
  <1>9. LoopsInv'
    BY <1>2 DEF LoopsInv, MinorPhase, MajorPhase
  <1>10. PoolPartsInv'
    <2>1. orefs = <<>> /\ y2o = 0
      BY <1>2 DEF HeapInv, PoolPartsInv
    <2>2. Len(orefs') = 0 /\ PromoteEnd' = 0
      BY <1>1, <1>2, <2>1 DEF PromoteEnd
    <2> QED
      BY <1>1, <1>2, <2>2 DEF PoolPartsInv
  <1>11. SlotsInv'
    <2>1. ASSUME NEW a \in Addr, Live(a)', NEW s \in Slots, NEW x, x = mem'[a].slots[s]
          PROVE  Valid(x)' /\ (x # Nil => ~IsYoung(x))
      <3>1. Live(a) /\ a[1] \notin {from, ofrom} /\ x = mem[a].slots[s] /\ x \in Ref
        BY <1>4, <2>1, CellFacts
      <3>2. SlotOK(a, s)
        BY <1>2, <3>1 DEF HeapInv, SlotsInv
      <3>3. Valid(x) /\ (Pending(a, s) \/ Moved(x))
        BY <1>2, <1>3, <3>1, <3>2 DEF SlotOK
      <3>4. ~Unscanned(a, s)
        <4>1. top[Blk] \in Nat /\ a[2] \in Nat /\ a[2] <= top[a[1]]
          BY <1>2, <3>1, AddrFacts, FilledSpace, TopFacts DEF Live
        <4> QED
          BY <1>1, <1>3, <4>1 DEF Unscanned
      <3>5. ~Pending(a, s)
        BY <1>1, <1>2, <3>4 DEF Pending
      <3>6. x # Nil => x[1] \notin {from, ofrom}
        BY <1>3, <3>3, <3>5 DEF Moved
      <3>7. x # Nil => x[1] # to
        BY <1>7, <3>1, <3>3, EmptyUnmoved
      <3> QED
        BY <1>4, <3>1, <3>3, <3>6, <3>7, SpaceFacts DEF IsYoung
    <2> QED
      BY <1>2, <2>1 DEF SlotsInv, IsOld, IsYoung
  <1> QED
    BY <1>5, <1>8, <1>9, <1>10, <1>11 DEF HeapInv

-----------------------------------------------------------------------------
(***************************************************************************)
(* The mutator and the allocator.                                          *)
(***************************************************************************)
LEMMA HolderLive ==
    ASSUME TypeOK, HeapInv, Quiescent, NEW h \in Holders
    PROVE  h \in Addr /\ Live(h)
  <1>1. CASE h \in BoxAddr
    <2>1. h \in Addr /\ h[1] = "perm" /\ h[2] <= NGlobals
      BY <1>1, SizesAssumption DEF Addr, BoxAddr
    <2> QED
      BY <2>1 DEF HeapInv, TopsInv, Live
  <1>2. CASE h \notin BoxAddr
    <2>1. PICK r \in Roots : h = root[r] /\ h # Nil
      BY <1>2 DEF Holders
    <2>2. root[r] \in Ref /\ Valid(root[r])
      BY QuiescentFacts DEF TypeOK, HeapInv, RootsInv
    <2> QED
      BY <2>1, <2>2 DEF Valid, Ref
  <1> QED
    BY <1>1, <1>2

(* What a step between collections keeps of the heap invariant.            *)
LEMMA QuiescentHeap ==
    ASSUME TypeOK, HeapInv, Quiescent, Quiescent', UNCHANGED <<from, ofrom, y2o>>,
           \A sp \in Spaces : top[sp] <= top'[sp] /\ (sp # from => top'[sp] = top[sp]),
           top' \in [Spaces -> Nat],
           \A i \in 1..y2o : orefs'[i] = orefs[i],
           \A i \in y2o + 1..Len(orefs') : IsOld(orefs'[i]) /\ Live(orefs[i])',
           \A a \in Addr : Live(a) => mem'[a].fwd = mem[a].fwd,
           \A a \in Addr : ~Live(a) => mem'[a].fwd = Nil
    PROVE  /\ TopsInv' /\ LoopsInv' /\ PoolPartsInv' /\ FwdInv'
           /\ (\A r \in Roots : Valid(root[r])') => RootsInv'
  <1>1. /\ pc \notin MinorPhase \cup MajorPhase \cup Failed \cup Stage1 \cup Stage2
        /\ pc' \notin MinorPhase \cup MajorPhase \cup Failed \cup Stage1 \cup Stage2
        /\ ~Collecting /\ ~Collecting'
        /\ pc' \notin {"scan_old"} \cup Stage2 \cup MajorPhase
    BY DEF Quiescent, MinorPhase, MajorPhase, Failed, Stage1, Stage2, Collecting
  <1>2. to' = to /\ oto' = oto
    BY DEF to, oto
  <1>3. TopsInv'
    <2>1. top["perm"] = NGlobals /\ top[oto] = 0 /\ top[to] = 0
      BY <1>1 DEF HeapInv, TopsInv
    <2>2. top'["perm"] = NGlobals /\ top'[oto] = 0 /\ top'[to] = 0
      BY <2>1, SpaceFacts
    <2> QED
      BY <1>1, <1>2, <2>2 DEF TopsInv
  <1>4. LoopsInv'
    BY <1>1 DEF LoopsInv, MinorPhase, MajorPhase, Stage1
  <1>5. PoolPartsInv'
    <2>1. PromoteSpace = from /\ PromoteEnd = y2o /\ PromoteSpace' = from /\ PromoteEnd' = y2o
      BY <1>1 DEF PromoteSpace, PromoteEnd
    <2>2. /\ \A i \in 1..y2o : orefs[i][1] = from /\ Live(orefs[i])
          /\ \A i, j \in 1..y2o : i < j => orefs[i][2] < orefs[j][2]
      BY <1>1, <2>1 DEF HeapInv, PoolPartsInv
    <2>3. \A i \in 1..y2o : orefs[i] \in Addr
      BY DEF TypeOK
    <2>4. \A a \in Addr : Live(a) => Live(a)'
      BY LiveKept
    <2>5. \A i \in 1..y2o : orefs'[i][1] = from /\ Live(orefs[i])'
      <3>1. ASSUME NEW i \in 1..y2o PROVE orefs'[i][1] = from /\ Live(orefs[i])'
        <4> PICK a : a = orefs[i]
          OBVIOUS
        <4>1. a \in Addr /\ Live(a) /\ a[1] = from /\ orefs'[i] = a
          BY <2>2, <2>3
        <4>2. Live(a)'
          BY <2>4, <4>1
        <4> QED
          BY <4>1, <4>2 DEF Live
      <3> QED
        BY <3>1
    <2>6. \A i, j \in 1..y2o : i < j => orefs'[i][2] < orefs'[j][2]
      BY <2>2
    <2> QED
      BY <1>1, <2>1, <2>5, <2>6 DEF PoolPartsInv, IsOld, Live
  <1>6. FwdInv'
    <2>1. \A a \in Addr : mem[a].fwd = Nil
      BY <1>1 DEF HeapInv, FwdInv
    <2>2. \A a \in Addr : mem'[a].fwd = Nil
      BY <2>1
    <2> QED
      BY <2>2 DEF FwdInv
  <1>7. (\A r \in Roots : Valid(root[r])') => RootsInv'
    BY <1>1 DEF RootsInv
  <1> QED
    BY <1>3, <1>4, <1>5, <1>6, <1>7

(* A step that moves the program counter or writes one protected variable. *)
LEMMA QuietHeap ==
    ASSUME TypeOK, HeapInv, Quiescent, Quiescent', UNCHANGED <<mem, top, from, ofrom, orefs, y2o>>,
           \A r \in Roots : Valid(root'[r]), pc' = "collect" => Defined'
    PROVE  HeapInv'
  <1>1. \A sp \in Spaces : top[sp] <= top'[sp] /\ (sp # from => top'[sp] = top[sp])
    BY TopFacts
  <1>2. top' \in [Spaces -> Nat]
    BY DEF TypeOK, Spaces
  <1>3. \A i \in y2o + 1..Len(orefs') : IsOld(orefs'[i]) /\ Live(orefs[i])'
    <2>1. PromoteEnd = y2o /\ pc \notin Failed
      BY QuiescentFacts DEF PromoteEnd, HeapInv
    <2> QED
      BY <2>1 DEF HeapInv, PoolPartsInv, Live
  <1>4. \A a \in Addr : mem'[a].fwd = mem[a].fwd /\ mem[a].fwd = Nil
    BY QuiescentFacts DEF HeapInv, FwdInv, Collecting
  <1>5. \A r \in Roots : Valid(root[r])'
    BY DEF Valid, Live
  <1>6. TopsInv' /\ LoopsInv' /\ PoolPartsInv' /\ FwdInv' /\ RootsInv'
    BY <1>1, <1>2, <1>3, <1>4, <1>5, QuiescentHeap
  <1>7. BoxInv'
    BY DEF HeapInv, BoxInv
  <1>8. SlotsInv'
    <2>1. ~Collecting'
      BY DEF Quiescent, Collecting, MinorPhase, MajorPhase
    <2> QED
      BY <2>1 DEF HeapInv, SlotsInv, Live, Stale, IsOld, IsYoung, Valid, PoolTail
  <1> QED
    BY <1>6, <1>7, <1>8 DEF HeapInv

(* What SLOT_SET does: the holder is in the pool afterwards when it has to *)
(* be.                                                                     *)
LEMMA StoreFacts ==
    ASSUME TypeOK, HeapInv, NEW h \in Holders, NEW s \in HolderSlots(h),
           NEW v \in {root[r] : r \in Roots} \cup {Nil}, Store(h, s, v)
    PROVE  /\ pc = "mutator" /\ Defined /\ Quiescent /\ Quiescent' /\ ~Collecting'
           /\ UNCHANGED <<top, from, ofrom, y2o, root>>
           /\ h \in Addr /\ s \in Slots /\ Live(h) /\ v \in Ref /\ Valid(v)
           /\ \A a \in Addr, t \in Slots :
                 mem'[a].slots[t] = IF a = h /\ t = s THEN v ELSE mem[a].slots[t]
           /\ \A a \in Addr : mem'[a].fwd = mem[a].fwd
           /\ \A a \in Addr : mem[a].added => mem'[a].added
           /\ \A a \in Addr : mem'[a].added => mem[a].added \/ a \in PoolTail'
           /\ \A i \in 1..y2o : orefs'[i] = orefs[i]
           /\ \A i \in y2o + 1..Len(orefs') : IsOld(orefs'[i]) /\ Live(orefs[i])'
           /\ PoolTail \subseteq PoolTail' /\ PoolTail' \subseteq PoolTail \cup {h}
           /\ Remembers(h, v) /\ ~mem[h].added => h \in PoolTail'
           /\ h \in PoolTail' => h \in PoolTail \/ ~mem[h].added
  <1>1. PICK m : m = [mem EXCEPT ![h].slots[s] = v]
    OBVIOUS
  <1>2. /\ pc = "mutator" /\ Defined /\ Quiescent
        /\ UNCHANGED <<top, from, ofrom, y2o, root>>
    BY DEF Store, Mutating, Quiescent
  <1>3. /\ Remembers(h, v) /\ ~mem[h].added =>
              /\ mem' = [m EXCEPT ![h].added = TRUE]
              /\ orefs' = Append(orefs, h)
              /\ pc' \in {"collect", "mutator"}
        /\ ~(Remembers(h, v) /\ ~mem[h].added) =>
              mem' = m /\ orefs' = orefs /\ pc' = "mutator"
    BY <1>1, <1>2 DEF Store
  <1>4. h \in Addr /\ s \in Slots /\ Live(h)
    BY <1>2, HolderLive, HolderFacts
  <1>5. v \in Ref /\ Valid(v)
    <2>1. \A r \in Roots : root[r] \in Ref /\ Valid(root[r])
      BY <1>2, QuiescentFacts DEF HeapInv, RootsInv, TypeOK
    <2>2. Valid(Nil) /\ Nil \in Ref
      BY DEF Valid, Ref
    <2> QED
      BY <2>1, <2>2
  <1>6. /\ m \in [Addr -> Cell]
        /\ \A a \in Addr, t \in Slots :
              m[a].slots[t] = IF a = h /\ t = s THEN v ELSE mem[a].slots[t]
        /\ \A a \in Addr : m[a].fwd = mem[a].fwd /\ m[a].added = mem[a].added
    <2>1. mem \in [Addr -> Cell]
      BY DEF TypeOK
    <2>2. Wrote(m, mem, h, s, v)
      BY <1>1 DEF Wrote
    <2>3. m \in [Addr -> Cell]
      BY <1>1, <1>4, <1>5, <2>1, SlotWrite
    <2>4. /\ \A a \in Addr, t \in Slots :
                m[a].slots[t] = IF a = h /\ t = s THEN v ELSE mem[a].slots[t]
          /\ \A a \in Addr : m[a].fwd = mem[a].fwd /\ m[a].added = mem[a].added
      BY <1>4, <2>1, <2>2, SlotWritten
    <2> QED
      BY <2>3, <2>4
  <1>7. /\ \A a \in Addr : mem'[a].slots = m[a].slots /\ mem'[a].fwd = m[a].fwd
        /\ \A a \in Addr : a # h => mem'[a].added = m[a].added
        /\ Remembers(h, v) /\ ~mem[h].added => mem'[h].added
        /\ ~(Remembers(h, v) /\ ~mem[h].added) => mem'[h].added = m[h].added
    <2>1. CASE Remembers(h, v) /\ ~mem[h].added
      <3>1. mem' = [m EXCEPT ![h].added = TRUE]
        BY <1>3, <2>1
      <3>2. \A a \in Addr : a # h => mem'[a] = m[a]
        BY <1>4, <1>6, <3>1
      <3>3. mem'[h] = [m[h] EXCEPT !.added = TRUE]
        BY <1>4, <1>6, <3>1
      <3>4. m[h] \in Cell
        BY <1>4, <1>6
      <3>5. mem'[h].slots = m[h].slots /\ mem'[h].fwd = m[h].fwd /\ mem'[h].added = TRUE
        BY <3>3, <3>4 DEF Cell
      <3> QED
        BY <2>1, <3>2, <3>5
    <2>2. CASE ~(Remembers(h, v) /\ ~mem[h].added)
      BY <1>3, <2>2
    <2> QED
      BY <2>1, <2>2
  <1>8. /\ \A a \in Addr, t \in Slots :
              mem'[a].slots[t] = IF a = h /\ t = s THEN v ELSE mem[a].slots[t]
        /\ \A a \in Addr : mem'[a].fwd = mem[a].fwd
        /\ \A a \in Addr : mem[a].added => mem'[a].added
    <2>1. \A a \in Addr, t \in Slots :
              mem'[a].slots[t] = IF a = h /\ t = s THEN v ELSE mem[a].slots[t]
      BY <1>6, <1>7
    <2>2. \A a \in Addr : mem'[a].fwd = mem[a].fwd
      BY <1>6, <1>7
    <2>3. \A a \in Addr : mem[a].added => mem'[a].added
      BY <1>4, <1>6, <1>7, Zenon
    <2> QED
      BY <2>1, <2>2, <2>3
  <1>9. /\ Quiescent' /\ ~Collecting'
        /\ orefs \in Seq(Addr) /\ y2o \in 0..Len(orefs) /\ Len(orefs) \in Nat
    BY <1>3 DEF Quiescent, Collecting, MinorPhase, MajorPhase, TypeOK
  <1>10. /\ \A i \in 1..y2o : orefs'[i] = orefs[i]
         /\ \A i \in y2o + 1..Len(orefs') : IsOld(orefs'[i]) /\ Live(orefs[i])'
         /\ PoolTail \subseteq PoolTail' /\ PoolTail' \subseteq PoolTail \cup {h}
         /\ Remembers(h, v) /\ ~mem[h].added => h \in PoolTail'
         /\ h \in PoolTail' => h \in PoolTail \/ ~mem[h].added
    <2>1. PromoteEnd = y2o /\ pc \notin Failed
      BY <1>2, QuiescentFacts DEF PromoteEnd, HeapInv
    <2>2. \A i \in y2o + 1..Len(orefs) : IsOld(orefs[i]) /\ Live(orefs[i])
      BY <2>1 DEF HeapInv, PoolPartsInv
    <2>3. CASE orefs' = orefs /\ ~(Remembers(h, v) /\ ~mem[h].added)
      BY <1>2, <2>2, <2>3 DEF Live, PoolTail
    <2>4. CASE Remembers(h, v) /\ ~mem[h].added /\ orefs' = Append(orefs, h)
      <3>1. /\ Len(orefs') = Len(orefs) + 1 /\ orefs'[Len(orefs) + 1] = h
            /\ \A i \in 1..Len(orefs) : orefs'[i] = orefs[i]
        BY <1>4, <1>9, <2>4
      <3>2. IsOld(h) /\ Live(h)
        BY <1>4, <2>4 DEF Remembers
      <3>3. \A i \in 1..y2o : orefs'[i] = orefs[i]
        BY <1>9, <3>1
      <3>4. \A i \in y2o + 1..Len(orefs') : IsOld(orefs'[i]) /\ Live(orefs'[i])
        <4>1. ASSUME NEW i \in y2o + 1..Len(orefs') PROVE IsOld(orefs'[i]) /\ Live(orefs'[i])
          <5>1. CASE i = Len(orefs) + 1
            BY <3>1, <3>2, <5>1
          <5>2. CASE i # Len(orefs) + 1
            <6>1. i \in y2o + 1..Len(orefs) /\ i \in 1..Len(orefs)
              BY <1>9, <3>1, <5>2
            <6> QED
              BY <2>2, <3>1, <6>1
          <5> QED
            BY <5>1, <5>2
        <4> QED
          BY <4>1
      <3>5. PoolTail' = PoolTail \cup {h}
        <4>1. PoolTail' = {orefs'[i] : i \in y2o + 1..Len(orefs) + 1}
          BY <1>2, <3>1 DEF PoolTail
        <4>2. y2o + 1..Len(orefs) + 1 = (y2o + 1..Len(orefs)) \cup {Len(orefs) + 1}
          BY <1>9
        <4>3. \A i \in y2o + 1..Len(orefs) : orefs'[i] = orefs[i]
          BY <1>9, <3>1
        <4>4. PoolTail = {orefs[i] : i \in y2o + 1..Len(orefs)}
          BY DEF PoolTail
        <4> QED
          BY <3>1, <4>1, <4>2, <4>3, <4>4
      <3> QED
        BY <1>2, <2>4, <3>3, <3>4, <3>5 DEF Live
    <2> QED
      BY <1>3, <2>3, <2>4
  <1>11. \A a \in Addr : mem'[a].added => mem[a].added \/ a \in PoolTail'
    <2>1. ASSUME NEW a \in Addr, mem'[a].added, ~mem[a].added PROVE a \in PoolTail'
      <3>1. CASE a # h
        BY <1>6, <1>7, <2>1, <3>1, Zenon
      <3>2. CASE a = h /\ ~(Remembers(h, v) /\ ~mem[h].added)
        BY <1>6, <1>7, <2>1, <3>2, Zenon
      <3>3. CASE a = h /\ Remembers(h, v) /\ ~mem[h].added
        BY <1>10, <3>3
      <3> QED
        BY <3>1, <3>2, <3>3
    <2> QED
      BY <2>1
  <1> QED
    BY <1>2, <1>4, <1>5, <1>8, <1>9, <1>10, <1>11

LEMMA StoreHeap ==
    ASSUME TypeOK, HeapInv, NEW h \in Holders, NEW s \in HolderSlots(h),
           NEW v \in {root[r] : r \in Roots} \cup {Nil}, Store(h, s, v)
    PROVE  HeapInv'
  <1>1. pc = "mutator" /\ Defined /\ Quiescent /\ UNCHANGED <<top, from, ofrom, y2o, root>>
    BY StoreFacts
  <1>2. h \in Addr /\ s \in Slots /\ Live(h)
    BY StoreFacts
  <1>3. v \in Ref /\ Valid(v)
    BY StoreFacts
  <1>4. /\ \A a \in Addr, t \in Slots :
              mem'[a].slots[t] = IF a = h /\ t = s THEN v ELSE mem[a].slots[t]
        /\ \A a \in Addr : mem'[a].fwd = mem[a].fwd
        /\ \A a \in Addr : mem[a].added => mem'[a].added
    BY StoreFacts
  <1>5. Quiescent' /\ ~Collecting'
    BY StoreFacts
  <1>6. /\ \A i \in 1..y2o : orefs'[i] = orefs[i]
        /\ \A i \in y2o + 1..Len(orefs') : IsOld(orefs'[i]) /\ Live(orefs[i])'
        /\ PoolTail \subseteq PoolTail' /\ PoolTail' \subseteq PoolTail \cup {h}
        /\ Remembers(h, v) /\ ~mem[h].added => h \in PoolTail'
        /\ h \in PoolTail' => h \in PoolTail \/ ~mem[h].added
    BY StoreFacts
  <1>7. TopsInv' /\ LoopsInv' /\ PoolPartsInv' /\ FwdInv' /\ RootsInv'
    <2>1. \A sp \in Spaces : top[sp] <= top'[sp] /\ (sp # from => top'[sp] = top[sp])
      BY <1>1, TopFacts
    <2>2. top' \in [Spaces -> Nat]
      BY <1>1 DEF TypeOK, Spaces
    <2>3. \A a \in Addr : mem'[a].fwd = mem[a].fwd /\ mem[a].fwd = Nil
      BY <1>1, <1>4, QuiescentFacts DEF HeapInv, FwdInv, Collecting
    <2>4. \A r \in Roots : Valid(root[r])'
      BY <1>1, QuiescentFacts DEF HeapInv, RootsInv, Valid, Live
    <2> QED
      BY <1>1, <1>5, <1>6, <2>1, <2>2, <2>3, <2>4, QuiescentHeap
  <1>8. BoxInv'
    <2>1. h \in BoxAddr => s = 1
      BY <1>2, AddrFacts DEF HolderSlots, IsBox
    <2>2. BoxAddr \subseteq Addr
      BY DEF Addr
    <2> QED
      BY <1>4, <2>1, <2>2 DEF HeapInv, BoxInv
  <1>9. SlotsInv'
    <2>1. ASSUME NEW a \in Addr, Live(a), NEW t \in Slots, NEW x, x = mem'[a].slots[t]
          PROVE  \/ Stale(a)'
                 \/ Valid(x) /\ ((IsOld(a) /\ x # Nil /\ IsYoung(x)) => a \in PoolTail')
      <3>1. Stale(a) => Stale(a)'
        BY <1>4, <1>6 DEF Stale, IsOld
      <3>2. CASE a = h /\ t = s
        <4>1. x = v
          BY <1>4, <2>1, <3>2
        <4>2. IsOld(a) /\ x # Nil /\ IsYoung(x) => a \in PoolTail' \/ Stale(a)
          BY <1>6, <3>2, <4>1 DEF Remembers, Stale
        <4> QED
          BY <1>3, <3>1, <4>1, <4>2
      <3>3. CASE ~(a = h /\ t = s)
        <4>1. x = mem[a].slots[t]
          BY <1>4, <2>1, <3>3
        <4>2. \/ Stale(a)
              \/ Valid(x) /\ ((IsOld(a) /\ x # Nil /\ IsYoung(x)) => a \in PoolTail)
          BY <1>1, <2>1, <4>1 DEF HeapInv, SlotsInv
        <4> QED
          BY <1>6, <3>1, <4>2
      <3> QED
        BY <3>2, <3>3
    <2>2. Defined'
      <3>1. \A r \in Roots : ~Dangling(root[r])
        BY <1>1 DEF Defined
      <3>2. \A a \in Addr, t \in Slots : InUse(a) => ~Dangling(mem[a].slots[t])
        BY <1>1 DEF Defined, Allocated
      <3>3. ~Dangling(v)
        BY <1>1, <1>3, QuiescentFacts DEF HeapInv
      <3>4. \A a \in Addr, t \in Slots : InUse(a) => ~Dangling(mem'[a].slots[t])
        BY <1>4, <3>2, <3>3
      <3>5. \A r \in Roots : ~Dangling(root[r])'
        BY <1>1, <3>1 DEF Dangling, InUse
      <3>6. \A a \in Addr, t \in Slots : InUse(a)' => ~Dangling(mem[a].slots[t])'
        BY <1>1, <3>4 DEF Dangling, InUse
      <3> QED
        BY <3>5, <3>6 DEF Defined, Allocated
    <2> QED
      BY <1>1, <1>5, <2>1, <2>2 DEF SlotsInv, Live, Valid, IsOld, IsYoung
  <1> QED
    BY <1>7, <1>8, <1>9 DEF HeapInv

LEMMA DefinedKept ==
    ASSUME Defined, UNCHANGED <<mem, top, from, ofrom, root>>
    PROVE  Defined'
  BY DEF Defined, Allocated, Dangling, InUse

(* The new cell is young, and refers to what protected variables hold.     *)
LEMMA AllocFacts ==
    ASSUME TypeOK, HeapInv, Alloc, NEW new, new = <<from, top[from] + 1>>
    PROVE  /\ pc = "alloc" /\ pc' = "mutator" /\ Quiescent /\ Quiescent' /\ ~Collecting'
           /\ UNCHANGED <<from, ofrom, orefs, y2o>>
           /\ new \in Addr /\ new[1] = from /\ ~Live(new) /\ ~IsOld(new)
           /\ root' = [root EXCEPT ![req.dst] = new]
           /\ mem'[new].fwd = Nil
           /\ \A s \in Slots : mem'[new].slots[s] \in Ref /\ Valid(mem'[new].slots[s])
           /\ \A a \in Addr : a # new => mem'[a] = mem[a]
           /\ top' \in [Spaces -> Nat]
           /\ \A sp \in Spaces : top[sp] <= top'[sp] /\ (sp # from => top'[sp] = top[sp])
           /\ \A a \in Addr : Live(a) => Live(a)'
           /\ \A x \in Ref : Valid(x) => Valid(x)'
           /\ Live(new)' /\ \A a \in Addr : Live(a)' => Live(a) \/ a = new
  <1> DEFINE arg(i) == IF i = 0 THEN Nil ELSE root[i]
  <1>1. PICK ss : ss = [s \in Slots |-> arg(req.src[s])]
    OBVIOUS
  <1>2. /\ pc = "alloc" /\ pc' = "mutator" /\ Defined /\ Quiescent /\ Quiescent' /\ ~Collecting'
        /\ mem' = [mem EXCEPT ![new] = NewCell(ss)]
        /\ top' = [top EXCEPT ![from] = @ + 1]
        /\ root' = [root EXCEPT ![req.dst] = new]
        /\ top[from] + 1 < NovSize
        /\ UNCHANGED <<from, ofrom, orefs, y2o>>
    BY <1>1 DEF Alloc, Fits, pool, Quiescent, Collecting, MinorPhase, MajorPhase
  <1>3. /\ from \in Spaces /\ from # "perm" /\ top[from] \in Nat
        /\ top \in [Spaces -> Nat] /\ mem \in [Addr -> Cell]
    BY SpaceFacts, TopFacts DEF TypeOK, Spaces
  <1>4. new \in Addr /\ new[1] = from /\ new[2] = top[from] + 1 /\ ~Live(new) /\ ~IsOld(new)
    <2>1. new \in Addr
      BY <1>1, <1>2, <1>3, SpaceFacts, SizesAssumption DEF Addr, YoungAddr
    <2>2. new[1] = from /\ new[2] = top[from] + 1
      BY <1>1
    <2> QED
      BY <1>3, <2>1, <2>2, SpaceFacts DEF Live, IsOld
  <1>5. \A s \in Slots : ss[s] \in Ref /\ Valid(ss[s])
    <2>1. \A r \in Roots : root[r] \in Ref /\ Valid(root[r])
      BY <1>2, QuiescentFacts DEF HeapInv, RootsInv, TypeOK
    <2>2. Nil \in Ref /\ Valid(Nil)
      BY DEF Ref, Valid
    <2>3. \A s \in Slots : req.src[s] \in Roots \cup {0}
      BY DEF TypeOK, Request
    <2>4. \A s \in Slots : ss[s] = arg(req.src[s])
      BY <1>1
    <2> QED
      BY <2>1, <2>2, <2>3, <2>4
  <1> HIDE DEF arg
  <1>6. /\ mem'[new].slots = ss /\ mem'[new].fwd = Nil
        /\ \A a \in Addr : a # new => mem'[a] = mem[a]
    BY <1>2, <1>3, <1>4 DEF NewCell
  <1>7. /\ \A sp \in Spaces : top'[sp] = IF sp = from THEN top[sp] + 1 ELSE top[sp]
        /\ top' \in [Spaces -> Nat]
    BY <1>2, <1>3
  <1>8. \A sp \in Spaces : top[sp] <= top'[sp] /\ (sp # from => top'[sp] = top[sp])
    BY <1>7, TopFacts
  <1>9. /\ \A a \in Addr : Live(a) => Live(a)'
        /\ \A x \in Ref : Valid(x) => Valid(x)'
    BY <1>7, <1>8, LiveKept
  <1>10. Live(new)' /\ \A a \in Addr : Live(a)' => Live(a) \/ a = new
    <2>1. Live(new)'
      BY <1>3, <1>4, <1>7 DEF Live
    <2>2. ASSUME NEW a \in Addr, Live(a)', ~Live(a) PROVE a = new
      <3>1. a[1] = from
        BY <1>7, <2>2, AddrFacts DEF Live
      <3>2. a[2] = top[from] + 1
        BY <1>3, <1>7, <2>2, <3>1, AddrFacts DEF Live
      <3> QED
        BY <1>4, <3>1, <3>2, SameAddr
    <2> QED
      BY <2>1, <2>2
  <1> QED
    BY <1>2, <1>4, <1>5, <1>6, <1>7, <1>8, <1>9, <1>10

LEMMA AllocHeap ==
    ASSUME TypeOK, HeapInv, Alloc
    PROVE  HeapInv'
  <1>1. PICK new : new = <<from, top[from] + 1>>
    OBVIOUS
  <1>2. /\ pc = "alloc" /\ pc' = "mutator" /\ Quiescent /\ Quiescent' /\ ~Collecting'
        /\ UNCHANGED <<from, ofrom, orefs, y2o>>
        /\ root' = [root EXCEPT ![req.dst] = new]
    BY <1>1, AllocFacts
  <1>3. new \in Addr /\ new[1] = from /\ ~IsOld(new) /\ from # "perm"
    BY <1>1, AllocFacts, SpaceFacts
  <1>4. /\ mem'[new].fwd = Nil
        /\ \A s \in Slots : mem'[new].slots[s] \in Ref /\ Valid(mem'[new].slots[s])
        /\ \A a \in Addr : a # new => mem'[a] = mem[a]
    BY <1>1, AllocFacts
  <1>5. /\ top' \in [Spaces -> Nat]
        /\ \A sp \in Spaces : top[sp] <= top'[sp] /\ (sp # from => top'[sp] = top[sp])
    BY <1>1, AllocFacts
  <1>6. /\ \A a \in Addr : Live(a) => Live(a)'
        /\ \A x \in Ref : Valid(x) => Valid(x)'
    BY <1>1, AllocFacts
  <1>7. Live(new)' /\ \A a \in Addr : Live(a)' => Live(a) \/ a = new
    BY <1>1, AllocFacts
  <1>8. \A a \in Addr : mem'[a].fwd = Nil /\ mem[a].fwd = Nil
    <2>1. \A a \in Addr : mem[a].fwd = Nil
      BY <1>2, QuiescentFacts DEF HeapInv, FwdInv, Collecting
    <2> QED
      BY <1>4, <2>1
  <1>9. TopsInv' /\ LoopsInv' /\ PoolPartsInv' /\ FwdInv' /\ RootsInv'
    <2>1. \A i \in y2o + 1..Len(orefs') : IsOld(orefs'[i]) /\ Live(orefs[i])'
      <3>1. PromoteEnd = y2o /\ pc \notin Failed
        BY <1>2, QuiescentFacts DEF PromoteEnd, HeapInv
      <3>2. \A i \in y2o + 1..Len(orefs) : IsOld(orefs[i]) /\ Live(orefs[i])
        BY <3>1 DEF HeapInv, PoolPartsInv
      <3>3. \A i \in y2o + 1..Len(orefs) : orefs[i] \in Addr
        BY DEF TypeOK
      <3>4. \A i \in y2o + 1..Len(orefs) : Live(orefs'[i]) /\ orefs'[i] \in Addr
        BY <1>2, <3>2, <3>3
      <3>5. ASSUME NEW i \in y2o + 1..Len(orefs) PROVE Live(orefs[i])'
        <4> PICK a : a = orefs'[i]
          OBVIOUS
        <4>1. a \in Addr /\ Live(a)'
          BY <1>6, <3>4
        <4> QED
          BY <4>1 DEF Live
      <3> QED
        BY <1>2, <3>2, <3>5
    <2>2. ASSUME NEW r \in Roots PROVE Valid(root[r])'
      <3> PICK x : x = root'[r]
        OBVIOUS
      <3>1. x = new \/ x = root[r]
        BY <1>2 DEF TypeOK
      <3>2. x \in Ref /\ (x # new => Valid(x))
        BY <1>2, <1>3, <3>1, QuiescentFacts DEF HeapInv, RootsInv, TypeOK, Ref
      <3>3. Valid(x)'
        BY <1>6, <1>7, <3>2 DEF Valid
      <3> QED
        BY <3>3 DEF Valid, Live
    <2> QED
      BY <1>2, <1>5, <1>8, <2>1, <2>2, QuiescentHeap
  <1>10. BoxInv'
    BY <1>3, <1>4, AddrFacts DEF HeapInv, BoxInv, Addr
  <1>11. SlotsInv'
    <2>1. ASSUME NEW a \in Addr, Live(a)', NEW s \in Slots, NEW x, x = mem'[a].slots[s]
          PROVE  \/ Stale(a)'
                 \/ Valid(x)' /\ ((IsOld(a) /\ x # Nil /\ IsYoung(x)) => a \in PoolTail')
      <3>1. CASE a = new
        BY <1>3, <1>4, <1>6, <2>1, <3>1
      <3>2. CASE a # new
        <4>1. Live(a) /\ mem'[a] = mem[a] /\ x = mem[a].slots[s] /\ x \in Ref
          BY <1>4, <1>7, <2>1, <3>2, CellFacts
        <4>2. \/ Stale(a)
              \/ Valid(x) /\ ((IsOld(a) /\ x # Nil /\ IsYoung(x)) => a \in PoolTail)
          BY <1>2, <4>1 DEF HeapInv, SlotsInv
        <4>3. PoolTail' = PoolTail
          BY <1>2 DEF PoolTail
        <4>4. Stale(a) => Stale(a)'
          BY <4>1, <4>3 DEF Stale, IsOld
        <4> QED
          BY <1>6, <4>1, <4>2, <4>3, <4>4
      <3> QED
        BY <3>1, <3>2
    <2> QED
      BY <1>2, <2>1 DEF SlotsInv, IsOld, IsYoung
  <1> QED
    BY <1>9, <1>10, <1>11 DEF HeapInv

(* The steps of the mutator, the allocator and the collector.              *)
LEMMA MutatorHeap ==
    ASSUME TypeOK, HeapInv, Mutator
    PROVE  HeapInv'
  <1>1. Quiescent => \A r \in Roots : root[r] \in Ref /\ Valid(root[r])
    BY QuiescentFacts DEF HeapInv, RootsInv, TypeOK
  <1>2. ASSUME NEW r \in Roots, NEW h \in Holders, NEW s \in HolderSlots(h), Load(r, h, s)
        PROVE  HeapInv'
    <2>1. /\ pc = "mutator" /\ pc' = "mutator" /\ Defined /\ Quiescent /\ Quiescent'
          /\ root' = [root EXCEPT ![r] = mem[h].slots[s]]
          /\ UNCHANGED <<mem, top, from, ofrom, orefs, y2o>>
      BY <1>2 DEF Load, Mutating, heap, pool, Quiescent
    <2>2. h \in Addr /\ Live(h) /\ s \in Slots
      BY <2>1, HolderLive, HolderFacts
    <2>3. Valid(mem[h].slots[s])
      BY <2>1, <2>2, DefinedFacts DEF HeapInv
    <2>4. \A q \in Roots : Valid(root'[q])
      <3>1. \A q \in Roots : root'[q] = mem[h].slots[s] \/ root'[q] = root[q]
        BY <2>1 DEF TypeOK
      <3> QED
        BY <1>1, <2>1, <2>3, <3>1
    <2> QED
      BY <2>1, <2>4, QuietHeap
  <1>3. ASSUME NEW r \in Roots, Drop(r)
        PROVE  HeapInv'
    <2>1. /\ pc = "mutator" /\ pc' = "mutator" /\ Quiescent /\ Quiescent'
          /\ root' = [root EXCEPT ![r] = Nil]
          /\ UNCHANGED <<mem, top, from, ofrom, orefs, y2o>>
      BY <1>3 DEF Drop, Mutating, heap, pool, Quiescent
    <2>2. \A q \in Roots : Valid(root'[q])
      <3>1. \A q \in Roots : root'[q] = Nil \/ root'[q] = root[q]
        BY <2>1 DEF TypeOK
      <3>2. Valid(Nil)
        BY DEF Valid
      <3> QED
        BY <1>1, <2>1, <3>1, <3>2
    <2> QED
      BY <2>1, <2>2, QuietHeap
  <1>4. ASSUME NEW h \in Holders, NEW s \in HolderSlots(h),
               NEW v \in {root[r] : r \in Roots} \cup {Nil}, Store(h, s, v)
        PROVE  HeapInv'
    BY <1>4, StoreHeap
  <1>5. ASSUME NEW d \in Roots, NEW src \in [Slots -> Roots \cup {0}], AskAlloc(d, src)
        PROVE  HeapInv'
    <2>1. /\ Quiescent /\ Quiescent' /\ pc' = "alloc"
          /\ UNCHANGED <<mem, top, from, ofrom, orefs, y2o, root>>
      BY <1>5 DEF AskAlloc, Mutating, heap, pool, Quiescent
    <2> QED
      BY <1>1, <2>1, QuietHeap
  <1>6. CASE CallMinor
    <2>1. /\ Quiescent /\ Quiescent' /\ Defined
          /\ UNCHANGED <<mem, top, from, ofrom, orefs, y2o, root>>
      BY <1>6 DEF CallMinor, Mutating, heap, pool, Quiescent
    <2>2. Defined'
      BY <2>1, DefinedKept
    <2> QED
      BY <1>1, <2>1, <2>2, QuietHeap
  <1>7. CASE CallMajor
    <2>1. Quiescent /\ Defined /\ BeginMajor
      BY <1>7 DEF CallMajor, Mutating, Quiescent
    <2> QED
      BY <2>1, BeginMajorHeap
  <1> QED
    BY <1>2, <1>3, <1>4, <1>5, <1>6, <1>7 DEF Mutator

LEMMA AllocatorHeap ==
    ASSUME TypeOK, HeapInv, Allocator
    PROVE  HeapInv'
  <1>1. CASE AllocCollects
    <2>1. /\ Quiescent /\ Quiescent' /\ Defined
          /\ UNCHANGED <<mem, top, from, ofrom, orefs, y2o, root>>
      BY <1>1 DEF AllocCollects, heap, pool, Quiescent
    <2>2. \A r \in Roots : Valid(root'[r])
      BY <2>1, QuiescentFacts DEF HeapInv, RootsInv
    <2> QED
      BY <2>1, <2>2, DefinedKept, QuietHeap
  <1> QED
    BY <1>1, AllocHeap DEF Allocator

LEMMA CollectorHeap ==
    ASSUME TypeOK, HeapInv, Collector
    PROVE  HeapInv'
  <1>1. CASE MinorBecomesMajor
    <2>1. pc = "collect" /\ BeginMajor /\ Quiescent
      BY <1>1 DEF MinorBecomesMajor, Quiescent
    <2>2. Defined
      BY <2>1 DEF HeapInv, SlotsInv
    <2> QED
      BY <2>1, <2>2, BeginMajorHeap
  <1> QED
    BY <1>1, BeginMinorHeap, VisitsHeap, PromotedAllHeap, TracedAllHeap, BeginStage2Heap,
       TracedRootsHeap, TracedGlobalsHeap, EndMinorHeap, EndMajorHeap, AbortHeap
    DEF Collector

LEMMA UnchangedHeap ==
    ASSUME HeapInv, UNCHANGED vars
    PROVE  HeapInv'
  <1>1. TopsInv' <=> TopsInv
    BY DEF vars, TopsInv, to, oto
  <1>2. LoopsInv' <=> LoopsInv
    BY DEF vars, LoopsInv, Collecting, Blk, to, oto
  <1>3. PoolPartsInv' <=> PoolPartsInv
    BY DEF vars, PoolPartsInv, PromoteSpace, PromoteEnd, Live, IsOld, to
  <1>4. FwdInv' <=> FwdInv
    BY DEF vars, FwdInv, Collecting, LeftSpaces, Live
  <1>5. BoxInv' <=> BoxInv
    BY DEF vars, BoxInv
  <1>6. RootsInv' <=> RootsInv
    BY DEF vars, RootsInv, Collecting, Valid, Live, Traced, Moved, Unmoved, LeftSpaces, NewSpace, to, oto
  <1>7. SlotsInv => SlotsInv'
    <2>1. /\ Blk' = Blk /\ LeftSpaces' = LeftSpaces /\ NewSpace' = NewSpace /\ PoolTail' = PoolTail
          /\ Collecting' = Collecting /\ Quiescent' = Quiescent
      BY DEF vars, Blk, LeftSpaces, NewSpace, PoolTail, Collecting, Quiescent, to, oto
    <2>2. \A a \in Addr, s \in Slots : Pending(a, s)' <=> Pending(a, s)
      BY <2>1 DEF vars, Pending, Unscanned, Awaits, Skipped, IsOld
    <2>3. \A a \in Addr, s \in Slots : SlotOK(a, s)' <=> SlotOK(a, s)
      BY <2>1, <2>2 DEF vars, SlotOK, Valid, Live, Moved, Unmoved, IsOld
    <2>4. Defined => Defined'
      BY DefinedKept DEF vars
    <2> QED
      BY <2>1, <2>3, <2>4 DEF vars, SlotsInv, Stale, IsOld, IsYoung, Valid, Live
  <1> QED
    BY <1>1, <1>2, <1>3, <1>4, <1>5, <1>6, <1>7 DEF HeapInv

-----------------------------------------------------------------------------
LEMMA InitHeap == Init => HeapInv
  <1> SUFFICES ASSUME Init PROVE HeapInv
    OBVIOUS
  <1>1. /\ Quiescent /\ ~Collecting /\ pc = "mutator" /\ pc # "collect"
        /\ pc \notin Failed \cup MajorPhase \cup Stage2
        /\ y2o = 0 /\ orefs = <<>> /\ Len(orefs) = 0
        /\ \A a \in Addr : mem[a] = FreeCell
        /\ \A r \in Roots : root[r] = Nil
    BY DEF Init, Quiescent, Collecting, MinorPhase, MajorPhase, Failed, Stage2
  <1>2. FreeCell.fwd = Nil /\ \A s \in Slots : FreeCell.slots[s] = Nil
    BY DEF FreeCell, NewCell
  <1>3. TopsInv
    BY <1>1 DEF Init, TopsInv, to, oto, YoungSpace, OldSpace
  <1>4. LoopsInv
    BY <1>1 DEF LoopsInv
  <1>5. PoolPartsInv
    BY <1>1 DEF PoolPartsInv, PromoteEnd
  <1>6. FwdInv
    BY <1>1, <1>2 DEF FwdInv
  <1>7. BoxInv
    BY <1>1, <1>2 DEF BoxInv, Addr
  <1>8. RootsInv
    BY <1>1 DEF RootsInv, Valid
  <1>9. SlotsInv
    BY <1>1, <1>2 DEF SlotsInv, Valid
  <1> QED
    BY <1>3, <1>4, <1>5, <1>6, <1>7, <1>8, <1>9 DEF HeapInv

LEMMA StepHeap ==
    ASSUME TypeOK, HeapInv, [Next]_vars
    PROVE  HeapInv'
  <1>1. CASE UNCHANGED vars \/ Stopped
    BY <1>1, UnchangedHeap DEF Stopped
  <1> QED
    BY <1>1, CollectorHeap, AllocatorHeap, MutatorHeap DEF Next

(* The heap invariant holds in every state.                                *)
THEOREM HeapSound == Spec => []HeapInv
  <1>1. Init => HeapInv
    BY InitHeap
  <1>2. TypeOK /\ HeapInv /\ [Next]_vars => HeapInv'
    BY StepHeap
  <1> QED
    BY <1>1, <1>2, TypeCorrect, PTL DEF Spec

(* With major collections too, protected variables never dangle, and only  *)
(* slots of stale holders do, for every size of the heap.                  *)
THEOREM OnlyStaleDangles == Spec => []DanglingOnlyInStale
  <1>1. ASSUME TypeOK, HeapInv PROVE DanglingOnlyInStale
    <2> SUFFICES ASSUME pc \in {"mutator", "alloc"}
                 PROVE  /\ \A r \in Roots : ~Dangling(root[r])
                        /\ \A a \in Allocated, s \in Slots :
                              Dangling(mem[a].slots[s]) => Stale(a)
      BY DEF DanglingOnlyInStale
    <2>1. Quiescent /\ TopsInv /\ pc \notin Failed
      BY <1>1 DEF Quiescent, HeapInv, Failed
    <2>2. \A r \in Roots : ~Dangling(root[r])
      BY <1>1, <2>1, QuiescentFacts DEF HeapInv, RootsInv, TypeOK
    <2>3. ASSUME NEW a \in Allocated, NEW s \in Slots PROVE Dangling(mem[a].slots[s]) => Stale(a)
      <3>1. a \in Addr /\ Live(a)
        BY <1>1, <2>1, QuiescentFacts DEF Allocated
      <3>2. mem[a].slots[s] \in Ref
        BY <1>1, <3>1, CellFacts
      <3>3. Stale(a) \/ Valid(mem[a].slots[s])
        BY <1>1, <2>1, <3>1 DEF HeapInv, SlotsInv
      <3> QED
        BY <1>1, <2>1, <3>2, <3>3, QuiescentFacts
    <2> QED
      BY <2>2, <2>3
  <1>2. TypeOK /\ HeapInv => DanglingOnlyInStale
    BY <1>1
  <1> QED
    BY <1>2, TypeCorrect, HeapSound, PTL

(* Whenever a collection may start, every old object or global box that    *)
(* refers to a young object is in the pool's second part or is stale.      *)
THEOREM BarrierComplete == Spec => []OldToYoungRemembered
  <1>1. ASSUME TypeOK, HeapInv, Quiescent, NEW a \in Allocated, NEW s \in Slots,
               IsOld(a), mem[a].slots[s] # Nil, IsYoung(mem[a].slots[s])
        PROVE  a \in PoolTail \/ Stale(a)
    <2>1. a \in Addr /\ Live(a)
      BY <1>1, QuiescentFacts DEF Allocated, HeapInv
    <2> QED
      BY <1>1, <2>1 DEF HeapInv, SlotsInv
  <1>2. TypeOK /\ HeapInv => OldToYoungRemembered
    BY <1>1 DEF OldToYoungRemembered
  <1> QED
    BY <1>2, TypeCorrect, HeapSound, PTL

(* The asserts of gc_mov_minorcollect on the entries it takes from the pool*)
(* hold: the first part lists young objects not forwarded yet, the second  *)
(* old ones.                                                               *)
THEOREM PoolAsserts == Spec => []PoolAssertsHold
  <1>1. ASSUME TypeOK, HeapInv, pc = "y2o", cur <= y2o
        PROVE  IsYoung(orefs[cur]) /\ mem[orefs[cur]].fwd = Nil
    <2>1. pc \notin Failed /\ PromoteEnd = y2o /\ PromoteSpace = from
      BY <1>1 DEF Failed, PromoteEnd, PromoteSpace, Stage2
    <2>2. cur \in 1..y2o /\ cur \in 1..Len(orefs) /\ y2o \in Nat /\ orefs[cur] \in Addr
      BY <1>1 DEF TypeOK
    <2>3. orefs[cur][1] = from
      BY <1>1, <2>1, <2>2 DEF HeapInv, PoolPartsInv
    <2>4. ASSUME mem[orefs[cur]].fwd # Nil PROVE FALSE
      <3>1. PICK i \in 1..cur - 1 : orefs[i] = orefs[cur]
        BY <1>1, <2>1, <2>2, <2>4 DEF HeapInv, FwdInv
      <3>2. i \in 1..y2o /\ i < cur
        BY <2>2
      <3>3. orefs[i][2] < orefs[cur][2]
        BY <1>1, <2>1, <2>2, <3>2 DEF HeapInv, PoolPartsInv
      <3>4. orefs[cur][2] \in Nat
        BY <2>2, AddrFacts
      <3> QED
        BY <3>1, <3>3, <3>4
    <2> QED
      BY <1>1, <2>3, <2>4, SpaceFacts DEF IsYoung
  <1>2. ASSUME TypeOK, HeapInv, pc = "remembered", cur <= Len(orefs)
        PROVE  IsOld(orefs[cur])
    <2>1. pc \notin Failed /\ PromoteEnd = y2o
      BY <1>2 DEF Failed, PromoteEnd, Stage2
    <2>2. cur \in y2o + 1..Len(orefs)
      BY <1>2 DEF TypeOK, HeapInv, LoopsInv
    <2> QED
      BY <1>2, <2>1, <2>2 DEF HeapInv, PoolPartsInv
  <1>3. TypeOK /\ HeapInv => PoolAssertsHold
    BY <1>1, <1>2 DEF PoolAssertsHold
  <1> QED
    BY <1>3, TypeCorrect, HeapSound, PTL

(* Each of the five visits is a VisitStep; what TraceRemembered adds to it.*)
LEMMA VisitingStep ==
    ASSUME TypeOK, HeapInv,
           PromoteEntry \/ TraceRemembered \/ Scan \/ TraceRoot \/ TraceGlobal
    PROVE  \E v, pa, h, m, w :
              /\ VisitStep(v, pa, h, m, w) /\ Collecting
              /\ pc = "remembered" =>
                    \/ UNCHANGED cur
                    \/ cur' = cur + 1 /\ ~mem'[orefs[cur]].added
  <1>1. CASE PromoteEntry
    <2> PICK pa, v, m, w : pa = FALSE /\ v = orefs[cur] /\ m = MemAfter(v) /\ w = Forwarded(v)
      OBVIOUS
    <2>1. VisitStep(v, pa, Nil, m, w)
      BY <1>1, PromoteEntryVisits
    <2>2. pc = "y2o" /\ Collecting
      BY <1>1 DEF PromoteEntry, Collecting, MinorPhase
    <2> QED
      BY <2>1, <2>2
  <1>2. CASE TraceRemembered
    <2> PICK pa, h, v, m, w : pa = FALSE /\ h = PoolHolder /\ v = PoolSlot
                              /\ m = MemAfter(v) /\ w = Forwarded(v)
      OBVIOUS
    <2>1. VisitStep(v, pa, h, m, w) /\ ~mem'[h].added
      BY <1>2, TraceRememberedVisits
    <2>2. pc = "remembered" /\ Collecting /\ (UNCHANGED cur \/ cur' = cur + 1)
      BY <1>2, RememberedStep DEF Collecting, MinorPhase
    <2> QED
      BY <2>1, <2>2 DEF PoolHolder
  <1>3. CASE Scan
    <2> PICK h, pa, v, m, w : h = Scanned /\ pa = mem[h].added /\ v = mem[h].slots[slot]
                              /\ m = MemAfter(v) /\ w = Forwarded(v)
      OBVIOUS
    <2>1. VisitStep(v, pa, h, m, w) /\ Collecting
      BY <1>3, ScanVisits
    <2>2. pc # "remembered"
      BY <1>3 DEF Scan, ScanPhase
    <2> QED
      BY <2>1, <2>2
  <1>4. CASE TraceRoot
    <2> PICK pa, v, m, w : pa = FALSE /\ v = root[cur] /\ m = MemAfter(v) /\ w = Forwarded(v)
      OBVIOUS
    <2>1. VisitStep(v, pa, Nil, m, w)
      BY <1>4, TraceRootVisits
    <2>2. pc # "remembered" /\ Collecting
      BY <1>4 DEF TraceRoot, Collecting, MinorPhase, MajorPhase
    <2> QED
      BY <2>1, <2>2
  <1>5. CASE TraceGlobal
    <2> PICK pa, h, v, m, w : pa = FALSE /\ h = <<"perm", cur>> /\ v = mem[h].slots[slot]
                              /\ m = MemAfter(v) /\ w = Forwarded(v)
      OBVIOUS
    <2>1. VisitStep(v, pa, h, m, w) /\ Collecting
      BY <1>5, TraceGlobalVisits
    <2>2. pc # "remembered"
      BY <1>5 DEF TraceGlobal
    <2> QED
      BY <2>1, <2>2
  <1> QED
    BY <1>1, <1>2, <1>3, <1>4, <1>5

-----------------------------------------------------------------------------
(***************************************************************************)
(* Without major collections.                                              *)
(***************************************************************************)
(* The ADDED bit of an old object says that it is in the pool, between     *)
(* collections, and in the second loop that its entry is still to come; no *)
(* old object carries it in stage 2.                                       *)
AddedInv ==
    /\ pc \notin MajorPhase
    /\ Quiescent \/ pc = "y2o" =>
          \A a \in Addr : Live(a) /\ IsOld(a) /\ mem[a].added => a \in PoolTail
    /\ pc = "remembered" =>
          \A a \in Addr : Live(a) /\ IsOld(a) /\ mem[a].added =>
             \E i \in cur..Len(orefs) : orefs[i] = a
    /\ pc \in {"scan_old"} \cup Stage2 => \A a \in Addr : Live(a) /\ IsOld(a) => ~mem[a].added

(* A visit adds no old object with the bit, and sets the bit of none.      *)
LEMMA VisitAdded ==
    ASSUME TypeOK, HeapInv, AddedInv, NEW v, NEW pa, NEW h, NEW m, NEW w,
           VisitStep(v, pa, h, m, w), Collecting,
           pc = "remembered" =>
              \/ UNCHANGED cur
              \/ cur' = cur + 1 /\ ~mem'[orefs[cur]].added
    PROVE  AddedInv'
  <1>1. PICK d : d = dst
    OBVIOUS
  <1>2. UNCHANGED <<from, ofrom, pc, y2o>> /\ pc \in MinorPhase /\ ~Quiescent /\ Visit(v, pa)
    BY DEF VisitStep, Collecting, AddedInv, Quiescent, MinorPhase
  <1>3. ASSUME NEW a \in Addr, Live(a)', IsOld(a), mem'[a].added
        PROVE  Live(a) /\ mem[a].added
    <2>1. TopsInv /\ FwdInv
      BY DEF HeapInv
    <2>2. Live(a) \/ (a = d /\ Moves(v))
      BY <1>1, <1>3, <2>1, StepMem
    <2>3. Moves(v) /\ IsOld(d) => ~mem'[d].added
      BY <1>1, <1>2, <2>1, StepMem
    <2>4. Live(a)
      BY <1>3, <2>2, <2>3
    <2>5. mem[a].added
      BY <1>1, <1>3, <2>1, <2>4, StepMem
    <2> QED
      BY <2>4, <2>5
  <1>4. pc \in Stage1 => orefs' = orefs
    BY <1>2, PoolUnchanged
  <1>5. pc' \notin MajorPhase /\ ~Quiescent'
    BY <1>2 DEF AddedInv, Quiescent
  <1>6. CASE pc = "y2o"
    <2>1. PoolTail' = PoolTail
      BY <1>2, <1>4, <1>6 DEF PoolTail, Stage1
    <2> QED
      BY <1>2, <1>3, <1>5, <1>6, <2>1 DEF AddedInv, IsOld, Stage2
  <1>7. CASE pc = "remembered"
    <2>1. orefs' = orefs /\ cur \in Nat /\ Len(orefs) \in Nat
      BY <1>4, <1>7 DEF Stage1, TypeOK
    <2>2. ASSUME NEW a \in Addr, Live(a)', IsOld(a), mem'[a].added
          PROVE  \E i \in cur'..Len(orefs) : orefs[i] = a
      <3>1. PICK i \in cur..Len(orefs) : orefs[i] = a
        BY <1>3, <1>7, <2>2 DEF AddedInv
      <3>2. i \in cur'..Len(orefs)
        BY <1>7, <2>1, <2>2, <3>1
      <3> QED
        BY <3>1, <3>2
    <2> QED
      BY <1>2, <1>5, <1>7, <2>1, <2>2 DEF AddedInv, IsOld, Stage2
  <1>8. CASE pc \in {"scan_old"} \cup Stage2
    <2>1. \A a \in Addr : Live(a)' /\ IsOld(a) => ~mem'[a].added
      BY <1>3, <1>8 DEF AddedInv
    <2> QED
      BY <1>2, <1>5, <1>8, <2>1 DEF AddedInv, IsOld, Stage2
  <1> QED
    BY <1>2, <1>6, <1>7, <1>8 DEF MinorPhase, Stage2

LEMMA VisitsAdded ==
    ASSUME TypeOK, HeapInv, AddedInv,
           PromoteEntry \/ TraceRemembered \/ Scan \/ TraceRoot \/ TraceGlobal
    PROVE  AddedInv'
  <1>1. PICK v, pa, h, m, w :
           /\ VisitStep(v, pa, h, m, w) /\ Collecting
           /\ pc = "remembered" =>
                 \/ UNCHANGED cur
                 \/ cur' = cur + 1 /\ ~mem'[orefs[cur]].added
    BY VisitingStep
  <1> QED
    BY <1>1, VisitAdded

(* A step that neither writes nor reclaims memory between collections.     *)
LEMMA QuietAdded ==
    ASSUME AddedInv, Quiescent, UNCHANGED <<mem, top, orefs, y2o>>,
           Quiescent' \/ pc' = "y2o"
    PROVE  AddedInv'
  <1>1. PoolTail' = PoolTail
    BY DEF PoolTail
  <1>2. pc' \notin MajorPhase /\ pc' # "remembered" /\ pc' \notin {"scan_old"} \cup Stage2
    BY DEF Quiescent, MajorPhase, Stage2
  <1> QED
    BY <1>1, <1>2 DEF AddedInv, Live, IsOld

LEMMA LoopAdded ==
    ASSUME TypeOK, HeapInv, AddedInv, MajorAllowed = FALSE,
           BeginMinor \/ MinorBecomesMajor \/ PromotedAll \/ TracedAll \/ BeginStage2
             \/ TracedRoots \/ TracedGlobals \/ EndMinor \/ EndMajor \/ Abort
    PROVE  AddedInv'
  <1>1. CASE BeginMinor
    <2>1. Quiescent /\ UNCHANGED <<mem, top, orefs, y2o>> /\ pc' = "y2o"
      BY <1>1 DEF BeginMinor, Goto, heap, pool, Quiescent
    <2> QED
      BY <2>1, QuietAdded
  <1>2. CASE PromotedAll
    <2>1. /\ pc = "y2o" /\ pc' = "remembered" /\ cur' = cur /\ UNCHANGED <<mem, top, orefs, y2o>>
          /\ ~Quiescent' /\ cur = y2o + 1
      BY <1>2 DEF PromotedAll, Goto, heap, pool, Quiescent, HeapInv, LoopsInv, TypeOK
    <2>2. ASSUME NEW a \in Addr, Live(a), IsOld(a), mem[a].added
          PROVE  \E i \in cur..Len(orefs) : orefs[i] = a
      BY <2>1, <2>2 DEF AddedInv, PoolTail
    <2> QED
      BY <2>1, <2>2 DEF AddedInv, Live, IsOld, Stage2, MajorPhase
  <1>3. CASE TracedAll
    <2>1. /\ pc = "remembered" /\ pc' = "scan_old" /\ cur > Len(orefs) /\ UNCHANGED <<mem, top>>
          /\ ~Quiescent' /\ cur \in Nat /\ Len(orefs) \in Nat
      BY <1>3 DEF TracedAll, Goto, heap, Quiescent, TypeOK
    <2>2. cur..Len(orefs) = {}
      BY <2>1
    <2>3. \A a \in Addr : Live(a) /\ IsOld(a) => ~mem[a].added
      BY <2>1, <2>2 DEF AddedInv
    <2> QED
      BY <2>1, <2>3 DEF AddedInv, Live, IsOld, MajorPhase
  <1>4. CASE BeginStage2 \/ TracedRoots
    <2>1. /\ pc \in {"scan_old"} \cup Stage2 /\ pc' \in Stage2 /\ UNCHANGED <<mem, top>>
      <3>1. (pc = "scan_old" /\ pc' = "roots") \/ (pc = "roots" /\ pc' = "scan_young")
        BY <1>4 DEF BeginStage2, TracedRoots, Goto, AddedInv, MajorPhase
      <3> QED
        BY <1>4, <3>1 DEF BeginStage2, TracedRoots, heap, Stage2
    <2>2. ~Quiescent' /\ pc' \notin MajorPhase /\ pc' \notin {"y2o", "remembered"}
      BY <2>1 DEF Quiescent, MajorPhase, Stage2
    <2> QED
      BY <2>1, <2>2 DEF AddedInv, Live, IsOld
  <1>5. CASE EndMinor
    <2>1. /\ pc = "scan_young" /\ Reclaim({from}) /\ pc' \in {"mutator", "alloc"}
      BY <1>5 DEF EndMinor, Goto, Resume
    <2>2. {from} \in SUBSET (YoungSpace \cup OldSpace)
      BY SpaceFacts
    <2>3. \A a \in Addr : Live(a)' => Live(a) /\ mem'[a] = mem[a]
      BY <2>1, <2>2, ReclaimFacts
    <2>4. \A a \in Addr : Live(a)' /\ IsOld(a) => ~mem'[a].added
      BY <2>1, <2>3 DEF AddedInv, Stage2
    <2> QED
      BY <2>1, <2>4 DEF AddedInv, MajorPhase, Stage2, IsOld
  <1>6. CASE Abort
    <2>1. pc' \in Failed
      BY <1>6 DEF Abort, Failed
    <2> QED
      BY <2>1 DEF AddedInv, Failed, MajorPhase, Stage2, Quiescent
  <1>7. CASE MinorBecomesMajor \/ TracedGlobals \/ EndMajor
    BY <1>7 DEF MinorBecomesMajor, BeginMajor, TracedGlobals, EndMajor, AddedInv, MajorPhase
  <1> QED
    BY <1>1, <1>2, <1>3, <1>4, <1>5, <1>6, <1>7

LEMMA MutatorAdded ==
    ASSUME TypeOK, HeapInv, AddedInv, MajorAllowed = FALSE, Mutator \/ Allocator
    PROVE  AddedInv'
  <1>1. ASSUME NEW h \in Holders, NEW s \in HolderSlots(h),
               NEW v \in {root[r] : r \in Roots} \cup {Nil}, Store(h, s, v)
        PROVE  AddedInv'
    <2>1. /\ Quiescent /\ Quiescent' /\ UNCHANGED top /\ PoolTail \subseteq PoolTail'
          /\ \A a \in Addr : mem'[a].added => mem[a].added \/ a \in PoolTail'
      BY <1>1, StoreFacts
    <2>2. \A a \in Addr : Live(a) /\ IsOld(a) /\ mem'[a].added => a \in PoolTail'
      BY <2>1 DEF AddedInv
    <2>3. pc' \notin MajorPhase /\ pc' # "remembered" /\ pc' \notin {"scan_old"} \cup Stage2
      BY <2>1 DEF Quiescent, MajorPhase, Stage2
    <2> QED
      BY <2>1, <2>2, <2>3 DEF AddedInv, Live, IsOld
  <1>2. CASE Alloc
    <2>1. PICK new : new = <<from, top[from] + 1>>
      OBVIOUS
    <2>2. /\ Quiescent /\ Quiescent' /\ UNCHANGED <<orefs, y2o>> /\ ~IsOld(new)
          /\ \A a \in Addr : a # new => mem'[a] = mem[a]
          /\ \A a \in Addr : Live(a)' => Live(a) \/ a = new
      BY <1>2, <2>1, AllocFacts
    <2>3. \A a \in Addr : Live(a)' /\ IsOld(a) => Live(a) /\ mem'[a] = mem[a]
      BY <2>2
    <2>4. pc' \notin MajorPhase /\ pc' # "remembered" /\ pc' \notin {"scan_old"} \cup Stage2
      BY <2>2 DEF Quiescent, MajorPhase, Stage2
    <2>5. PoolTail' = PoolTail
      BY <2>2 DEF PoolTail
    <2> QED
      BY <2>2, <2>3, <2>4, <2>5 DEF AddedInv, IsOld
  <1>3. ASSUME NEW r \in Roots, NEW h \in Holders, NEW s \in HolderSlots(h), Load(r, h, s)
        PROVE  AddedInv'
    BY <1>3, QuietAdded DEF Load, Mutating, heap, pool, Quiescent
  <1>4. ASSUME NEW r \in Roots, Drop(r)
        PROVE  AddedInv'
    BY <1>4, QuietAdded DEF Drop, Mutating, heap, pool, Quiescent
  <1>5. ASSUME NEW d \in Roots, NEW src \in [Slots -> Roots \cup {0}], AskAlloc(d, src)
        PROVE  AddedInv'
    BY <1>5, QuietAdded DEF AskAlloc, Mutating, heap, pool, Quiescent
  <1>6. CASE CallMinor \/ AllocCollects
    BY <1>6, QuietAdded DEF CallMinor, AllocCollects, Mutating, heap, pool, Quiescent
  <1>7. CASE CallMajor
    BY <1>7 DEF CallMajor, BeginMajor
  <1> QED
    BY <1>1, <1>2, <1>3, <1>4, <1>5, <1>6, <1>7 DEF Mutator, Allocator

LEMMA InitAdded == Init => AddedInv
  BY DEF Init, AddedInv, MajorPhase, Stage2, FreeCell, NewCell

LEMMA StepAdded ==
    ASSUME TypeOK, HeapInv, AddedInv, MajorAllowed = FALSE, [Next]_vars
    PROVE  AddedInv'
  <1>1. CASE UNCHANGED vars \/ Stopped
    <2>1. UNCHANGED vars
      BY <1>1 DEF Stopped
    <2>2. UNCHANGED <<mem, top, orefs, pc, cur>> /\ PoolTail' = PoolTail /\ Quiescent' = Quiescent
      BY <2>1 DEF vars, PoolTail, Quiescent
    <2> QED
      BY <2>2 DEF AddedInv, Live, IsOld
  <1> QED
    BY <1>1, VisitsAdded, LoopAdded, MutatorAdded DEF Next, Collector

(* Without major collections the bit and the pool agree.                   *)
LEMMA AddedKept ==
    ASSUME MajorAllowed = FALSE
    PROVE  Spec => []AddedInv
  <1>1. Init => AddedInv
    BY InitAdded
  <1>2. TypeOK /\ HeapInv /\ AddedInv /\ [Next]_vars => AddedInv'
    BY StepAdded
  <1> QED
    BY <1>1, <1>2, TypeCorrect, HeapSound, PTL DEF Spec

LEMMA NoneStale ==
    ASSUME TypeOK, HeapInv, AddedInv, Quiescent, NEW a \in Addr, Live(a)
    PROVE  ~Stale(a)
  BY DEF AddedInv, Stale

(* Without major collections no allocated old object has its ADDED bit set *)
(* while it is not in the pool: the write barrier misses no store.         *)
THEOREM NoHolderStale ==
    ASSUME MajorAllowed = FALSE
    PROVE  Spec => []NoStaleHolder
  <1>1. ASSUME TypeOK, HeapInv, AddedInv, Quiescent, NEW a \in Allocated
        PROVE  ~Stale(a)
    <2>1. a \in Addr /\ Live(a)
      BY <1>1, QuiescentFacts DEF Allocated, HeapInv
    <2> QED
      BY <1>1, <2>1, NoneStale
  <1>2. TypeOK /\ HeapInv /\ AddedInv => NoStaleHolder
    BY <1>1 DEF NoStaleHolder
  <1> QED
    BY <1>2, TypeCorrect, HeapSound, AddedKept, PTL

(* Without a stale holder nothing dangles.                                 *)
LEMMA AddedDefined ==
    ASSUME TypeOK, HeapInv, AddedInv
    PROVE  NoDangling
  <1>1. ASSUME pc \in {"mutator", "alloc"} PROVE Defined
    <2>1. Quiescent /\ TopsInv /\ pc \notin Failed
      BY <1>1 DEF Quiescent, HeapInv, Failed
    <2>2. \A r \in Roots : Valid(root[r])
      BY <2>1 DEF HeapInv, RootsInv
    <2>3. ASSUME NEW a \in Addr, NEW s \in Slots, Live(a) PROVE Valid(mem[a].slots[s])
      BY <2>1, <2>3, NoneStale DEF HeapInv, SlotsInv
    <2> QED
      BY <2>1, <2>2, <2>3, DefinedFacts
  <1> QED
    BY <1>1 DEF NoDangling

(* Without major collections no protected variable and no slot of an       *)
(* allocated object ever refers to a reclaimed cell while the mutator or   *)
(* the allocator runs.                                                     *)
THEOREM NothingDangles ==
    ASSUME MajorAllowed = FALSE
    PROVE  Spec => []NoDangling
  <1>1. TypeOK /\ HeapInv /\ AddedInv => NoDangling
    BY AddedDefined
  <1> QED
    BY <1>1, TypeCorrect, HeapSound, AddedKept, PTL

-----------------------------------------------------------------------------
(***************************************************************************)
(* The room a minor collection needs.                                      *)
(***************************************************************************)
(* The forwarded cells of the young space that is left.                    *)
Gone == {i \in 1..NovSize : mem[<<from, i>>].fwd # Nil}

(* Each of them accounts for one cell taken, in the other young space or in*)
(* the old one, which had a young space free when the collection began.    *)
RoomInv ==
    pc \in MinorPhase =>
        /\ top[to] <= Cardinality(Gone)
        /\ NovSize + top[to] <= Left(ofrom) + Cardinality(Gone)

LEMMA GoneFacts ==
    /\ IsFiniteSet(Gone) /\ Cardinality(Gone) \in Nat
    /\ \A i \in 1..NovSize : i \notin Gone =>
          /\ Cardinality(Gone) < NovSize
          /\ Cardinality(Gone \cup {i}) = Cardinality(Gone) + 1
  <1>1. IsFiniteSet(1..NovSize) /\ Cardinality(1..NovSize) = NovSize
    BY FS_Interval, SizesAssumption
  <1>2. Gone \in SUBSET (1..NovSize)
    BY DEF Gone
  <1>3. IsFiniteSet(Gone) /\ Cardinality(Gone) <= NovSize
        /\ (Cardinality(Gone) = NovSize => Gone = 1..NovSize)
    BY <1>1, <1>2, FS_Subset
  <1>4. Cardinality(Gone) \in Nat
    BY <1>3, FS_CardinalityType
  <1>5. ASSUME NEW i \in 1..NovSize, i \notin Gone
        PROVE  /\ Cardinality(Gone) < NovSize
               /\ Cardinality(Gone \cup {i}) = Cardinality(Gone) + 1
    <2>1. Cardinality(Gone) # NovSize
      BY <1>3, <1>5
    <2>2. Cardinality(Gone \cup {i}) = Cardinality(Gone) + 1
      BY <1>3, <1>5, FS_AddElement
    <2> QED
      BY <1>3, <1>4, <2>1, <2>2, SizesAssumption
  <1> QED
    BY <1>3, <1>4, <1>5

(* What a minor collection copies is a cell of the young space not         *)
(* forwarded yet, so room is left where it goes.                           *)
LEMMA MovesInto ==
    ASSUME TypeOK, pc \in MinorPhase, NEW v \in Ref, Unmoved(v), Moves(v)
    PROVE  /\ v \in Addr /\ v[1] = from /\ v[2] \in 1..NovSize /\ v[2] \notin Gone
           /\ v = <<from, v[2]>> /\ Blk \in {to, ofrom}
  <1>1. pc \notin MajorPhase
    BY DEF MinorPhase, MajorPhase
  <1>2. v \in Addr /\ IsYoung(v) /\ mem[v].fwd = Nil
    BY <1>1 DEF Moves, Ref
  <1>3. v[1] = from
    BY <1>1, <1>2, SpaceFacts, AddrFacts DEF Unmoved, NewSpace, IsYoung
  <1>4. v[2] \in 1..NovSize
    BY <1>2, <1>3, AddrFacts, SpaceFacts
  <1>5. v = <<from, v[2]>>
    BY <1>2, <1>3 DEF Addr, YoungAddr, OldAddr, BoxAddr
  <1>6. v[2] \notin Gone
    BY <1>2, <1>5 DEF Gone
  <1>7. Blk \in {to, ofrom}
    BY <1>1 DEF Blk
  <1> QED
    BY <1>2, <1>3, <1>4, <1>5, <1>6, <1>7

LEMMA RoomLeft ==
    ASSUME TypeOK, RoomInv, pc \in MinorPhase, NEW v \in Ref, Unmoved(v), Moves(v)
    PROVE  Left(Blk) # 0
  <1>1. Cardinality(Gone) < NovSize /\ Cardinality(Gone) \in Nat /\ Blk \in {to, ofrom}
    BY MovesInto, GoneFacts
  <1>2. top[to] <= Cardinality(Gone) /\ NovSize + top[to] <= Left(ofrom) + Cardinality(Gone)
    BY DEF RoomInv
  <1>3. top[to] \in Nat /\ NovSize \in Nat /\ Left(to) = NovSize - top[to]
    BY SpaceFacts, TopFacts, SizesAssumption DEF Left, Capacity
  <1>4. Left(ofrom) \in Int
    BY SpaceFacts, TopFacts, SizesAssumption DEF Left, Capacity
  <1> QED
    BY <1>1, <1>2, <1>3, <1>4

(* A visit that copies takes one cell and forwards another.                *)
LEMMA VisitRoom ==
    ASSUME TypeOK, HeapInv, RoomInv, NEW v, NEW pa, NEW h, NEW m, NEW w,
           VisitStep(v, pa, h, m, w), Collecting
    PROVE  RoomInv'
  <1>1. /\ UNCHANGED <<from, ofrom, pc>> /\ v \in Ref /\ Unmoved(v) /\ Visit(v, pa)
        /\ m = MemAfter(v) /\ \A a \in Addr : mem'[a].fwd = m[a].fwd
    BY DEF VisitStep
  <1>2. to' = to
    BY <1>1 DEF to
  <1>3. \A i \in 1..NovSize : <<from, i>> \in Addr
    BY SpaceFacts DEF Addr, YoungAddr
  <1>4. CASE pc \in MinorPhase /\ ~Moves(v)
    <2>1. m = mem /\ top' = top
      BY <1>1, <1>4 DEF Visit, MemAfter
    <2>2. Gone' = Gone
      BY <1>1, <1>3, <2>1 DEF Gone
    <2> QED
      BY <1>1, <1>2, <2>1, <2>2 DEF RoomInv, Left, Capacity
  <1>5. CASE pc \in MinorPhase /\ Moves(v)
    <2>1. PICK d : d = dst
      OBVIOUS
    <2>2. /\ v \in Addr /\ v[1] = from /\ v[2] \in 1..NovSize /\ v[2] \notin Gone
          /\ v = <<from, v[2]>> /\ Blk \in {to, ofrom}
      BY <1>1, <1>5, MovesInto
    <2>3. m = [mem EXCEPT ![d] = CopyOf(v), ![v].fwd = d] /\ mem \in [Addr -> Cell]
      BY <1>1, <1>5, <2>1 DEF MemAfter, TypeOK
    <2>4. d \in Addr /\ d[1] # from /\ d # v
      <3>1. d \in Addr
        BY <1>1, <1>5, <2>1, DstFacts DEF Visit, CopyFails
      <3> QED
        BY <2>1, <2>2, <3>1, SpaceFacts DEF dst
    <2>5. \A a \in Addr : a[1] = from /\ a # v => m[a] = mem[a]
      BY <2>2, <2>3, <2>4
    <2>6. m[v].fwd = d /\ d # Nil
      <3>1. m[v] = [mem[v] EXCEPT !.fwd = d]
        BY <2>2, <2>3, <2>4
      <3>2. mem[v] \in Cell
        BY <2>2, <2>3
      <3> QED
        BY <2>4, <3>1, <3>2, NilAssumption DEF Cell
    <2>7. Gone' = Gone \cup {v[2]}
      <3>1. Gone' = {i \in 1..NovSize : m[<<from, i>>].fwd # Nil}
        BY <1>1, <1>3 DEF Gone
      <3>2. \A i \in 1..NovSize : m[<<from, i>>].fwd # Nil <=> mem[<<from, i>>].fwd # Nil \/ i = v[2]
        <4>1. ASSUME NEW i \in 1..NovSize
              PROVE  m[<<from, i>>].fwd # Nil <=> mem[<<from, i>>].fwd # Nil \/ i = v[2]
          <5>1. CASE i = v[2]
            BY <2>2, <2>6, <5>1
          <5>2. CASE i # v[2]
            <6>1. <<from, i>> # v /\ <<from, i>>[1] = from
              BY <2>2, <5>2
            <6> QED
              BY <1>3, <2>5, <5>2, <6>1
          <5> QED
            BY <5>1, <5>2
        <4> QED
          BY <4>1
      <3> QED
        BY <2>2, <3>1, <3>2 DEF Gone
    <2>8. /\ Cardinality(Gone') = Cardinality(Gone) + 1 /\ Cardinality(Gone) \in Nat
      BY <2>2, <2>7, GoneFacts
    <2>9. top' = [top EXCEPT ![Blk] = @ + 1]
      BY <1>1, <1>5 DEF Visit
    <2>10. /\ top[to] \in Nat /\ top[ofrom] \in Nat /\ to # ofrom
           /\ to \in Spaces /\ ofrom \in Spaces /\ top \in [Spaces -> Nat]
           /\ Left(ofrom) = OldSize - top[ofrom] /\ OldSize \in Nat /\ NovSize \in Nat
           /\ Left(ofrom)' = OldSize - top'[ofrom]
      <3>1. /\ top[to] \in Nat /\ top[ofrom] \in Nat /\ to # ofrom
            /\ to \in Spaces /\ ofrom \in Spaces /\ top \in [Spaces -> Nat]
        BY SpaceFacts, TopFacts DEF TypeOK, Spaces
      <3> QED
        BY <1>1, <3>1, SpaceFacts, SizesAssumption DEF Left, Capacity
    <2>11. /\ top'[to] = IF Blk = to THEN top[to] + 1 ELSE top[to]
           /\ top'[ofrom] = IF Blk = ofrom THEN top[ofrom] + 1 ELSE top[ofrom]
      BY <2>9, <2>10
    <2>12. top[to] <= Cardinality(Gone) /\ NovSize + top[to] <= Left(ofrom) + Cardinality(Gone)
      BY <1>5 DEF RoomInv
    <2>13. /\ top'[to] <= Cardinality(Gone')
           /\ NovSize + top'[to] <= Left(ofrom)' + Cardinality(Gone')
      BY <2>2, <2>8, <2>10, <2>11, <2>12
    <2> QED
      BY <1>2, <2>13 DEF RoomInv
  <1> QED
    BY <1>1, <1>4, <1>5 DEF RoomInv

LEMMA StepRoom ==
    ASSUME TypeOK, HeapInv, RoomInv, [Next]_vars
    PROVE  RoomInv'
  <1>1. CASE PromoteEntry \/ TraceRemembered \/ Scan \/ TraceRoot \/ TraceGlobal
    <2>1. PICK v, pa, h, m, w : VisitStep(v, pa, h, m, w) /\ Collecting
      BY <1>1, VisitingStep
    <2> QED
      BY <2>1, VisitRoom
  <1>2. CASE BeginMinor
    <2>1. /\ pc = "collect" /\ ~OldSpaceTight /\ UNCHANGED <<mem, top, from, ofrom>>
      BY <1>2 DEF BeginMinor, heap
    <2>2. top[to] = 0 /\ \A a \in Addr : mem[a].fwd = Nil
      BY <2>1 DEF HeapInv, TopsInv, FwdInv, Collecting, MinorPhase, MajorPhase, Stage2, Failed
    <2>3. NovSize \in Nat /\ Left(ofrom) \in Int /\ NovSize <= Left(ofrom)
      BY <2>1, SpaceFacts, TopFacts, SizesAssumption DEF OldSpaceTight, Left, Capacity
    <2>4. Cardinality(Gone) \in Nat
      BY GoneFacts
    <2>5. /\ top[to] <= Cardinality(Gone)
          /\ NovSize + top[to] <= Left(ofrom) + Cardinality(Gone)
      BY <2>2, <2>3, <2>4
    <2> QED
      BY <2>1, <2>5 DEF RoomInv, Gone, Left, Capacity, to
  <1>3. CASE PromotedAll \/ TracedAll \/ BeginStage2 \/ TracedRoots
    <2>1. UNCHANGED <<mem, top, from, ofrom>> /\ (pc' \in MinorPhase => pc \in MinorPhase)
      BY <1>3 DEF PromotedAll, TracedAll, BeginStage2, TracedRoots, Goto, heap, MinorPhase
    <2> QED
      BY <2>1 DEF RoomInv, Gone, Left, Capacity, to
  <1>4. CASE UNCHANGED vars \/ Stopped
    <2>1. UNCHANGED <<mem, top, from, ofrom, pc>>
      BY <1>4 DEF Stopped, vars
    <2> QED
      BY <2>1 DEF RoomInv, Gone, Left, Capacity, to
  <1>5. CASE MinorBecomesMajor \/ TracedGlobals \/ EndMinor \/ EndMajor \/ Abort \/ Allocator
    <2>1. pc' \notin MinorPhase
      BY <1>5 DEF MinorBecomesMajor, BeginMajor, TracedGlobals, EndMinor, EndMajor, Abort, Goto,
         Resume, Allocator, Alloc, AllocCollects, MinorPhase
    <2> QED
      BY <2>1 DEF RoomInv
  <1>6. CASE Mutator
    <2>1. pc' \in {"mutator", "alloc", "collect", "major_roots"}
      BY <1>6 DEF Mutator, Load, Drop, Store, AskAlloc, CallMinor, CallMajor, BeginMajor, Goto, Mutating
    <2> QED
      BY <2>1 DEF RoomInv, MinorPhase
  <1> QED
    BY <1>1, <1>2, <1>3, <1>4, <1>5, <1>6 DEF Next, Collector

(* The reference a minor collection visits next is no copy.                *)
LEMMA VisitedUnmoved ==
    ASSUME TypeOK, HeapInv, pc \in MinorPhase, Visiting, NEW v, v = Visited
    PROVE  v \in Ref /\ Unmoved(v)
  <1>1. Collecting /\ pc \notin Failed
    BY DEF Collecting, MinorPhase, Failed
  <1>2. slot \in Slots
    BY DEF TypeOK
  <1>3. CASE pc = "y2o"
    <2>1. v = orefs[cur] /\ cur \in 1..y2o /\ cur \in 1..Len(orefs)
      BY <1>3 DEF Visited, Visiting, ScanPhase, TypeOK
    <2>2. PromoteSpace = from /\ PromoteEnd = y2o
      BY <1>3 DEF PromoteSpace, PromoteEnd, Stage2
    <2>3. v \in Addr /\ v[1] = from
      BY <1>1, <2>1, <2>2 DEF HeapInv, PoolPartsInv, TypeOK
    <2> QED
      BY <1>3, <2>3, SpaceFacts DEF Unmoved, NewSpace, MajorPhase, Ref
  <1>4. CASE pc = "remembered"
    <2>1. v = mem[orefs[cur]].slots[slot] /\ cur <= Len(orefs)
      BY <1>4 DEF Visited, Visiting, ScanPhase
    <2>2. PromoteEnd = y2o /\ cur \in y2o + 1..Len(orefs) /\ cur \in 1..Len(orefs)
      BY <1>4, <2>1 DEF PromoteEnd, Stage2, TypeOK, HeapInv, LoopsInv
    <2>3. orefs[cur] \in Addr /\ IsOld(orefs[cur]) /\ Live(orefs[cur])
      BY <1>1, <2>2 DEF HeapInv, PoolPartsInv, TypeOK
    <2>4. SlotOK(orefs[cur], slot)
      BY <1>1, <1>2, <2>3 DEF HeapInv, SlotsInv
    <2> QED
      BY <1>2, <2>1, <2>3, <2>4, CellFacts DEF SlotOK
  <1>5. CASE pc \in ScanPhase
    <2>1. v = mem[Scanned].slots[slot] /\ scan < top[Blk]
      BY <1>5 DEF Visited, Visiting, ScanPhase
    <2>2. Scanned \in Addr
      BY <2>1, ScannedFacts
    <2>3. top[Blk] \in Nat /\ scan \in Nat
      BY <1>1, FilledSpace, TopFacts DEF TypeOK
    <2>4. Live(Scanned)
      BY <2>1, <2>3 DEF Scanned, Live
    <2>5. Pending(Scanned, slot)
      BY <1>2, <2>3 DEF Pending, Unscanned, Scanned, Slots
    <2>6. SlotOK(Scanned, slot)
      BY <1>1, <1>2, <2>2, <2>4 DEF HeapInv, SlotsInv
    <2> QED
      BY <1>2, <2>1, <2>2, <2>5, <2>6, CellFacts DEF SlotOK
  <1>6. CASE pc = "roots"
    <2>1. v = root[cur] /\ cur <= NRoots
      BY <1>6 DEF Visited, Visiting, ScanPhase
    <2>2. cur \in Roots
      BY <2>1, SizesAssumption DEF TypeOK, Roots
    <2>3. ~Traced(cur)
      BY <1>6 DEF Traced, TypeOK
    <2>4. Unmoved(root[cur])
      BY <1>1, <2>2, <2>3 DEF HeapInv, RootsInv
    <2> QED
      BY <2>1, <2>2, <2>4 DEF TypeOK
  <1> QED
    BY <1>3, <1>4, <1>5, <1>6 DEF MinorPhase, ScanPhase

(* At every size a minor collection's survivors fit: the assert of         *)
(* mblk_copyto cannot fail in it, whatever the old space held when it      *)
(* began, majors included.                                                 *)
THEOREM MinorFits == Spec => PromotionsFit
  <1>1. Init => RoomInv
    BY DEF Init, RoomInv, MinorPhase
  <1>2. TypeOK /\ HeapInv /\ RoomInv /\ [Next]_vars => RoomInv'
    BY StepRoom
  <1>3. ASSUME TypeOK, HeapInv, RoomInv, [Next]_vars, pc \in MinorPhase
        PROVE  pc' # "assert_copy"
    <2>1. CASE Abort
      <3>1. PICK v : v = Visited
        OBVIOUS
      <3>2. ~CopyFails(v)
        <4>1. v \in Ref /\ Unmoved(v)
          BY <1>3, <2>1, <3>1, VisitedUnmoved DEF Abort
        <4> QED
          BY <1>3, <4>1, RoomLeft DEF CopyFails
      <3> QED
        BY <2>1, <3>1, <3>2 DEF Abort
    <2>2. CASE EndMinor \/ EndMajor
      BY <2>2 DEF EndMinor, EndMajor, Goto, Resume
    <2>3. CASE TracedRoots
      BY <2>3 DEF TracedRoots, Goto
    <2>4. CASE Mutator \/ Allocator
      BY <1>3, <2>4, Zenon DEF Mutator, Load, Drop, Store, AskAlloc, CallMinor, CallMajor, Mutating,
         Allocator, Alloc, AllocCollects, MinorPhase
    <2>5. CASE UNCHANGED vars \/ Stopped
      BY <1>3, <2>5 DEF Stopped, vars, MinorPhase
    <2>6. CASE BeginMinor \/ MinorBecomesMajor \/ PromotedAll \/ TracedAll \/ BeginStage2 \/ TracedGlobals
      BY <2>6 DEF BeginMinor, MinorBecomesMajor, BeginMajor, PromotedAll, TracedAll, BeginStage2,
         TracedGlobals, Goto
    <2>7. CASE PromoteEntry \/ TraceRemembered \/ Scan \/ TraceRoot \/ TraceGlobal
      BY <1>3, <2>7, LoopStep DEF MinorPhase
    <2> QED
      BY <1>3, <2>1, <2>2, <2>3, <2>4, <2>5, <2>6, <2>7 DEF Next, Collector
  <1>4. TypeOK /\ HeapInv /\ RoomInv /\ [Next]_vars => [(pc \in MinorPhase) => pc' # "assert_copy"]_vars
    BY <1>3
  <1> QED
    BY <1>1, <1>2, <1>4, TypeCorrect, HeapSound, PTL DEF Spec, PromotionsFit

-----------------------------------------------------------------------------
(***************************************************************************)
(* A major collection is precise.                                          *)
(***************************************************************************)
(* Each cell of the old space sp is the value of a variable, or a slot of a*)
(* box or of a cell before it refers to it.                                *)
FromRoot(b) == \E r \in Roots : root[r] = b
FromCell(b) ==
    \E a \in Addr, s \in Slots :
        /\ Live(a) /\ (a[1] = "perm" \/ (a[1] = b[1] /\ a[2] < b[2]))
        /\ mem[a].slots[s] = b
Traceable(sp) == \A b \in Addr : Live(b) /\ b[1] = sp => FromRoot(b) \/ FromCell(b)

PreciseInv == pc \in MajorPhase => Traceable(oto)

(* A visit of a major collection makes a copy only for the reference it    *)
(* rewrites, which it visits once.                                         *)
LEMMA VisitTraceable ==
    ASSUME TypeOK, HeapInv, PreciseInv, pc \in MajorPhase,
           NEW v, NEW pa, NEW h, NEW m, NEW w, VisitStep(v, pa, h, m, w),
           \A r \in Roots : root'[r] = root[r] \/ root[r] = v,
           h = Nil => \E r \in Roots : root'[r] = w
    PROVE  Traceable(oto)'
  <1> PICK d : d = dst
    OBVIOUS
  <1>1. Collecting /\ NewSpace = oto /\ Blk = oto /\ LeftSpaces = {from, ofrom}
    BY FilledSpace DEF Collecting, NewSpace, LeftSpaces
  <1>2. /\ v \in Ref /\ Unmoved(v) /\ w = Forwarded(v) /\ Visit(v, pa)
        /\ h # Nil => h \in Addr /\ Live(h) /\ h[1] \notin LeftSpaces /\ v = mem[h].slots[slot]
        /\ UNCHANGED <<from, ofrom, pc>> /\ slot \in Slots
    BY DEF VisitStep, TypeOK
  <1>3. oto' = oto
    BY <1>2, SamePhase
  <1>4. /\ \A a \in Addr : Live(a) =>
              /\ Live(a)'
              /\ \A s \in Slots :
                    mem'[a].slots[s] = IF a = h /\ s = slot THEN w ELSE mem[a].slots[s]
        /\ \A a \in Addr : Live(a)' => Live(a) \/ (a = d /\ Moves(v))
    BY <1>1, StepMem DEF HeapInv
  <1>5. ASSUME NEW b \in Addr, Live(b), b[1] = oto
        PROVE  FromRoot(b)' \/ FromCell(b)'
    <2>1. v # b
      BY <1>1, <1>2, <1>5, AddrFacts DEF Unmoved
    <2>2. CASE FromRoot(b)
      BY <1>2, <2>1, <2>2 DEF FromRoot
    <2>3. CASE FromCell(b)
      <3>1. PICK a \in Addr, s \in Slots :
                /\ Live(a) /\ (a[1] = "perm" \/ (a[1] = b[1] /\ a[2] < b[2]))
                /\ mem[a].slots[s] = b
        BY <2>3 DEF FromCell
      <3>2. ~(a = h /\ s = slot)
        BY <1>2, <2>1, <3>1, AddrFacts
      <3>3. Live(a)' /\ mem'[a].slots[s] = b
        BY <1>4, <3>1, <3>2
      <3> QED
        BY <3>1, <3>3 DEF FromCell
    <2> QED
      BY <1>1, <1>2, <1>5, <2>2, <2>3 DEF PreciseInv, Traceable
  <1>6. ASSUME Moves(v), d \in Addr PROVE FromRoot(d)' \/ FromCell(d)'
    <2>1. w = d /\ d[1] = oto /\ d[2] = top[oto] + 1
      BY <1>1, <1>2, <1>6 DEF Forwarded, dst
    <2>2. CASE h = Nil
      BY <2>1, <2>2 DEF FromRoot
    <2>3. CASE h # Nil
      <3>1. mem'[h].slots[slot] = d /\ Live(h)' /\ h \in Addr /\ Live(h)
        BY <1>2, <1>4, <2>1, <2>3
      <3>2. h[1] = "perm" \/ h[1] = oto
        <4>1. h[1] # to
          <5>1. top[to] = 0
            BY DEF HeapInv, TopsInv, Stage2, Failed, MajorPhase
          <5> QED
            BY <3>1, <5>1, EmptySpace
        <4> QED
          BY <1>1, <1>2, <3>1, <4>1, SpaceFacts, AddrFacts
      <3>3. h[1] = oto => h[2] < d[2]
        <4>1. top[oto] \in Nat /\ h[2] \in Nat
          BY <3>1, TopFacts, SpaceFacts, AddrFacts
        <4> QED
          BY <2>1, <3>1, <4>1 DEF Live
      <3> QED
        BY <1>2, <2>1, <3>1, <3>2, <3>3 DEF FromCell
    <2> QED
      BY <2>2, <2>3
  <1> QED
    BY <1>3, <1>4, <1>5, <1>6 DEF Traceable

LEMMA StepPrecise ==
    ASSUME TypeOK, HeapInv, PreciseInv, [Next]_vars
    PROVE  PreciseInv'
  <1>1. CASE UNCHANGED vars \/ Stopped
    BY <1>1 DEF Stopped, vars, PreciseInv, Traceable, FromRoot, FromCell, Live, oto
  <1>2. CASE BeginMajor /\ Quiescent
    <2>1. top' = top /\ oto' = oto
      BY <1>2 DEF BeginMajor, heap, oto
    <2>2. top[oto] = 0
      BY <1>2, QuiescentFacts DEF HeapInv
    <2>3. \A b \in Addr : b[2] \in Nat \ {0}
      BY AddrFacts
    <2> QED
      BY <2>1, <2>2, <2>3 DEF PreciseInv, Traceable, Live
  <1>3. CASE TracedRoots \/ TracedGlobals
    <2>1. UNCHANGED <<mem, top, ofrom, root>> /\ (pc' \in MajorPhase => pc \in MajorPhase)
      BY <1>3 DEF TracedRoots, TracedGlobals, Goto, heap, MajorPhase
    <2> QED
      BY <2>1 DEF PreciseInv, Traceable, FromRoot, FromCell, Live, oto
  <1>4. CASE PromoteEntry \/ TraceRemembered
    BY <1>4, LoopStep DEF PreciseInv, PromoteEntry, TraceRemembered, MajorPhase
  <1>5. CASE Scan /\ pc \in MajorPhase
    <2> PICK h, pa, v, m, w : h = Scanned /\ pa = mem[h].added /\ v = mem[h].slots[slot]
                              /\ m = MemAfter(v) /\ w = Forwarded(v)
      OBVIOUS
    <2>1. VisitStep(v, pa, h, m, w) /\ h # Nil
      BY <1>5, ScanVisits, AddrFacts
    <2>2. root' = root
      BY <1>5 DEF Scan
    <2> QED
      BY <1>5, <2>1, <2>2, VisitTraceable DEF PreciseInv
  <1>6. CASE TraceRoot /\ pc \in MajorPhase
    <2> PICK pa, v, m, w : pa = FALSE /\ v = root[cur] /\ m = MemAfter(v) /\ w = Forwarded(v)
      OBVIOUS
    <2>1. /\ VisitStep(v, pa, Nil, m, w)
          /\ cur \in Roots /\ root' = [root EXCEPT ![cur] = w] /\ root \in [Roots -> Ref]
      BY <1>6, TraceRootVisits DEF TypeOK
    <2>2. /\ \A r \in Roots : root'[r] = root[r] \/ root[r] = v
          /\ \E r \in Roots : root'[r] = w
      BY <2>1
    <2> QED
      BY <1>6, <2>1, <2>2, VisitTraceable DEF PreciseInv
  <1>7. CASE TraceGlobal
    <2> PICK pa, h, v, m, w : pa = FALSE /\ h = <<"perm", cur>> /\ v = mem[h].slots[slot]
                              /\ m = MemAfter(v) /\ w = Forwarded(v)
      OBVIOUS
    <2>1. VisitStep(v, pa, h, m, w) /\ h # Nil
      BY <1>7, TraceGlobalVisits, AddrFacts
    <2>2. root' = root /\ pc \in MajorPhase
      BY <1>7 DEF TraceGlobal, MajorPhase
    <2> QED
      BY <2>1, <2>2, VisitTraceable DEF PreciseInv
  <1>8. CASE (Scan \/ TraceRoot) /\ pc \notin MajorPhase
    BY <1>8 DEF Scan, TraceRoot, PreciseInv
  <1>9. CASE BeginMinor \/ PromotedAll \/ TracedAll \/ BeginStage2 \/ EndMinor \/ EndMajor \/ Abort
             \/ Allocator
    BY <1>9 DEF BeginMinor, PromotedAll, TracedAll, BeginStage2, EndMinor, EndMajor, Abort,
       Allocator, Alloc, AllocCollects, Goto, Resume, PreciseInv, MajorPhase
  <1>10. CASE Mutator /\ ~CallMajor
    BY <1>10, Zenon DEF Mutator, Load, Drop, Store, AskAlloc, CallMinor, Mutating, PreciseInv, MajorPhase
  <1>11. CASE MinorBecomesMajor \/ CallMajor
    BY <1>2, <1>11 DEF MinorBecomesMajor, CallMajor, Mutating, Quiescent
  <1> QED
    BY <1>1, <1>3, <1>4, <1>5, <1>6, <1>7, <1>8, <1>9, <1>10, <1>11 DEF Next, Collector

(* What is left when a major collection ends is what it has copied.        *)
LEMMA EndMajorPrecise ==
    ASSUME TypeOK, HeapInv, PreciseInv, EndMajor
    PROVE  Traceable(ofrom)' /\ top'[from'] = 0
  <1>1. /\ pc = "major_scan" /\ Reclaim({from, ofrom})
        /\ UNCHANGED <<from, root>> /\ ofrom' = oto
    BY DEF EndMajor
  <1>2. Traceable(oto)
    BY <1>1 DEF PreciseInv, MajorPhase
  <1>3. /\ \A a \in Addr : mem'[a] = IF a[1] \in {from, ofrom} THEN FreeCell ELSE mem[a]
        /\ \A a \in Addr : Live(a)' <=> Live(a) /\ a[1] \notin {from, ofrom}
        /\ top'[from] = 0
    <2>1. {from, ofrom} \in SUBSET (YoungSpace \cup OldSpace) /\ from \in Spaces
      BY SpaceFacts
    <2> QED
      BY <1>1, <2>1, ReclaimFacts
  <1>4. ASSUME NEW b \in Addr, Live(b)', b[1] = oto
        PROVE  FromRoot(b)' \/ FromCell(b)'
    <2>1. FromRoot(b) \/ FromCell(b)
      BY <1>2, <1>3, <1>4 DEF Traceable
    <2>2. FromRoot(b) => FromRoot(b)'
      BY <1>1 DEF FromRoot
    <2>3. ASSUME NEW a \in Addr, NEW s \in Slots, Live(a), mem[a].slots[s] = b,
                 a[1] = "perm" \/ (a[1] = b[1] /\ a[2] < b[2])
          PROVE  FromCell(b)'
      <3>1. a[1] \notin {from, ofrom}
        BY <1>4, <2>3, SpaceFacts
      <3>2. Live(a)' /\ mem'[a].slots[s] = b
        BY <1>3, <2>3, <3>1
      <3> QED
        BY <2>3, <3>2 DEF FromCell
    <2> QED
      BY <2>1, <2>2, <2>3 DEF FromCell
  <1> QED
    BY <1>1, <1>3, <1>4 DEF Traceable

(* A cell can be reached in as many steps as there are cells up to it.     *)
OldInUse == {a \in Addr : Live(a) /\ a[1] = ofrom}

LEMMA TraceableReached ==
    ASSUME TypeOK, HeapInv, Traceable(ofrom)
    PROVE  OldInUse \subseteq Reachable
  <1> DEFINE n == NovSize + OldSize + NGlobals
             Succ(S) == {mem[a].slots[s] : a \in S, s \in Slots} \ {Nil}
             Rec(m, g) == g = [i \in 0..m |-> IF i = 0 THEN Holders ELSE g[i - 1] \cup Succ(g[i - 1])]
             f == CHOOSE g : Rec(n, g)
             P == {m \in 0..n : \E g : Rec(m, g)}
             Q == {m \in 0..n : Holders \subseteq f[m] /\ \A b \in OldInUse : b[2] <= m => b \in f[m]}
  <1>1. n \in Nat
    BY SizesAssumption
  <1>2. Reachable = f[n]
    BY DEF Reachable
  <1>3. Rec(0, [i \in 0..0 |-> Holders])
    OBVIOUS
  <1> HIDE DEF n
  <1>4. ASSUME NEW m \in 0..n - 1, NEW g, Rec(m, g)
        PROVE  \E h : Rec(m + 1, h)
    <2> HIDE DEF Succ
    <2> DEFINE h == [i \in 0..m + 1 |-> IF i = m + 1 THEN g[m] \cup Succ(g[m]) ELSE g[i]]
    <2>1. ASSUME NEW i \in 0..m + 1
          PROVE  h[i] = IF i = 0 THEN Holders ELSE h[i - 1] \cup Succ(h[i - 1])
      <3>1. CASE i = m + 1
        <4>1. i - 1 = m /\ m \in 0..m + 1 /\ m # m + 1 /\ i # 0
          BY <1>1, <3>1
        <4>2. h[i] = g[m] \cup Succ(g[m]) /\ h[i - 1] = g[m]
          BY <3>1, <4>1
        <4> QED
          BY <4>1, <4>2
      <3>2. CASE i # m + 1
        <4>1. i \in 0..m
          BY <1>1, <3>2
        <4>2. h[i] = g[i] /\ (i # 0 => h[i - 1] = g[i - 1])
          BY <1>1, <4>1
        <4>3. g[i] = IF i = 0 THEN Holders ELSE g[i - 1] \cup Succ(g[i - 1])
          BY <1>4, <4>1
        <4> QED
          BY <4>2, <4>3
      <3> QED
        BY <3>1, <3>2
    <2> HIDE DEF Rec
    <2>2. h = [i \in 0..m + 1 |-> IF i = 0 THEN Holders ELSE h[i - 1] \cup Succ(h[i - 1])]
      BY <2>1
    <2> QED
      BY <2>2 DEF Rec
  <1>5. ASSUME NEW g, Rec(n, g)
        PROVE  /\ g[0] = Holders
               /\ \A m \in 0..n - 1 : g[m + 1] = g[m] \cup Succ(g[m])
    <2> HIDE DEF Succ
    <2>1. g[0] = Holders
      BY <1>1, <1>5
    <2>2. ASSUME NEW m \in 0..n - 1 PROVE g[m + 1] = g[m] \cup Succ(g[m])
      <3>1. m + 1 \in 0..n /\ m + 1 # 0 /\ (m + 1) - 1 = m
        BY <1>1
      <3>2. g[m + 1] = g[(m + 1) - 1] \cup Succ(g[(m + 1) - 1])
        BY <1>5, <3>1
      <3> QED
        BY <3>1, <3>2
    <2> QED
      BY <2>1, <2>2
  <1> HIDE DEF Rec
  <1>6. Rec(n, f)
    <2>1. 0 \in P /\ \A m \in 0..n - 1 : m \in P => m + 1 \in P
      BY <1>1, <1>3, <1>4
    <2> HIDE DEF P, f
    <2>2. \A m \in 0..n : m \in P
      BY <1>1, <2>1, UpTo
    <2>3. n \in P
      BY <1>1, <2>2
    <2>4. \E g : Rec(n, g)
      BY <2>3 DEF P
    <2> QED
      BY <2>4 DEF f
  <1> HIDE DEF f
  <1>7. 0 \in Q
    <2>1. \A b \in OldInUse : ~(b[2] <= 0)
      BY AddrFacts DEF OldInUse
    <2> QED
      BY <1>1, <1>5, <1>6, <2>1
  <1>8. ASSUME NEW m \in 0..n - 1, m \in Q PROVE m + 1 \in Q
    <2>1. f[m + 1] = f[m] \cup Succ(f[m]) /\ m + 1 \in 0..n /\ m \in Nat
      BY <1>1, <1>5, <1>6
    <2>2. Holders \subseteq f[m] /\ \A b \in OldInUse : b[2] <= m => b \in f[m]
      BY <1>8
    <2>3. ASSUME NEW b \in OldInUse, b[2] <= m + 1 PROVE b \in f[m + 1]
      <3>1. b \in Addr /\ b # Nil /\ b[2] \in Nat /\ Live(b) /\ b[1] = ofrom
        BY AddrFacts DEF OldInUse
      <3>2. CASE FromRoot(b)
        BY <2>1, <2>2, <3>1, <3>2 DEF FromRoot, Holders
      <3>3. CASE FromCell(b)
        <4>1. PICK a \in Addr, s \in Slots :
                  /\ Live(a) /\ (a[1] = "perm" \/ (a[1] = b[1] /\ a[2] < b[2]))
                  /\ mem[a].slots[s] = b
          BY <3>3 DEF FromCell
        <4>2. a \in f[m]
          <5>1. CASE a[1] = "perm"
            BY <2>2, <4>1, <5>1, AddrFacts DEF Holders
          <5>2. CASE a[1] = b[1] /\ a[2] < b[2]
            <6>1. a[2] <= m
              BY <2>1, <2>3, <3>1, <4>1, <5>2, AddrFacts
            <6> QED
              BY <2>2, <3>1, <4>1, <5>2, <6>1 DEF OldInUse
          <5> QED
            BY <4>1, <5>1, <5>2
        <4> QED
          BY <2>1, <3>1, <4>1, <4>2
      <3> QED
        BY <3>1, <3>2, <3>3 DEF Traceable
    <2> QED
      BY <2>1, <2>2, <2>3
  <1>9. n \in Q
    <2> HIDE DEF Q
    <2>1. \A m \in 0..n : m \in Q
      BY <1>1, <1>7, <1>8, UpTo
    <2> QED
      BY <1>1, <2>1
  <1>10. ASSUME NEW b \in OldInUse PROVE b[2] <= n
    <2>1. b[2] \in 1..OldSize
      BY SpaceFacts DEF OldInUse, Addr, YoungAddr, OldAddr, BoxAddr, YoungSpace, OldSpace
    <2> QED
      BY <2>1, SizesAssumption DEF n
  <1> QED
    BY <1>2, <1>9, <1>10

(* A major collection leaves nothing but what a path leads to, for every   *)
(* size of the heap: what is copied is traced to a variable or to a box.   *)
EndsMajor == pc = "major_scan" /\ pc' # "major_scan" /\ pc' \notin Failed
MajorStep ==
    pc = "major_scan" /\ pc' # "major_scan" /\ pc' \notin Failed =>
        {a \in Allocated' : ~IsBox(a)} \subseteq Reachable' /\ top'[from'] = 0

THEOREM MajorPrecise == Spec => MajorIsPrecise
  <1>1. Init => PreciseInv
    BY DEF Init, PreciseInv, MajorPhase
  <1>2. TypeOK /\ HeapInv /\ PreciseInv /\ [Next]_vars => PreciseInv'
    BY StepPrecise
  <1>3. ASSUME TypeOK, HeapInv, PreciseInv, Next, EndsMajor
        PROVE  Traceable(ofrom)' /\ top'[from'] = 0
    <2>1. ~Scan /\ ~Abort /\ ~Stopped
      BY <1>3 DEF EndsMajor, Scan, Abort, Stopped, vars, Failed
    <2>2. ~BeginMinor /\ ~MinorBecomesMajor /\ ~PromoteEntry /\ ~PromotedAll /\ ~TraceRemembered
          /\ ~TracedAll /\ ~BeginStage2 /\ ~TraceRoot /\ ~TracedRoots /\ ~TraceGlobal
          /\ ~TracedGlobals /\ ~EndMinor
      BY <1>3 DEF EndsMajor, BeginMinor, MinorBecomesMajor, PromoteEntry, PromotedAll,
         TraceRemembered, TracedAll, BeginStage2, TraceRoot, TracedRoots, TraceGlobal,
         TracedGlobals, EndMinor
    <2>3. ~Allocator
      BY <1>3 DEF EndsMajor, Allocator, Alloc, AllocCollects
    <2>4. ~Mutator
      BY <1>3, Zenon DEF EndsMajor, Mutator, Load, Drop, Store, AskAlloc, CallMinor, CallMajor, Mutating
    <2>5. EndMajor
      BY <1>3, <2>1, <2>2, <2>3, <2>4, Zenon DEF Next, Collector
    <2> QED
      BY <1>3, <2>5, EndMajorPrecise
  <1>4. TypeOK /\ HeapInv /\ Traceable(ofrom) => OldInUse \subseteq Reachable
    BY TraceableReached
  <1>5. ASSUME TypeOK', HeapInv', (OldInUse \subseteq Reachable)', top'[from'] = 0
        PROVE  {a \in Allocated' : ~IsBox(a)} \subseteq Reachable'
    <2> SUFFICES ASSUME NEW a \in Addr, InUse(a)', ~IsBox(a) PROVE a \in OldInUse'
      BY <1>5 DEF Allocated
    <2>1. a[1] = from' => FALSE
      BY <1>5, AddrFacts DEF InUse
    <2> QED
      BY <2>1 DEF InUse, IsBox, OldInUse, Live
  <1>6. [Next]_vars /\ TypeOK /\ HeapInv /\ PreciseInv /\ TypeOK' /\ HeapInv'
        /\ (Traceable(ofrom)' => (OldInUse \subseteq Reachable)') => [MajorStep]_vars
    <2> SUFFICES ASSUME Next, TypeOK, HeapInv, PreciseInv, TypeOK', HeapInv',
                        Traceable(ofrom)' => (OldInUse \subseteq Reachable)', EndsMajor
                 PROVE  {a \in Allocated' : ~IsBox(a)} \subseteq Reachable' /\ top'[from'] = 0
      BY DEF MajorStep, EndsMajor
    <2>1. Traceable(ofrom)' /\ top'[from'] = 0
      BY <1>3
    <2> QED
      BY <1>5, <2>1
  <1>7. Spec => [][MajorStep]_vars
    <2> DEFINE Reaches == OldInUse \subseteq Reachable
               Kept == Traceable(ofrom)
    <2>1. TypeOK /\ HeapInv /\ Kept => Reaches
      BY <1>4
    <2>2. [Next]_vars /\ TypeOK /\ HeapInv /\ PreciseInv /\ TypeOK' /\ HeapInv' /\ (Kept' => Reaches')
            => [MajorStep]_vars
      BY <1>6
    <2> HIDE DEF Reaches, Kept
    <2> QED
      BY <1>1, <1>2, <2>1, <2>2, TypeCorrect, HeapSound, PTL DEF Spec
  <1> QED
    BY <1>7, PTL DEF MajorIsPrecise, MajorStep
=============================================================================
