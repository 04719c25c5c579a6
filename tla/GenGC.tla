------------------------------- MODULE GenGC -------------------------------
(***************************************************************************)
(* The generational copying collector of src/memmgr.c: two young           *)
(* semispaces, two old semispaces, permanent global boxes, the pool `orefs`*)
(* (over-aged young objects first, then remembered old objects), the write *)
(* barrier SLOT_SET, and the minor and major collections, which run to     *)
(* completion while the mutator waits.  The R-stack is a fixed sequence of *)
(* protected C variables, the roots.  Every object has NSlots slots and    *)
(* takes one cell.                                                         *)
(***************************************************************************)
EXTENDS Integers, Sequences

CONSTANTS
    Nil,          \* NIHIL, and every slot value that is no heap reference
    NovSize,      \* cells of one young semispace (novsz)
    OldSize,      \* cells of one old semispace (oldsz)
    PoolSize,     \* entries of the orefs pool (orefslim - orefs)
    NewAgeMax,    \* newagemax: minor collections an object survives as young
    NSlots,       \* slots of an object
    NRoots,       \* protected variables on the R-stack
    NGlobals,     \* global boxes
    MajorAllowed, \* bound: FALSE stops a behaviour where a minor collection
                  \* would become a major one, and disables gc-major
    MaxAllocs     \* bound: allocations in a behaviour

ASSUME SizesAssumption ==
    /\ NovSize \in Nat \ {0}
    /\ OldSize \in Nat
    /\ OldSize >= 2 * NovSize          \* gc_mov_make asserts old_per_new >= 2
    /\ PoolSize \in Nat \ {0}
    /\ NewAgeMax \in 0..7              \* gc_mov_make asserts newagemax <= 7
    /\ NSlots \in Nat \ {0}
    /\ NRoots \in Nat \ {0}
    /\ NGlobals \in Nat
    /\ MajorAllowed \in BOOLEAN
    /\ MaxAllocs \in Nat

YoungSpace == {"y0", "y1"}
OldSpace == {"o0", "o1"}
YoungAddr == YoungSpace \X (1..NovSize)
OldAddr == OldSpace \X (1..OldSize)
BoxAddr == {"perm"} \X (1..NGlobals)
Addr == YoungAddr \cup OldAddr \cup BoxAddr

ASSUME NilAssumption == Nil \notin Addr

Slots == 1..NSlots
Roots == 1..NRoots
Ref == Addr \cup {Nil}

(* What the collector reads and writes of an object: its slots, and the    *)
(* ADDED bit, the AGE field and the forwarding address of its tag.  The    *)
(* OLD bit is the generation of the space the object lies in.              *)
Cell == [slots: [Slots -> Ref], added: BOOLEAN, age: 0..7, fwd: Ref]

NewCell(ss) == [slots |-> ss, added |-> FALSE, age |-> 0, fwd |-> Nil]
FreeCell == NewCell([s \in Slots |-> Nil])

NoReq == [dst |-> 0, src |-> [s \in Slots |-> 0]]
Request == [dst: Roots \cup {0}, src: [Slots -> Roots \cup {0}]]

VARIABLES
    mem,    \* the cells of all spaces
    top,    \* ptr of each space: its first top[sp] cells are allocated
    from,   \* the young space that objects are allocated in
    ofrom,  \* the old space in use
    orefs,  \* the pool orefs..orefscur
    y2o,    \* orefsy2o - orefs: the pool's first y2o entries are over-aged
    root,   \* the values of the protected variables
    pc,     \* who runs, and in a collection its current loop
    cur,    \* loop index: pool entry, root or global; else 1
    slot,   \* slot index of the inner SLOT_FOREACH
    scan,   \* scan pointer of the space being filled (cells scanned)
    req,    \* the allocation the mutator waits for, or NoReq
    allocs  \* allocations asked for so far

vars == <<mem, top, from, ofrom, orefs, y2o, root, pc, cur, slot, scan, req, allocs>>
heap == <<mem, top, from, ofrom>>
pool == <<orefs, y2o>>

MinorPhase == {"y2o", "remembered", "scan_old", "roots", "scan_young"}
MajorPhase == {"major_roots", "major_globals", "major_scan"}
Failed == {"assert_copy", "assert_pool"}

to == IF from = "y0" THEN "y1" ELSE "y0"
oto == IF ofrom = "o0" THEN "o1" ELSE "o0"

Capacity(sp) ==
    IF sp \in YoungSpace THEN NovSize ELSE IF sp \in OldSpace THEN OldSize ELSE NGlobals
Left(sp) == Capacity(sp) - top[sp]

IsYoung(a) == a[1] \in YoungSpace
IsOld(a) == a[1] \notin YoungSpace
IsBox(a) == a[1] = "perm"

(* Addresses of objects, for the properties and the mutator's guard.       *)
InUse(a) == a[1] \in {from, ofrom, "perm"} /\ a[2] <= top[a[1]]
Allocated == {a \in Addr : InUse(a)}
Dangling(v) == v # Nil /\ ~InUse(v)

Init ==
    /\ mem = [a \in Addr |-> FreeCell]
    /\ top = [sp \in YoungSpace \cup OldSpace \cup {"perm"} |->
                IF sp = "perm" THEN NGlobals ELSE 0]
    /\ from = "y0"
    /\ ofrom = "o0"
    /\ orefs = <<>>
    /\ y2o = 0
    /\ root = [r \in Roots |-> Nil]
    /\ pc = "mutator"
    /\ cur = 1
    /\ slot = 1
    /\ scan = 0
    /\ req = NoReq
    /\ allocs = 0

-----------------------------------------------------------------------------
(***************************************************************************)
(* The mutator.  It sees protected variables, the objects they hold and    *)
(* the global boxes.  After a dangling reference exists the C program's    *)
(* behaviour is undefined, and the model ends there.                       *)
(***************************************************************************)
Defined ==
    /\ \A r \in Roots : ~Dangling(root[r])
    /\ \A a \in Allocated : \A s \in Slots : ~Dangling(mem[a].slots[s])

Mutating == pc = "mutator" /\ Defined

Holders == ({root[r] : r \in Roots} \ {Nil}) \cup BoxAddr
HolderSlots(h) == IF IsBox(h) THEN {1} ELSE Slots

(* r := slot s of h, or r := NIHIL (a variable reset or popped off).       *)
Load(r, h, s) ==
    /\ Mutating
    /\ root' = [root EXCEPT ![r] = mem[h].slots[s]]
    /\ UNCHANGED <<heap, pool, pc, cur, slot, scan, req, allocs>>

Drop(r) ==
    /\ Mutating
    /\ root[r] # Nil
    /\ root' = [root EXCEPT ![r] = Nil]
    /\ UNCHANGED <<heap, pool, pc, cur, slot, scan, req, allocs>>

(* SLOT_SET with __gc_check_old: the store, then the barrier: an old holder*)
(* of a young value enters the pool once, and a full pool starts a minor   *)
(* collection.                                                             *)
RemembersNoBoxes(h, v) == IsOld(h) /\ ~IsBox(h) /\ v # Nil /\ IsYoung(v)   \* mutant
RemembersFirst(h, v) == IsOld(h) /\ v # Nil /\ IsYoung(v) /\ Len(orefs) = y2o \* mutant
RemembersAny(h, v) == v # Nil /\ IsYoung(v)                                \* mutant
Remembers(h, v) == IsOld(h) /\ v # Nil /\ IsYoung(v)

PoolFull == Len(orefs') = PoolSize              \* orefslim == orefscur

Store(h, s, v) ==
    LET stored == [mem EXCEPT ![h].slots[s] = v] IN
    /\ Mutating
    /\ IF Remembers(h, v) /\ ~mem[h].added
          THEN /\ mem' = [stored EXCEPT ![h].added = TRUE]
               /\ orefs' = Append(orefs, h)
               /\ pc' = IF PoolFull THEN "collect" ELSE "mutator"
          ELSE /\ mem' = stored
               /\ UNCHANGED <<orefs, pc>>
    /\ UNCHANGED <<top, from, ofrom, y2o, root, cur, slot, scan, req, allocs>>

(* gc_mov_alloc and the constructor around it: the arguments are protected *)
(* variables, so a collection in between updates them.  alloc_try keeps the*)
(* last cell of the young space free.                                      *)
AskAlloc(d, src) ==
    /\ Mutating
    /\ allocs < MaxAllocs
    /\ allocs' = allocs + 1
    /\ req' = [dst |-> d, src |-> src]
    /\ pc' = "alloc"
    /\ UNCHANGED <<heap, pool, root, cur, slot, scan>>

FitsLastCell == top[from] + 1 < NovSize + 2    \* mutant
Fits == top[from] + 1 < NovSize

Alloc ==
    LET new == <<from, top[from] + 1>>
        arg(i) == IF i = 0 THEN Nil ELSE root[i] IN
    /\ pc = "alloc" /\ Defined
    /\ Fits
    /\ mem' = [mem EXCEPT ![new] = NewCell([s \in Slots |-> arg(req.src[s])])]
    /\ top' = [top EXCEPT ![from] = @ + 1]
    /\ root' = [root EXCEPT ![req.dst] = new]
    /\ req' = NoReq
    /\ pc' = "mutator"
    /\ UNCHANGED <<from, ofrom, pool, cur, slot, scan, allocs>>

AllocCollects ==
    /\ pc = "alloc" /\ Defined
    /\ ~Fits
    /\ pc' = "collect"
    /\ UNCHANGED <<heap, pool, root, cur, slot, scan, req, allocs>>

(* The procedures gc-minor and gc-major.                                   *)
CallMinor ==
    /\ Mutating
    /\ pc' = "collect"
    /\ UNCHANGED <<heap, pool, root, cur, slot, scan, req, allocs>>

-----------------------------------------------------------------------------
(***************************************************************************)
(* Copying one reference.  Blk is the space being filled; the copier is    *)
(* chcpy_major_old in a major collection, chcpy_minor_young when a minor   *)
(* collection fills the other young space, chcpy_minor_to_old otherwise.   *)
(***************************************************************************)
Blk ==
    IF pc \in MajorPhase THEN oto
    ELSE IF pc \in {"roots", "scan_young"} /\ NewAgeMax # 0 THEN to
    ELSE ofrom

dst == <<Blk, top[Blk] + 1>>

(* The copier runs on v: a general object not forwarded yet, in a minor    *)
(* collection a young one.                                                 *)
Moves(v) ==
    /\ v # Nil
    /\ ~IsBox(v)
    /\ mem[v].fwd = Nil
    /\ pc \in MajorPhase \/ IsYoung(v)

NextAgeSame(v) == mem[v].age                    \* mutant
NextAge(v) == (mem[v].age + 1) % 8    \* tag_inc_age; the field has 3 bits
Overaged(v) == NewAgeMax <= NextAge(v)

CopyOfKeepsAdded(v) ==                          \* mutant
    IF Blk \in YoungSpace
      THEN [mem[v] EXCEPT !.age = NextAge(v), !.added = @ \/ Overaged(v)]
      ELSE mem[v]

CopyOf(v) ==
    IF pc \in MajorPhase THEN [mem[v] EXCEPT !.added = @ /\ IsOld(v)]
    ELSE IF Blk \in YoungSpace
      THEN [mem[v] EXCEPT !.age = NextAge(v), !.added = @ \/ Overaged(v)]
      ELSE [mem[v] EXCEPT !.added = FALSE]

(* An over-aged object enters the pool, unless its parent is in it or it   *)
(* already carries the ADDED bit.                                          *)
Enters(v, parentAdded) ==
    /\ Moves(v)
    /\ Blk \in YoungSpace
    /\ Overaged(v)
    /\ ~parentAdded
    /\ ~mem[v].added

(* The asserts of mblk_copyto and chcpy_minor_young.                       *)
CopyFails(v) == Moves(v) /\ Left(Blk) = 0
PoolFailsLate(v, parentAdded) ==                \* mutant
    Enters(v, parentAdded) /\ Len(orefs) + 1 > PoolSize
PoolFails(v, parentAdded) == Enters(v, parentAdded) /\ Len(orefs) + 1 >= PoolSize

(* What the slot or root that held v holds afterwards, and the memory      *)
(* before that slot is written.                                            *)
ForwardedIgnored(v) == IF Moves(v) THEN dst ELSE v   \* mutant

Forwarded(v) ==
    IF Moves(v) THEN dst
    ELSE IF v # Nil /\ mem[v].fwd # Nil THEN mem[v].fwd
    ELSE v

MemAfterUnmarked(v) ==                           \* mutant
    IF Moves(v) THEN [mem EXCEPT ![dst] = CopyOf(v)] ELSE mem

MemAfter(v) ==
    IF Moves(v) THEN [mem EXCEPT ![dst] = CopyOf(v), ![v].fwd = dst]
    ELSE mem

Visit(v, parentAdded) ==
    /\ ~CopyFails(v) /\ ~PoolFails(v, parentAdded)
    /\ top' = IF Moves(v) THEN [top EXCEPT ![Blk] = @ + 1] ELSE top
    /\ orefs' = IF Enters(v, parentAdded) THEN Append(orefs, dst) ELSE orefs

VisitSlot(h, parentAdded) ==
    LET v == mem[h].slots[slot] IN
    /\ Visit(v, parentAdded)
    /\ mem' = [MemAfter(v) EXCEPT ![h].slots[slot] = Forwarded(v)]

VisitRoot(r) ==
    /\ Visit(root[r], FALSE)
    /\ mem' = MemAfter(root[r])
    /\ root' = [root EXCEPT ![r] = Forwarded(root[r])]

Goto(phase, i) ==
    /\ pc' = phase
    /\ cur' = i
    /\ slot' = 1

(* The next slot of the object at hand, or the next object.                *)
NextSlot == slot' = IF slot < NSlots THEN slot + 1 ELSE 1
LastSlotMissed == slot > NSlots                 \* mutant
LastSlot == slot = NSlots

-----------------------------------------------------------------------------
(***************************************************************************)
(* gc_mov_minorcollect.                                                    *)
(***************************************************************************)
OldSpaceTightOther == Left(oto) < NovSize        \* mutant
OldSpaceTight == Left(ofrom) < NovSize

(* The head of gc_mov_majorcollect.  It resets orefscur at once and        *)
(* orefsy2o at its end; nothing reads orefsy2o in between.                 *)
BeginMajor ==
    /\ MajorAllowed
    /\ orefs' = <<>>
    /\ y2o' = 0
    /\ Goto("major_roots", 1)
    /\ scan' = top[oto]
    /\ UNCHANGED <<heap, root, req, allocs>>

BeginMinor ==
    /\ pc = "collect"
    /\ ~OldSpaceTight
    /\ Goto("y2o", 1)
    /\ scan' = top[ofrom]
    /\ UNCHANGED <<heap, pool, root, req, allocs>>

MinorBecomesMajor == pc = "collect" /\ OldSpaceTight /\ BeginMajor

CallMajor == Mutating /\ BeginMajor

(* Stage 1: the over-aged entries of the pool move to the old space.       *)
PromoteEntry ==
    /\ pc = "y2o" /\ cur <= y2o
    /\ Visit(orefs[cur], FALSE)
    /\ mem' = MemAfter(orefs[cur])
    /\ cur' = cur + 1
    /\ UNCHANGED <<from, ofrom, y2o, root, pc, slot, scan, req, allocs>>

PromotedAll ==
    /\ pc = "y2o" /\ cur > y2o
    /\ Goto("remembered", cur)
    /\ UNCHANGED <<heap, pool, root, scan, req, allocs>>

(* Then what the remembered old objects refer to; their ADDED bit is       *)
(* cleared first.                                                          *)
TraceRemembered ==
    LET d == orefs[cur]
        v == mem[d].slots[slot] IN
    /\ pc = "remembered" /\ cur <= Len(orefs)
    /\ Visit(v, FALSE)
    /\ mem' = [MemAfter(v) EXCEPT ![d].slots[slot] = Forwarded(v),
                                         ![d].added = FALSE]
    /\ NextSlot
    /\ cur' = IF LastSlot THEN cur + 1 ELSE cur
    /\ UNCHANGED <<from, ofrom, y2o, root, pc, scan, req, allocs>>

TracedAll ==
    /\ pc = "remembered" /\ cur > Len(orefs)
    /\ orefs' = <<>>
    /\ y2o' = 0
    /\ Goto("scan_old", 1)
    /\ UNCHANGED <<heap, root, scan, req, allocs>>

(* cheney_copy: the object at the scan pointer, one slot at a time.        *)
ScanPhase == {"scan_old", "scan_young", "major_scan"}
Scanned == <<Blk, scan + 1>>

Scan ==
    /\ pc \in ScanPhase /\ scan < top[Blk]
    /\ VisitSlot(Scanned, mem[Scanned].added)
    /\ NextSlot
    /\ scan' = IF LastSlot THEN scan + 1 ELSE scan
    /\ UNCHANGED <<from, ofrom, y2o, root, pc, cur, req, allocs>>

(* Stage 2: gc_mov_rootinit sets the scan pointer, then visits the R-stack.*)
BeginStage2 ==
    /\ pc = "scan_old" /\ scan = top[ofrom]
    /\ Goto("roots", 1)
    /\ scan' = IF NewAgeMax # 0 THEN top[to] ELSE top[ofrom]
    /\ UNCHANGED <<heap, pool, root, req, allocs>>

TraceRoot ==
    /\ pc \in {"roots", "major_roots"} /\ cur <= NRoots
    /\ VisitRoot(cur)
    /\ cur' = cur + 1
    /\ UNCHANGED <<from, ofrom, y2o, pc, slot, scan, req, allocs>>

TracedRoots ==
    /\ pc \in {"roots", "major_roots"} /\ cur > NRoots
    /\ Goto(IF pc = "roots" THEN "scan_young" ELSE "major_globals", 1)
    /\ UNCHANGED <<heap, pool, root, scan, req, allocs>>

(* gc_mov_rootinit of a major collection: the values in the global boxes.  *)
TraceGlobal ==
    /\ pc = "major_globals" /\ cur <= NGlobals
    /\ VisitSlot(<<"perm", cur>>, FALSE)
    /\ cur' = cur + 1
    /\ UNCHANGED <<from, ofrom, y2o, root, pc, slot, scan, req, allocs>>

TracedGlobals ==
    /\ pc = "major_globals" /\ cur > NGlobals
    /\ Goto("major_scan", 1)
    /\ UNCHANGED <<heap, pool, root, scan, req, allocs>>

Reclaim(sps) ==
    /\ mem' = [a \in Addr |-> IF a[1] \in sps THEN FreeCell ELSE mem[a]]
    /\ top' = [sp \in DOMAIN top |-> IF sp \in sps THEN 0 ELSE top[sp]]

Resume == IF req = NoReq THEN "mutator" ELSE "alloc"

(* The young spaces are swapped.  The space left behind is emptied here,   *)
(* in the code at the start of the next stage 2: nothing reads it between. *)
EndMinor ==
    /\ pc = "scan_young" /\ scan = top[Blk]
    /\ Reclaim({from})
    /\ from' = IF NewAgeMax # 0 THEN to ELSE from
    /\ y2o' = Len(orefs)
    /\ Goto(Resume, 1)
    /\ scan' = 0
    /\ UNCHANGED <<ofrom, orefs, root, req, allocs>>

(* The end of gc_mov_majorcollect: when the survivors leave less than a    *)
(* young space free, NO_MEM is thrown, and the allocation, if there is one,*)
(* is abandoned.                                                           *)
EndMajorKeepsYoung ==                           \* mutant
    LET noMem == OldSize - top[oto] < NovSize IN
    /\ pc = "major_scan" /\ scan = top[oto]
    /\ Reclaim({ofrom})
    /\ ofrom' = oto
    /\ Goto(IF noMem THEN "mutator" ELSE Resume, 1)
    /\ req' = IF noMem THEN NoReq ELSE req
    /\ scan' = 0
    /\ UNCHANGED <<from, pool, root, allocs>>

EndMajor ==
    LET noMem == OldSize - top[oto] < NovSize IN
    /\ pc = "major_scan" /\ scan = top[oto]
    /\ Reclaim({from, ofrom})
    /\ ofrom' = oto
    /\ Goto(IF noMem THEN "mutator" ELSE Resume, 1)
    /\ req' = IF noMem THEN NoReq ELSE req
    /\ scan' = 0
    /\ UNCHANGED <<from, pool, root, allocs>>

(* The reference the current loop visits next, and its parent's ADDED bit. *)
Visiting ==
    \/ pc = "y2o" /\ cur <= y2o
    \/ pc = "remembered" /\ cur <= Len(orefs)
    \/ pc \in ScanPhase /\ scan < top[Blk]
    \/ pc \in {"roots", "major_roots"} /\ cur <= NRoots
    \/ pc = "major_globals" /\ cur <= NGlobals

Visited ==
    CASE pc = "y2o" -> orefs[cur]
      [] pc = "remembered" -> mem[orefs[cur]].slots[slot]
      [] pc \in ScanPhase -> mem[Scanned].slots[slot]
      [] pc \in {"roots", "major_roots"} -> root[cur]
      [] OTHER -> mem[<<"perm", cur>>].slots[slot]

ParentAdded == pc \in ScanPhase /\ mem[Scanned].added

(* An assert of the copier fails: the program aborts.                      *)
Abort ==
    /\ Visiting
    /\ CopyFails(Visited) \/ PoolFails(Visited, ParentAdded)
    /\ pc' = IF CopyFails(Visited) THEN "assert_copy" ELSE "assert_pool"
    /\ UNCHANGED <<heap, pool, root, cur, slot, scan, req, allocs>>

-----------------------------------------------------------------------------
Collector ==
    \/ BeginMinor \/ MinorBecomesMajor
    \/ PromoteEntry \/ PromotedAll \/ TraceRemembered \/ TracedAll
    \/ Scan \/ BeginStage2 \/ TraceRoot \/ TracedRoots
    \/ TraceGlobal \/ TracedGlobals \/ EndMinor \/ EndMajor \/ Abort

Allocator == Alloc \/ AllocCollects

Mutator ==
    \/ \E r \in Roots, h \in Holders : \E s \in HolderSlots(h) : Load(r, h, s)
    \/ \E r \in Roots : Drop(r)
    \/ \E h \in Holders : \E s \in HolderSlots(h) :
          \E v \in {root[r] : r \in Roots} \cup {Nil} : Store(h, s, v)
    \/ \E d \in Roots, src \in [Slots -> Roots \cup {0}] : AskAlloc(d, src)
    \/ CallMinor
    \/ CallMajor

(* Where a behaviour stops: an abort, undefined behaviour, or the bound    *)
(* MajorAllowed.                                                           *)
Stopped ==
    /\ \/ pc \in Failed
       \/ pc \in {"mutator", "alloc"} /\ ~Defined
       \/ pc = "collect" /\ OldSpaceTight /\ ~MajorAllowed
    /\ UNCHANGED vars

Next == Collector \/ Allocator \/ Mutator \/ Stopped

(* The collector and the allocation loop are plain C: once entered they    *)
(* keep running.                                                           *)
Fairness == WF_vars(Collector) /\ WF_vars(Allocator)

Spec == Init /\ [][Next]_vars /\ Fairness

-----------------------------------------------------------------------------
(***************************************************************************)
(* Properties.                                                             *)
(***************************************************************************)
Phases == {"mutator", "alloc", "collect"} \cup MinorPhase \cup MajorPhase \cup Failed

(* Every variable keeps its type: every address read or written lies in its*)
(* space, and the scan pointer and the loop indices stay in range.         *)
TypeOK ==
    /\ mem \in [Addr -> Cell]
    /\ top \in [YoungSpace \cup OldSpace \cup {"perm"} -> Nat]
    /\ \A sp \in YoungSpace \cup OldSpace \cup {"perm"} : top[sp] <= Capacity(sp)
    /\ from \in YoungSpace
    /\ ofrom \in OldSpace
    /\ orefs \in Seq(Addr)
    /\ y2o \in 0..Len(orefs)
    /\ root \in [Roots -> Ref]
    /\ pc \in Phases
    /\ cur \in Nat \ {0}
    /\ slot \in Slots
    /\ scan \in Nat
    /\ req \in Request
    /\ allocs \in 0..MaxAllocs

Quiescent == pc \in {"mutator", "alloc", "collect"}

PoolTail == {orefs[i] : i \in y2o + 1..Len(orefs)}

(* An old object whose ADDED bit says it is in the pool while it is not:   *)
(* the barrier will not remember it again.                                 *)
Stale(a) == IsOld(a) /\ mem[a].added /\ a \notin PoolTail

(* Whenever the mutator runs, no protected variable and no slot of an      *)
(* allocated object, garbage included, refers to a reclaimed cell: the     *)
(* collector moved or kept everything the program can still name.          *)
NoDangling == pc \in {"mutator", "alloc"} => Defined

(* With major collections the only slots that can dangle belong to stale   *)
(* holders, the objects whose ADDED bit gc_mov_majorcollect left set; the  *)
(* protected variables never dangle.                                       *)
DanglingOnlyInStale ==
    pc \in {"mutator", "alloc"} =>
        /\ \A r \in Roots : ~Dangling(root[r])
        /\ \A a \in Allocated, s \in Slots : Dangling(mem[a].slots[s]) => Stale(a)

(* SLOT_SET and the collections keep the pool complete: when a collection  *)
(* may start, every old object or global box that refers to a young object *)
(* is in the pool's second part, or is stale.                              *)
OldToYoungRemembered ==
    Quiescent =>
        \A a \in Allocated, s \in Slots :
            IsOld(a) /\ mem[a].slots[s] # Nil /\ IsYoung(mem[a].slots[s])
                => a \in PoolTail \/ Stale(a)

(* Without major collections no holder is ever stale: a minor collection   *)
(* clears the ADDED bit of exactly the entries it takes out of the pool.   *)
NoStaleHolder == Quiescent => \A a \in Allocated : ~Stale(a)

(* What the asserts of gc_mov_minorcollect say of each entry it takes from *)
(* the pool: in the first part a young object not forwarded yet, so no     *)
(* object was entered twice; in the second part an old one.                *)
PoolAssertsHold ==
    /\ pc = "y2o" /\ cur <= y2o => IsYoung(orefs[cur]) /\ mem[orefs[cur]].fwd = Nil
    /\ pc = "remembered" /\ cur <= Len(orefs) => IsOld(orefs[cur])

(* The survivors of a collection fit the space they are copied to (the     *)
(* assert of mblk_copyto).                                                 *)
CopyFits == pc # "assert_copy"

(* A minor collection's survivors always fit: the test of the old space at *)
(* its start leaves room for every promotion, of both stages, that its     *)
(* pool and its roots may ask for.                                         *)
PromotionsFit == [][(pc \in MinorPhase) => pc' # "assert_copy"]_vars

(* The pool never runs past its end: the collections leave room for the    *)
(* write barrier's next entry, so that its test orefslim == orefscur, an   *)
(* equality, cannot be stepped over.                                       *)
PoolInBounds ==
    /\ Len(orefs) <= PoolSize
    /\ pc \in {"mutator", "alloc"} => Len(orefs) < PoolSize

(* Objects a path from a protected variable or a global box leads to.      *)
Reachable ==
    LET Succ(S) == {mem[a].slots[s] : a \in S, s \in Slots} \ {Nil}
        longest == NovSize + OldSize + NGlobals
        Upto[n \in 0..longest] ==
            IF n = 0 THEN Holders ELSE Upto[n - 1] \cup Succ(Upto[n - 1])
    IN  Upto[longest]

(* A major collection is precise: what it leaves in the old space is       *)
(* reachable, nothing else survives, and the young space is empty.         *)
MajorIsPrecise ==
    [][pc = "major_scan" /\ pc' # "major_scan" /\ pc' \notin Failed =>
          {a \in Allocated' : ~IsBox(a)} \subseteq Reachable' /\ top'[from'] = 0]_vars

(* A collection ends: the scan pointer catches up with the allocation      *)
(* pointer, so the mutator runs again or an assert stops the program.      *)
CollectionEnds ==
    pc \in MinorPhase \cup MajorPhase ~> pc \in {"mutator", "alloc"} \cup Failed

(* Young objects that only an unlinked over-aged parent would have carried *)
(* to the old space: their ADDED bit keeps them out of the pool for good.  *)
Stuck == {a \in Allocated : IsYoung(a) /\ mem[a].added /\ mem[a].age > NewAgeMax}

(* The loop of gc_mov_alloc ends, by an allocation, by NO_MEM or at a bound*)
(* of the model, unless stuck objects occupy the young space.              *)
AllocEnds ==
    pc = "alloc" ~>
        \/ pc \in {"mutator"} \cup Failed
        \/ pc = "alloc" /\ ~Defined
        \/ pc = "collect" /\ OldSpaceTight /\ ~MajorAllowed
        \/ Stuck # {}
=============================================================================
