----------------------------- MODULE GenGCNames -----------------------------
(***************************************************************************)
(* GenGC with a history variable: the number of the object each cell holds *)
(* a copy of (0: none).  With it the heap of GenGC, in the middle of a     *)
(* collection too, is a MutatorHeap: a collection is a stutter.            *)
(***************************************************************************)
EXTENDS GenGC

VARIABLES
    name,  \* the history variable
    shown  \* the heap as the program sees it, a function of the rest

ASSUME NamesAssumption == Nil \notin 1..MaxAllocs

nvars == <<vars, name, shown>>

MH == INSTANCE MutatorHeap WITH
        var <- shown.var, box <- shown.box, slots <- shown.slots,
        want <- req, count <- allocs

(* The heap that memory m and variables rt make up when its cells are      *)
(* copies of the objects nm: a forwarded cell is a copy no longer current. *)
NameOf(v, nm) == IF v = Nil THEN Nil ELSE nm[v]
Copies(o, m, nm) == {a \in Addr : nm[a] = o /\ m[a].fwd = Nil}
SlotsOf(o, m, nm) ==
    LET copies == Copies(o, m, nm)
        c == m[CHOOSE a \in copies : TRUE]
    IN  [s \in Slots |-> IF copies = {} THEN Nil ELSE NameOf(c.slots[s], nm)]

VarNames(rt, nm) == [r \in Roots |-> NameOf(rt[r], nm)]
BoxNames(m, nm) == [g \in 1..NGlobals |-> NameOf(m[<<"perm", g>>].slots[1], nm)]
SlotNames(m, nm) == [o \in 1..MaxAllocs |-> SlotsOf(o, m, nm)]

View(m, rt, nm) ==
    LET vs == VarNames(rt, nm)
        bs == BoxNames(m, nm)
    IN  [var |-> vs, box |-> bs, slots |-> MH!Visible(SlotNames(m, nm), vs, bs)]

(* A new object gets the next number, a copy carries its object's, and a   *)
(* reclaimed cell holds no object.                                         *)
Rename ==
    name' =
        IF pc = "alloc" /\ pc' = "mutator" THEN [name EXCEPT ![root'[req.dst]] = allocs]
        ELSE IF Visiting /\ Moves(Visited) /\ pc' \notin Failed
          THEN [name EXCEPT ![dst] = name[Visited]]
        ELSE IF top' # top THEN [a \in Addr |-> IF top'[a[1]] < a[2] THEN 0 ELSE name[a]]
        ELSE name

NInit ==
    /\ Init
    /\ name = [a \in Addr |-> 0]
    /\ shown = View(mem, root, name)

NNext == Next /\ Rename /\ shown' = View(mem', root', name')
NSpec == NInit /\ [][NNext]_nvars

(* The program cannot tell that objects move: every step of the collector, *)
(* of a major collection too, leaves the visible heap as it is, and every  *)
(* step of the mutator does what it does in a heap without collections, as *)
(* long as it runs where nothing dangles.                                  *)
StepsAsMutatorHeap ==
    [][(pc' \in {"mutator", "alloc"} => Defined') => (UNCHANGED MH!hvars \/ MH!HNext)]_nvars

(* So behaviours in which nothing dangles are those of a heap without      *)
(* collections.                                                            *)
ImplementsMutatorHeap == MH!HSpec
=============================================================================
