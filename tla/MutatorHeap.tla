---------------------------- MODULE MutatorHeap ----------------------------
(***************************************************************************)
(* What the memory manager promises to the interpreter and the builtins: a *)
(* heap whose objects never move and are never reclaimed.  Objects are     *)
(* numbered in the order of their allocation.  Only what a path from a     *)
(* variable or a global box leads to is visible; the slots of the rest are *)
(* shown as Nil, for the program cannot tell.                              *)
(***************************************************************************)
EXTENDS Integers

CONSTANTS Nil, NSlots, NRoots, NGlobals, MaxAllocs

VARIABLES
    var,    \* the program's protected variables
    box,    \* the values of the global boxes
    slots,  \* the slots of the visible objects
    want,   \* the allocation under way, or a record whose dst is 0
    count   \* allocations asked for so far

hvars == <<var, box, slots, want, count>>

Object == 1..MaxAllocs
NoSlots == [s \in 1..NSlots |-> Nil]
NoWant == [dst |-> 0, src |-> [s \in 1..NSlots |-> 0]]

(* A set of objects that holds what variables vs and boxes bs refer to and *)
(* whatever its members' slots ss refer to; the least such set.            *)
Named(vs, bs) == {vs[r] : r \in 1..NRoots} \cup {bs[g] : g \in 1..NGlobals}
Closed(K, ss, vs, bs) ==
    /\ Named(vs, bs) \cap Object \subseteq K
    /\ \A o \in K : \A s \in 1..NSlots : ss[o][s] \in Object => ss[o][s] \in K
Reached(ss, vs, bs) ==
    {o \in Object : \A K \in SUBSET Object : Closed(K, ss, vs, bs) => o \in K}

Visible(ss, vs, bs) ==
    LET reached == Reached(ss, vs, bs) IN
    [o \in Object |-> IF o \in reached THEN ss[o] ELSE NoSlots]

HInit ==
    /\ var = [r \in 1..NRoots |-> Nil]
    /\ box = [g \in 1..NGlobals |-> Nil]
    /\ slots = [o \in Object |-> NoSlots]
    /\ want = NoWant
    /\ count = 0

Assign(r, v) ==
    /\ var' = [var EXCEPT ![r] = v]
    /\ slots' = Visible(slots, var', box)
    /\ UNCHANGED <<box, want, count>>

HLoad ==
    \E r, h \in 1..NRoots, s \in 1..NSlots : var[h] # Nil /\ Assign(r, slots[var[h]][s])

HLoadBox == \E r \in 1..NRoots, g \in 1..NGlobals : Assign(r, box[g])

HDrop == \E r \in 1..NRoots : Assign(r, Nil)

HStore ==
    \E h \in 1..NRoots, s \in 1..NSlots, v \in {var[r] : r \in 1..NRoots} \cup {Nil} :
        /\ var[h] # Nil
        /\ slots' = Visible([slots EXCEPT ![var[h]][s] = v], var, box)
        /\ UNCHANGED <<var, box, want, count>>

HStoreBox ==
    \E g \in 1..NGlobals, v \in {var[r] : r \in 1..NRoots} \cup {Nil} :
        /\ box' = [box EXCEPT ![g] = v]
        /\ slots' = Visible(slots, var, box')
        /\ UNCHANGED <<var, want, count>>

HAsk ==
    \E d \in 1..NRoots, src \in [1..NSlots -> 0..NRoots] :
        /\ want.dst = 0
        /\ want' = [dst |-> d, src |-> src]
        /\ count' = count + 1
        /\ UNCHANGED <<var, box, slots>>

(* The new object gets the values its arguments had when it was asked for. *)
HNew ==
    LET arg(i) == IF i = 0 THEN Nil ELSE var[i] IN
    /\ want.dst # 0
    /\ var' = [var EXCEPT ![want.dst] = count]
    /\ slots' = Visible([slots EXCEPT ![count] = [s \in 1..NSlots |-> arg(want.src[s])]],
                        var', box)
    /\ want' = NoWant
    /\ UNCHANGED <<box, count>>

(* NO_MEM is thrown: there is no new object, and the rest is as it was.    *)
HRefuse ==
    /\ want.dst # 0
    /\ want' = NoWant
    /\ UNCHANGED <<var, box, slots, count>>

HNext ==
    \/ want.dst = 0 /\ (HLoad \/ HLoadBox \/ HDrop \/ HStore \/ HStoreBox)
    \/ HAsk
    \/ HNew
    \/ HRefuse

HSpec == HInit /\ [][HNext]_hvars
=============================================================================
