---------------------------- MODULE Stores_proofs ----------------------------
(***************************************************************************)
(* Theorems about the three stores: the globals, for every set of names,   *)
(* every size of the table of globals and of the symbol table and every    *)
(* hash function; string buffers, for every capacity at first and every set*)
(* of characters; the hash tables of programs, for all keys, values, hash  *)
(* codes and numbers of rows; and the specification that TLC follows the   *)
(* three stores with.                                                      *)
(***************************************************************************)
EXTENDS MCStores, FiniteSetTheorems, SequenceTheorems, TLAPS

-----------------------------------------------------------------------------
(***************************************************************************)
(* Symbols and globals.                                                    *)
(***************************************************************************)
(* Until a reservation is refused Globt_ptr stays below the limit, and     *)
(* every index that a symbol or code has got lies below Globt_ptr.         *)
BelowLimit ==
    /\ ptr < Limit
    /\ ~wild
    /\ \A s \in DOMAIN symbols : symbols[s] \in Nat /\ symbols[s] < Limit
    /\ \A c \in code : c.ix \in Nat /\ c.ix < Limit

GInv ==
    /\ ptr \in Nat
    /\ refused \in BOOLEAN
    /\ ~refused => BelowLimit

LEMMA InitInv == GInit => GInv
  <1> SUFFICES ASSUME GInit PROVE GInv
    OBVIOUS
  <1>1. ptr \in Nat /\ ptr < Limit
    <2>1. IsFiniteSet(Builtins) => Cardinality(Builtins) \in Nat
      BY FS_CardinalityType
    <2> QED
      BY <2>1, GlobalsAssumption DEF GInit
  <1>2. DOMAIN symbols = {}
    BY DEF GInit
  <1>3. Limit \in Nat /\ 0 < Limit
    BY <1>1, GlobalsAssumption
  <1> QED
    BY <1>1, <1>2, <1>3 DEF GInit, GInv, BelowLimit

(* A reservation that is not refused leaves Globt_ptr below the limit.     *)
LEMMA ReserveBelow ==
    ASSUME GInv, ~refused, Reserve
    PROVE  /\ ptr \in Nat /\ ptr < Limit
           /\ ptr' \in Nat /\ ptr' < Limit
           /\ ~refused'
  BY GlobalsAssumption DEF GInv, BelowLimit, Reserve, Refuses

(* A symbol that is looked up or made has no index the symbols had not.    *)
LEMMA FromStringBelow ==
    ASSUME GInv, ~refused, NEW n
    PROVE  \A s \in DOMAIN FromString(n).syms :
              FromString(n).syms[s] \in Nat /\ FromString(n).syms[s] < Limit
  <1> DEFINE syms == FromString(n).syms
  <1>1. BelowLimit /\ Limit \in Nat /\ 0 < Limit
    BY GlobalsAssumption DEF GInv, BelowLimit
  <1>2. CASE Interned(n)
    <2>1. syms = symbols
      BY <1>2 DEF FromString
    <2> QED
      BY <1>1, <2>1 DEF BelowLimit
  <1>3. CASE ~Interned(n)
    <2>1. syms = WithFresh(FreshId(n))
      BY <1>3 DEF FromString
    <2>2. ASSUME NEW s \in DOMAIN syms
          PROVE  syms[s] = 0 \/ (s \in DOMAIN symbols /\ syms[s] = symbols[s])
      BY <2>1, <2>2 DEF WithFresh
    <2> QED
      BY <1>1, <2>2 DEF BelowLimit
  <1> QED
    BY <1>2, <1>3

LEMMA PutBelow ==
    ASSUME NEW r, NEW ix \in Nat, ix < Limit, PutGlobal(r, ix),
           \A s \in DOMAIN r.syms : r.syms[s] \in Nat /\ r.syms[s] < Limit
    PROVE  \A s \in DOMAIN symbols' : symbols'[s] \in Nat /\ symbols'[s] < Limit
  BY DEF PutGlobal

(* Globt_ptr never goes back, and a refusal is not forgotten.              *)
LEMMA PtrMoves ==
    ASSUME GInv, [GNext]_gvars
    PROVE  \/ ptr' = ptr /\ refused' = refused
           \/ ptr' = ptr + 1 /\ refused' \in {refused, TRUE}
  <1>1. CASE Reserve
    BY <1>1 DEF Reserve
  <1>2. CASE ReserveRefused
    BY <1>2 DEF ReserveRefused
  <1>3. CASE UNCHANGED <<ptr, refused>>
    BY <1>3
  <1>4. GlobalBind => Reserve
    BY DEF GlobalBind
  <1>5. ResolveFree => Reserve
    BY DEF ResolveFree
  <1>6. ResolveRefused => ReserveRefused
    BY DEF ResolveRefused
  <1>7. /\ SymbolFromString => UNCHANGED <<ptr, refused>>
        /\ CollectWild => UNCHANGED <<ptr, refused>>
        /\ ResolveBound => UNCHANGED <<ptr, refused>>
    BY DEF SymbolFromString, CollectWild, ResolveBound
  <1>8. /\ Execute => UNCHANGED <<ptr, refused>>
        /\ ExecuteWild => UNCHANGED <<ptr, refused>>
        /\ UNCHANGED gvars => UNCHANGED <<ptr, refused>>
    BY DEF Execute, ExecuteWild, gvars
  <1>9. SymbolReserve => UNCHANGED <<ptr, refused>>
    BY DEF SymbolReserve
  <1> QED
    BY <1>1, <1>2, <1>3, <1>4, <1>5, <1>6, <1>7, <1>8, <1>9 DEF GNext

LEMMA NextInv == GInv /\ [GNext]_gvars => GInv'
  <1> SUFFICES ASSUME GInv, [GNext]_gvars PROVE GInv'
    OBVIOUS
  <1>1. ptr' \in Nat /\ refused' \in BOOLEAN
    <2>1. (ptr' = ptr \/ ptr' = ptr + 1) /\ refused' \in {refused, TRUE}
      BY PtrMoves
    <2>2. ptr' \in Nat
      BY <2>1 DEF GInv
    <2>3. refused' \in BOOLEAN
      BY <2>1, Zenon DEF GInv
    <2> QED
      BY <2>2, <2>3
  <1>2. refused => refused'
    BY PtrMoves
  <1> SUFFICES ASSUME ~refused, ~refused' PROVE BelowLimit'
    BY <1>1, <1>2 DEF GInv
  <1>3. BelowLimit
    BY DEF GInv
  <1>4. CASE GlobalBind
    <2>1. PICK n \in Builtins, v \in Values :
              Reserve /\ PutGlobal(FromString(n), NewIx)
      BY <1>4 DEF GlobalBind
    <2>2. \A s \in DOMAIN symbols' : symbols'[s] \in Nat /\ symbols'[s] < Limit
      BY <2>1, ReserveBelow, FromStringBelow, PutBelow DEF NewIx
    <2>3. code' = code /\ wild' = wild
      BY <1>4 DEF GlobalBind
    <2> QED
      BY <1>3, <2>1, <2>2, <2>3, ReserveBelow DEF BelowLimit
  <1>5. CASE SymbolFromString
    <2>1. PICK n \in Names : symbols' = FromString(n).syms
      BY <1>5 DEF SymbolFromString
    <2>2. \A s \in DOMAIN symbols' : symbols'[s] \in Nat /\ symbols'[s] < Limit
      BY <2>1, FromStringBelow
    <2> QED
      BY <1>3, <1>5, <2>2 DEF SymbolFromString, BelowLimit
  <1>6. CASE CollectWild
    BY <1>3, <1>6, GlobalsAssumption DEF CollectWild, BelowLimit, GInv
  <1>7. CASE ResolveBound
    <2>1. PICK s \in DOMAIN symbols : symbols[s] # 0 /\ code' = code \cup {Resolved(s, symbols[s])}
      BY <1>7 DEF ResolveBound
    <2> QED
      BY <1>3, <1>7, <2>1 DEF ResolveBound, BelowLimit, Resolved
  <1>8. CASE ResolveFree
    <2>1. PICK s \in DOMAIN symbols :
              /\ Reserve
              /\ PutGlobal([sym |-> s, table |-> symbhtb, syms |-> symbols], NewIx)
              /\ code' = code \cup {Resolved(s, NewIx)}
      BY <1>8 DEF ResolveFree
    <2>2. \A t \in DOMAIN symbols' : symbols'[t] \in Nat /\ symbols'[t] < Limit
      BY <1>3, <2>1, ReserveBelow, PutBelow DEF BelowLimit, NewIx
    <2>3. \A c \in code' : c.ix \in Nat /\ c.ix < Limit
      BY <1>3, <2>1, ReserveBelow DEF BelowLimit, Resolved, NewIx
    <2> QED
      BY <1>3, <1>8, <2>1, <2>2, <2>3, ReserveBelow DEF ResolveFree, BelowLimit
  <1>9. CASE ResolveRefused
    BY <1>9 DEF ResolveRefused, ReserveRefused
  <1>10. CASE Execute
    BY <1>3, <1>10 DEF Execute, BelowLimit
  <1>11. CASE ExecuteWild
    BY <1>3, <1>11 DEF ExecuteWild, BelowLimit, InTable
  <1>12. CASE UNCHANGED gvars
    BY <1>3, <1>12 DEF gvars, BelowLimit
  <1>13. CASE SymbolReserve
    <2>1. PICK n \in Specials : symbols' = WithFresh(<<n, 1>>)
      BY <1>13 DEF SymbolReserve
    <2>2. ASSUME NEW s \in DOMAIN symbols'
          PROVE  symbols'[s] = 0 \/ (s \in DOMAIN symbols /\ symbols'[s] = symbols[s])
      BY <2>1, <2>2 DEF WithFresh
    <2>3. \A s \in DOMAIN symbols' : symbols'[s] \in Nat /\ symbols'[s] < Limit
      BY <1>3, <2>2, GlobalsAssumption DEF BelowLimit, GInv
    <2> QED
      BY <1>3, <1>13, <2>3 DEF SymbolReserve, BelowLimit
  <1> QED
    BY <1>4, <1>5, <1>6, <1>7, <1>8, <1>9, <1>10, <1>11, <1>12, <1>13 DEF GNext

(* As long as global_reserve has refused nothing, no code has an index     *)
(* outside the table of globals and the collector scans within it.         *)
THEOREM TableIsKept == GSpec => []WildOnlyAfterRefusal
  <1>1. GInv => WildOnlyAfterRefusal
    <2> SUFFICES ASSUME GInv, ~refused PROVE ~Outside
      BY DEF WildOnlyAfterRefusal
    <2> QED
      BY GlobalsAssumption DEF GInv, BelowLimit, Outside
  <1> QED
    BY InitInv, NextInv, <1>1, PTL DEF GSpec

-----------------------------------------------------------------------------
(* The entries of the symbol table, and the keys names are looked up by.   *)
SymEntries == {Entry(s, b) : s \in SymbolId, b \in BOOLEAN}
NameKeys == {Key(n) : n \in Names}

(* h is a symbol table of the symbols S: a name is found in it exactly     *)
(* when one of them has it, and that is the one that is found.             *)
TableOf(h, S) ==
    /\ S \subseteq SymbolId
    /\ H!IsTable(h, SymEntries)
    /\ H!OneEntry(h, NameKeys)
    /\ \A n \in Names : H!Has(h, Key(n)) => \E s \in S : NameOf(s) = n
    /\ \A s \in S : H!Has(h, Key(NameOf(s))) /\ H!GetPair(h, Key(NameOf(s))).sym = s

(* How a name is looked up, and how an entry is.                           *)
LEMMA KeyFacts ==
    ASSUME NEW n \in Names
    PROVE  /\ Key(n) \in NameKeys /\ HashSym(Key(n)) = HashOf(n) /\ HashOf(n) \in Nat
           /\ \A e : SameSym(Key(n), e) <=> e.name = n
  <1>1. Key(n).name = n /\ Key(n).boxed = FALSE
    BY DEF Key, Entry, NameOf
  <1>2. HashOf(n) \in Nat
    BY GlobalsAssumption
  <1> QED
    BY <1>1, <1>2 DEF NameKeys, HashSym, SameSym

LEMMA EntryFacts ==
    ASSUME NEW s \in SymbolId, NEW b \in BOOLEAN, NEW e, e = Entry(s, b)
    PROVE  /\ e \in SymEntries /\ e.name = NameOf(s) /\ e.sym = s /\ NameOf(s) \in Names
           /\ HashSym(e) = HashOf(NameOf(s)) /\ HashSym(e) \in Nat
           /\ \A x : SameSym(e, x) <=> (~b /\ x.name = NameOf(s))
  <1>1. e.name = NameOf(s) /\ e.sym = s /\ e.boxed = b
    BY DEF Entry
  <1>2. e \in SymEntries
    BY DEF SymEntries
  <1>3. NameOf(s) \in Names
    BY DEF NameOf, SymbolId
  <1>4. HashOf(NameOf(s)) \in Nat
    BY <1>3, GlobalsAssumption
  <1> QED
    BY <1>1, <1>2, <1>3, <1>4 DEF HashSym, SameSym

(* What is found under a name has the name.                                *)
LEMMA FoundFacts ==
    ASSUME NEW h, H!IsTable(h, SymEntries), NEW n \in Names, H!Has(h, Key(n))
    PROVE  /\ H!GetPair(h, Key(n)).name = n
           /\ NameOf(H!GetPair(h, Key(n)).sym) = n
  <1>1. /\ H!GetPair(h, Key(n)) \in SymEntries
        /\ SameSym(Key(n), H!GetPair(h, Key(n)))
    BY KeyFacts, H!NodeFacts
  <1>2. PICK s \in SymbolId, b \in BOOLEAN : H!GetPair(h, Key(n)) = Entry(s, b)
    BY <1>1 DEF SymEntries
  <1>3. H!GetPair(h, Key(n)).name = n
    BY <1>1, KeyFacts
  <1> QED
    BY <1>2, <1>3, EntryFacts

(* A symbol without a box is found by its name; a box finds nothing.       *)
LEMMA EntryFound ==
    ASSUME NEW h, NEW s \in SymbolId, NEW b \in BOOLEAN, NEW e, e = Entry(s, b),
           H!IsTable(h, SymEntries)
    PROVE  /\ H!Has(h, e) <=> ~b /\ H!Has(h, Key(NameOf(s)))
           /\ ~b => H!GetPair(h, e) = H!GetPair(h, Key(NameOf(s)))
  <1>1. /\ HashSym(e) = HashSym(Key(NameOf(s))) /\ HashSym(e) \in Nat
        /\ \A x : SameSym(e, x) <=> (~b /\ SameSym(Key(NameOf(s)), x))
    BY EntryFacts, KeyFacts
  <1>2. CASE ~b
    BY <1>1, <1>2, H!SameAnswer
  <1>3. CASE b
    <2>1. ~H!Has(h, e)
      BY <1>1, <1>3, H!NodeFacts
    <2> QED
      BY <1>3, <2>1
  <1> QED
    BY <1>2, <1>3

(* A symbol of a new name, or a symbol in the place of its box: the table  *)
(* is one of the symbols with it.                                          *)
LEMMA PutSym ==
    ASSUME NEW h, NEW S, TableOf(h, S), NEW s \in SymbolId, NEW b \in BOOLEAN,
           (s \in S /\ ~b) \/ (\A t \in S : NameOf(t) # NameOf(s)),
           NEW g, g = H!PutPair(h, Entry(s, b))
    PROVE  TableOf(g, S \cup {s})
  <1> PICK e, n : e = Entry(s, b) /\ n = NameOf(s)
    OBVIOUS
  <1>1. /\ e \in SymEntries /\ e.name = n /\ e.sym = s /\ n \in Names
        /\ HashSym(e) = HashOf(n) /\ HashSym(e) \in Nat
    BY EntryFacts
  <1>2. g = H!PutPair(h, e)
    OBVIOUS
  <1>3. /\ S \subseteq SymbolId
        /\ H!IsTable(h, SymEntries) /\ H!OneEntry(h, NameKeys)
        /\ \A m \in Names : H!Has(h, Key(m)) => \E t \in S : NameOf(t) = m
        /\ \A t \in S : H!Has(h, Key(NameOf(t))) /\ H!GetPair(h, Key(NameOf(t))).sym = t
    BY DEF TableOf
  <1>4. H!IsTable(g, SymEntries)
    BY <1>1, <1>2, <1>3, H!PutKeeps
  <1>5. /\ H!Has(h, e) <=> ~b /\ H!Has(h, Key(n))
        /\ ~b => H!GetPair(h, e) = H!GetPair(h, Key(n))
    BY <1>3, EntryFound
  <1>6. ASSUME NEW m \in Names, NEW k, k = Key(m)
        PROVE  /\ m = n => H!Has(g, k) /\ H!GetPair(g, k) = e
               /\ m # n => /\ H!Has(g, k) <=> H!Has(h, k)
                           /\ H!Has(h, k) => H!GetPair(g, k) = H!GetPair(h, k)
               /\ \A i, j \in 1..Len(g[H!RowOf(g, k)]) :
                     SameSym(k, g[H!RowOf(g, k)][i]) /\ SameSym(k, g[H!RowOf(g, k)][j]) => i = j
    <2>1. /\ k \in NameKeys /\ HashSym(k) = HashOf(m) /\ HashSym(k) \in Nat
          /\ \A x : SameSym(k, x) <=> x.name = m
      BY <1>6, KeyFacts
    <2>2. SameSym(k, e) <=> m = n
      BY <1>1, <2>1
    <2>3. SameSym(k, e) => HashSym(k) = HashSym(e)
      BY <1>1, <2>1, <2>2
    <2>4. H!Has(h, e) => (SameSym(k, e) <=> SameSym(k, H!GetPair(h, e)))
      BY <1>1, <1>3, <1>5, <2>1, <2>2, FoundFacts
    <2>5. ~H!Has(h, e) => ~(SameSym(k, e) /\ H!Has(h, k))
      BY <1>1, <1>3, <1>5, <1>6, <2>2
    <2>6. /\ SameSym(k, e) => H!Has(g, k) /\ H!GetPair(g, k) = e
          /\ ~SameSym(k, e) => /\ H!Has(g, k) <=> H!Has(h, k)
                               /\ H!Has(h, k) => H!GetPair(g, k) = H!GetPair(h, k)
          /\ \A i, j \in 1..Len(g[H!RowOf(g, k)]) :
                SameSym(k, g[H!RowOf(g, k)][i]) /\ SameSym(k, g[H!RowOf(g, k)][j]) => i = j
      BY <1>1, <1>2, <1>3, <2>1, <2>3, <2>4, <2>5, H!PutIsPut
    <2> QED
      BY <2>2, <2>6
  <1>7. H!OneEntry(g, NameKeys)
    BY <1>6 DEF H!OneEntry, NameKeys
  <1>8. ASSUME NEW m \in Names, H!Has(g, Key(m))
        PROVE  \E t \in S \cup {s} : NameOf(t) = m
    BY <1>3, <1>6, <1>8
  <1>9. ASSUME NEW t \in S \cup {s}
        PROVE  H!Has(g, Key(NameOf(t))) /\ H!GetPair(g, Key(NameOf(t))).sym = t
    <2>1. NameOf(t) \in Names
      BY <1>3, EntryFacts
    <2>2. CASE t = s
      BY <1>1, <1>6, <2>2
    <2>3. CASE t # s
      <3>1. t \in S /\ NameOf(t) # n
        BY <1>3, <2>3
      <3> QED
        BY <1>3, <1>6, <2>1, <3>1
    <2> QED
      BY <2>2, <2>3
  <1> QED
    BY <1>3, <1>4, <1>7, <1>8, <1>9 DEF TableOf

(* The symbol of a name, found or made, is the only one of the name, and   *)
(* the table is one of the symbols with it (symbol_from_string).           *)
LEMMA FromStringFacts ==
    ASSUME TableOf(symbhtb, DOMAIN symbols), NEW n \in Names, NEW r, r = FromString(n)
    PROVE  /\ r.sym \in SymbolId /\ NameOf(r.sym) = n
           /\ DOMAIN r.syms = DOMAIN symbols \cup {r.sym}
           /\ \A s \in DOMAIN symbols : r.syms[s] = symbols[s]
           /\ r.sym \notin DOMAIN symbols => r.syms[r.sym] = 0
           /\ TableOf(r.table, DOMAIN r.syms)
           /\ \A s \in DOMAIN symbols : NameOf(s) = n => s = r.sym
  <1>1. CASE Interned(n)
    <2>1. r.sym = SymbolGet(n) /\ r.table = symbhtb /\ r.syms = symbols
      BY <1>1 DEF FromString
    <2>2. PICK t \in DOMAIN symbols : NameOf(t) = n
      BY <1>1 DEF TableOf, Interned
    <2>3. \A s \in DOMAIN symbols : NameOf(s) = n => s = SymbolGet(n)
      BY DEF TableOf, SymbolGet
    <2>4. t \in SymbolId
      BY <2>2 DEF TableOf
    <2> QED
      BY <2>1, <2>2, <2>3, <2>4
  <1>2. CASE ~Interned(n)
    <2> PICK f : f = FreshId(n)
      OBVIOUS
    <2>1. /\ r.sym = f /\ r.table = H!PutPair(symbhtb, Entry(f, TRUE)) /\ r.syms = WithFresh(f)
      BY <1>2 DEF FromString
    <2>2. \A s \in DOMAIN symbols : NameOf(s) # n
      BY <1>2 DEF TableOf, Interned
    <2>3. FreshIds(n) = 1..Twins
      BY <2>2 DEF FreshIds, NameOf
    <2>4. Min(FreshIds(n)) \in 1..Twins
      <3>1. 1 \in 1..Twins /\ \A m \in 1..Twins : 1 <= m
        BY GlobalsAssumption
      <3> QED
        BY <2>3, <3>1 DEF Min
    <2>5. f \in SymbolId /\ NameOf(f) = n
      BY <2>4 DEF FreshId, SymbolId, NameOf
    <2>6. /\ DOMAIN r.syms = DOMAIN symbols \cup {f}
          /\ \A s \in DOMAIN symbols : r.syms[s] = symbols[s]
          /\ r.syms[f] = 0
      BY <2>1, <2>2, <2>5 DEF WithFresh
    <2>7. \A s \in DOMAIN symbols : NameOf(s) # NameOf(f)
      BY <2>2, <2>5
    <2>8. TRUE \in BOOLEAN
      OBVIOUS
    <2>9. TableOf(r.table, DOMAIN symbols \cup {f})
      BY <2>1, <2>5, <2>7, <2>8, PutSym
    <2> QED
      BY <2>1, <2>2, <2>5, <2>6, <2>9
  <1> QED
    BY <1>1, <1>2

(* The symbol takes the place of its box and learns its index (env_put).   *)
LEMMA PutGlobalFacts ==
    ASSUME NEW r, NEW ix, PutGlobal(r, ix), TableOf(r.table, DOMAIN r.syms),
           r.sym \in DOMAIN r.syms
    PROVE  /\ TableOf(symbhtb', DOMAIN symbols')
           /\ DOMAIN symbols' = DOMAIN r.syms
           /\ symbols'[r.sym] = ix
           /\ \A s \in DOMAIN r.syms : s # r.sym => symbols'[s] = r.syms[s]
  <1>1. /\ symbols' = [r.syms EXCEPT ![r.sym] = ix]
        /\ symbhtb' = H!PutPair(r.table, Entry(r.sym, FALSE))
    BY DEF PutGlobal
  <1>2. /\ DOMAIN symbols' = DOMAIN r.syms
        /\ symbols'[r.sym] = ix
        /\ \A s \in DOMAIN r.syms : s # r.sym => symbols'[s] = r.syms[s]
    BY <1>1
  <1>3. r.sym \in SymbolId
    BY DEF TableOf
  <1> PICK b, g : b = FALSE /\ g = symbhtb'
    OBVIOUS
  <1>4. b \in BOOLEAN /\ ~b /\ g = H!PutPair(r.table, Entry(r.sym, b))
    BY <1>1
  <1>5. TableOf(g, DOMAIN r.syms \cup {r.sym})
    BY <1>3, <1>4, PutSym
  <1>6. DOMAIN r.syms \cup {r.sym} = DOMAIN symbols'
    BY <1>2
  <1> QED
    BY <1>2, <1>5, <1>6

-----------------------------------------------------------------------------
(* Every symbol with an index has its own, below Globt_ptr, code refers to *)
(* symbols by their indices, and what is not reserved holds no value.      *)
IndexInv ==
    /\ ptr \in Nat /\ First <= ptr
    /\ \A s \in DOMAIN symbols : symbols[s] = 0 \/ (symbols[s] \in Index /\ symbols[s] < ptr)
    /\ \A s, t \in DOMAIN symbols : symbols[s] # 0 /\ symbols[s] = symbols[t] => s = t
    /\ \A c \in code : \E s \in DOMAIN symbols : symbols[s] # 0 /\ c = Resolved(s, symbols[s])
    /\ globals \in [Index -> Values \cup {Undef}]
    /\ \A i \in Index : ptr <= i => globals[i] = Undef

StoreInv ==
    /\ GInv
    /\ refused => Booted
    /\ ptr <= MaxPtr /\ wild \in BOOLEAN
    /\ TableOf(symbhtb, DOMAIN symbols)
    /\ IndexInv

(* The value of a name in globals gl when symbols have the indices syms.   *)
ValueIn(syms, gl, n) ==
    LET ixs == {syms[s] : s \in {t \in DOMAIN syms : NameOf(t) = n}} \ {0}
    IN  IF \E i \in ixs : i < Limit THEN gl[CHOOSE i \in ixs : i < Limit] ELSE Undef

(* A name is bound to what its only symbol's index is, or to nothing.      *)
LEMMA ValueOfSymbol ==
    ASSUME NEW syms, NEW gl, NEW s \in DOMAIN syms, NEW n, n = NameOf(s),
           \A t \in DOMAIN syms : NameOf(t) = n => t = s
    PROVE  ValueIn(syms, gl, n)
             = IF syms[s] # 0 /\ syms[s] < Limit THEN gl[syms[s]] ELSE Undef
  <1> DEFINE ixs == {syms[x] : x \in {t \in DOMAIN syms : NameOf(t) = n}} \ {0}
  <1>1. ixs = {syms[s]} \ {0}
    OBVIOUS
  <1>2. CASE syms[s] # 0 /\ syms[s] < Limit
    <2>1. (CHOOSE i \in ixs : i < Limit) = syms[s]
      BY <1>1, <1>2
    <2> QED
      BY <1>1, <1>2, <2>1 DEF ValueIn
  <1>3. CASE ~(syms[s] # 0 /\ syms[s] < Limit)
    <2>1. ~\E i \in ixs : i < Limit
      BY <1>1, <1>3
    <2> QED
      BY <1>3, <2>1 DEF ValueIn
  <1> QED
    BY <1>2, <1>3

LEMMA ValueOfNone ==
    ASSUME NEW syms, NEW gl, NEW n,
           \A t \in DOMAIN syms : NameOf(t) = n => syms[t] = 0
    PROVE  ValueIn(syms, gl, n) = Undef
  BY DEF ValueIn

(* A name keeps its value as long as its symbols keep their indices and    *)
(* the globals there their values.                                         *)
LEMMA ValueKept ==
    ASSUME NEW syms, NEW gl, NEW new, NEW glnew, NEW n,
           \A t \in DOMAIN syms : NameOf(t) = n => 
               t \in DOMAIN new /\ new[t] = syms[t] /\ (syms[t] # 0 => glnew[syms[t]] = gl[syms[t]]),
           \A t \in DOMAIN new : NameOf(t) = n /\ t \notin DOMAIN syms => new[t] = 0
    PROVE  ValueIn(new, glnew, n) = ValueIn(syms, gl, n)
  <1> DEFINE ixs == {syms[x] : x \in {t \in DOMAIN syms : NameOf(t) = n}} \ {0}
             inew == {new[x] : x \in {t \in DOMAIN new : NameOf(t) = n}} \ {0}
  <1>1. inew = ixs
    OBVIOUS
  <1>2. \A i \in ixs : glnew[i] = gl[i]
    OBVIOUS
  <1>3. CASE \E i \in ixs : i < Limit
    <2>1. (CHOOSE i \in ixs : i < Limit) \in ixs
      BY <1>3
    <2> QED
      BY <1>1, <1>2, <1>3, <2>1 DEF ValueIn
  <1>4. CASE ~\E i \in ixs : i < Limit
    BY <1>1, <1>4 DEF ValueIn
  <1> QED
    BY <1>3, <1>4

-----------------------------------------------------------------------------
(* The bindings the globals stand for.                                     *)
GEnv == [n \in Names |-> ValueOf(n)]

(* The same of the state and of the one after a step.                      *)
LEMMA ValueStays ==
    ASSUME NEW n,
           \A t \in DOMAIN symbols : NameOf(t) = n =>
               /\ t \in DOMAIN symbols' /\ symbols'[t] = symbols[t]
               /\ symbols[t] # 0 => globals'[symbols[t]] = globals[symbols[t]],
           \A t \in DOMAIN symbols' : NameOf(t) = n /\ t \notin DOMAIN symbols => symbols'[t] = 0
    PROVE  ValueOf(n)' = ValueOf(n)
  <1> PICK new, glnew : new = symbols' /\ glnew = globals'
    OBVIOUS
  <1>1. ValueIn(new, glnew, n) = ValueIn(symbols, globals, n)
    BY ValueKept
  <1> QED
    BY <1>1 DEF ValueOf, ValueIn

LEMMA ValueNow ==
    ASSUME NEW s \in DOMAIN symbols', \A t \in DOMAIN symbols' : NameOf(t) = NameOf(s) => t = s
    PROVE  ValueOf(NameOf(s))'
             = IF symbols'[s] # 0 /\ symbols'[s] < Limit THEN globals'[symbols'[s]] ELSE Undef
  <1> PICK new, glnew, n : new = symbols' /\ glnew = globals' /\ n = NameOf(s)
    OBVIOUS
  <1>1. ValueIn(new, glnew, n) = IF new[s] # 0 /\ new[s] < Limit THEN glnew[new[s]] ELSE Undef
    BY ValueOfSymbol
  <1> QED
    BY <1>1 DEF ValueOf, ValueIn

(* Symbols stay, and an index stays: what was booted stays booted.         *)
LEMMA BootedKept ==
    ASSUME Booted, DOMAIN symbols \subseteq DOMAIN symbols',
           \A s \in DOMAIN symbols : symbols[s] # 0 => symbols'[s] # 0
    PROVE  Booted'
  <1>1. \A n : n \in Known => n \in Known'
    BY DEF Known
  <1>2. \A n : n \in Bound => n \in Bound'
    BY DEF Bound
  <1> QED
    BY <1>1, <1>2 DEF Booted, SymbolsReserved

(* Symbols without an index change nothing for the program.                *)
LEMMA GrowStep ==
    ASSUME StoreInv, [GNext]_gvars, TableOf(symbhtb, DOMAIN symbols)',
           DOMAIN symbols \subseteq DOMAIN symbols',
           \A s \in DOMAIN symbols : symbols'[s] = symbols[s],
           \A s \in DOMAIN symbols' : s \notin DOMAIN symbols => symbols'[s] = 0,
           UNCHANGED <<code, globals, ptr, refused, wild>>
    PROVE  StoreInv' /\ GEnv' = GEnv
  <1>1. GInv'
    BY NextInv DEF StoreInv
  <1>2. (refused => Booted)'
    BY BootedKept DEF StoreInv
  <1>3. IndexInv'
    <2>1. IndexInv
      BY DEF StoreInv
    <2>2. /\ ptr' \in Nat /\ First <= ptr'
          /\ globals' \in [Index -> Values \cup {Undef}]
          /\ \A j \in Index : ptr' <= j => globals'[j] = Undef
      BY <2>1 DEF IndexInv
    <2>3. \A s \in DOMAIN symbols' : symbols'[s] = 0 \/ (symbols'[s] \in Index /\ symbols'[s] < ptr')
      BY <2>1 DEF IndexInv
    <2>4. \A s, t \in DOMAIN symbols' : symbols'[s] # 0 /\ symbols'[s] = symbols'[t] => s = t
      BY <2>1 DEF IndexInv
    <2>5. \A c \in code' : \E s \in DOMAIN symbols' : symbols'[s] # 0 /\ c = Resolved(s, symbols'[s])
      BY <2>1 DEF IndexInv
    <2> QED
      BY <2>2, <2>3, <2>4, <2>5 DEF IndexInv
  <1>4. ASSUME NEW n \in Names PROVE ValueOf(n)' = ValueOf(n)
    BY ValueStays
  <1> QED
    BY <1>1, <1>2, <1>3, <1>4 DEF StoreInv, GEnv

(* A symbol that gets an index, with the value put there, is what its name *)
(* is bound to, and no other name is touched.                              *)
LEMMA IndexStep ==
    ASSUME StoreInv, [GNext]_gvars, Reserve, TableOf(symbhtb, DOMAIN symbols)',
           NEW s, DOMAIN symbols' = DOMAIN symbols \cup {s},
           s \in DOMAIN symbols => symbols[s] = 0,
           \A t \in DOMAIN symbols : t # s => symbols'[t] = symbols[t],
           symbols'[s] = ptr,
           NEW v \in Values \cup {Undef}, globals' = [globals EXCEPT ![ptr] = v],
           code' = code \/ code' = code \cup {Resolved(s, ptr)}, wild' = wild
    PROVE  /\ StoreInv'
           /\ ValueOf(NameOf(s)) = Undef
           /\ GEnv' = [GEnv EXCEPT ![NameOf(s)] = IF ptr < Limit THEN v ELSE Undef]
  <1>1. IndexInv /\ GInv' /\ DOMAIN symbols \subseteq DOMAIN symbols' /\ s \in DOMAIN symbols'
    BY NextInv DEF StoreInv
  <1>2. ptr \in Index /\ ptr # 0 /\ ptr' = ptr + 1 /\ ptr < MaxPtr /\ refused' = refused
        /\ ptr \in Nat /\ First \in Nat /\ MaxPtr \in Nat
    BY <1>1, GlobalsAssumption DEF IndexInv, Reserve, Index
  <1>3. (refused => Booted)'
    BY <1>1, <1>2, BootedKept DEF StoreInv
  <1>4. IndexInv'
    <2>1. ptr' \in Nat /\ First <= ptr'
      BY <1>1, <1>2 DEF IndexInv
    <2>2. ASSUME NEW t \in DOMAIN symbols'
          PROVE  symbols'[t] = 0 \/ (symbols'[t] \in Index /\ symbols'[t] < ptr')
      <3>1. CASE t = s
        BY <1>2, <3>1
      <3>2. CASE t # s
        <4>1. symbols'[t] = 0 \/ (symbols'[t] \in Index /\ symbols'[t] < ptr)
          BY <1>1, <3>2 DEF IndexInv
        <4> QED
          BY <1>2, <4>1 DEF Index
      <3> QED
        BY <3>1, <3>2
    <2>3. ASSUME NEW t \in DOMAIN symbols', NEW u \in DOMAIN symbols',
                 symbols'[t] # 0, symbols'[t] = symbols'[u]
          PROVE  t = u
      <3>1. ASSUME NEW x \in DOMAIN symbols, x # s PROVE symbols'[x] # ptr
        BY <1>1, <1>2, <3>1 DEF IndexInv, Index
      <3>2. CASE t = s \/ u = s
        BY <2>3, <3>1, <3>2
      <3>3. CASE t # s /\ u # s
        BY <1>1, <2>3, <3>3 DEF IndexInv
      <3> QED
        BY <3>2, <3>3
    <2>4. ASSUME NEW c \in code'
          PROVE  \E t \in DOMAIN symbols' : symbols'[t] # 0 /\ c = Resolved(t, symbols'[t])
      <3>1. CASE c \in code
        <4>1. PICK t \in DOMAIN symbols : symbols[t] # 0 /\ c = Resolved(t, symbols[t])
          BY <1>1, <3>1 DEF IndexInv
        <4>2. t # s
          BY <4>1
        <4> QED
          BY <1>1, <4>1, <4>2
      <3>2. CASE c = Resolved(s, ptr)
        BY <1>1, <1>2, <3>2
      <3> QED
        BY <3>1, <3>2
    <2>5. globals' \in [Index -> Values \cup {Undef}]
      BY <1>1 DEF IndexInv
    <2>6. ASSUME NEW j \in Index, ptr' <= j PROVE globals'[j] = Undef
      BY <1>1, <1>2, <2>6 DEF IndexInv, Index
    <2> QED
      BY <2>1, <2>2, <2>3, <2>4, <2>5, <2>6 DEF IndexInv
  <1>5. /\ \A t \in DOMAIN symbols : NameOf(t) = NameOf(s) => t = s
        /\ \A t \in DOMAIN symbols' : NameOf(t) = NameOf(s) => t = s
        /\ NameOf(s) \in Names
    <2>1. TableOf(symbhtb, DOMAIN symbols)'
      OBVIOUS
    <2>2. \A t \in DOMAIN symbols' : H!GetPair(symbhtb', Key(NameOf(t))).sym = t
      BY <2>1 DEF TableOf
    <2>3. s \in SymbolId
      BY <1>1, <2>1 DEF TableOf
    <2> QED
      BY <1>1, <2>2, <2>3, EntryFacts
  <1>6. ValueOf(NameOf(s)) = Undef
    <2>1. ValueIn(symbols, globals, NameOf(s)) = Undef
      BY <1>5, ValueOfNone
    <2> QED
      BY <2>1 DEF ValueOf, ValueIn
  <1>7. ValueOf(NameOf(s))' = IF ptr < Limit THEN v ELSE Undef
    <2>1. globals'[ptr] = v
      BY <1>1, <1>2 DEF IndexInv
    <2> QED
      BY <1>1, <1>2, <1>5, <2>1, ValueNow
  <1>8. ASSUME NEW n \in Names, n # NameOf(s) PROVE ValueOf(n)' = ValueOf(n)
    <2>1. ASSUME NEW t \in DOMAIN symbols, NameOf(t) = n
          PROVE  /\ t \in DOMAIN symbols' /\ symbols'[t] = symbols[t]
                 /\ symbols[t] # 0 => globals'[symbols[t]] = globals[symbols[t]]
      <3>1. t # s /\ (symbols[t] = 0 \/ (symbols[t] \in Index /\ symbols[t] < ptr))
        BY <1>1, <1>8, <2>1 DEF IndexInv
      <3> QED
        BY <1>1, <1>2, <3>1 DEF IndexInv, Index
    <2>2. \A t \in DOMAIN symbols' : NameOf(t) = n /\ t \notin DOMAIN symbols => symbols'[t] = 0
      BY <1>8
    <2> QED
      BY <2>1, <2>2, ValueStays
  <1>9. StoreInv'
    <2>1. ptr' <= MaxPtr /\ wild' \in BOOLEAN
      BY <1>2 DEF StoreInv
    <2> QED
      BY <1>1, <1>3, <1>4, <2>1 DEF StoreInv
  <1>10. GEnv' = [GEnv EXCEPT ![NameOf(s)] = IF ptr < Limit THEN v ELSE Undef]
    BY <1>5, <1>7, <1>8 DEF GEnv
  <1> QED
    BY <1>6, <1>9, <1>10

-----------------------------------------------------------------------------
(* At first there is no symbol, and no name is bound.                      *)
LEMMA InitStore == GInit => StoreInv /\ Env!BInit
  <1> SUFFICES ASSUME GInit PROVE StoreInv /\ Env!BInit
    OBVIOUS
  <1>1. DOMAIN symbols = {} /\ code = {} /\ ptr = First /\ ~refused /\ ~wild
    BY DEF GInit
  <1>2. First \in Nat /\ First <= MaxPtr
    <2>1. Cardinality(Builtins) \in Nat
      BY GlobalsAssumption, FS_CardinalityType
    <2> QED
      BY <2>1, GlobalsAssumption
  <1>3. TableOf(symbhtb, DOMAIN symbols)
    <2>1. symbhtb = H!EmptyTable(Rows) /\ Rows \in Nat /\ Rows # 0
      BY GlobalsAssumption DEF GInit
    <2>2. H!IsTable(symbhtb, SymEntries)
      BY <2>1, H!EmptyFacts
    <2>3. ASSUME NEW n \in Names PROVE ~H!Has(symbhtb, Key(n))
      BY <2>1, KeyFacts, H!EmptyFacts
    <2>4. H!OneEntry(symbhtb, NameKeys)
      <3> SUFFICES ASSUME NEW k \in NameKeys, NEW row, row = symbhtb[H!RowOf(symbhtb, k)]
                   PROVE  \A i, j \in 1..Len(row) : SameSym(k, row[i]) /\ SameSym(k, row[j]) => i = j
        BY DEF H!OneEntry
      <3>1. PICK n \in Names : k = Key(n)
        BY DEF NameKeys
      <3>2. ~H!Has(symbhtb, k) /\ HashSym(k) \in Nat
        BY <2>3, <3>1, KeyFacts
      <3>3. H!Has(symbhtb, k) <=> \E i \in 1..Len(row) : SameSym(k, row[i])
        BY <2>2, <3>2, H!NodeFacts
      <3> QED
        BY <3>2, <3>3
    <2> QED
      BY <1>1, <2>2, <2>3, <2>4 DEF TableOf
  <1>4. IndexInv
    BY <1>1, <1>2 DEF IndexInv, GInit
  <1>5. Env!BInit
    <2>1. ASSUME NEW n \in Names PROVE ValueOf(n) = Undef
      <3>1. ValueIn(symbols, globals, n) = Undef
        BY <1>1, ValueOfNone
      <3> QED
        BY <3>1 DEF ValueOf, ValueIn
    <2> QED
      BY <2>1 DEF Env!BInit, GInit
  <1>6. wild \in BOOLEAN /\ (refused => Booted)
    BY <1>1 DEF GInit
  <1> QED
    BY <1>1, <1>2, <1>3, <1>4, <1>5, <1>6, InitInv DEF StoreInv

(* vm_init_symbols and the reader: a new symbol is bound to nothing.       *)
LEMMA ReserveSymbolStep ==
    ASSUME StoreInv, SymbolReserve
    PROVE  StoreInv' /\ UNCHANGED <<GEnv, answer>>
  <1>1. PICK n \in Specials \ Known : /\ symbols' = WithFresh(<<n, 1>>)
                                      /\ symbhtb' = H!PutPair(symbhtb, Entry(<<n, 1>>, FALSE))
    BY DEF SymbolReserve
  <1>2. UNCHANGED <<code, globals, ptr, refused, wild, answer>> /\ [GNext]_gvars
    BY DEF SymbolReserve, GNext
  <1>3. <<n, 1>> \in SymbolId /\ NameOf(<<n, 1>>) = n
    BY <1>1, GlobalsAssumption DEF SymbolId, NameOf
  <1>4. \A t \in DOMAIN symbols : NameOf(t) # n
    BY <1>1 DEF Known
  <1> PICK f : f = <<n, 1>>
    OBVIOUS
  <1>5. /\ DOMAIN symbols' = DOMAIN symbols \cup {f} /\ f \notin DOMAIN symbols
        /\ \A s \in DOMAIN symbols : symbols'[s] = symbols[s]
        /\ symbols'[f] = 0
    BY <1>1, <1>3, <1>4 DEF WithFresh
  <1>6. TableOf(symbhtb, DOMAIN symbols)'
    <2> PICK b, g : b = FALSE /\ g = symbhtb'
      OBVIOUS
    <2>1. /\ TableOf(symbhtb, DOMAIN symbols) /\ b \in BOOLEAN /\ f \in SymbolId
          /\ \A t \in DOMAIN symbols : NameOf(t) # NameOf(f)
          /\ g = H!PutPair(symbhtb, Entry(f, b))
      BY <1>1, <1>3, <1>4 DEF StoreInv
    <2>2. TableOf(g, DOMAIN symbols \cup {f})
      BY <2>1, PutSym
    <2> QED
      BY <1>5, <2>2
  <1> QED
    BY <1>2, <1>5, <1>6, GrowStep

LEMMA FromStringStep ==
    ASSUME StoreInv, SymbolFromString
    PROVE  StoreInv' /\ UNCHANGED <<GEnv, answer>>
  <1> PICK n \in Names : symbhtb' = FromString(n).table /\ symbols' = FromString(n).syms
    BY DEF SymbolFromString
  <1>1. PICK r : r = FromString(n) /\ symbhtb' = r.table /\ symbols' = r.syms
    OBVIOUS
  <1>2. UNCHANGED <<code, globals, ptr, refused, wild, answer>> /\ [GNext]_gvars
    BY DEF SymbolFromString, GNext
  <1>3. TableOf(symbhtb, DOMAIN symbols)
    BY DEF StoreInv
  <1>4. /\ DOMAIN r.syms = DOMAIN symbols \cup {r.sym}
        /\ \A s \in DOMAIN symbols : r.syms[s] = symbols[s]
        /\ r.sym \notin DOMAIN symbols => r.syms[r.sym] = 0
        /\ TableOf(r.table, DOMAIN r.syms)
    BY <1>1, <1>3, FromStringFacts
  <1>5. TableOf(symbhtb, DOMAIN symbols)'
    BY <1>1, <1>4
  <1>6. /\ DOMAIN symbols \subseteq DOMAIN symbols'
        /\ \A s \in DOMAIN symbols : symbols'[s] = symbols[s]
        /\ \A s \in DOMAIN symbols' : s \notin DOMAIN symbols => symbols'[s] = 0
    BY <1>1, <1>4
  <1> QED
    BY <1>2, <1>5, <1>6, GrowStep

(* bin_init defines a name: nothing was refused before, so that the index  *)
(* is one of the table.                                                    *)
LEMMA BindStep ==
    ASSUME StoreInv, GlobalBind
    PROVE  StoreInv' /\ \E n \in Names, v \in Values : Env!Define(n, v)
  <1>a. PICK n \in Builtins \ Bound, v \in Values :
            /\ Reserve
            /\ globals' = [globals EXCEPT ![ptr] = v]
            /\ PutGlobal(FromString(n), ptr) /\ answer' = <<n, "done">>
    BY DEF GlobalBind, NewIx
  <1>1. PICK r :
            /\ n \in Builtins \ Bound /\ v \in Values
            /\ r = FromString(n) /\ Reserve
            /\ globals' = [globals EXCEPT ![ptr] = v]
            /\ PutGlobal(r, ptr) /\ answer' = <<n, "done">>
    BY <1>a
  <1>2. UNCHANGED <<code, wild>> /\ [GNext]_gvars /\ ~Booted
    BY <1>1 DEF GlobalBind, GNext, Booted
  <1>3. TableOf(symbhtb, DOMAIN symbols) /\ n \in Names /\ IndexInv
    BY GlobalsAssumption DEF StoreInv
  <1>4. /\ NameOf(r.sym) = n
        /\ DOMAIN r.syms = DOMAIN symbols \cup {r.sym}
        /\ \A s \in DOMAIN symbols : r.syms[s] = symbols[s]
        /\ TableOf(r.table, DOMAIN r.syms)
    BY <1>1, <1>3, FromStringFacts
  <1>5. /\ TableOf(symbhtb', DOMAIN symbols')
        /\ DOMAIN symbols' = DOMAIN r.syms
        /\ symbols'[r.sym] = ptr
        /\ \A s \in DOMAIN r.syms : s # r.sym => symbols'[s] = r.syms[s]
    BY <1>1, <1>4, PutGlobalFacts
  <1>6. ptr < Limit
    BY <1>2 DEF StoreInv, GInv, BelowLimit
  <1>7. r.sym \in DOMAIN symbols => symbols[r.sym] = 0
    BY <1>1, <1>4 DEF Bound
  <1> PICK s : s = r.sym
    OBVIOUS
  <1>8. /\ DOMAIN symbols' = DOMAIN symbols \cup {s}
        /\ s \in DOMAIN symbols => symbols[s] = 0
        /\ \A t \in DOMAIN symbols : t # s => symbols'[t] = symbols[t]
        /\ symbols'[s] = ptr /\ v \in Values \cup {Undef}
        /\ TableOf(symbhtb, DOMAIN symbols)'
    BY <1>4, <1>5, <1>7
  <1>9. /\ StoreInv'
        /\ ValueOf(NameOf(s)) = Undef
        /\ GEnv' = [GEnv EXCEPT ![NameOf(s)] = IF ptr < Limit THEN v ELSE Undef]
    BY <1>1, <1>2, <1>8, IndexStep
  <1>10. Env!Define(n, v)
    BY <1>1, <1>3, <1>4, <1>6, <1>9 DEF Env!Define, Env!Put, GEnv
  <1> QED
    BY <1>3, <1>9, <1>10

(* A reservation binds the name to nothing, which it was bound to before.  *)
LEMMA ResolveFreeStep ==
    ASSUME StoreInv, ResolveFree
    PROVE  StoreInv' /\ UNCHANGED <<GEnv, answer>>
  <1>a. PICK s \in DOMAIN symbols :
            /\ symbols[s] = 0 /\ Reserve
            /\ PutGlobal([sym |-> s, table |-> symbhtb, syms |-> symbols], ptr)
            /\ code' = code \cup {Resolved(s, ptr)}
    BY DEF ResolveFree, NewIx
  <1>1. PICK r :
            /\ symbols[s] = 0 /\ Reserve
            /\ r = [sym |-> s, table |-> symbhtb, syms |-> symbols]
            /\ PutGlobal(r, ptr) /\ code' = code \cup {Resolved(s, ptr)}
    BY <1>a
  <1>2. UNCHANGED <<globals, wild, answer>> /\ [GNext]_gvars
    BY DEF ResolveFree, GNext
  <1>3. TableOf(symbhtb, DOMAIN symbols) /\ IndexInv
    BY DEF StoreInv
  <1>4. r.sym = s /\ r.table = symbhtb /\ r.syms = symbols
    BY <1>1
  <1>5. /\ TableOf(symbhtb', DOMAIN symbols')
        /\ DOMAIN symbols' = DOMAIN symbols \cup {s}
        /\ symbols'[s] = ptr
        /\ \A t \in DOMAIN symbols : t # s => symbols'[t] = symbols[t]
    BY <1>1, <1>3, <1>4, PutGlobalFacts
  <1>6. ptr \in Index
    BY <1>1, <1>3, GlobalsAssumption DEF IndexInv, Index, Reserve
  <1>7. globals' = [globals EXCEPT ![ptr] = Undef]
    BY <1>2, <1>3, <1>6 DEF IndexInv
  <1>8. Undef \in Values \cup {Undef} /\ TableOf(symbhtb, DOMAIN symbols)'
    BY <1>5
  <1>9. /\ StoreInv'
        /\ ValueOf(NameOf(s)) = Undef
        /\ GEnv' = [GEnv EXCEPT ![NameOf(s)] = IF ptr < Limit THEN Undef ELSE Undef]
    BY <1>1, <1>2, <1>5, <1>7, <1>8, IndexStep
  <1>10. GEnv' = GEnv
    BY <1>9 DEF GEnv
  <1> QED
    BY <1>2, <1>9, <1>10

(* Steps that leave symbols, globals and reservations alone.               *)
LEMMA StillStep ==
    ASSUME StoreInv, [GNext]_gvars, UNCHANGED <<symbhtb, symbols, globals, answer>>,
           ptr' = ptr \/ (ReserveRefused /\ Booted),
           refused' = refused \/ Booted, wild' \in BOOLEAN,
           \A c \in code' : c \in code
               \/ \E s \in DOMAIN symbols : symbols[s] # 0 /\ c = Resolved(s, symbols[s])
    PROVE  StoreInv' /\ UNCHANGED <<GEnv, answer>>
  <1>1. GInv' /\ TableOf(symbhtb, DOMAIN symbols)' /\ IndexInv
    BY NextInv DEF StoreInv
  <1>2. (refused => Booted)'
    BY BootedKept DEF StoreInv
  <1>3. /\ ptr' \in Nat /\ First <= ptr' /\ ptr' <= MaxPtr
        /\ \A i \in Nat : (i < ptr => i < ptr') /\ (ptr' <= i => ptr <= i)
    <2>1. ptr \in Nat /\ First \in Nat /\ First <= ptr /\ ptr <= MaxPtr /\ Limit <= MaxPtr
          /\ MaxPtr \in Nat /\ Limit \in Nat
      BY <1>1, GlobalsAssumption DEF IndexInv, StoreInv
    <2>2. ptr' = ptr \/ (ptr' = ptr + 1 /\ ptr' = Limit)
      BY DEF ReserveRefused, Refuses
    <2> QED
      BY <2>1, <2>2
  <1>4. IndexInv'
    <2>1. \A s \in DOMAIN symbols' : symbols'[s] = 0 \/ (symbols'[s] \in Index /\ symbols'[s] < ptr')
      BY <1>1, <1>3, GlobalsAssumption DEF IndexInv, Index
    <2>2. \A c \in code' : \E s \in DOMAIN symbols' : symbols'[s] # 0 /\ c = Resolved(s, symbols'[s])
      BY <1>1 DEF IndexInv
    <2>3. \A j \in Index : ptr' <= j => globals'[j] = Undef
      BY <1>1, <1>3, GlobalsAssumption DEF IndexInv, Index
    <2>4. /\ \A s, t \in DOMAIN symbols' : symbols'[s] # 0 /\ symbols'[s] = symbols'[t] => s = t
          /\ globals' \in [Index -> Values \cup {Undef}]
      BY <1>1 DEF IndexInv
    <2> QED
      BY <1>3, <2>1, <2>2, <2>3, <2>4 DEF IndexInv
  <1>5. ASSUME NEW n \in Names PROVE ValueOf(n)' = ValueOf(n)
    BY ValueStays
  <1> QED
    BY <1>1, <1>2, <1>3, <1>4, <1>5 DEF StoreInv, GEnv

(* Defining, assigning and reading through an index is defining, assigning *)
(* and reading the name that was resolved to it.                           *)
LEMMA ExecuteStep ==
    ASSUME StoreInv, Execute
    PROVE  StoreInv' /\ Env!GlobalsNext
  <1>1. PICK c \in InTable : \/ \E v \in Values : InitGlobal(c, v) \/ SetGlobal(c, v)
                             \/ RedefinedGlobal(c)
                             \/ GetGlobal(c)
    BY DEF Execute
  <1>2. UNCHANGED <<symbhtb, symbols, code, ptr, refused, wild>> /\ [GNext]_gvars
    BY DEF Execute, GNext
  <1>3. IndexInv /\ TableOf(symbhtb, DOMAIN symbols)
    BY DEF StoreInv
  <1>4. PICK s \in DOMAIN symbols : symbols[s] # 0 /\ c = Resolved(s, symbols[s])
    BY <1>1, <1>3 DEF IndexInv, InTable
  <1> PICK n, ix : n = NameOf(s) /\ ix = symbols[s]
    OBVIOUS
  <1>5. c.name = n /\ c.ix = ix
    BY <1>4 DEF Resolved
  <1>6. ix # 0 /\ ix \in Index /\ ix < ptr /\ ix < Limit
    BY <1>1, <1>3, <1>4, <1>5 DEF IndexInv, InTable
  <1>7. n \in Names /\ \A t \in DOMAIN symbols : NameOf(t) = n => t = s
    <2>1. s \in SymbolId
      BY <1>3 DEF TableOf
    <2>2. n \in Names
      BY <2>1 DEF SymbolId, NameOf
    <2> QED
      BY <1>3, <2>2 DEF TableOf
  <1>8. ValueOf(n) = globals[ix]
    <2>1. ValueIn(symbols, globals, n)
            = IF symbols[s] # 0 /\ symbols[s] < Limit THEN globals[symbols[s]] ELSE Undef
      BY <1>7, ValueOfSymbol
    <2> QED
      BY <1>6, <2>1 DEF ValueOf, ValueIn
  <1>9. CASE UNCHANGED globals
    <2>1. StoreInv' /\ GEnv' = GEnv
      <3>1. DOMAIN symbols \subseteq DOMAIN symbols' /\ TableOf(symbhtb, DOMAIN symbols)'
        BY <1>2, <1>3
      <3> QED
        BY <1>2, <1>9, <3>1, GrowStep
    <2>2. \/ \E v \in Values : InitGlobal(c, v) \/ SetGlobal(c, v)
          \/ globals[ix] # Undef /\ answer' = <<n, "refused">>
          \/ answer' = <<n, globals[ix]>>
      BY <1>1, <1>5 DEF RedefinedGlobal, GetGlobal, Answers
    <2>3. CASE globals[ix] # Undef /\ answer' = <<n, "refused">>
      <3>1. Env!Redefine(n)
        BY <1>7, <1>8, <2>1, <2>3 DEF Env!Redefine, GEnv
      <3> QED
        BY <1>7, <2>1, <3>1 DEF Env!GlobalsNext
    <2>4. CASE answer' = <<n, globals[ix]>>
      <3>1. Env!Fetch(n)
        BY <1>7, <1>8, <2>1, <2>4 DEF Env!Fetch, GEnv
      <3> QED
        BY <1>7, <2>1, <3>1 DEF Env!GlobalsNext
    <2>5. ASSUME NEW v \in Values, InitGlobal(c, v) \/ SetGlobal(c, v) PROVE Env!GlobalsNext
      <3>1. globals' = [globals EXCEPT ![ix] = v] /\ answer' = <<n, "done">>
        BY <1>5, <2>5 DEF InitGlobal, SetGlobal, StoreGlobal
      <3>2. globals[ix] = v
        BY <1>3, <1>6, <1>9, <3>1 DEF IndexInv
      <3>3. [m \in Names |-> ValueOf(m)]' = [[m \in Names |-> ValueOf(m)] EXCEPT ![n] = v]
        BY <1>7, <1>8, <2>1, <3>2 DEF GEnv
      <3>4. Env!Put(n, v)
        BY <3>1, <3>3 DEF Env!Put
      <3>5. Env!Define(n, v) \/ Env!Assign(n, v)
        BY <3>4 DEF Env!Define, Env!Assign
      <3> QED
        BY <1>7, <3>5 DEF Env!GlobalsNext
    <2> QED
      BY <2>1, <2>2, <2>3, <2>4, <2>5
  <1>10. ASSUME NEW v \in Values, InitGlobal(c, v) \/ SetGlobal(c, v)
         PROVE  StoreInv' /\ Env!GlobalsNext
    <2>1. globals' = [globals EXCEPT ![ix] = v] /\ answer' = <<n, "done">>
      BY <1>5, <1>10 DEF InitGlobal, SetGlobal, StoreGlobal
    <2>2. /\ globals' \in [Index -> Values \cup {Undef}] /\ globals'[ix] = v
          /\ \A j \in Index : j # ix => globals'[j] = globals[j]
      BY <1>3, <1>6, <2>1 DEF IndexInv
    <2>3. IndexInv'
      <3>1. \A j \in Index : ptr <= j => j # ix
        BY <1>3, <1>6, GlobalsAssumption DEF IndexInv, Index
      <3> QED
        BY <1>2, <1>3, <2>2, <3>1 DEF IndexInv
    <2>4. StoreInv'
      <3>1. GInv' /\ (refused => Booted)' /\ TableOf(symbhtb, DOMAIN symbols)'
        BY <1>2, <1>3, NextInv, BootedKept DEF StoreInv
      <3> QED
        BY <1>2, <2>3, <3>1 DEF StoreInv
    <2>5. ValueOf(n)' = v
      <3>1. s \in DOMAIN symbols' /\ \A t \in DOMAIN symbols' : NameOf(t) = NameOf(s) => t = s
        BY <1>2, <1>7
      <3>2. symbols'[s] = ix
        BY <1>2
      <3> QED
        BY <1>6, <2>2, <3>1, <3>2, ValueNow
    <2>6. ASSUME NEW m \in Names, m # n PROVE ValueOf(m)' = ValueOf(m)
      <3>1. ASSUME NEW t \in DOMAIN symbols, NameOf(t) = m, symbols[t] # 0
            PROVE  symbols[t] \in Index /\ symbols[t] # ix
        BY <1>3, <2>6, <3>1 DEF IndexInv
      <3>2. \A t \in DOMAIN symbols : NameOf(t) = m =>
               /\ t \in DOMAIN symbols' /\ symbols'[t] = symbols[t]
               /\ symbols[t] # 0 => globals'[symbols[t]] = globals[symbols[t]]
        BY <1>2, <2>2, <3>1
      <3>3. \A t \in DOMAIN symbols' : NameOf(t) = m /\ t \notin DOMAIN symbols => symbols'[t] = 0
        BY <1>2
      <3> QED
        BY <3>2, <3>3, ValueStays
    <2>7. [m \in Names |-> ValueOf(m)]' = [[m \in Names |-> ValueOf(m)] EXCEPT ![n] = v]
      BY <1>7, <2>5, <2>6
    <2>8. Env!Put(n, v)
      BY <2>1, <2>7 DEF Env!Put
    <2>9. Env!Define(n, v) \/ Env!Assign(n, v)
      BY <2>8 DEF Env!Define, Env!Assign
    <2> QED
      BY <1>7, <2>4, <2>9 DEF Env!GlobalsNext
  <1> QED
    BY <1>1, <1>9, <1>10 DEF RedefinedGlobal, GetGlobal, Answers

(* Which steps these are.                                                  *)
LEMMA StillChange ==
    ASSUME StoreInv,
           CollectWild \/ ExecuteWild \/ ResolveBound \/ ResolveRefused \/ UNCHANGED gvars
    PROVE  /\ UNCHANGED <<symbhtb, symbols, globals, answer>>
           /\ ptr' = ptr \/ (ReserveRefused /\ Booted)
           /\ refused' = refused \/ Booted
           /\ wild' \in BOOLEAN
           /\ \A c \in code' : c \in code
                 \/ \E s \in DOMAIN symbols : symbols[s] # 0 /\ c = Resolved(s, symbols[s])
  <1>1. CASE CollectWild
    BY <1>1 DEF CollectWild
  <1>2. CASE ExecuteWild
    BY <1>2 DEF ExecuteWild
  <1>3. CASE ResolveBound
    BY <1>3 DEF ResolveBound, StoreInv
  <1>4. CASE ResolveRefused
    BY <1>4 DEF ResolveRefused, StoreInv
  <1>5. CASE UNCHANGED gvars
    BY <1>5 DEF gvars, StoreInv
  <1> QED
    BY <1>1, <1>2, <1>3, <1>4, <1>5

(* A step of the store is a step of the bindings, or none.                 *)
LEMMA StoreNext ==
    ASSUME StoreInv, [GNext]_gvars
    PROVE  StoreInv' /\ [Env!GlobalsNext]_<<GEnv, answer>>
  <1>1. SymbolReserve \/ SymbolFromString \/ ResolveFree
        => StoreInv' /\ UNCHANGED <<GEnv, answer>>
    BY ReserveSymbolStep, FromStringStep, ResolveFreeStep
  <1>2. CASE GlobalBind
    BY <1>2, BindStep DEF Env!GlobalsNext
  <1>3. CASE Execute
    BY <1>3, ExecuteStep
  <1>4. CASE CollectWild \/ ExecuteWild \/ ResolveBound \/ ResolveRefused \/ UNCHANGED gvars
    <2>1. /\ UNCHANGED <<symbhtb, symbols, globals, answer>>
          /\ ptr' = ptr \/ (ReserveRefused /\ Booted)
          /\ refused' = refused \/ Booted
          /\ wild' \in BOOLEAN
          /\ \A c \in code' : c \in code
                \/ \E s \in DOMAIN symbols : symbols[s] # 0 /\ c = Resolved(s, symbols[s])
      BY <1>4, StillChange
    <2>2. StoreInv' /\ UNCHANGED <<GEnv, answer>>
      BY <2>1, StillStep
    <2> QED
      BY <2>2
  <1> QED
    BY <1>1, <1>2, <1>3, <1>4 DEF GNext

(* A name has one symbol, whatever names share its row and whether the     *)
(* table holds the symbol or its box.                                      *)
THEOREM NamesHaveOneSymbol == GSpec => []OneSymbolPerName
  <1>1. StoreInv => OneSymbolPerName
    BY DEF StoreInv, TableOf, OneSymbolPerName, Interned, SymbolGet
  <1> QED
    BY InitStore, StoreNext, <1>1, PTL DEF GSpec

(* The store of globals keeps bindings: whatever is read, resolved or      *)
(* refused in between, a name that code was resolved to is defined,        *)
(* assigned and read through its index as if by its name.                  *)
THEOREM GlobalsImplementBindings == GSpec => GlobalsAreBindings
  <1>1. GInit => StoreInv /\ Env!BInit
    BY InitStore
  <1>2. StoreInv /\ [GNext]_gvars
        => StoreInv' /\ [Env!GlobalsNext]_<<[n \in Names |-> ValueOf(n)], answer>>
    BY StoreNext DEF GEnv
  <1> QED
    BY <1>1, <1>2, PTL DEF GSpec, GlobalsAreBindings, Env!GlobalsSpec

(* Every variable keeps its type.                                          *)
THEOREM GlobalsTypes == GSpec => []GTypeOK
  <1>1. StoreInv => GTypeOK
    <2> SUFFICES ASSUME StoreInv PROVE GTypeOK
      OBVIOUS
    <2>1. IndexInv /\ DOMAIN symbols \subseteq SymbolId
      BY DEF StoreInv, TableOf
    <2>2. \A i \in Index : i < ptr => i \in First..(ptr - 1)
      BY <2>1, GlobalsAssumption DEF IndexInv, Index
    <2>3. \A s \in DOMAIN symbols : symbols[s] \in First..(ptr - 1) \cup {0}
      BY <2>1, <2>2 DEF IndexInv
    <2>4. \A s \in SymbolId : NameOf(s) \in Names
      BY DEF SymbolId, NameOf
    <2>5. code \subseteq [name : Names, ix : First..(ptr - 1)]
      BY <2>1, <2>2, <2>4 DEF IndexInv, Resolved
    <2>6. ptr \in First..MaxPtr
      BY <2>1, GlobalsAssumption DEF IndexInv, StoreInv
    <2>7. refused \in BOOLEAN /\ wild \in BOOLEAN
      BY DEF StoreInv, GInv
    <2> QED
      BY <2>1, <2>3, <2>5, <2>6, <2>7 DEF GTypeOK, IndexInv
  <1> QED
    BY InitStore, StoreNext, <1>1, PTL DEF GSpec
-----------------------------------------------------------------------------

(* The string buffer.                                                      *)

(* The text is longer than the capacity by one unit at most, which is what *)
(* ss_add leaves behind when a character of two units is the last to fit.  *)
FitsButOne ==
    /\ text \in Seq(Units)
    /\ capac \in Nat
    /\ Len(text) <= capac + 1

SInv ==
    /\ FitsButOne
    /\ spill \in {0, 1}
    /\ HashIsOfText

LEMMA StringInit == SInit => SInv
  <1> SUFFICES ASSUME SInit PROVE SInv
    OBVIOUS
  <1>1. FitsButOne
    BY StringAssumption DEF SInit, FitsButOne
  <1>2. HashIsOfText
    BY DEF SInit, HashIsOfText
  <1> QED
    BY <1>1, <1>2 DEF SInit, SInv

LEMMA OneOrTwo ==
    ASSUME NEW k \in 1..2
    PROVE  k \in Nat /\ 1 <= k /\ k <= 2
  OBVIOUS

(* A text that is changed has no cached hash code.                         *)
LEMMA ChangedHash ==
    ASSUME NEW t, Changed(t)
    PROVE  HashIsOfText'
  BY DEF Changed, HashIsOfText

LEMMA AddInv ==
    ASSUME SInv, NEW ch \in Chars, SsAdd(ch)
    PROVE  SInv'
  <1>1. ch \in Seq(Units) /\ Len(ch) \in 1..2
    BY StringAssumption
  <1>2. text \in Seq(Units) /\ capac \in Nat /\ Len(text) \in Nat /\ Len(text) <= capac + 1
    BY LenProperties DEF SInv, FitsButOne
  <1>3. text' = text \o ch /\ text' \in Seq(Units) /\ Len(text') = Len(text) + Len(ch)
    BY <1>1, <1>2, ConcatProperties DEF SsAdd, Changed
  <1>4. capac' \in Nat /\ Len(text) + Len(ch) <= capac' + 1
    <2> DEFINE n == Len(text)
               m == Len(ch)
    <2>1. n \in Nat /\ m \in Nat /\ 1 <= m /\ m <= 2 /\ n <= capac + 1 /\ capac \in Nat
      BY <1>1, <1>2, OneOrTwo, Zenon
    <2>2. ~Full => ~(n >= capac)
      BY DEF Full
    <2> HIDE DEF n, m
    <2>3. capac' = IF Full THEN Enlarged(capac) ELSE capac
      BY DEF SsAdd
    <2>4. CASE Full
      <3>1. capac' = capac + 7
        BY <2>3, <2>4 DEF Enlarged
      <3>2. capac' \in Nat /\ n + m <= capac' + 1
        BY <2>1, <3>1
      <3> QED
        BY <3>2 DEF n, m
    <2>5. CASE ~Full
      <3>1. capac' = capac
        BY <2>3, <2>5
      <3>2. capac' \in Nat /\ n + m <= capac' + 1
        BY <2>1, <2>2, <2>5, <3>1
      <3> QED
        BY <3>2 DEF n, m
    <2> QED
      BY <2>4, <2>5
  <1>5. spill' \in {0, 1}
    <2>1. Spilled(Len(text) + Len(ch), capac') \in {0, 1}
      BY <1>1, <1>2, <1>4 DEF Spilled
    <2> QED
      BY <2>1 DEF SInv, SsAdd, MaxOf
  <1>6. HashIsOfText'
    BY ChangedHash DEF SsAdd
  <1> QED
    BY <1>3, <1>4, <1>5, <1>6 DEF SInv, FitsButOne

LEMMA DecInv ==
    ASSUME SInv, NEW n \in 1..2, SsDec(n)
    PROVE  SInv'
  <1>1. text \in Seq(Units) /\ Len(text) \in Nat /\ n <= Len(text)
    BY LenProperties DEF SInv, FitsButOne, SsDec
  <1>2. /\ text' = SubSeq(text, 1, Len(text) - n)
        /\ text' \in Seq(Units)
        /\ Len(text') = Len(text) - n
    BY <1>1, SubSeqProperties DEF SsDec, Changed
  <1>3. HashIsOfText'
    BY ChangedHash DEF SsDec
  <1> QED
    BY <1>1, <1>2, <1>3 DEF SInv, FitsButOne, SsDec

LEMMA SetInv ==
    ASSUME SInv, NEW t \in Chars, SsSet(t)
    PROVE  SInv'
  <1> DEFINE fits == IF Len(t) <= capac THEN Len(t) ELSE capac
  <1>1. t \in Seq(Units) /\ Len(t) \in Nat
    BY StringAssumption
  <1>2. fits \in 0..Len(t) /\ fits <= capac /\ capac \in Nat
    BY <1>1 DEF SInv, FitsButOne
  <1>3. text' = SubSeq(t, 1, fits)
    BY DEF SsSet, Changed
  <1>4. text' \in Seq(Units) /\ Len(text') = fits
    BY <1>1, <1>2, <1>3, SubSeqProperties
  <1>5. HashIsOfText'
    BY ChangedHash DEF SsSet
  <1>6. capac' = capac /\ spill' = spill
    BY DEF SsSet
  <1> HIDE DEF fits
  <1> QED
    BY <1>2, <1>4, <1>5, <1>6 DEF SInv, FitsButOne

LEMMA StringNext == SInv /\ [SNext]_svars => SInv'
  <1> SUFFICES ASSUME SInv, [SNext]_svars PROVE SInv'
    OBVIOUS
  <1>1. ASSUME NEW ch \in Chars, SsAdd(ch) PROVE SInv'
    BY <1>1, AddInv
  <1>2. ASSUME NEW n \in 1..2, SsDec(n) PROVE SInv'
    BY <1>2, DecInv
  <1>3. CASE SsClear
    <2>1. text' = <<>> /\ capac' = capac /\ spill' = spill
      BY <1>3 DEF SsClear, Changed
    <2>2. HashIsOfText'
      BY <1>3, ChangedHash DEF SsClear
    <2> QED
      BY <2>1, <2>2 DEF SInv, FitsButOne
  <1>4. ASSUME NEW t \in Chars, SsSet(t) PROVE SInv'
    BY <1>4, SetInv
  <1>5. CASE SsHashCode
    BY <1>5 DEF SInv, FitsButOne, SsHashCode, HashIsOfText
  <1>6. CASE UNCHANGED svars
    BY <1>6 DEF svars, SInv, FitsButOne, HashIsOfText
  <1> QED
    BY <1>1, <1>2, <1>3, <1>4, <1>5, <1>6 DEF SNext

(* Every operation leaves a text of the length the bound allows.           *)
LEMMA StringTypes ==
    ASSUME SInv, STypeOK, [SNext]_svars
    PROVE  STypeOK'
  <1>1. SInv'
    BY StringNext
  <1>2. text \in Seq(Units) /\ Len(text) \in Nat /\ text' \in Seq(Units) /\ Len(text') \in Nat
    BY <1>1, LenProperties DEF SInv, FitsButOne
  <1>3. Len(text') <= MaxText
    <2>1. Len(text) <= MaxText /\ MaxText \in Nat /\ 2 <= MaxText
      BY <1>2, StringAssumption DEF STypeOK
    <2>2. ASSUME NEW ch \in Chars, SsAdd(ch) PROVE Len(text') <= MaxText
      <3>1. ch \in Seq(Units) /\ text' = text \o ch /\ Len(text) + Len(ch) <= MaxText
        BY <2>2, StringAssumption DEF SsAdd, Changed
      <3> QED
        BY <1>2, <3>1, ConcatProperties
    <2>3. ASSUME NEW n \in 1..2, SsDec(n) PROVE Len(text') <= MaxText
      <3>1. text' = SubSeq(text, 1, Len(text) - n) /\ n <= Len(text)
        BY <2>3 DEF SsDec, Changed
      <3>2. Len(text') = Len(text) - n
        BY <1>2, <3>1, SubSeqProperties
      <3> QED
        BY <1>2, <2>1, <3>2
    <2>4. ASSUME SsClear PROVE Len(text') <= MaxText
      <3>1. text' = <<>>
        BY <2>4 DEF SsClear, Changed
      <3> QED
        BY <2>1, <3>1
    <2>5. ASSUME NEW t \in Chars, SsSet(t) PROVE Len(text') <= MaxText
      <3> DEFINE fits == IF Len(t) <= capac THEN Len(t) ELSE capac
      <3>1. t \in Seq(Units) /\ Len(t) \in 1..2 /\ text' = SubSeq(t, 1, fits)
        BY <2>5, StringAssumption DEF SsSet, Changed
      <3>2. fits \in 0..Len(t) /\ fits <= 2
        BY <3>1 DEF SInv, FitsButOne
      <3> HIDE DEF fits
      <3>3. Len(text') = fits
        BY <3>1, <3>2, SubSeqProperties
      <3> QED
        BY <2>1, <3>2, <3>3
    <2>6. ASSUME SsHashCode \/ UNCHANGED svars PROVE Len(text') <= MaxText
      BY <2>1, <2>6 DEF SsHashCode, svars
    <2> QED
      BY <2>2, <2>3, <2>4, <2>5, <2>6 DEF SNext
  <1> QED
    BY <1>1, <1>2, <1>3, StringAssumption DEF SInv, FitsButOne, STypeOK

(* A string never writes more than one unit past its buffer, and only its  *)
(* terminator (ss_add, ss_enlarge).                                        *)
THEOREM SpillBounded == SSpec => []SpillsOneUnit
  <1>1. SInv => SpillsOneUnit
    BY DEF SInv, SpillsOneUnit
  <1> QED
    BY StringInit, StringNext, <1>1, PTL DEF SSpec

(* The cached hash code of a string is that of its text (ss_hash_code and  *)
(* every operation that changes the text).                                 *)
THEOREM HashFresh == SSpec => []HashIsOfText
  <1>1. SInv => HashIsOfText
    BY DEF SInv
  <1> QED
    BY StringInit, StringNext, <1>1, PTL DEF SSpec

-----------------------------------------------------------------------------
(* The hash tables.                                                        *)

(* What a program gives as a key.                                          *)
Keys == {Scalar(k) : k \in Scalars} \cup {Pair(k) : k \in Scalars}

(* A table without rows stays empty; else a key is in it at most once.     *)
TInv == NoRows \/ (T!IsTable(htab, Entries) /\ T!OneEntry(htab, Keys))

(* A key is found by its scalar, an entry by the key in its car.           *)
LEMMA ScalarFacts ==
    ASSUME NEW d \in Keys
    PROVE  /\ KeyIn(d).car \in Scalars /\ KeyIn(d) = Scalar(KeyIn(d).car)
           /\ HashClassic(d) \in Nat /\ HashClassic(d) = HashClassic(KeyIn(d))
           /\ \A e : SameClassic(d, e) <=> SameClassic(KeyIn(d), e)
  <1>1. PICK k \in Scalars : d = Scalar(k) \/ d = Pair(k)
    BY DEF Keys
  <1>2. Scalar(k).pair = FALSE /\ Scalar(k).car = k
    BY DEF Scalar
  <1>3. Pair(k).pair = TRUE /\ Pair(k).car = Scalar(k)
    BY DEF Pair
  <1>4. KeyIn(d) = Scalar(k) /\ KeyIn(Scalar(k)) = Scalar(k)
    BY <1>1, <1>2, <1>3 DEF KeyIn
  <1>5. CodeOf(k) \in Nat
    BY TablesAssumption
  <1> QED
    BY <1>2, <1>4, <1>5 DEF HashClassic, SameClassic

(* An entry answers the keys whose scalar its car is, and hashes as they.  *)
LEMMA PairFacts ==
    ASSUME NEW k \in Scalars, NEW v \in Data, NEW e, e = KeyValue(Scalar(k), v)
    PROVE  /\ e \in Entries /\ HashClassic(e) \in Nat /\ e.car = Scalar(k) /\ e.cdr = v
           /\ \A d \in Keys : SameClassic(d, e) <=> KeyIn(d).car = k
           /\ \A d \in Keys : SameClassic(d, e) => HashClassic(d) = HashClassic(e)
           /\ \A x : SameClassic(e, x) <=> SameClassic(Scalar(k), x)
           /\ HashClassic(e) = HashClassic(Scalar(k))
  <1>a. e.car = Scalar(k) /\ e.cdr = v /\ e.pair = TRUE
    BY DEF KeyValue
  <1>b. e \in Entries
    BY DEF Entries
  <1>1. e \in Entries /\ e.car = Scalar(k) /\ e.cdr = v /\ e.pair = TRUE
    BY <1>a, <1>b
  <1>2. KeyIn(e) = Scalar(k) /\ KeyIn(Scalar(k)) = Scalar(k) /\ Scalar(k).car = k
    BY <1>1 DEF KeyIn, Scalar
  <1>3. HashClassic(e) = CodeOf(k) /\ CodeOf(k) \in Nat /\ HashClassic(Scalar(k)) = CodeOf(k)
    BY <1>2, TablesAssumption DEF HashClassic
  <1>4. ASSUME NEW d \in Keys PROVE SameClassic(d, e) <=> KeyIn(d).car = k
    BY <1>1, <1>2, ScalarFacts DEF SameClassic
  <1>5. ASSUME NEW d \in Keys, SameClassic(d, e) PROVE HashClassic(d) = HashClassic(e)
    BY <1>3, <1>4, <1>5 DEF HashClassic
  <1> QED
    BY <1>1, <1>2, <1>3, <1>4, <1>5 DEF SameClassic

(* What is found under a key carries the key.                              *)
LEMMA FoundPair ==
    ASSUME T!IsTable(htab, Entries), NEW d \in Keys, T!Has(htab, d)
    PROVE  /\ T!GetPair(htab, d) \in Entries
           /\ T!GetPair(htab, d).car = KeyIn(d)
           /\ T!GetPair(htab, d).cdr \in Data
  <1>1. /\ T!GetPair(htab, d) \in Entries
        /\ SameClassic(d, T!GetPair(htab, d))
    BY ScalarFacts, T!NodeFacts
  <1> QED
    BY <1>1 DEF SameClassic, Entries, KeyValue

(* hashtable-set! changes the binding of its key, and no other.            *)
LEMMA SetPuts ==
    ASSUME T!IsTable(htab, Entries), T!OneEntry(htab, Keys), ~NoRows,
           NEW k \in Scalars, NEW v \in Data, NEW e, e = KeyValue(Scalar(k), v),
           htab' = T!PutPair(htab, e)
    PROVE  /\ TInv' /\ ~NoRows'
           /\ \A n \in Scalars : ValueAt(n)' = IF n = k THEN v ELSE ValueAt(n)
  <1> PICK g : g = htab'
    OBVIOUS
  <1>1. /\ e \in Entries /\ HashClassic(e) \in Nat /\ e.cdr = v
        /\ \A d \in Keys : SameClassic(d, e) <=> KeyIn(d).car = k
        /\ \A d \in Keys : SameClassic(d, e) => HashClassic(d) = HashClassic(e)
    BY PairFacts
  <1>a. g = T!PutPair(htab, e)
    OBVIOUS
  <1>b. T!IsTable(g, Entries) /\ DOMAIN g = DOMAIN htab
    BY <1>1, <1>a, T!PutKeeps
  <1>2. T!IsTable(g, Entries) /\ DOMAIN g # {}
    BY <1>b DEF NoRows
  <1>3. Scalar(k) \in Keys /\ KeyIn(Scalar(k)).car = k
    BY DEF Keys, KeyIn, Scalar
  <1>4. /\ T!Has(htab, e) <=> T!Has(htab, Scalar(k))
        /\ T!GetPair(htab, e) = T!GetPair(htab, Scalar(k))
    BY PairFacts, T!SameAnswer
  <1>5. ASSUME NEW d \in Keys
        PROVE  /\ SameClassic(d, e) => T!Has(g, d) /\ T!GetPair(g, d) = e
               /\ ~SameClassic(d, e) => /\ T!Has(g, d) <=> T!Has(htab, d)
                                        /\ T!Has(htab, d) => T!GetPair(g, d) = T!GetPair(htab, d)
               /\ \A i, j \in 1..Len(g[T!RowOf(g, d)]) :
                     SameClassic(d, g[T!RowOf(g, d)][i]) /\ SameClassic(d, g[T!RowOf(g, d)][j]) => i = j
    <2>1. T!Has(htab, e) => (SameClassic(d, e) <=> SameClassic(d, T!GetPair(htab, e)))
      BY <1>1, <1>3, <1>4, FoundPair, ScalarFacts DEF SameClassic
    <2>2. ~T!Has(htab, e) => ~(SameClassic(d, e) /\ T!Has(htab, d))
      BY <1>1, <1>3, <1>4, ScalarFacts, T!SameAnswer
    <2>3. HashClassic(d) \in Nat /\ (SameClassic(d, e) => HashClassic(d) = HashClassic(e))
      BY <1>1, ScalarFacts
    <2> QED
      BY <1>1, <2>1, <2>2, <2>3, T!PutIsPut
  <1>6. T!OneEntry(g, Keys)
    BY <1>5 DEF T!OneEntry
  <1>7. ASSUME NEW n \in Scalars PROVE ValueAt(n)' = IF n = k THEN v ELSE ValueAt(n)
    <2>1. Scalar(n) \in Keys /\ KeyIn(Scalar(n)).car = n
      BY DEF Keys, KeyIn, Scalar
    <2> QED
      BY <1>1, <1>2, <1>5, <2>1 DEF ValueAt, NoRows
  <1> QED
    BY <1>2, <1>6, <1>7 DEF TInv, NoRows

(* A new table answers no key.                                             *)
LEMMA NewTable == TInit => TInv /\ Map!BInit
  <1> SUFFICES ASSUME TInit PROVE TInv /\ Map!BInit
    OBVIOUS
  <1>1. PICK n \in 0..MaxRows : htab = T!EmptyTable(n)
    BY DEF TInit
  <1>2. n \in Nat
    BY <1>1, TablesAssumption
  <1>3. ASSUME ~NoRows
        PROVE  /\ T!IsTable(htab, Entries)
               /\ \A d \in Keys : ~T!Has(htab, d)
    <2>1. n # 0
      BY <1>1, <1>2, <1>3, T!EmptyFacts DEF NoRows
    <2> QED
      BY <1>1, <1>2, <2>1, ScalarFacts, T!EmptyFacts
  <1>4. ASSUME ~NoRows PROVE T!OneEntry(htab, Keys)
    <2> SUFFICES ASSUME NEW d \in Keys, NEW row, row = htab[T!RowOf(htab, d)]
                 PROVE  \A i, j \in 1..Len(row) :
                           SameClassic(d, row[i]) /\ SameClassic(d, row[j]) => i = j
      BY DEF T!OneEntry
    <2>1. T!Has(htab, d) <=> \E i \in 1..Len(row) : SameClassic(d, row[i])
      BY <1>3, <1>4, ScalarFacts, T!NodeFacts
    <2> QED
      BY <1>3, <1>4, <2>1
  <1>5. ASSUME NEW k \in Scalars PROVE ValueAt(k) = Absent
    BY <1>3 DEF ValueAt, Keys
  <1>6. reply = <<Absent, Absent>>
    BY DEF TInit
  <1> QED
    BY <1>3, <1>4, <1>5, <1>6 DEF TInv, Map!BInit

(* hashtable-set! puts, or does nothing and the process ends.              *)
LEMMA SetMaps ==
    ASSUME TInv, NEW d \in Keys, NEW v \in Data, HashtableSet(d, v)
    PROVE  TInv' /\ ((d.car \in Scalars /\ Map!Put(d.car, v)) \/ UNCHANGED <<htab, reply>>)
  <1> DEFINE e == KeyValue(d, v)
  <1>1. CASE UNCHANGED <<htab, reply>>
    BY <1>1 DEF TInv, NoRows
  <1>2. CASE ~UNCHANGED <<htab, reply>>
    <2>1. /\ ~Unhashable(e) /\ ~NoRows
          /\ htab' = T!PutPair(htab, e) /\ reply' = <<d.car, "done">>
      BY <1>2 DEF HashtableSet, Break
    <2>2. e.pair = TRUE /\ e.car = d
      BY DEF KeyValue
    <2>3. PICK k \in Scalars : d = Scalar(k) \/ d = Pair(k)
      BY DEF Keys
    <2>4. d = Scalar(k) /\ d.car = k
      BY <2>1, <2>2, <2>3 DEF Unhashable, KeyIn, Scalar, Pair
    <2>5. T!IsTable(htab, Entries) /\ T!OneEntry(htab, Keys)
      BY <2>1 DEF TInv
    <2>6. /\ TInv'
          /\ \A n \in Scalars : ValueAt(n)' = IF n = k THEN v ELSE ValueAt(n)
      BY <2>1, <2>4, <2>5, SetPuts
    <2>7. [n \in Scalars |-> ValueAt(n)]' = [[n \in Scalars |-> ValueAt(n)] EXCEPT ![k] = v]
      BY <2>6
    <2> QED
      BY <2>1, <2>4, <2>6, <2>7 DEF Map!Put
  <1> QED
    BY <1>1, <1>2

(* hashtable-ref answers from the binding of the key's scalar.             *)
LEMMA RefMaps ==
    ASSUME TInv, NEW d \in Keys, HashtableRef(d)
    PROVE  TInv' /\ (Map!Fetch(KeyIn(d).car) \/ UNCHANGED <<htab, reply>>)
  <1>1. UNCHANGED htab
    BY DEF HashtableRef, Break
  <1>2. TInv'
    BY <1>1 DEF TInv, NoRows
  <1>3. [n \in Scalars |-> ValueAt(n)]' = [n \in Scalars |-> ValueAt(n)]
    BY <1>1 DEF ValueAt, NoRows
  <1>4. PICK k : k = KeyIn(d).car
    OBVIOUS
  <1>5. /\ k \in Scalars /\ KeyIn(d) = Scalar(k) /\ HashClassic(d) = HashClassic(Scalar(k))
        /\ \A e : SameClassic(d, e) <=> SameClassic(Scalar(k), e)
    BY <1>4, ScalarFacts
  <1>6. /\ T!Has(htab, d) <=> T!Has(htab, Scalar(k))
        /\ T!GetPair(htab, d) = T!GetPair(htab, Scalar(k))
    BY <1>5, T!SameAnswer
  <1>7. CASE NoRows
    BY <1>2, <1>7 DEF HashtableRef, Break
  <1>8. CASE ~NoRows
    <2>1. reply' = <<k, ValueAt(k)>>
      BY <1>4, <1>6, <1>8 DEF HashtableRef, ValueAt
    <2> QED
      BY <1>2, <1>3, <1>4, <1>5, <2>1 DEF Map!Fetch
  <1> QED
    BY <1>7, <1>8

(* A step of the program is a step of the bindings, or none.               *)
LEMMA TableNextStep ==
    ASSUME TInv, [TNext]_tvars
    PROVE  TInv' /\ [Map!TableNext]_<<[k \in Scalars |-> ValueAt(k)], reply>>
  <1>1. CASE UNCHANGED <<htab, reply>>
    <2>1. [n \in Scalars |-> ValueAt(n)]' = [n \in Scalars |-> ValueAt(n)]
      BY <1>1 DEF ValueAt, NoRows
    <2> QED
      BY <1>1, <2>1 DEF TInv, NoRows
  <1>2. ASSUME NEW d \in Keys, Operation(d)
        PROVE  TInv' /\ (Map!TableNext \/ UNCHANGED <<htab, reply>>)
    <2>1. CASE HashtableRef(d)
      BY <2>1, <1>2, RefMaps, ScalarFacts DEF Map!TableNext
    <2>2. ASSUME NEW v \in Data, HashtableSet(d, v)
          PROVE  TInv' /\ (Map!TableNext \/ UNCHANGED <<htab, reply>>)
      BY <2>2, SetMaps DEF Map!TableNext
    <2> QED
      BY <1>2, <2>1, <2>2 DEF Operation
  <1>3. CASE ~UNCHANGED <<htab, reply>>
    <2>1. PICK d \in Keys : Operation(d)
      BY <1>3 DEF TNext, tvars, Keys
    <2> QED
      BY <1>2, <1>3, <2>1
  <1> QED
    BY <1>1, <1>3

(* The hash tables of programs keep bindings: whatever the keys, the hash  *)
(* codes and the number of rows, hashtable-ref answers what was put last   *)
(* under the key, and keys that share a row never answer for each other.   *)
THEOREM TablesImplementBindings == TSpec => TableIsBindings
  <1>1. TInit => TInv /\ Map!BInit
    BY NewTable
  <1>2. TInv /\ [TNext]_tvars
        => TInv' /\ [Map!TableNext]_<<[k \in Scalars |-> ValueAt(k)], reply>>
    BY TableNextStep
  <1> QED
    BY <1>1, <1>2, PTL DEF TSpec, TableIsBindings, Map!TableSpec

-----------------------------------------------------------------------------
(* The three stores, each of them followed or still.                       *)

(* Why a process ends at a hash table, or that it has not.                 *)
Broken == {"", "no hash function", "division by zero", "not a pair"}

LEMMA BrokenNext == broken \in Broken /\ [TNext]_tvars => broken' \in Broken
  <1>1. ASSUME NEW k, NEW v, HashtableSet(k, v), broken \in Broken PROVE broken' \in Broken
    BY <1>1 DEF HashtableSet, Break, Broken
  <1>2. ASSUME NEW k, HashtableRef(k), broken \in Broken PROVE broken' \in Broken
    BY <1>2 DEF HashtableRef, Break, Broken
  <1> QED
    BY <1>1, <1>2 DEF TNext, Operation, tvars

(* Rows hold pairs of a scalar and a value.                                *)
LEMMA TableTypes == TInv /\ broken \in Broken => TTypeOK
  <1> SUFFICES ASSUME TInv, broken \in Broken PROVE TTypeOK
    OBVIOUS
  <1>1. \A r \in DOMAIN htab : \A i \in 1..Len(htab[r]) : htab[r][i] \in Entries
    <2>1. CASE NoRows
      BY <2>1 DEF NoRows
    <2>2. CASE ~NoRows
      BY <2>2, T!TableEntries DEF TInv
    <2> QED
      BY <2>1, <2>2
  <1>2. broken \in Broken
    OBVIOUS
  <1> QED
    BY <1>1, <1>2 DEF TTypeOK, Broken

(* Each store of the specification that TLC checks behaves as it does      *)
(* alone: what is proved of one holds there.                               *)
THEOREM StoresAreApart == Spec => GSpec /\ TSpec /\ SSpec
  <1>1. Init => GInit /\ TInit /\ SInit
    BY DEF Init
  <1>2. [Next]_vars => [GNext]_gvars /\ [TNext]_tvars /\ [SNext]_svars
    BY DEF Next, vars
  <1> QED
    BY <1>1, <1>2, PTL DEF Spec, GSpec, TSpec, SSpec

(* Every variable of the three stores keeps its type.                      *)
THEOREM StoreTypes == Spec => []TypeOK
  <1>1. GSpec => []GTypeOK
    BY GlobalsTypes
  <1>2. TSpec => []TTypeOK
    <2>1. TInit => TInv /\ broken \in Broken
      BY NewTable DEF TInit, Broken
    <2>2. TInv /\ broken \in Broken /\ [TNext]_tvars => (TInv /\ broken \in Broken)'
      BY TableNextStep, BrokenNext
    <2> QED
      BY <2>1, <2>2, TableTypes, PTL DEF TSpec
  <1>3. SSpec => []STypeOK
    <2>1. SInit => SInv /\ STypeOK
      <3> SUFFICES ASSUME SInit PROVE STypeOK
        BY StringInit
      <3>1. Len(text) = 0
        BY DEF SInit
      <3> QED
        BY <3>1, StringAssumption DEF SInit, STypeOK
    <2>2. SInv /\ STypeOK /\ [SNext]_svars => (SInv /\ STypeOK)'
      BY StringNext, StringTypes
    <2> QED
      BY <2>1, <2>2, PTL DEF SSpec
  <1> QED
    BY <1>1, <1>2, <1>3, StoresAreApart, PTL DEF TypeOK
=============================================================================
