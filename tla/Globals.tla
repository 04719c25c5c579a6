------------------------------- MODULE Globals -------------------------------
(***************************************************************************)
(* Symbols and globals (svm.c, and anf_resolv_var of transform.c).         *)
(*                                                                         *)
(* A name has a symbol once it was read.  It is put into the symbol        *)
(* table in a box; it takes the place of its box when it becomes the name  *)
(* of a global (the box is weak only in a build with MEMMGR_WREFS, which   *)
(* no header defines: no symbol ever leaves the table).  Code refers to a  *)
(* global by its index in the table of globals, which is reserved when a   *)
(* name is resolved for the first time and holds no value until a define   *)
(* is executed.                                                            *)
(***************************************************************************)
EXTENDS Integers, Sequences, FiniteSets, FiniteSetsExt

CONSTANTS
    Names,      \* names of symbols
    Specials,   \* the names of the symbols of the program's own table
    Builtins,   \* the names bound before the first form is read
    Values,     \* values of globals
    Undef,      \* no value: NIHIL
    HashOf(_),  \* the hash code of a name
    Rows,       \* rows of the symbol table
    First,      \* the first index that is not a type's or a row's of the symbol table
    Limit,      \* the size of the table of globals
    Twins,      \* bound: symbols of one name at a time
    MaxPtr      \* bound: values of Globt_ptr

(* Index 0 is no index; the table has room for the builtins, and the bound *)
(* of Globt_ptr lets it fill up.                                           *)
ASSUME GlobalsAssumption ==
    /\ Specials \subseteq Names /\ Builtins \subseteq Names /\ IsFiniteSet(Builtins)
    /\ Undef \notin Values
    /\ \A n \in Names : HashOf(n) \in Nat
    /\ Rows \in Nat \ {0} /\ Twins \in Nat \ {0}
    /\ First \in Nat \ {0} /\ Limit \in Nat /\ MaxPtr \in Nat
    /\ First + Cardinality(Builtins) < Limit /\ Limit <= MaxPtr

VARIABLES
    symbhtb,  \* the symbol table: entries are boxes of symbols, or symbols
    symbols,  \* the symbols that exist: each one's globix, or 0
    code,     \* identifiers the transformer has resolved: name and index
    globals,  \* __Glob_table__ from First on
    ptr,      \* Globt_ptr
    refused,  \* whether a reservation was refused
    wild,     \* whether code or the collector went past the table
    answer    \* what the last operation on a global answered

gvars == <<symbhtb, symbols, code, globals, ptr, refused, wild, answer>>

SymbolId == Names \X (1..Twins)

(* A symbol's name never changes.                                          *)
NameOf(s) == s[1]
Index == First..MaxPtr

-----------------------------------------------------------------------------
(* An entry of the symbol table, and the key it is looked up by.  A box    *)
(* is hashed by its symbol's name but compared as itself: it answers no    *)
(* entry (the unboxing of the key is commented out).                       *)

Entry(s, boxed) == [name |-> NameOf(s), sym |-> s, boxed |-> boxed]
Key(n) == Entry(<<n, 0>>, FALSE)

(* Faulty HashSym: a box is not hashed by its symbol either.               *)
HashSymUnboxed(k) == IF k.boxed THEN 0 ELSE HashOf(k.name)

HashSym(k) == HashOf(k.name)
SameSym(k, e) == ~k.boxed /\ k.name = e.name

H == INSTANCE HashTable WITH HashOf <- HashSym, Same <- SameSym

Interned(n) == H!Has(symbhtb, Key(n))
SymbolGet(n) == H!GetPair(symbhtb, Key(n)).sym

FreshIds(n) == {t \in 1..Twins : <<n, t>> \notin DOMAIN symbols}
FreshId(n) == <<n, Min(FreshIds(n))>>

WithFresh(f) == [s \in DOMAIN symbols \cup {f} |-> IF s = f THEN 0 ELSE symbols[s]]

(* symbol_from_string: the symbol of a name, the table and the symbols     *)
(* once it is there.                                                       *)
FromString(n) ==
    IF Interned(n) THEN [sym |-> SymbolGet(n), table |-> symbhtb, syms |-> symbols]
    ELSE [sym |-> FreshId(n),
          table |-> H!PutPair(symbhtb, Entry(FreshId(n), TRUE)),
          syms |-> WithFresh(FreshId(n))]

(* env_put of the global environment: the symbol, which has no index yet   *)
(* (env_put asserts it, and its callers see to it), learns its index and   *)
(* takes the place of its box in the table.                                *)
PutGlobal(r, ix) ==
    /\ symbols' = [r.syms EXCEPT ![r.sym] = ix]
    /\ symbhtb' = H!PutPair(r.table, Entry(r.sym, FALSE))

(* Faulty NewIx: the index after the one reserved.                         *)
NewIxAfter == ptr + 1

(* The index global_reserve answers: Globt_ptr before it moved.            *)
NewIx == ptr

(* Faulty Refuses: the table is taken to grow.                             *)
RefusesNever(moved) == moved = 0

(* global_reserve moves Globt_ptr on before it tests the limit.            *)
Refuses(moved) == moved = Limit
ReserveRefused ==
    /\ Refuses(ptr + 1)
    /\ ptr' = ptr + 1
    /\ refused' = TRUE
Reserve ==
    /\ ptr < MaxPtr
    /\ ~Refuses(ptr + 1)
    /\ ptr' = ptr + 1
    /\ UNCHANGED refused

-----------------------------------------------------------------------------
GInit ==
    /\ symbols = <<>>
    /\ symbhtb = H!EmptyTable(Rows)
    /\ code = {}
    /\ globals = [i \in Index |-> Undef]
    /\ ptr = First
    /\ refused = FALSE
    /\ wild = FALSE
    /\ answer = <<Undef, Undef>>

(* vm_init_symbols puts the special symbols into the table, one after the  *)
(* other and themselves, not in a box.                                     *)
Known == {NameOf(s) : s \in DOMAIN symbols}
SymbolsReserved == Specials \subseteq Known

SymbolReserve ==
    /\ \E n \in Specials \ Known :
        /\ symbols' = WithFresh(<<n, 1>>)
        /\ symbhtb' = H!PutPair(symbhtb, Entry(<<n, 1>>, FALSE))
    /\ UNCHANGED <<code, globals, ptr, refused, wild, answer>>

(* bin_init: then the builtins are bound, one after the other.             *)
Bound == {NameOf(s) : s \in {t \in DOMAIN symbols : symbols[t] # 0}}
Booted == SymbolsReserved /\ Builtins \subseteq Bound

GlobalBind ==
    /\ SymbolsReserved
    /\ \E n \in Builtins \ Bound, v \in Values :
        /\ Reserve
        /\ globals' = [globals EXCEPT ![NewIx] = v]
        /\ PutGlobal(FromString(n), NewIx)
        /\ answer' = <<n, "done">>
    /\ UNCHANGED <<code, wild>>

(* The reader meets a name.                                                *)
SymbolFromString ==
    /\ Booted /\ ~wild
    /\ \E n \in Names :
        LET r == FromString(n) IN
        /\ Interned(n) \/ FreshIds(n) # {}
        /\ symbhtb' = r.table
        /\ symbols' = r.syms
    /\ UNCHANGED <<code, globals, ptr, refused, wild, answer>>

(* vm_get_globals gives a collection all that is below Globt_ptr.          *)
CollectWild ==
    /\ ptr > Limit /\ wild' = TRUE
    /\ UNCHANGED <<symbhtb, symbols, code, globals, ptr, refused, answer>>

(* anf_resolv_var on a name that no environment but the global one has.    *)
Resolved(s, ix) == [name |-> NameOf(s), ix |-> ix]

ResolveBound ==
    /\ Booted /\ ~wild
    /\ \E s \in DOMAIN symbols :
        /\ symbols[s] # 0
        /\ code' = code \cup {Resolved(s, symbols[s])}
    /\ UNCHANGED <<symbhtb, symbols, globals, ptr, refused, wild, answer>>

ResolveFree ==
    /\ Booted /\ ~wild
    /\ \E s \in DOMAIN symbols :
        /\ symbols[s] = 0
        /\ Reserve
        /\ PutGlobal([sym |-> s, table |-> symbhtb, syms |-> symbols], NewIx)
        /\ code' = code \cup {Resolved(s, NewIx)}
    /\ UNCHANGED <<globals, wild, answer>>

ResolveRefused ==
    /\ Booted /\ ~wild
    /\ \E s \in DOMAIN symbols : symbols[s] = 0
    /\ ReserveRefused
    /\ UNCHANGED <<symbhtb, symbols, code, globals, wild, answer>>

-----------------------------------------------------------------------------
(* The instructions DEF_G, SET_G and those that read a global.  An         *)
(* assignment without a value there is answered as a reference is.         *)

InTable == {c \in code : c.ix < Limit}

StoreGlobal(c, v) ==
    /\ globals' = [globals EXCEPT ![c.ix] = v]
    /\ answer' = <<c.name, "done">>

Answers(c, a) ==
    /\ answer' = <<c.name, a>>
    /\ UNCHANGED globals

InitGlobal(c, v) == globals[c.ix] = Undef /\ StoreGlobal(c, v)
RedefinedGlobal(c) == globals[c.ix] # Undef /\ Answers(c, "refused")
SetGlobal(c, v) == globals[c.ix] # Undef /\ StoreGlobal(c, v)
GetGlobal(c) == Answers(c, globals[c.ix])

Execute ==
    /\ ~wild
    /\ \E c \in InTable :
        \/ \E v \in Values : InitGlobal(c, v) \/ SetGlobal(c, v)
        \/ RedefinedGlobal(c)
        \/ GetGlobal(c)
    /\ UNCHANGED <<symbhtb, symbols, code, ptr, refused, wild>>

(* What follows the table in memory is none of its slots.                  *)
ExecuteWild ==
    /\ code \ InTable # {} /\ wild' = TRUE
    /\ UNCHANGED <<symbhtb, symbols, code, globals, ptr, refused, answer>>

GNext ==
    \/ SymbolReserve \/ GlobalBind \/ SymbolFromString \/ CollectWild
    \/ ResolveBound \/ ResolveFree \/ ResolveRefused
    \/ Execute \/ ExecuteWild

GSpec == GInit /\ [][GNext]_gvars

-----------------------------------------------------------------------------
GTypeOK ==
    /\ DOMAIN symbols \subseteq SymbolId
    /\ \A s \in DOMAIN symbols : symbols[s] \in First..(ptr - 1) \cup {0}
    /\ code \subseteq [name : Names, ix : First..(ptr - 1)]
    /\ globals \in [Index -> Values \cup {Undef}]
    /\ ptr \in First..MaxPtr
    /\ refused \in BOOLEAN /\ wild \in BOOLEAN

(* A name has one symbol: the table finds it in its box and out of it,     *)
(* whatever names share its row, so that a name that is read again is the  *)
(* symbol that code already refers to (symbol_from_string, env_put).       *)
OneSymbolPerName ==
    \A s \in DOMAIN symbols :
        /\ Interned(NameOf(s))
        /\ SymbolGet(NameOf(s)) = s

(* Neither code nor the collector leaves the table of globals unless a     *)
(* reservation was refused before: global_reserve holds the limit once,    *)
(* and only once.                                                          *)
Outside == ptr > Limit \/ wild \/ \E c \in code : c.ix >= Limit
WildOnlyAfterRefusal == Outside => refused

(* The value the program sees under a name.                                *)
ValueOf(n) ==
    LET ixs == {symbols[s] : s \in {t \in DOMAIN symbols : NameOf(t) = n}} \ {0}
    IN  IF \E i \in ixs : i < Limit THEN globals[CHOOSE i \in ixs : i < Limit] ELSE Undef

(* Defining, assigning and reading globals through the indices that code   *)
(* keeps is defining, assigning and reading names, whatever is read,       *)
(* resolved or refused in between.                                         *)
Env == INSTANCE Bindings WITH
    Name <- Names, Value <- Values, None <- Undef,
    env <- [n \in Names |-> ValueOf(n)], answer <- answer
GlobalsAreBindings == Env!GlobalsSpec
=============================================================================
