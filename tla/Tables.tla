------------------------------- MODULE Tables -------------------------------
(***************************************************************************)
(* The hash tables of Scheme programs: make-hashtable, hashtable-set! and  *)
(* hashtable-ref (libr.c) on a table whose entries are pairs of a key and  *)
(* a value (datum.c, the "classic" hash and equality).                     *)
(***************************************************************************)
EXTENDS Integers, Sequences, FiniteSets

CONSTANTS
    Scalars,     \* keys that have a hash code: numbers, characters, strings, symbols
    Objects,     \* those of them that are objects of the heap
    Data,        \* values
    Absent,      \* NIHIL, the answer of hashtable-ref when there is no entry
    CodeOf(_),   \* the hash code of a scalar; equal ones have one: HASH_MASK drops
                 \* the sign, in which the reals 0.0 and -0.0 differ
    MaxRows      \* bound: rows of a table

ASSUME TablesAssumption ==
    /\ Objects \subseteq Scalars /\ Absent \notin Data
    /\ \A k \in Scalars : CodeOf(k) \in Nat
    /\ MaxRows \in Nat

VARIABLES
    htab,    \* the table
    broken,  \* why the process ended, or ""
    reply    \* key and answer of the last operation

tvars == <<htab, broken, reply>>

Scalar(k) == [pair |-> FALSE, car |-> k]
Pair(k) == [pair |-> TRUE, car |-> Scalar(k)]
KeyValue(k, v) == [pair |-> TRUE, car |-> k, cdr |-> v]

-----------------------------------------------------------------------------
(* A pair given as the key is taken for an entry: its car is the key.      *)
KeyIn(d) == IF d.pair THEN d.car ELSE d
HashClassic(d) == CodeOf(KeyIn(d).car)

(* Faulty SameClassic: equal hash codes are taken for equal keys.          *)
SameCode(d, e) == HashClassic(d) = HashClassic(e)

SameClassic(d, e) == KeyIn(d) = e.car

T == INSTANCE HashTable WITH HashOf <- HashClassic, Same <- SameClassic

(* descr_hash_code has an assertion where the key is a pair, htb_getix a   *)
(* division by the number of rows, and htb_put, once it has replaced an    *)
(* entry, reads the CDR of the key: a field of an object, or nothing.      *)
Unhashable(d) == KeyIn(d).pair
NoRows == DOMAIN htab = {}

TInit ==
    /\ \E n \in 0..MaxRows : htab = T!EmptyTable(n)
    /\ broken = ""
    /\ reply = <<Absent, Absent>>

Break(why) == broken' = why /\ UNCHANGED <<htab, reply>>

HashtableSet(k, v) ==
    LET e == KeyValue(k, v) IN
    IF Unhashable(e) THEN Break("no hash function")
    ELSE IF NoRows THEN Break("division by zero")
    ELSE /\ htab' = T!PutPair(htab, e)
         /\ reply' = <<k.car, "done">>
         /\ broken' = IF T!Has(htab, e) /\ k.car \notin Objects THEN "not a pair" ELSE ""

HashtableRef(k) ==
    IF NoRows THEN Break("division by zero")
    ELSE /\ reply' = <<KeyIn(k).car, IF T!Has(htab, k) THEN T!GetPair(htab, k).cdr ELSE Absent>>
         /\ UNCHANGED <<htab, broken>>

Operation(k) == HashtableRef(k) \/ \E v \in Data : HashtableSet(k, v)

TNext ==
    /\ broken = ""
    /\ \E k \in Scalars : Operation(Scalar(k)) \/ Operation(Pair(k))

TSpec == TInit /\ [][TNext]_tvars

-----------------------------------------------------------------------------
Entries == {KeyValue(Scalar(k), v) : k \in Scalars, v \in Data}

TTypeOK ==
    /\ \A r \in DOMAIN htab : \A i \in 1..Len(htab[r]) : htab[r][i] \in Entries
    /\ broken \in {"", "no hash function", "division by zero", "not a pair"}

(* hashtable-ref answers what hashtable-set! put last under the key, and   *)
(* NIHIL for a key that was never put, whatever rows the keys share        *)
(* (a pair asks for its car: HashtableRef answers under that key).         *)
ValueAt(k) ==
    IF ~NoRows /\ T!Has(htab, Scalar(k)) THEN T!GetPair(htab, Scalar(k)).cdr ELSE Absent

Map == INSTANCE Bindings WITH
    Name <- Scalars, Value <- Data, None <- Absent,
    env <- [k \in Scalars |-> ValueAt(k)], answer <- reply
TableIsBindings == Map!TableSpec
=============================================================================
