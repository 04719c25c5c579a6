------------------------------ MODULE HashTable ------------------------------
(***************************************************************************)
(* The hash tables of datum.c: a row of entries for each hash code modulo  *)
(* the number of rows, new entries in front.  What an entry is, how a key  *)
(* or an entry is hashed and when an entry answers a key are given by the  *)
(* two closures of the table (hashfun and eqfun).                          *)
(***************************************************************************)
EXTENDS Integers, Sequences, FiniteSets, SequencesExt, LeastNumber

CONSTANTS
    HashOf(_),  \* the hash code of a key or an entry
    Same(_, _)  \* whether an entry (second) has the key of a key or an entry

EmptyTable(count) == [r \in 0..(count - 1) |-> <<>>]

(* The row of a key; a table has at least one row.                         *)
RowOf(h, k) == HashOf(k) % Cardinality(DOMAIN h)

(* The place of the first entry of its row that answers the key, or 0.     *)
NodeAt(h, k) == SelectInSeq(h[RowOf(h, k)], LAMBDA e : Same(k, e))

Has(h, k) == NodeAt(h, k) # 0
GetPair(h, k) == h[RowOf(h, k)][NodeAt(h, k)]

(* Faulty PutPair: the new entry is not linked to its row.                 *)
PutPairAlone(h, e) ==
    IF Has(h, e) THEN [h EXCEPT ![RowOf(h, e)][NodeAt(h, e)] = e]
    ELSE [h EXCEPT ![RowOf(h, e)] = <<e>>]

(* An entry takes the place of one with its key, or the front of its row.  *)
PutPair(h, e) ==
    IF Has(h, e) THEN [h EXCEPT ![RowOf(h, e)][NodeAt(h, e)] = e]
    ELSE [h EXCEPT ![RowOf(h, e)] = <<e>> \o @]

-----------------------------------------------------------------------------
(* What the tables do, for all entries and every way to hash and compare.  *)

(* A table has at least one row, and rows of entries.                      *)
IsTable(h, E) == \E n \in Nat \ {0} : h \in [0..(n - 1) -> Seq(E)]

(* At most one entry answers a key.                                        *)
OneEntry(h, K) ==
    \A k \in K : LET row == h[RowOf(h, k)] IN
        \A i, j \in 1..Len(row) : Same(k, row[i]) /\ Same(k, row[j]) => i = j

(* htb_getix answers the index of a row.                                   *)
LEMMA RowFacts ==
    ASSUME NEW h, NEW E, IsTable(h, E), NEW k, HashOf(k) \in Nat
    PROVE  RowOf(h, k) \in DOMAIN h /\ h[RowOf(h, k)] \in Seq(E)
  <1>1. PICK n \in Nat \ {0} : h \in [0..(n - 1) -> Seq(E)]
    BY DEF IsTable
  <1>2. Cardinality(DOMAIN h) = n
    BY <1>1, FS_Interval
  <1>3. HashOf(k) % n \in 0..(n - 1)
    BY <1>1
  <1> QED
    BY <1>1, <1>2, <1>3 DEF RowOf

(* What a table holds is entries.                                          *)
LEMMA TableEntries ==
    ASSUME NEW h, NEW E, IsTable(h, E)
    PROVE  \A r \in DOMAIN h : \A i \in 1..Len(h[r]) : h[r][i] \in E
  <1>1. \A r \in DOMAIN h : h[r] \in Seq(E)
    BY DEF IsTable
  <1> QED
    BY <1>1

(* _htb_getnode finds an entry that answers the key if there is one.       *)
LEMMA NodeFacts ==
    ASSUME NEW h, NEW E, IsTable(h, E), NEW k, HashOf(k) \in Nat,
           NEW row, row = h[RowOf(h, k)]
    PROVE  /\ row \in Seq(E)
           /\ Has(h, k) <=> \E i \in 1..Len(row) : Same(k, row[i])
           /\ Has(h, k) => /\ NodeAt(h, k) \in 1..Len(row)
                           /\ Same(k, row[NodeAt(h, k)])
                           /\ GetPair(h, k) = row[NodeAt(h, k)]
                           /\ GetPair(h, k) \in E
  <1> DEFINE I == {i \in 1..Len(row) : Same(k, row[i])}
  <1>1. row \in Seq(E)
    BY RowFacts
  <1>2. NodeAt(h, k) = IF I # {} THEN Min(I) ELSE 0
    BY DEF NodeAt, SelectInSeq
  <1>3. I # {} => Min(I) \in I
    <2>1. I \in SUBSET Nat
      OBVIOUS
    <2>2. I # {} => \E n \in I : \A m \in I : n <= m
      BY <2>1, LeastNatural
    <2> QED
      BY <2>2 DEF Min
  <1>4. 0 \notin I
    OBVIOUS
  <1>5. Has(h, k) <=> I # {}
    BY <1>2, <1>3, <1>4 DEF Has
  <1>6. Has(h, k) => NodeAt(h, k) \in I
    BY <1>2, <1>3, <1>5
  <1>7. GetPair(h, k) = row[NodeAt(h, k)]
    BY DEF GetPair
  <1> QED
    BY <1>1, <1>5, <1>6, <1>7

(* htb_putpair changes one row.                                            *)
LEMMA PutFacts ==
    ASSUME NEW h, NEW E, IsTable(h, E), NEW e \in E, HashOf(e) \in Nat,
           NEW r, r = RowOf(h, e), NEW g, g = PutPair(h, e), NEW p, p = NodeAt(h, e)
    PROVE  /\ IsTable(g, E) /\ DOMAIN g = DOMAIN h /\ r \in DOMAIN h
           /\ \A q \in DOMAIN h : q # r => g[q] = h[q]
           /\ Has(h, e) => g[r] = [h[r] EXCEPT ![p] = e]
           /\ ~Has(h, e) => g[r] = <<e>> \o h[r]
  <1>1. PICK n \in Nat \ {0} : h \in [0..(n - 1) -> Seq(E)]
    BY DEF IsTable
  <1>2. r \in DOMAIN h /\ h[r] \in Seq(E) /\ (Has(h, e) => p \in 1..Len(h[r]))
    BY RowFacts, NodeFacts
  <1>3. PICK s : s = IF Has(h, e) THEN [h[r] EXCEPT ![p] = e] ELSE <<e>> \o h[r]
    OBVIOUS
  <1>4. s \in Seq(E)
    <2>1. CASE Has(h, e)
      BY <1>2, <1>3, <2>1
    <2>2. CASE ~Has(h, e)
      BY <1>2, <1>3, <2>2
    <2> QED
      BY <2>1, <2>2
  <1>5. g = [h EXCEPT ![r] = s]
    BY <1>3 DEF PutPair
  <1>6. g \in [0..(n - 1) -> Seq(E)]
    BY <1>1, <1>4, <1>5
  <1> QED
    BY <1>1, <1>2, <1>3, <1>5, <1>6 DEF IsTable

(* A table stays one, with the rows it had.                                *)
LEMMA PutKeeps ==
    ASSUME NEW h, NEW E, IsTable(h, E), NEW e \in E, HashOf(e) \in Nat
    PROVE  IsTable(PutPair(h, e), E) /\ DOMAIN PutPair(h, e) = DOMAIN h
  <1> PICK r, g, p : r = RowOf(h, e) /\ g = PutPair(h, e) /\ p = NodeAt(h, e)
    OBVIOUS
  <1>1. /\ IsTable(g, E) /\ DOMAIN g = DOMAIN h /\ r \in DOMAIN h
        /\ \A x \in DOMAIN h : x # r => g[x] = h[x]
        /\ Has(h, e) => g[r] = [h[r] EXCEPT ![p] = e]
        /\ ~Has(h, e) => g[r] = <<e>> \o h[r]
    BY PutFacts
  <1> QED
    BY <1>1

(* The keys of the new entry find it, every other key finds what it found, *)
(* and none has two entries: provided that keys of one entry have one hash *)
(* code, that the entry that is replaced answers the same keys as the new  *)
(* one, and that an entry put in front answers no key that had one.        *)
LEMMA PutIsPut ==
    ASSUME NEW h, NEW E, IsTable(h, E), NEW e \in E, HashOf(e) \in Nat, NEW g, g = PutPair(h, e),
           NEW k, HashOf(k) \in Nat, Same(k, e) => HashOf(k) = HashOf(e),
           NEW K, k \in K, OneEntry(h, K),
           Has(h, e) => (Same(k, e) <=> Same(k, GetPair(h, e))),
           ~Has(h, e) => ~(Same(k, e) /\ Has(h, k))
    PROVE  /\ Same(k, e) => Has(g, k) /\ GetPair(g, k) = e
           /\ ~Same(k, e) => /\ Has(g, k) <=> Has(h, k)
                             /\ Has(h, k) => GetPair(g, k) = GetPair(h, k)
           /\ \A i, j \in 1..Len(g[RowOf(g, k)]) : 
                 Same(k, g[RowOf(g, k)][i]) /\ Same(k, g[RowOf(g, k)][j]) => i = j
  <1> PICK r, q, p : r = RowOf(h, e) /\ q = RowOf(h, k) /\ p = NodeAt(h, e)
    OBVIOUS
  <1>1. /\ IsTable(g, E) /\ DOMAIN g = DOMAIN h /\ r \in DOMAIN h
        /\ \A x \in DOMAIN h : x # r => g[x] = h[x]
        /\ Has(h, e) => g[r] = [h[r] EXCEPT ![p] = e]
        /\ ~Has(h, e) => g[r] = <<e>> \o h[r]
    BY PutFacts
  <1>2. q = RowOf(g, k) /\ q \in DOMAIN h
    BY <1>1, RowFacts DEF RowOf
  <1>3. Same(k, e) => q = r
    BY DEF RowOf
  <1>4. PICK row, new : row = h[q] /\ new = g[q]
    OBVIOUS
  <1>a. row = h[RowOf(h, k)] /\ new = g[RowOf(g, k)]
    BY <1>2, <1>4
  <1>b. /\ row \in Seq(E)
        /\ Has(h, k) <=> \E i \in 1..Len(row) : Same(k, row[i])
        /\ Has(h, k) => /\ NodeAt(h, k) \in 1..Len(row)
                        /\ Same(k, row[NodeAt(h, k)])
                        /\ GetPair(h, k) = row[NodeAt(h, k)]
    BY <1>a, NodeFacts
  <1>c. /\ new \in Seq(E)
        /\ Has(g, k) <=> \E i \in 1..Len(new) : Same(k, new[i])
        /\ Has(g, k) => /\ NodeAt(g, k) \in 1..Len(new)
                        /\ Same(k, new[NodeAt(g, k)])
                        /\ GetPair(g, k) = new[NodeAt(g, k)]
    BY <1>1, <1>a, NodeFacts
  <1>5. /\ row \in Seq(E) /\ new \in Seq(E)
        /\ Has(h, k) <=> \E i \in 1..Len(row) : Same(k, row[i])
        /\ Has(g, k) <=> \E i \in 1..Len(new) : Same(k, new[i])
    BY <1>b, <1>c
  <1>6. /\ Has(h, k) => \E i \in 1..Len(row) : Same(k, row[i]) /\ GetPair(h, k) = row[i]
        /\ Has(g, k) => \E i \in 1..Len(new) : Same(k, new[i]) /\ GetPair(g, k) = new[i]
    BY <1>b, <1>c
  <1>7. \A i, j \in 1..Len(row) : Same(k, row[i]) /\ Same(k, row[j]) => i = j
    BY <1>4 DEF OneEntry
  <1>8. CASE q # r
    <2>1. new = row
      BY <1>1, <1>2, <1>4, <1>8
    <2> QED
      BY <1>2, <1>3, <1>4, <1>5, <1>6, <1>7, <1>8, <2>1
  <1>9. CASE q = r /\ Has(h, e)
    <2>1. /\ p \in 1..Len(row) /\ GetPair(h, e) = row[p]
          /\ new = [row EXCEPT ![p] = e]
      BY <1>1, <1>4, <1>9, NodeFacts
    <2>2. /\ Len(new) = Len(row) /\ new[p] = e
          /\ \A i \in 1..Len(row) : i # p => new[i] = row[i]
          /\ Same(k, e) <=> Same(k, row[p])
      BY <1>5, <1>9, <2>1
    <2>3. \A i \in 1..Len(row) : Same(k, new[i]) <=> Same(k, row[i])
      BY <2>2
    <2> HIDE <2>1
    <2>4. \A i, j \in 1..Len(new) : Same(k, new[i]) /\ Same(k, new[j]) => i = j
      BY <1>7, <2>2, <2>3
    <2>5. Has(g, k) <=> Has(h, k)
      BY <1>5, <2>2, <2>3
    <2>6. CASE Same(k, e)
      <3>1. Has(g, k) /\ GetPair(g, k) = e
        BY <1>5, <1>6, <2>1, <2>2, <2>4, <2>6
      <3> QED
        BY <1>2, <1>4, <2>4, <2>6, <3>1
    <2>7. CASE ~Same(k, e)
      <3>1. Has(h, k) => GetPair(g, k) = GetPair(h, k)
        BY <1>6, <1>7, <2>2, <2>3, <2>5, <2>7
      <3> QED
        BY <1>2, <1>4, <2>4, <2>5, <2>7, <3>1
    <2> QED
      BY <2>6, <2>7
  <1>10. CASE q = r /\ ~Has(h, e)
    <2>1. new = <<e>> \o row
      BY <1>1, <1>4, <1>10
    <2>2. /\ Len(new) = Len(row) + 1 /\ new[1] = e
          /\ \A i \in 1..Len(row) : new[i + 1] = row[i]
          /\ \A i \in 1..Len(new) : i # 1 => i - 1 \in 1..Len(row) /\ new[i] = row[i - 1]
      BY <1>5, <2>1
    <2>3. CASE Same(k, e)
      <3>1. \A i \in 1..Len(row) : ~Same(k, row[i])
        BY <1>5, <1>10, <2>3
      <3>2. \A i \in 1..Len(new) : Same(k, new[i]) => i = 1
        BY <2>2, <3>1
      <3>3. 1 \in 1..Len(new)
        BY <1>5, <2>2
      <3>4. Has(g, k) /\ GetPair(g, k) = e
        BY <1>5, <1>6, <2>2, <2>3, <3>2, <3>3
      <3> QED
        BY <1>2, <1>4, <2>3, <3>2, <3>4
    <2>4. CASE ~Same(k, e)
      <3>1. \A i \in 1..Len(new) : Same(k, new[i]) => i # 1
        BY <2>2, <2>4
      <3>2. \A i, j \in 1..Len(new) : Same(k, new[i]) /\ Same(k, new[j]) => i = j
        <4> SUFFICES ASSUME NEW i \in 1..Len(new), NEW j \in 1..Len(new),
                            Same(k, new[i]), Same(k, new[j])
                     PROVE  i - 1 = j - 1
          OBVIOUS
        <4> QED
          BY <1>7, <2>2, <3>1
      <3>3. Has(g, k) <=> Has(h, k)
        <4>1. Len(row) \in Nat /\ Len(new) \in Nat
          BY <1>5
        <4>2. \A i \in 1..Len(row) : i + 1 \in 1..Len(new)
          BY <2>2, <4>1
        <4> QED
          BY <1>5, <2>2, <3>1, <4>2
      <3>4. Has(h, k) => GetPair(g, k) = GetPair(h, k)
        <4> SUFFICES ASSUME Has(h, k) PROVE GetPair(g, k) = GetPair(h, k)
          OBVIOUS
        <4>1. PICK i \in 1..Len(new) : Same(k, new[i]) /\ GetPair(g, k) = new[i]
          BY <1>6, <3>3
        <4>2. i - 1 \in 1..Len(row) /\ new[i] = row[i - 1]
          BY <2>2, <3>1, <4>1
        <4> QED
          BY <1>6, <1>7, <4>1, <4>2
      <3> QED
        BY <1>2, <1>4, <2>4, <3>2, <3>3, <3>4
    <2> QED
      BY <2>3, <2>4
  <1> QED
    BY <1>8, <1>9, <1>10

(* A new table finds nothing; it may have no row at all.                   *)
LEMMA EmptyFacts ==
    ASSUME NEW n \in Nat
    PROVE  /\ n = 0 => DOMAIN EmptyTable(n) = {}
           /\ n # 0 => /\ DOMAIN EmptyTable(n) # {}
                       /\ \A E : IsTable(EmptyTable(n), E)
                       /\ \A k : HashOf(k) \in Nat => ~Has(EmptyTable(n), k)
  <1>1. DOMAIN EmptyTable(n) = 0..(n - 1)
    BY DEF EmptyTable
  <1>2. ASSUME n # 0, NEW E PROVE IsTable(EmptyTable(n), E)
    BY <1>2 DEF EmptyTable, IsTable
  <1>3. ASSUME n # 0, NEW k, HashOf(k) \in Nat PROVE ~Has(EmptyTable(n), k)
    <2>1. RowOf(EmptyTable(n), k) \in DOMAIN EmptyTable(n)
      BY <1>2, <1>3, RowFacts
    <2>2. EmptyTable(n)[RowOf(EmptyTable(n), k)] = <<>>
      BY <2>1 DEF EmptyTable
    <2> QED
      BY <1>2, <1>3, <2>2, NodeFacts
  <1> QED
    BY <1>1, <1>2, <1>3

(* Keys that are hashed and compared alike find the same.                  *)
LEMMA SameAnswer ==
    ASSUME NEW h, NEW j, NEW k, HashOf(j) = HashOf(k), \A e : Same(j, e) <=> Same(k, e)
    PROVE  /\ RowOf(h, j) = RowOf(h, k)
           /\ Has(h, j) <=> Has(h, k)
           /\ GetPair(h, j) = GetPair(h, k)
  <1>1. RowOf(h, j) = RowOf(h, k)
    BY DEF RowOf
  <1>2. PICK row : row = h[RowOf(h, k)]
    OBVIOUS
  <1>3. {i \in 1..Len(row) : Same(j, row[i])} = {i \in 1..Len(row) : Same(k, row[i])}
    OBVIOUS
  <1>4. NodeAt(h, j) = NodeAt(h, k)
    BY <1>1, <1>2, <1>3 DEF NodeAt, SelectInSeq
  <1> QED
    BY <1>1, <1>4 DEF Has, GetPair

=============================================================================
