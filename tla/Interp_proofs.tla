---------------------------- MODULE Interp_proofs ----------------------------
(***************************************************************************)
(* Theorems about the interpreter and its builtins.  What is said of frames*)
(* holds of every code; what follows holds of every code that is well      *)
(* formed, which Interp assumes of the images it is given, and which TLC   *)
(* evaluates for the code the transformer makes of the sessions.           *)
(***************************************************************************)
EXTENDS Interp, LeastNumber

-----------------------------------------------------------------------------
(***************************************************************************)
(* Builtins: the values of a session are closed under them.  The recursive *)
(* definitions of lists are followed by induction on their length.         *)
(***************************************************************************)
(* The names of the builtins.                                              *)
BinNameSet == {BinNames[i] : i \in 1..Len(BinTable)}

(* The values S, whose closures are C: with a pair there are its parts.    *)
Holds(S, C) ==
    /\ {Nil, False, True, Void, Nihil} \subseteq S
    /\ \A v \in S :
          /\ v[1] = "closure" => v \in C
          /\ v[1] = "bin" => v[2] \in BinNameSet
          /\ v[1] = "pair" => v[2] \in S /\ v[3] \in S

(* All of S and perhaps more.                                              *)
Over(S, C, T) == S \subseteq T /\ Holds(T, C)

(* A value that is no procedure and no pair can be among the values.       *)
LEMMA AtomIn ==
    ASSUME NEW S, NEW C, Holds(S, C), NEW v, v[1] \notin {"closure", "bin", "pair"}
    PROVE  Over(S, C, S \cup {v})
  BY DEF Over, Holds

(* So can a pair of two of them.                                           *)
LEMMA PairIn ==
    ASSUME NEW S, NEW C, Holds(S, C), NEW a \in S, NEW b \in S
    PROVE  Over(S, C, S \cup {Pair(a, b)})
  BY DEF Over, Holds, Pair

(* A pair of an old value and of one that more values hold.                *)
LEMMA PairOver ==
    ASSUME NEW S, NEW C, NEW T, Over(S, C, T), NEW a \in S, NEW b \in T
    PROVE  \E U : Over(S, C, U) /\ Pair(a, b) \in U
  <1>1. Over(T, C, T \cup {Pair(a, b)})
    BY PairIn DEF Over
  <1>2. Over(S, C, T \cup {Pair(a, b)})
    BY <1>1 DEF Over
  <1> QED
    BY <1>2

(* More values than more values than S are more values than S.             *)
LEMMA OverOver ==
    ASSUME NEW S, NEW C, NEW T, NEW U, Over(S, C, T), Over(T, C, U)
    PROVE  Over(S, C, U)
  BY DEF Over

(* Values are no fewer than themselves.                                    *)
LEMMA SelfOver == ASSUME NEW S, NEW C, Holds(S, C) PROVE Over(S, C, S)
  BY DEF Over

(* A list of values: ListEnding, pair by pair from its end.                *)
LEMMA ListIn ==
    ASSUME NEW S, NEW C, Holds(S, C), NEW es \in Seq(S), NEW end \in S
    PROVE  \E T : Over(S, C, T) /\ ListEnding(es, end) \in T
  <1> DEFINE n == Len(es)
             Rec(m, g) == g = [i \in 0..m |-> IF i = 0 THEN end ELSE Pair(es[n + 1 - i], g[i - 1])]
             f == CHOOSE g : Rec(n, g)
             P == {m \in 0..n : \E g : Rec(m, g)}
             Q == {m \in 0..n : \E T : Over(S, C, T) /\ f[m] \in T}
  <1>0. n \in Nat /\ \A i \in 1..n : es[i] \in S
    OBVIOUS
  <1>1. ListEnding(es, end) = f[n]
    BY DEF ListEnding
  <1>2. Rec(0, [i \in 0..0 |-> end])
    OBVIOUS
  <1>3. ASSUME NEW m \in 0..n - 1, NEW g, Rec(m, g)
        PROVE  \E h : Rec(m + 1, h)
    <2> DEFINE h == [i \in 0..m + 1 |-> IF i = m + 1 THEN Pair(es[n - m], g[m]) ELSE g[i]]
    <2>1. h = [i \in 0..m + 1 |-> IF i = 0 THEN end ELSE Pair(es[n + 1 - i], h[i - 1])]
      BY <1>0, <1>3
    <2> QED
      BY <2>1
  <1>4. ASSUME NEW g, Rec(n, g)
        PROVE  /\ g[0] = end
               /\ \A m \in 0..n - 1 : g[m + 1] = Pair(es[n - m], g[m])
    <2>1. g[0] = end
      BY <1>0, <1>4
    <2>2. ASSUME NEW m \in 0..n - 1 PROVE g[m + 1] = Pair(es[n - m], g[m])
      <3>1. m + 1 \in 0..n /\ m + 1 # 0 /\ (m + 1) - 1 = m /\ n + 1 - (m + 1) = n - m
        BY <1>0
      <3>2. g[m + 1] = Pair(es[n + 1 - (m + 1)], g[(m + 1) - 1])
        BY <1>4, <3>1
      <3> QED
        BY <3>1, <3>2
    <2> QED
      BY <2>1, <2>2
  <1> HIDE DEF Rec, n
  <1>5. Rec(n, f)
    <2>1. 0 \in P /\ \A m \in 0..n - 1 : m \in P => m + 1 \in P
      BY <1>0, <1>2, <1>3
    <2> HIDE DEF P, f
    <2>2. \A m \in 0..n : m \in P
      BY <1>0, <2>1, UpTo
    <2>3. n \in P
      BY <1>0, <2>2
    <2>4. \E g : Rec(n, g)
      BY <2>3 DEF P
    <2> QED
      BY <2>4 DEF f
  <1> HIDE DEF f
  <1>6. 0 \in Q
    BY <1>0, <1>4, <1>5, SelfOver
  <1>7. \A m \in 0..n - 1 : m \in Q => m + 1 \in Q
    <2> SUFFICES ASSUME NEW m \in 0..n - 1, NEW T, Over(S, C, T), f[m] \in T
                 PROVE  \E U : Over(S, C, U) /\ f[m + 1] \in U
      BY <1>0
    <2>1. f[m + 1] = Pair(es[n - m], f[m]) /\ es[n - m] \in S
      BY <1>0, <1>4, <1>5
    <2> QED
      BY <2>1, PairOver
  <1>8. n \in Q
    <2> HIDE DEF Q
    <2>1. \A m \in 0..n : m \in Q
      BY <1>0, <1>6, <1>7, UpTo, SMTT(60)
    <2> QED
      BY <1>0, <2>1
  <1> QED
    BY <1>1, <1>8

(* The elements of a value and what they end in are values.                *)
LEMMA SpineIn ==
    ASSUME NEW S, NEW C, Holds(S, C), NEW d \in S
    PROVE  Elements(d) \in Seq(S) /\ EndOf(d) \in S
  <1> DEFINE n == MaxLength
             Step1(w) == IF IsPair(w.end)
                          THEN [elements |-> Append(w.elements, Car(w.end)), end |-> Cdr(w.end)]
                          ELSE w
             start == [elements |-> <<>>, end |-> d]
             Rec(m, g) == g = [i \in 0..m |->
                IF i = 0 THEN [elements |-> <<>>, end |-> d]
                ELSE LET w == g[i - 1] IN
                     IF IsPair(w.end)
                       THEN [elements |-> Append(w.elements, Car(w.end)), end |-> Cdr(w.end)]
                       ELSE w]
             f == CHOOSE g : Rec(n, g)
             P == {m \in 0..n : \E g : Rec(m, g)}
             Good(w) == w.elements \in Seq(S) /\ w.end \in S
             Q == {m \in 0..n : Good(f[m])}
  <1>0. n \in Nat
    BY DEF MaxLength
  <1>1. Spine(d) = f[n]
    BY DEF Spine
  <1>2. Rec(0, [i \in 0..0 |-> start])
    OBVIOUS
  <1>3. ASSUME NEW m \in 0..n - 1, NEW g, Rec(m, g)
        PROVE  \E h : Rec(m + 1, h)
    <2> DEFINE h == [i \in 0..m + 1 |-> IF i = m + 1 THEN Step1(g[m]) ELSE g[i]]
    <2>1. h = [i \in 0..m + 1 |-> IF i = 0 THEN start ELSE Step1(h[i - 1])]
      <3> HIDE DEF n
      <3>1. g = [i \in 0..m |-> IF i = 0 THEN start ELSE Step1(g[i - 1])]
        BY <1>3
      <3> HIDE DEF Step1, start, Rec
      <3> QED
        BY <1>0, <3>1
    <2> QED
      BY <2>1
  <1>4. ASSUME NEW g, Rec(n, g)
        PROVE  g[0] = start /\ \A m \in 0..n - 1 : g[m + 1] = Step1(g[m])
    <2> HIDE DEF n
    <2>0. g = [i \in 0..n |-> IF i = 0 THEN start ELSE Step1(g[i - 1])]
      BY <1>4
    <2> HIDE DEF Step1, start, Rec
    <2>1. g[0] = start
      BY <1>0, <2>0
    <2>2. ASSUME NEW m \in 0..n - 1 PROVE g[m + 1] = Step1(g[m])
      <3>1. m + 1 \in 0..n /\ m + 1 # 0 /\ (m + 1) - 1 = m
        BY <1>0
      <3>2. g[m + 1] = Step1(g[(m + 1) - 1])
        BY <2>0, <3>1
      <3> QED
        BY <3>1, <3>2
    <2> QED
      BY <2>1, <2>2
  <1> HIDE DEF Rec, n
  <1>5. Rec(n, f)
    <2>1. 0 \in P /\ \A m \in 0..n - 1 : m \in P => m + 1 \in P
      BY <1>0, <1>2, <1>3
    <2> HIDE DEF P, f
    <2>2. \A m \in 0..n : m \in P
      BY <1>0, <2>1, UpTo
    <2>3. n \in P
      BY <1>0, <2>2
    <2>4. \E g : Rec(n, g)
      BY <2>3 DEF P
    <2> QED
      BY <2>4 DEF f
  <1> HIDE DEF f
  <1>6. Good(start)
    OBVIOUS
  <1>7. ASSUME NEW w, Good(w) PROVE Good(Step1(w))
    <2>1. CASE IsPair(w.end)
      <3>1. Car(w.end) \in S /\ Cdr(w.end) \in S
        BY <1>7, <2>1 DEF Holds, IsPair, Car, Cdr
      <3>2. Append(w.elements, Car(w.end)) \in Seq(S)
        BY <1>7, <3>1
      <3> QED
        BY <2>1, <3>1, <3>2
    <2> QED
      BY <1>7, <2>1
  <1> HIDE DEF Good, Step1, start
  <1>8. 0 \in Q /\ \A m \in 0..n - 1 : m \in Q => m + 1 \in Q
    BY <1>0, <1>4, <1>5, <1>6, <1>7
  <1>9. n \in Q
    <2> HIDE DEF Q
    <2>1. \A m \in 0..n : m \in Q
      BY <1>0, <1>8, UpTo
    <2> QED
      BY <1>0, <2>1
  <1> QED
    BY <1>1, <1>9 DEF Good, Elements, EndOf

(* One list put before another is over the values of both.                 *)
LEMMA BeforeIn ==
    ASSUME NEW S, NEW C, Holds(S, C), NEW d \in S, NEW rest \in S
    PROVE  \E T : Over(S, C, T) /\ Before(Part(d), rest) \in T
  <1>1. PICK T : Over(S, C, T) /\ Part(d) \in T /\ rest \in T
    <2>1. Pair(d, Nil) \in S \cup {Pair(d, Nil)} /\ Nil \in S
      BY DEF Holds
    <2> QED
      BY <2>1, SelfOver, PairIn DEF Part, Over
  <1>2. Holds(T, C)
    BY <1>1 DEF Over
  <1>3. Elements(Part(d)) \in Seq(T) /\ EndOf(Part(d)) \in T
    BY <1>1, <1>2, SpineIn
  <1>4. \E U : Over(T, C, U) /\ Before(Part(d), rest) \in U
    <2> DEFINE end == IF rest = Nil THEN EndOf(Part(d)) ELSE rest
    <2>1. end \in T /\ Before(Part(d), rest) = ListEnding(Elements(Part(d)), end)
      BY <1>1, <1>3 DEF Before
    <2> HIDE DEF end
    <2> QED
      BY <1>2, <1>3, <2>1, ListIn
  <1> QED
    BY <1>1, <1>4, OverOver

(* bin_list_cat: its result is over the values of its arguments.           *)
LEMMA CatIn ==
    ASSUME NEW S, NEW C, Holds(S, C), NEW ds \in Seq(S)
    PROVE  \E T : Over(S, C, T) /\ Catenated(ds) \in T
  <1> DEFINE n == Len(ds)
             Rec(m, g) ==
                 g = [i \in 0..m |-> IF i = 0 THEN Nil ELSE Before(Part(ds[n + 1 - i]), g[i - 1])]
             f == CHOOSE g : Rec(n, g)
             P == {m \in 0..n : \E g : Rec(m, g)}
             Q == {m \in 0..n : \E T : Over(S, C, T) /\ f[m] \in T}
  <1>0. n \in Nat /\ \A i \in 1..n : ds[i] \in S
    OBVIOUS
  <1>1. Catenated(ds) = f[n]
    BY DEF Catenated
  <1>2. Rec(0, [i \in 0..0 |-> Nil])
    OBVIOUS
  <1>3. ASSUME NEW m \in 0..n - 1, NEW g, Rec(m, g)
        PROVE  \E h : Rec(m + 1, h)
    <2> DEFINE h == [i \in 0..m + 1 |-> IF i = m + 1 THEN Before(Part(ds[n - m]), g[m]) ELSE g[i]]
    <2>1. h = [i \in 0..m + 1 |-> IF i = 0 THEN Nil ELSE Before(Part(ds[n + 1 - i]), h[i - 1])]
      BY <1>0, <1>3
    <2> QED
      BY <2>1
  <1>4. ASSUME NEW g, Rec(n, g)
        PROVE  /\ g[0] = Nil
               /\ \A m \in 0..n - 1 : g[m + 1] = Before(Part(ds[n - m]), g[m])
    <2>1. g[0] = Nil
      BY <1>0, <1>4
    <2>2. ASSUME NEW m \in 0..n - 1 PROVE g[m + 1] = Before(Part(ds[n - m]), g[m])
      <3>1. m + 1 \in 0..n /\ m + 1 # 0 /\ (m + 1) - 1 = m /\ n + 1 - (m + 1) = n - m
        BY <1>0
      <3>2. g[m + 1] = Before(Part(ds[n + 1 - (m + 1)]), g[(m + 1) - 1])
        BY <1>4, <3>1
      <3> QED
        BY <3>1, <3>2
    <2> QED
      BY <2>1, <2>2
  <1> HIDE DEF Rec, n
  <1>5. Rec(n, f)
    <2>1. 0 \in P /\ \A m \in 0..n - 1 : m \in P => m + 1 \in P
      BY <1>0, <1>2, <1>3
    <2> HIDE DEF P, f
    <2>2. \A m \in 0..n : m \in P
      BY <1>0, <2>1, UpTo
    <2>3. n \in P
      BY <1>0, <2>2
    <2>4. \E g : Rec(n, g)
      BY <2>3 DEF P
    <2> QED
      BY <2>4 DEF f
  <1> HIDE DEF f
  <1>6. 0 \in Q
    BY <1>0, <1>4, <1>5, SelfOver DEF Holds
  <1>7. \A m \in 0..n - 1 : m \in Q => m + 1 \in Q
    <2> SUFFICES ASSUME NEW m \in 0..n - 1, NEW T, Over(S, C, T), f[m] \in T
                 PROVE  \E U : Over(S, C, U) /\ f[m + 1] \in U
      BY <1>0
    <2>1. f[m + 1] = Before(Part(ds[n - m]), f[m]) /\ ds[n - m] \in T /\ Holds(T, C)
      BY <1>0, <1>4, <1>5 DEF Over
    <2>2. \E U : Over(T, C, U) /\ f[m + 1] \in U
      BY <2>1, BeforeIn
    <2> QED
      BY <2>2, OverOver
  <1>8. n \in Q
    <2> HIDE DEF Q
    <2>1. \A m \in 0..n : m \in Q
      BY <1>0, <1>6, <1>7, UpTo
    <2> QED
      BY <1>0, <2>1
  <1> QED
    BY <1>1, <1>8

(* The builtins by name, as in BinTable.                                   *)
LEMMA NamesOf ==
    /\ BinNameSet = {"+", "*", "-", "<", "=", "eq?", "and", "or", "not", "list", "cons", "car",
                    "cdr", "list?", "null?", "pair?", "length", "list-cat", "quote", "unquote",
                    "unquote-splicing"}
    /\ \A name \in BinNameSet :
          BinNamed(name)[1] = name /\ \E i \in 1..21 : BinNamed(name) = BinTable[i]
  <1>1. Len(BinTable) = 21
    BY DEF BinTable
  <1>2. \A i \in 1..21 : BinNames[i] = BinTable[i][1]
    BY <1>1 DEF BinNames
  <1>3. BinNameSet = {BinTable[i][1] : i \in 1..21}
    BY <1>1, <1>2 DEF BinNameSet
  <1>4. {BinTable[i][1] : i \in 1..21} =
            {"+", "*", "-", "<", "=", "eq?", "and", "or", "not", "list", "cons", "car",
             "cdr", "list?", "null?", "pair?", "length", "list-cat", "quote", "unquote",
             "unquote-splicing"}
    BY SMTT(60) DEF BinTable
  <1>5. \A name \in BinNameSet :
          BinNamed(name)[1] = name /\ \E i \in 1..21 : BinNamed(name) = BinTable[i]
    BY <1>1, <1>3 DEF BinNamed
  <1> QED
    BY <1>3, <1>4, <1>5

(* How many arguments the builtins of one or two arguments take.           *)
LEMMA Arity ==
    ASSUME NEW name \in BinNameSet, NEW n \in Nat, BinTakes(name, n)
    PROVE  /\ name \in {"not", "car", "cdr", "list?", "null?", "pair?", "length", "quote",
                         "unquote", "unquote-splicing"} => n = 1
           /\ name = "cons" => n = 2
  <1>1. PICK i \in 1..21 : BinNamed(name) = BinTable[i] /\ BinTable[i][1] = name
    BY NamesOf, SMTT(60)
  <1>2. /\ BinTable[i][1] \in {"not", "car", "cdr", "list?", "null?", "pair?", "length", "quote",
                               "unquote", "unquote-splicing"}
           => i \in {9, 12, 13, 14, 15, 16, 17, 19, 20, 21}
        /\ BinTable[i][1] = "cons" => i = 11
    BY DEF BinTable
  <1>3. BinNamed(name) = BinTable[9] => n = 1
    BY DEF BinTable, BinTakes
  <1>4. BinNamed(name) = BinTable[11] => n = 2
    BY DEF BinTable, BinTakes
  <1>5. BinNamed(name) = BinTable[12] => n = 1
    BY DEF BinTable, BinTakes
  <1>6. BinNamed(name) = BinTable[13] => n = 1
    BY DEF BinTable, BinTakes
  <1>7. BinNamed(name) = BinTable[14] => n = 1
    BY DEF BinTable, BinTakes
  <1>8. BinNamed(name) = BinTable[15] => n = 1
    BY DEF BinTable, BinTakes
  <1>9. BinNamed(name) = BinTable[16] => n = 1
    BY DEF BinTable, BinTakes
  <1>10. BinNamed(name) = BinTable[17] => n = 1
    BY DEF BinTable, BinTakes
  <1>11. BinNamed(name) = BinTable[19] => n = 1
    BY DEF BinTable, BinTakes
  <1>12. BinNamed(name) = BinTable[20] => n = 1
    BY DEF BinTable, BinTakes
  <1>13. BinNamed(name) = BinTable[21] => n = 1
    BY DEF BinTable, BinTakes
  <1> QED
    BY <1>1, <1>2, <1>3, <1>4, <1>5, <1>6, <1>7, <1>8, <1>9, <1>10, <1>11, <1>12, <1>13

(* A builtin that took its arguments, does not panic and does not stray    *)
(* returns a value over the values it was given.                           *)
LEMMA BinIn ==
    ASSUME NEW S, NEW C, Holds(S, C), NEW name \in BinNameSet, NEW args \in Seq(S),
           BinTakes(name, Len(args)), ~BinPanics(name, args), ~BinStrays(name, args)
    PROVE  \E T : Over(S, C, T) /\ BinResult(name, args) \in T
  <1> DEFINE v == BinResult(name, args)
  <1>0. /\ Len(args) \in Nat /\ \A i \in 1..Len(args) : args[i] \in S
        /\ {Nil, False, True, Void, Nihil} \subseteq S
    BY DEF Holds
  <1>1. SUFFICES ASSUME v \notin S PROVE \E T : Over(S, C, T) /\ v \in T
    BY SelfOver
  <1>2. \A b : Cond(b) \in S
    BY <1>0 DEF Cond
  <1>3. CASE IsArithmetic(name) \/ name = "length"
    <2>1. \E n : v = Fix(n)
      BY <1>3 DEF BinResult, IsArithmetic, IsOrder
    <2>2. v[1] = "int"
      BY <2>1 DEF Fix
    <2> HIDE DEF v
    <2> QED
      BY <2>2, AtomIn DEF Over
  <1>4. CASE IsOrder(name) \/ name \in {"eq?", "not", "list?", "null?", "pair?"}
    <2>1. \E b : v = Cond(b)
      BY <1>4 DEF BinResult, IsArithmetic, IsOrder
    <2> QED
      BY <1>1, <1>2, <2>1
  <1>5. CASE name = "and"
    <2>1. v = AndOf(args) /\ args # <<>>
      BY <1>5 DEF BinResult, IsArithmetic, IsOrder, BinStrays
    <2>2. Len(args) \in 1..Len(args)
      BY <1>0, <2>1
    <2> QED
      BY <1>0, <1>1, <2>1, <2>2 DEF AndOf
  <1>6. CASE name = "or"
    <2>1. v = OrOf(args)
      BY <1>6 DEF BinResult, IsArithmetic, IsOrder
    <2> DEFINE others == {i \in 1..Len(args) : args[i] # False}
    <2>2. others = {} \/ \E i \in others : \A j \in others : i <= j
      <3>1. others \in SUBSET Nat
        OBVIOUS
      <3> QED
        BY <3>1, LeastNatural
    <2> QED
      BY <1>0, <1>1, <2>1, <2>2 DEF OrOf
  <1>7. CASE name = "list"
    <2>1. v = ListEnding(args, Nil)
      BY <1>7 DEF BinResult, IsArithmetic, IsOrder, List
    <2> QED
      BY <1>0, <2>1, ListIn
  <1>8. CASE name = "list-cat"
    <2>1. v = Catenated(args)
      BY <1>8 DEF BinResult, IsArithmetic, IsOrder
    <2> QED
      BY <2>1, CatIn
  <1>9. CASE name = "cons"
    <2>1. v = Pair(args[1], args[2]) /\ args[1] \in S /\ args[2] \in S
      BY <1>0, <1>9, Arity DEF BinResult, IsArithmetic, IsOrder
    <2>2. Over(S, C, S \cup {v})
      BY <2>1, PairIn
    <2> QED
      BY <2>2
  <1>10. CASE name \in {"car", "cdr"}
    <2>1. args[1] \in S /\ IsPair(args[1])
      BY <1>0, <1>10, Arity DEF BinPanics
    <2>2. v = args[1][2] \/ v = args[1][3]
      BY <1>10 DEF BinResult, IsArithmetic, IsOrder, Car, Cdr
    <2> QED
      BY <1>1, <2>1, <2>2 DEF Holds, IsPair
  <1>11. CASE name \in {"quote", "unquote", "unquote-splicing"}
    <2>1. args[1] \in S
      BY <1>0, <1>11, Arity
    <2>2. v = args[1] \/ v = Pair(args[1], Nil) \/ v = Sym(args[1][2])
      BY <1>11 DEF BinResult, IsArithmetic, IsOrder
    <2>3. CASE v = Sym(args[1][2])
      <3>1. v[1] = "sym"
        BY <2>3 DEF Sym
      <3> HIDE DEF v
      <3> QED
        BY <3>1, AtomIn DEF Over
    <2>4. CASE v = Pair(args[1], Nil)
      <3>1. Over(S, C, S \cup {v})
        BY <1>0, <2>1, <2>4, PairIn
      <3> QED
        BY <3>1
    <2> QED
      BY <1>1, <2>1, <2>2, <2>3, <2>4
  <1> QED
    BY <1>3, <1>4, <1>5, <1>6, <1>7, <1>8, <1>9, <1>10, <1>11, NamesOf DEF IsArithmetic, IsOrder

-----------------------------------------------------------------------------
(***************************************************************************)
(* Frames.                                                                 *)
(***************************************************************************)
Own(fs) == {fs[i] : i \in DOMAIN fs}

(* Each frame is linked to an older one, the first to itself.              *)
Linked(fs) ==
    \A i \in 1..Len(fs) :
        /\ fs[i].up \in Nat /\ fs[i].up >= 1
        /\ fs[i].up < i \/ (i = 1 /\ fs[i].up = 1)

(* A frame ends the form, or returns behind a call of its upper frame's    *)
(* function.                                                               *)
CallAt(closr, ret, code) == code[closr[2]].icode[ret][1] = "CALL"
Returning(fs, code) ==
    \A i \in 1..Len(fs) :
        fs[i].final \/ CallAt(fs[fs[i].up].closr, fs[i].ret, code)

GoodFrames(fs, code) ==
    fs \in Seq(Own(fs)) /\ Linked(fs) /\ Returning(fs, code)

(* The inductive invariant.                                                *)
FramesInv ==
    /\ GoodFrames(frames, image.code)
    /\ pc = "run" => Len(frames) >= 1

-----------------------------------------------------------------------------
(* A sequence cut after its first n elements.                              *)
LEMMA Cut ==
    ASSUME NEW S, NEW s \in Seq(S), NEW n \in 0..Len(s)
    PROVE  /\ SubSeq(s, 1, n) \in Seq(S)
           /\ Len(SubSeq(s, 1, n)) = n
           /\ \A i \in 1..n : SubSeq(s, 1, n)[i] = s[i]
  OBVIOUS

(* The same with an element put behind it.                                 *)
LEMMA CutAndPut ==
    ASSUME NEW S, NEW s \in Seq(S), NEW n \in 0..Len(s), NEW e
    PROVE  LET t == Append(SubSeq(s, 1, n), e) IN
           /\ t \in Seq(S \cup {e})
           /\ Len(t) = n + 1
           /\ \A i \in 1..n : t[i] = s[i]
           /\ t[n + 1] = e
  <1> DEFINE c == SubSeq(s, 1, n)
  <1>1. c \in Seq(S \cup {e}) /\ Len(c) = n /\ \A i \in 1..n : c[i] = s[i]
    BY Cut
  <1> HIDE DEF c
  <1>2. /\ Append(c, e) \in Seq(S \cup {e})
        /\ Len(Append(c, e)) = n + 1
        /\ \A i \in 1..n : Append(c, e)[i] = c[i]
        /\ Append(c, e)[n + 1] = e
    BY <1>1
  <1> QED
    BY <1>1, <1>2 DEF c

(* A sequence is one of its own elements.                                  *)
LEMMA OwnElements ==
    ASSUME NEW S, NEW s \in Seq(S)
    PROVE  s \in Seq(Own(s))
  BY DEF Own

(* The links of the first n frames stay among them.                        *)
LEMMA LinksStay ==
    ASSUME NEW fs, Linked(fs), Len(fs) \in Nat, NEW n \in 1..Len(fs),
           NEW i \in 1..n
    PROVE  /\ i \in 1..Len(fs)
           /\ fs[i].up \in 1..n
           /\ fs[i].up \in Nat /\ fs[i].up >= 1
           /\ fs[i].up < i \/ (i = 1 /\ fs[i].up = 1)
  BY DEF Linked

-----------------------------------------------------------------------------
(* Frames left behind by a return, the first one kept.                     *)
LEMMA CutKeeps ==
    ASSUME NEW fs, NEW code, GoodFrames(fs, code), NEW n \in 1..Len(fs),
           NEW t, t = SubSeq(fs, 1, n)
    PROVE  GoodFrames(t, code) /\ Len(t) >= 1
  <1>1. fs \in Seq(Own(fs)) /\ n \in 0..Len(fs) /\ Len(fs) \in Nat
    BY DEF GoodFrames
  <1>2. t \in Seq(Own(fs)) /\ Len(t) = n /\ \A i \in 1..n : t[i] = fs[i]
    BY <1>1, Cut
  <1>3. Linked(fs)
    BY DEF GoodFrames
  <1>4. Linked(t)
    <2> SUFFICES ASSUME NEW i \in 1..n
                 PROVE  /\ t[i].up \in Nat /\ t[i].up >= 1
                        /\ t[i].up < i \/ (i = 1 /\ t[i].up = 1)
      BY <1>2 DEF Linked
    <2>1. t[i] = fs[i]
      BY <1>2
    <2>2. /\ fs[i].up \in Nat /\ fs[i].up >= 1
          /\ fs[i].up < i \/ (i = 1 /\ fs[i].up = 1)
      BY <1>1, <1>3, LinksStay
    <2> QED
      BY <2>1, <2>2
  <1>5. Returning(t, code)
    <2> SUFFICES ASSUME NEW i \in 1..n
                 PROVE  t[i].final \/ CallAt(t[t[i].up].closr, t[i].ret, code)
      BY <1>2 DEF Returning
    <2>1. i \in 1..Len(fs) /\ fs[i].up \in 1..n
      BY <1>1, <1>3, LinksStay
    <2>2. t[i] = fs[i] /\ t[fs[i].up] = fs[fs[i].up]
      BY <1>2, <2>1
    <2> QED
      BY <2>1, <2>2 DEF GoodFrames, Returning
  <1>6. t \in Seq(Own(t))
    BY <1>2, OwnElements
  <1> QED
    BY <1>1, <1>2, <1>4, <1>5, <1>6 DEF GoodFrames

(* A frame put on those kept: linked to the last of them, and either the   *)
(* last of the form or to return behind a call of that one's function.     *)
LEMMA PutKeeps ==
    ASSUME NEW fs, NEW code, GoodFrames(fs, code), NEW n \in 1..Len(fs),
           NEW f, f.up = n, f.final \/ CallAt(fs[n].closr, f.ret, code),
           NEW t, t = Append(SubSeq(fs, 1, n), f)
    PROVE  GoodFrames(t, code) /\ Len(t) >= 1
  <1>1. fs \in Seq(Own(fs)) /\ n \in 0..Len(fs) /\ Len(fs) \in Nat
    BY DEF GoodFrames
  <1>2. /\ t \in Seq(Own(fs) \cup {f})
        /\ Len(t) = n + 1
        /\ \A i \in 1..n : t[i] = fs[i]
        /\ t[n + 1] = f
    BY <1>1, CutAndPut
  <1>3. Linked(fs)
    BY DEF GoodFrames
  <1>4. Linked(t)
    <2> SUFFICES ASSUME NEW i \in 1..n + 1
                 PROVE  /\ t[i].up \in Nat /\ t[i].up >= 1
                        /\ t[i].up < i \/ (i = 1 /\ t[i].up = 1)
      BY <1>2 DEF Linked
    <2>1. CASE i \in 1..n
      BY <2>1, <1>1, <1>2, <1>3, LinksStay
    <2>2. CASE i = n + 1
      BY <2>2, <1>2
    <2> QED
      BY <2>1, <2>2
  <1>5. Returning(t, code)
    <2> SUFFICES ASSUME NEW i \in 1..n + 1
                 PROVE  t[i].final \/ CallAt(t[t[i].up].closr, t[i].ret, code)
      BY <1>2 DEF Returning
    <2>1. CASE i \in 1..n
      <3>1. i \in 1..Len(fs) /\ fs[i].up \in 1..n
        BY <2>1, <1>1, <1>3, LinksStay
      <3>2. t[i] = fs[i] /\ t[fs[i].up] = fs[fs[i].up]
        BY <1>2, <2>1, <3>1
      <3> QED
        BY <3>1, <3>2 DEF GoodFrames, Returning
    <2>2. CASE i = n + 1
      <3>1. t[i] = f /\ t[f.up] = fs[n]
        BY <2>2, <1>2
      <3> QED
        BY <3>1
    <2>3. i \in 1..n \/ i = n + 1
      BY <1>1
    <2> QED
      BY <2>1, <2>2, <2>3
  <1>6. t \in Seq(Own(t))
    BY <1>2, OwnElements
  <1> QED
    BY <1>1, <1>2, <1>4, <1>5, <1>6 DEF GoodFrames

(* No frames.                                                              *)
LEMMA NoneKeeps == \A code : GoodFrames(<<>>, code)
  BY DEF GoodFrames, Linked, Returning, Own

(* The frame a form begins with.                                           *)
LEMMA FirstKeeps ==
    ASSUME NEW code, NEW f, f.up = 1, f.final
    PROVE  GoodFrames(<<f>>, code)
  <1>1. <<f>> \in Seq({f}) /\ Len(<<f>>) = 1 /\ <<f>>[1] = f
    OBVIOUS
  <1>2. <<f>> \in Seq(Own(<<f>>))
    BY <1>1, OwnElements
  <1> QED
    BY <1>1, <1>2 DEF GoodFrames, Linked, Returning

-----------------------------------------------------------------------------
(* The frame that runs, and the one it is linked to.                       *)
LEMMA TopFacts ==
    ASSUME FramesInv, pc = "run"
    PROVE  /\ Len(frames) \in 1..Len(frames)
           /\ Top.up \in 1..Len(frames)
           /\ Top.final \/ CallAt(frames[Top.up].closr, Top.ret, image.code)
  <1>1. Len(frames) \in Nat /\ Len(frames) >= 1
    BY DEF FramesInv, GoodFrames
  <1>2. Linked(frames) /\ Returning(frames, image.code)
    BY DEF FramesInv, GoodFrames
  <1>3. Top.up \in 1..Len(frames)
    BY <1>1, <1>2, LinksStay DEF Top
  <1> QED
    BY <1>1, <1>2, <1>3 DEF Returning, Top

LEMMA InitFrames == Init => FramesInv
  BY NoneKeeps DEF Init, FramesInv

(* Actions that leave the frames alone.                                    *)
LEMMA SameFrames ==
    ASSUME FramesInv, UNCHANGED <<frames, image>>, pc' = "run" => pc = "run"
    PROVE  FramesInv'
  BY DEF FramesInv

(* The end of a form leaves no frames.                                     *)
LEMMA FormEndsFrames ==
    ASSUME NEW value, FormEnds(value)
    PROVE  FramesInv'
  <1>1. frames' = <<>> /\ pc' = "read"
    BY DEF FormEnds
  <1> QED
    BY <1>1, NoneKeeps DEF FramesInv

LEMMA RetPopFrames ==
    ASSUME FramesInv, pc = "run", NEW value, RetPop(value)
    PROVE  FramesInv'
  <1>1. CASE Top.final
    BY <1>1, FormEndsFrames DEF RetPop
  <1>2. CASE ~Top.final
    <2>1. /\ frames' = SubSeq(frames, 1, Top.up) /\ image' = image
      BY <1>2 DEF RetPop, ReturnsInto
    <2>2. GoodFrames(frames', image.code) /\ Len(frames') >= 1
      BY <2>1, TopFacts, CutKeeps DEF FramesInv
    <2> QED
      BY <2>1, <2>2 DEF FramesInv
  <1> QED
    BY <1>1, <1>2

(* A procedure's frame on those kept.                                      *)
LEMMA EntersFrames ==
    ASSUME FramesInv, NEW n \in 1..Len(frames), NEW f, Enters(n, f),
           f.up = n, f.final \/ CallAt(frames[n].closr, f.ret, image.code)
    PROVE  FramesInv'
  <1>1. frames' = Append(SubSeq(frames, 1, n), f) /\ image' = image
    BY DEF Enters
  <1>2. GoodFrames(frames', image.code) /\ Len(frames') >= 1
    BY <1>1, PutKeeps DEF FramesInv
  <1> QED
    BY <1>1, <1>2 DEF FramesInv

LEMMA StepFrames == FramesInv /\ [Next]_vars => FramesInv'
  <1> SUFFICES ASSUME FramesInv, [Next]_vars PROVE FramesInv'
    OBVIOUS
  <1>1. CASE \/ SetVar \/ DefGlobal \/ Jump \/ MakeClosure \/ Prep \/ Push
            \/ CallBin \/ RetcallSelf
    BY <1>1, SameFrames, Zenon
    DEF SetVar, DefGlobal, Jump, MakeClosure, Prep, Push, CallBin, RetcallSelf
  <1>2. CASE Wild \/ Reject \/ Abort \/ Lose \/ EndSession
    BY <1>2, SameFrames DEF Wild, Reject, Abort, Lose, EndSession, Begun, machine
  <1>3. CASE CallClosure
    <2> DEFINE n == Len(frames)
               f == Callee(n, ReturnIp, FALSE)
    <2>1. pc = "run" /\ Instr[1] = "CALL" /\ Enters(n, f)
      BY <1>3 DEF CallClosure, Executes, Runs, RunsCode
    <2>2. CallAt(frames[n].closr, ReturnIp, image.code)
      BY <2>1 DEF CallAt, ReturnIp, Instr, ClTop, Top, CodeOf
    <2>3. f.up = n /\ f.ret = ReturnIp
      BY DEF Callee, Frame
    <2> QED
      BY <2>1, <2>2, <2>3, TopFacts, EntersFrames
  <1>4. CASE RetcallClosure
    <2> DEFINE n == Top.up
               f == Callee(n, Top.ret, Top.final)
    <2>1. pc = "run" /\ Enters(n, f)
      BY <1>4 DEF RetcallClosure, Executes, Runs, RunsCode, UpOfTail
    <2>2. f.up = n /\ f.ret = Top.ret /\ f.final = Top.final
      BY DEF Callee, Frame
    <2> HIDE DEF f
    <2> QED
      BY <2>1, <2>2, TopFacts, EntersFrames
  <1>5. CASE RetcallBin
    BY <1>5, RetPopFrames DEF RetcallBin, Executes, Runs, RunsCode
  <1>6. CASE Ret
    BY <1>6, RetPopFrames DEF Ret, Executes, Runs, RunsCode
  <1>7. CASE Panic
    BY <1>7, FormEndsFrames DEF Panic
  <1>8. CASE BeginForm
    <2>1. PICK f : frames' = <<f>> /\ f.up = 1 /\ f.final /\ image' = image
      BY <1>8 DEF BeginForm, Frame
    <2>2. GoodFrames(frames', image.code) /\ Len(frames') >= 1
      BY <2>1, FirstKeeps
    <2> QED
      BY <2>1, <2>2 DEF FramesInv
  <1>9. CASE UNCHANGED vars
    BY <1>9, SameFrames DEF vars, machine
  <1> QED
    BY <1>1, <1>2, <1>3, <1>4, <1>5, <1>6, <1>7, <1>8, <1>9 DEF Next, Step

-----------------------------------------------------------------------------
LEMMA FramesAlwaysGood == Spec => []FramesInv
  BY InitFrames, StepFrames, PTL DEF Spec

(* "upper frame is always older!" (vmdefs.h:77): true of every code, the   *)
(* form's first frame, its own upper frame, excepted.  And a frame, or the *)
(* frames of tail calls that took its place with its return address,       *)
(* return behind the CALL of the frame above: of every code, with no       *)
(* assumption on where calls and returns stand in it.                      *)
THEOREM FramesAreLinked == Spec => []FramesLinked
  <1>1. ASSUME FramesInv PROVE FramesLinked
    <2>1. DOMAIN frames = 1..Len(frames) /\ Linked(frames) /\ Returning(frames, image.code)
      BY <1>1 DEF FramesInv, GoodFrames
    <2>2. \A i \in 1..Len(frames) : frames[i].up < i \/ (i = 1 /\ frames[i].up = 1)
      BY <2>1 DEF Linked
    <2> QED
      BY <2>1, <2>2, Zenon DEF Returning, CallAt, FramesLinked, CodeOf
  <1> QED
    BY <1>1, FramesAlwaysGood, PTL

-----------------------------------------------------------------------------
(* How long each vector is; vectors are added and keep their lengths.      *)
Sizes(vs) == [k \in 1..Len(vs) |-> Len(vs[k])]
Grows(sz, sz2) == DOMAIN sz \subseteq DOMAIN sz2 /\ \A k \in DOMAIN sz : sz2[k] = sz[k]

(* One of the first n forms was given up, and the console runs such forms. *)
GaveUp(img, n) == img.console /\ \E i \in 1..n : img.forms[i].status = "fatal"

(* A closure is of a function of the code, has as many vectors as it asks  *)
(* for, and has the ones lexical scope gives it unless a capture deviated  *)
(* (the ghost c[5], whose vectors are as long as the functions around it   *)
(* have locals). It has code unless a form before was given up.            *)
ClosureOK(c, img, sz, dev, n) ==
    LET fc == img.code[c[2]]
        around == img.around[c[2]]
    IN  /\ c[2] \in DOMAIN img.code
        /\ c[3] \in Seq(DOMAIN sz) /\ Len(c[3]) = fc.frmax
        /\ c[5] \in Seq(DOMAIN sz) /\ Len(c[5]) = Len(around)
        /\ \A i \in 1..Len(around) : sz[c[5][i]] = around[i]
        /\ "capture" \notin dev => \A i \in 1..fc.frmax : c[3][i] = c[5][i]
        /\ c[2] \in Finished(img) \/ GaveUp(img, n)

(* The values there are, S, and the closures among them, C: wherever the   *)
(* machine keeps a value it is one of S.                                   *)
ValuesFit(S, C, img, gv, vs, r, cl, fs, dev, n) ==
    /\ Holds(S, C) /\ img.data \subseteq S
    /\ \A c \in C : ClosureOK(c, img, Sizes(vs), dev, n)
    /\ gv \in [1..img.globals -> S]
    /\ vs \in Seq(Seq(S))
    /\ r \in S
    /\ cl.closr \in S /\ cl.args \in Seq(S)
    /\ \A i \in 1..Len(fs) : fs[i].closr \in C

(* A frame has as many locals as its function, and returns into the code   *)
(* of the function below it.                                               *)
FrameOK(img, sz, f, below) ==
    /\ f.vars \in DOMAIN sz /\ sz[f.vars] = img.code[f.closr[2]].fvc
    /\ f.ret \in Nat /\ f.final \in BOOLEAN
    /\ f.final \/ f.ret \in 1..Len(img.code[below.closr[2]].icode)

(* All frames do, and no two frames share their locals.                    *)
FramesFit(img, fs, sz) ==
    /\ \A i \in 1..Len(fs) : FrameOK(img, sz, fs[i], fs[fs[i].up])
    /\ \A i, j \in 1..Len(fs) : fs[i].vars = fs[j].vars => i = j

(* A call has begun: its PREP is behind by as many instructions as         *)
(* arguments were pushed. The vector the arguments go to is that of the    *)
(* frame on top if the function calls itself, and no frame's if it does    *)
(* not.                                                                    *)
Calling(img, fs, sz, cl, at) ==
    LET top == fs[Len(fs)]
        icode == img.code[top.closr[2]].icode
        own == cl.closr[1] = "closure" /\ ~img.code[cl.closr[2]].rest
    IN  /\ DOMAIN cl = {"closr", "self", "vec", "args", "argc", "old"}
        /\ cl.closr[1] \in {"bin", "closure"}
        /\ \E q \in 1..Len(icode) :
             /\ icode[q][1] = "PREP"
             /\ at = q + Len(cl.args) /\ Len(cl.args) <= icode[q][3]
             /\ cl.closr[1] = "bin" => BinTakes(cl.closr[2], icode[q][3])
             /\ cl.self => icode[q][4]
        /\ cl.self => own /\ cl.vec = top.vars
        /\ own /\ ~cl.self =>
              /\ cl.vec \in DOMAIN sz /\ sz[cl.vec] = img.code[cl.closr[2]].fvc
              /\ \A i \in 1..Len(fs) : fs[i].vars # cl.vec

(* Control comes to an instruction that starts afresh.                     *)
Comes(img, fs, at) ==
    LET icode == img.code[fs[Len(fs)].closr[2]].icode
    IN  icode # <<>> => StartsAt(icode, at + 1)

Control(img, fs, sz, cl, at) ==
    (cl = NoCall /\ Comes(img, fs, at)) \/ Calling(img, fs, sz, cl, at)

(* What may deviate from Scheme.                                           *)
Kinds == {"capture", "clobber", "shared", "rest", "overflow", "nil", "ident"}

(* The parts of the state that are no values.                              *)
Plain ==
    /\ form \in 0..Len(image.forms)
    /\ pc \in {"read", "run", "done", "dead", "wild"}
    /\ ip \in Nat /\ made \in Nat
    /\ captured \subseteq DOMAIN vecs /\ deviations \subseteq Kinds
    /\ pc = "read" => frames = <<>> /\ ip = 0 /\ call = NoCall

ValuesHold == \E S, C : ValuesFit(S, C, image, gval, vecs, rr, call, frames, deviations, form)

(* The inductive invariant.                                                *)
IInv ==
    /\ WellFormed(image) /\ Plain /\ FramesInv
    /\ FramesFit(image, frames, Sizes(vecs))
    /\ pc = "run" => Control(image, frames, Sizes(vecs), call, ip)
    /\ ValuesHold

-----------------------------------------------------------------------------
(* Sequences over more elements.                                           *)
LEMMA SeqOver ==
    ASSUME NEW S, NEW T, S \subseteq T
    PROVE  Seq(S) \subseteq Seq(T) /\ Seq(Seq(S)) \subseteq Seq(Seq(T))
  <1>1. \A A, B : A \subseteq B => Seq(A) \subseteq Seq(B)
    OBVIOUS
  <1> QED
    BY <1>1

(* A closure stays what it is while vectors are added, deviations happen   *)
(* and forms are begun.                                                    *)
LEMMA ClosureStays ==
    ASSUME NEW c, NEW img, NEW sz, NEW sz2, NEW dev, NEW dev2, NEW n, NEW n2,
           n \in Nat, n2 \in Nat, n <= n2,
           ClosureOK(c, img, sz, dev, n), Grows(sz, sz2), dev \subseteq dev2
    PROVE  ClosureOK(c, img, sz2, dev2, n2)
  <1>1. c[3] \in Seq(DOMAIN sz2) /\ c[5] \in Seq(DOMAIN sz2)
    BY SeqOver DEF ClosureOK, Grows
  <1>2. \A i \in 1..Len(img.around[c[2]]) : sz2[c[5][i]] = img.around[c[2]][i]
    <2>1. c[5] \in Seq(DOMAIN sz) /\ Len(c[5]) = Len(img.around[c[2]])
      BY DEF ClosureOK
    <2>2. \A i \in 1..Len(img.around[c[2]]) : c[5][i] \in DOMAIN sz
      BY <2>1
    <2> QED
      BY <2>2 DEF ClosureOK, Grows
  <1>3. GaveUp(img, n) => GaveUp(img, n2)
    BY DEF GaveUp
  <1> QED
    BY <1>1, <1>2, <1>3 DEF ClosureOK

(* Sequences are functions from the numbers up to their length.            *)
LEMMA SeqIsFcn ==
    ASSUME NEW S
    PROVE  /\ \A s \in Seq(S) : Len(s) \in Nat /\ s \in [1..Len(s) -> S]
           /\ \A n \in Nat : \A s \in [1..n -> S] : s \in Seq(S) /\ Len(s) = n
  OBVIOUS

(* A slot written, and a vector added.                                     *)
WithCell(vs, k, j, v) == [vs EXCEPT ![k][j] = v]
WithVec(vs, n) == Append(vs, NewVec(n))

(* A write to a vector changes no other vector and the length of none,     *)
(* wherever in the vector it goes.                                         *)
LEMMA CellSet ==
    ASSUME NEW S, NEW vs \in Seq(Seq(S)), NEW v \in S, NEW k, NEW j,
           NEW ws, ws = WithCell(vs, k, j, v)
    PROVE  /\ ws \in Seq(Seq(S)) /\ Len(ws) = Len(vs) /\ Sizes(ws) = Sizes(vs)
           /\ \A i \in 1..Len(vs) : i # k => ws[i] = vs[i]
  <1>0. Len(vs) \in Nat /\ vs \in [1..Len(vs) -> Seq(S)]
    BY SeqIsFcn
  <1> USE DEF WithCell
  <1>1. ASSUME NEW i \in 1..Len(vs)
        PROVE  ws[i] \in Seq(S) /\ Len(ws[i]) = Len(vs[i]) /\ (i # k => ws[i] = vs[i])
    <2>1. vs[i] \in Seq(S)
      BY <1>0
    <2>2. CASE i = k
      <3>1. ws[i] = [vs[i] EXCEPT ![j] = v]
        BY <1>0, <2>2
      <3>2. ws[i] \in Seq(S) /\ Len(ws[i]) = Len(vs[i])
        <4>1. PICK s \in Seq(S) : s = vs[i]
          BY <2>1
        <4>2. PICK t : t = ws[i]
          OBVIOUS
        <4>3. t = [s EXCEPT ![j] = v]
          BY <3>1, <4>1, <4>2
        <4>4. Len(s) \in Nat /\ s \in [1..Len(s) -> S]
          BY SeqIsFcn
        <4>5. t \in [1..Len(s) -> S]
          BY <4>3, <4>4
        <4>6. t \in Seq(S) /\ Len(t) = Len(s)
          BY <4>4, <4>5, SeqIsFcn
        <4> QED
          BY <4>1, <4>2, <4>6
      <3> QED
        BY <2>2, <3>2
    <2>3. CASE i # k
      <3>1. ws[i] = vs[i]
        BY <1>0, <2>3
      <3> QED
        BY <2>1, <2>3, <3>1
    <2> QED
      BY <2>2, <2>3
  <1>2. ws \in [1..Len(vs) -> Seq(S)]
    <2>1. DOMAIN ws = 1..Len(vs) /\ ws = [i \in 1..Len(vs) |-> ws[i]]
      BY <1>0
    <2> QED
      BY <1>1, <2>1
  <1>3. ws \in Seq(Seq(S)) /\ Len(ws) = Len(vs)
    BY <1>0, <1>2, SeqIsFcn
  <1> QED
    BY <1>1, <1>3 DEF Sizes

(* NEW_VEC adds a vector and changes none.                                 *)
LEMMA VecAdded ==
    ASSUME NEW S, NEW vs \in Seq(Seq(S)), Nihil \in S, NEW n \in Nat,
           NEW ws, ws = WithVec(vs, n)
    PROVE  /\ ws \in Seq(Seq(S)) /\ Len(ws) = Len(vs) + 1 /\ Grows(Sizes(vs), Sizes(ws))
           /\ Len(vs) + 1 \in DOMAIN Sizes(ws) /\ Sizes(ws)[Len(vs) + 1] = n
           /\ \A i \in 1..Len(vs) : ws[i] = vs[i]
  <1>1. NewVec(n) \in Seq(S) /\ Len(NewVec(n)) = n
    BY DEF NewVec
  <1> USE DEF WithVec
  <1>2. ws \in Seq(Seq(S)) /\ Len(ws) = Len(vs) + 1
    BY <1>1
  <1>3. ws[Len(vs) + 1] = NewVec(n) /\ \A i \in 1..Len(vs) : ws[i] = vs[i]
    BY <1>1
  <1>4. Len(vs) \in Nat
    OBVIOUS
  <1> QED
    BY <1>1, <1>2, <1>3, <1>4 DEF Sizes, Grows

(* To grow by nothing is to grow.                                          *)
LEMMA SameGrows == \A sz : Grows(sz, sz)
  BY DEF Grows

(* The frames fit while vectors are added.                                 *)
LEMMA FramesFitStay ==
    ASSUME NEW img, NEW fs, NEW sz, NEW sz2, FramesFit(img, fs, sz), Grows(sz, sz2)
    PROVE  FramesFit(img, fs, sz2)
  BY DEF FramesFit, FrameOK, Grows

-----------------------------------------------------------------------------
(* What holds when an instruction is about to be executed.                 *)
Uniq == ClTop[2]
Icode == image.code[Uniq].icode

(* While a form runs there is a frame on top, its closure's function is    *)
(* one of the code, and its locals are as many as the function has.        *)
LEMMA TopClosure ==
    ASSUME IInv, pc = "run"
    PROVE  /\ Len(frames) \in 1..Len(frames) /\ Top.up \in 1..Len(frames)
           /\ ClTop = frames[Len(frames)].closr
           /\ Uniq \in DOMAIN image.code /\ FunctionOK(image, Uniq)
           /\ CodeOf(ClTop).icode = Icode
           /\ Top.vars \in DOMAIN Sizes(vecs)
           /\ Sizes(vecs)[Top.vars] = image.code[Uniq].fvc
           /\ ClosureOK(ClTop, image, Sizes(vecs), deviations, form)
  <1>1. Len(frames) \in 1..Len(frames) /\ Top.up \in 1..Len(frames)
    BY TopFacts DEF IInv
  <1>2. ClTop = frames[Len(frames)].closr /\ CodeOf(ClTop).icode = Icode
    BY DEF ClTop, Top, CodeOf, Icode, Uniq
  <1>3. ClosureOK(ClTop, image, Sizes(vecs), deviations, form)
    <2>1. PICK S, C : ValuesFit(S, C, image, gval, vecs, rr, call, frames, deviations, form)
      BY DEF IInv, ValuesHold
    <2> QED
      BY <1>1, <1>2, <2>1 DEF ValuesFit
  <1>4. Uniq \in DOMAIN image.code /\ FunctionOK(image, Uniq)
    BY <1>3 DEF ClosureOK, Uniq, IInv, WellFormed
  <1>5. Top.vars \in DOMAIN Sizes(vecs) /\ Sizes(vecs)[Top.vars] = image.code[Uniq].fvc
    BY <1>1, <1>2 DEF IInv, FramesFit, FrameOK, Top, Uniq
  <1> QED
    BY <1>1, <1>2, <1>3, <1>4, <1>5

(* The instruction is one of the code, and continues a call or starts afresh. *)
LEMMA AtInstr ==
    ASSUME IInv, RunsCode
    PROVE  /\ pc = "run" /\ Icode # <<>> /\ Len(Icode) \in Nat
           /\ ip \in Nat /\ ip + 1 \in 1..Len(Icode) /\ Instr = Icode[ip + 1]
           /\ InstrOK(image, Uniq, ip + 1)
           /\ \/ call = NoCall /\ Instr[1] \notin {"PUSH", "CALL", "RETCALL"}
              \/ /\ Calling(image, frames, Sizes(vecs), call, ip)
                 /\ Instr[1] \in {"PUSH", "CALL", "RETCALL"}
  <1>1. pc = "run" /\ Icode # <<>>
    BY TopClosure DEF RunsCode, RunsNothing
  <1>2. Len(Icode) \in Nat /\ \A i \in 1..Len(Icode) : InstrOK(image, Uniq, i)
    BY <1>1, TopClosure DEF FunctionOK, Icode
  <1>3. ip \in Nat
    BY DEF IInv, Plain
  <1>4. Instr = Icode[ip + 1]
    BY <1>1, TopClosure DEF Instr
  <1>5. Icode = image.code[frames[Len(frames)].closr[2]].icode
    BY <1>1, TopClosure DEF Icode, Uniq
  <1>6. CASE call = NoCall /\ Comes(image, frames, ip)
    BY <1>1, <1>2, <1>3, <1>4, <1>5, <1>6, Zenon DEF Comes, StartsAt
  <1>7. CASE Calling(image, frames, Sizes(vecs), call, ip)
    <2>1. PICK q \in 1..Len(Icode) :
             /\ Icode[q][1] = "PREP"
             /\ ip = q + Len(call.args) /\ Len(call.args) <= Icode[q][3]
      BY <1>5, <1>7, Zenon DEF Calling
    <2>2. /\ Icode[q][3] \in 0..Len(Icode) - q - 1
          /\ \A j \in 1..Icode[q][3] : Icode[q + j][1] = "PUSH"
          /\ Icode[q + Icode[q][3] + 1][1] = IF Icode[q][4] THEN "RETCALL" ELSE "CALL"
      BY <1>2, <2>1, Zenon DEF InstrOK, Icode
    <2>3. Len(call.args) \in Nat
      <3>1. PICK S, C : ValuesFit(S, C, image, gval, vecs, rr, call, frames, deviations, form)
        BY DEF IInv, ValuesHold
      <3> QED
        BY <3>1 DEF ValuesFit
    <2>4. CASE Len(call.args) < Icode[q][3]
      <3>1. Len(call.args) + 1 \in 1..Icode[q][3] /\ ip + 1 = q + (Len(call.args) + 1)
        <4>1. Icode[q][3] \in Int /\ q \in Int
          BY <2>2
        <4> QED
          BY <2>1, <2>3, <2>4, <4>1
      <3>2. Icode[ip + 1][1] = "PUSH"
        <4>1. PICK j \in 1..Icode[q][3] : j = Len(call.args) + 1
          BY <3>1
        <4>2. Icode[q + j][1] = "PUSH"
          BY <2>2, <4>1
        <4> QED
          BY <3>1, <4>1, <4>2
      <3>3. ip + 1 \in 1..Len(Icode)
        <4>1. PICK m \in Int : m = Icode[q][3]
          BY <2>2
        <4>2. m \in 0..Len(Icode) - q - 1 /\ Len(call.args) + 1 \in 1..m
          BY <2>2, <3>1, <4>1
        <4>3. ip + 1 = q + (Len(call.args) + 1)
          BY <3>1
        <4> QED
          BY <1>2, <2>3, <4>2, <4>3
      <3> QED
        BY <1>1, <1>2, <1>3, <1>4, <1>7, <3>2, <3>3
    <2>5. CASE Len(call.args) = Icode[q][3]
      <3>1. ip + 1 = q + Icode[q][3] + 1 /\ ip + 1 \in 1..Len(Icode)
        <4>1. Icode[q][3] \in 0..Len(Icode) - q - 1 /\ q \in 1..Len(Icode)
          BY <2>2
        <4> QED
          BY <1>2, <2>1, <2>3, <2>5, <4>1
      <3> QED
        BY <1>1, <1>2, <1>3, <1>4, <1>7, <2>2, <3>1
    <2> QED
      BY <2>1, <2>2, <2>3, <2>4, <2>5
  <1> QED
    BY <1>1, <1>6, <1>7 DEF IInv, Control

(* A PUSH is among those that follow their PREP, and a call is behind them. *)
LEMMA AtPush ==
    ASSUME IInv, RunsCode, Instr[1] = "PUSH"
    PROVE  /\ Calling(image, frames, Sizes(vecs), call, ip)
           /\ \E q \in 1..Len(Icode) :
                /\ Icode[q][1] = "PREP"
                /\ ip = q + Len(call.args) /\ Len(call.args) + 1 <= Icode[q][3]
                /\ call.closr[1] = "bin" => BinTakes(call.closr[2], Icode[q][3])
                /\ call.self => Icode[q][4]
  <1>1. Calling(image, frames, Sizes(vecs), call, ip)
    BY AtInstr
  <1>2. Icode = image.code[frames[Len(frames)].closr[2]].icode
    BY AtInstr, TopClosure DEF Icode, Uniq
  <1>3. PICK q \in 1..Len(Icode) :
             /\ Icode[q][1] = "PREP"
             /\ ip = q + Len(call.args) /\ Len(call.args) <= Icode[q][3]
             /\ call.closr[1] = "bin" => BinTakes(call.closr[2], Icode[q][3])
             /\ call.self => Icode[q][4]
    BY <1>1, <1>2, Zenon DEF Calling
  <1>4. InstrOK(image, Uniq, q) /\ Len(Icode) \in Nat /\ Instr = Icode[ip + 1]
    BY AtInstr, TopClosure, SMTT(60) DEF FunctionOK, Icode
  <1>5. /\ Icode[q][3] \in 0..Len(Icode) - q - 1
        /\ Icode[q + Icode[q][3] + 1][1] \in {"RETCALL", "CALL"}
    BY <1>3, <1>4 DEF InstrOK, Icode
  <1>6. Len(call.args) \in Nat
    <2>1. PICK S, C : ValuesFit(S, C, image, gval, vecs, rr, call, frames, deviations, form)
      BY DEF IInv, ValuesHold
    <2> QED
      BY <2>1 DEF ValuesFit
  <1>7. Len(call.args) # Icode[q][3]
    BY <1>3, <1>4, <1>5
  <1> QED
    BY <1>1, <1>3, <1>5, <1>6, <1>7, SMTT(60)

(* A CALL or RETCALL comes when as many arguments were pushed as its PREP  *)
(* checked.                                                                *)
LEMMA AtCall ==
    ASSUME IInv, RunsCode, Instr[1] \in {"CALL", "RETCALL"}
    PROVE  /\ Calling(image, frames, Sizes(vecs), call, ip)
           /\ call.closr[1] = "bin" => BinTakes(call.closr[2], Len(call.args))
           /\ call.self => Instr[1] = "RETCALL"
  <1>1. Calling(image, frames, Sizes(vecs), call, ip)
    BY AtInstr
  <1>2. Icode = image.code[frames[Len(frames)].closr[2]].icode
    BY AtInstr, TopClosure DEF Icode, Uniq
  <1>3. PICK q \in 1..Len(Icode) :
             /\ Icode[q][1] = "PREP"
             /\ ip = q + Len(call.args) /\ Len(call.args) <= Icode[q][3]
             /\ call.closr[1] = "bin" => BinTakes(call.closr[2], Icode[q][3])
             /\ call.self => Icode[q][4]
    BY <1>1, <1>2, Zenon DEF Calling
  <1>4. InstrOK(image, Uniq, q) /\ Len(Icode) \in Nat /\ Instr = Icode[ip + 1]
    BY AtInstr, TopClosure DEF FunctionOK, Icode
  <1>5. /\ Icode[q][3] \in 0..Len(Icode) - q - 1
        /\ \A j \in 1..Icode[q][3] : Icode[q + j][1] = "PUSH"
        /\ Icode[q + Icode[q][3] + 1][1] = IF Icode[q][4] THEN "RETCALL" ELSE "CALL"
    BY <1>3, <1>4, Zenon DEF InstrOK, Icode
  <1>6. Len(call.args) \in Nat
    <2>1. PICK S, C : ValuesFit(S, C, image, gval, vecs, rr, call, frames, deviations, form)
      BY DEF IInv, ValuesHold
    <2> QED
      BY <2>1 DEF ValuesFit
  <1>7. Len(call.args) = Icode[q][3]
    <2> SUFFICES ASSUME Len(call.args) + 1 \in 1..Icode[q][3] PROVE FALSE
      <3>1. Icode[q][3] \in Int
        BY <1>5
      <3> QED
        BY <1>3, <1>6, <3>1
    <2>1. Icode[q + (Len(call.args) + 1)][1] = "PUSH" /\ ip + 1 = q + (Len(call.args) + 1)
      BY <1>3, <1>5, <1>6, SMTT(60)
    <2> QED
      BY <1>4, <2>1
  <1>8. ip + 1 = q + Icode[q][3] + 1
    BY <1>3, <1>5, <1>7
  <1> QED
    BY <1>1, <1>3, <1>4, <1>5, <1>7, <1>8

-----------------------------------------------------------------------------
(* The values there are now.                                               *)
Now(S, C) == ValuesFit(S, C, image, gval, vecs, rr, call, frames, deviations, form)

(* What the instruction reads is an operand its function may have.         *)
LEMMA OperandsOK ==
    ASSUME IInv, RunsCode, NEW o \in Reads
    PROVE  OperandOK(image, Uniq, o)
  <1>1. InstrOK(image, Uniq, ip + 1) /\ Instr = image.code[Uniq].icode[ip + 1]
    BY AtInstr DEF Icode
  <1> DEFINE op == Instr[1]
  <1>2. op \in {"SET", "DEF", "IF", "JMP", "LAMBDA", "PREP", "PUSH", "CALL", "RETCALL", "RET"}
    BY <1>1, Zenon DEF InstrOK
  <1>3. CASE op = "SET"
    <2>1. o \in {Instr[2], Instr[3]}
      BY <1>3 DEF Reads
    <2> QED
      BY <1>1, <1>3, <2>1 DEF InstrOK
  <1>4. CASE op = "DEF"
    <2>1. o = Instr[3]
      BY <1>4 DEF Reads
    <2> QED
      BY <1>1, <1>4, <2>1 DEF InstrOK
  <1>5. CASE op \in {"IF", "PREP", "PUSH", "RET"}
    <2>1. o = Instr[2]
      BY <1>5 DEF Reads
    <2> QED
      BY <1>1, <1>5, <2>1, Zenon DEF InstrOK
  <1>6. CASE op \in {"JMP", "LAMBDA", "CALL", "RETCALL"}
    BY <1>6 DEF Reads
  <1> QED
    BY <1>2, <1>3, <1>4, <1>5, <1>6

(* A value read inside its vector is one of the values.                    *)
LEMMA GetIn ==
    ASSUME IInv, RunsCode, ~ReachesOutside, NEW o \in Reads,
           NEW S, NEW C, Now(S, C)
    PROVE  Get(o) \in S
  <1>1. OperandOK(image, Uniq, o) /\ ~OutOfBounds(o)
    BY OperandsOK DEF ReachesOutside
  <1>2. vecs \in Seq(Seq(S)) /\ DOMAIN Sizes(vecs) = 1..Len(vecs)
    BY DEF Now, ValuesFit, Sizes
  <1>3. CASE o[1] = "R"
    BY <1>3 DEF Get, Now, ValuesFit
  <1>4. CASE o[1] = "D"
    BY <1>1, <1>4 DEF OperandOK, Get, Now, ValuesFit
  <1>5. CASE o[1] = "G"
    BY <1>1, <1>5 DEF OperandOK, Get, Now, ValuesFit
  <1>6. CASE o[1] = "L"
    <2>1. Top.vars \in 1..Len(vecs)
      BY <1>2, AtInstr, TopClosure
    <2>2. o[2] \in Nat /\ o[2] + 1 <= Len(vecs[Top.vars])
      <3>1. vecs[Top.vars] \in Seq(S)
        BY <1>2, <2>1
      <3>2. o[2] \in Nat
        BY <1>1, <1>6 DEF OperandOK
      <3> QED
        BY <1>1, <1>6, <3>1, <3>2 DEF OutOfBounds, IndexOf, VecOf
    <2>3. Get(o) = vecs[Top.vars][o[2] + 1]
      BY <1>6 DEF Get, IndexOf, VecOf
    <2>4. vecs[Top.vars] \in Seq(S)
      BY <1>2, <2>1
    <2> QED
      BY <2>2, <2>3, <2>4
  <1>7. CASE o[1] = "K"
    <2> DEFINE k == ClTop[3][o[2]]
    <2>1. /\ ClTop[3] \in Seq(1..Len(vecs)) /\ Len(ClTop[3]) = image.code[Uniq].frmax
          /\ o[2] \in 1..image.code[Uniq].frmax /\ o[3] \in Nat
      BY <1>1, <1>2, <1>7, AtInstr, TopClosure DEF OperandOK, ClosureOK, Uniq
    <2>2. k \in 1..Len(vecs)
      BY <2>1, SMTT(60)
    <2>3. vecs[k] \in Seq(S)
      BY <1>2, <2>2
    <2>4. VecOf(o) = k /\ IndexOf(o) = o[3] + 1
      BY <1>7 DEF VecOf, IndexOf
    <2>5. ~(IndexOf(o) > Len(vecs[VecOf(o)]))
      BY <1>1, <1>7 DEF OutOfBounds
    <2>6. Get(o) = vecs[VecOf(o)][IndexOf(o)]
      BY <1>7 DEF Get
    <2> HIDE DEF k
    <2>7. PICK row \in Seq(S) : row = vecs[k]
      BY <2>3
    <2>8. PICK m \in Nat : m = o[3]
      BY <2>1
    <2>9. m + 1 \in 1..Len(row)
      BY <2>4, <2>5, <2>7, <2>8
    <2> QED
      BY <2>4, <2>6, <2>7, <2>8, <2>9
  <1> QED
    BY <1>1, <1>3, <1>4, <1>5, <1>6, <1>7 DEF OperandOK

(* A step within a form.                                                   *)
LEMMA Goes ==
    ASSUME IInv, pc' = "run", image' = image, form' = form,
           ip' \in Nat, made' \in Nat, captured' \subseteq DOMAIN vecs',
           deviations' \subseteq Kinds, FramesInv',
           FramesFit(image, frames', Sizes(vecs')),
           Control(image, frames', Sizes(vecs'), call', ip'),
           NEW T, NEW D,
           ValuesFit(T, D, image, gval', vecs', rr', call', frames', deviations', form)
    PROVE  IInv'
  <1>1. Plain'
    BY DEF IInv, Plain
  <1>2. ValuesHold'
    BY DEF ValuesHold
  <1>3. WellFormed(image)'
    BY DEF IInv
  <1> QED
    BY <1>1, <1>2, <1>3 DEF IInv

(* The values after a step: some may be new.                               *)
LEMMA ValNext ==
    ASSUME form \in Nat, form' \in Nat, form <= form',
           NEW S, NEW C, Now(S, C), NEW T, NEW D, S \subseteq T, C \subseteq D, Holds(T, D),
           gval' \in [1..image.globals -> T], vecs' \in Seq(Seq(T)),
           Grows(Sizes(vecs), Sizes(vecs')), deviations \subseteq deviations',
           rr' \in T, call'.closr \in T, call'.args \in Seq(T),
           \A i \in 1..Len(frames') : frames'[i].closr \in D,
           \A c \in D : c \in C \/ ClosureOK(c, image, Sizes(vecs'), deviations', form')
    PROVE  ValuesFit(T, D, image, gval', vecs', rr', call', frames', deviations', form')
  <1>1. ASSUME NEW c \in D PROVE ClosureOK(c, image, Sizes(vecs'), deviations', form')
    <2>1. CASE c \in C
      <3>1. ClosureOK(c, image, Sizes(vecs), deviations, form)
        BY <2>1 DEF Now, ValuesFit
      <3>2. PICK sz, dev, n : sz = Sizes(vecs') /\ dev = deviations' /\ n = form'
        OBVIOUS
      <3>3. ClosureOK(c, image, sz, dev, n)
        BY <3>1, <3>2, ClosureStays
      <3> QED
        BY <3>2, <3>3
    <2> QED
      BY <2>1
  <1>2. image.data \subseteq T
    BY DEF Now, ValuesFit
  <1> QED
    BY <1>1, <1>2 DEF ValuesFit

(* An instruction that goes on to another of the same function, all calls  *)
(* being done.                                                             *)
LEMMA Straight ==
    ASSUME IInv, RunsCode, pc' = pc, image' = image, form' = form, frames' = frames,
           call' = NoCall, ip' \in Nat, StartsAt(Icode, ip' + 1),
           made' \in Nat, captured' \subseteq DOMAIN vecs',
           deviations \subseteq deviations', deviations' \subseteq Kinds,
           NEW S, NEW C, Now(S, C), NEW T, NEW D, S \subseteq T, C \subseteq D, Holds(T, D),
           gval' \in [1..image.globals -> T], vecs' \in Seq(Seq(T)),
           Grows(Sizes(vecs), Sizes(vecs')), rr' \in T,
           \A c \in D : c \in C \/ ClosureOK(c, image, Sizes(vecs'), deviations', form)
    PROVE  IInv'
  <1>1. pc' = "run" /\ FramesInv'
    BY AtInstr, SameFrames DEF IInv
  <1>2. FramesFit(image, frames', Sizes(vecs'))
    BY FramesFitStay DEF IInv
  <1>3. Control(image, frames', Sizes(vecs'), call', ip')
    <2>1. Icode = image.code[frames[Len(frames)].closr[2]].icode
      BY AtInstr, TopClosure DEF Icode, Uniq
    <2> QED
      BY <2>1 DEF Control, Comes
  <1>4. ValuesFit(T, D, image, gval', vecs', rr', call', frames', deviations', form)
    <2>1. call'.closr \in T /\ call'.args \in Seq(T)
      BY DEF NoCall, Holds
    <2>2. form \in Nat /\ form' \in Nat /\ form <= form'
      BY DEF IInv, Plain
    <2>3. \A i \in 1..Len(frames') : frames'[i].closr \in D
      BY DEF Now, ValuesFit
    <2>4. \A c \in D : c \in C \/ ClosureOK(c, image, Sizes(vecs'), deviations', form')
      OBVIOUS
    <2>5. ValuesFit(T, D, image, gval', vecs', rr', call', frames', deviations', form')
      BY <2>1, <2>2, <2>3, <2>4, ValNext
    <2> QED
      BY <2>5
  <1> QED
    BY <1>1, <1>2, <1>3, <1>4, Goes

(* What is known when an instruction is executed.                          *)
LEMMA ExecutesFacts ==
    ASSUME NEW op, Executes(op)
    PROVE  /\ RunsCode /\ pc = "run" /\ Instr[1] = op
           /\ ~Strays /\ ~ReachesOutside /\ ~StraysInCall /\ ~Throws
  BY DEF Executes, Runs, RunsCode, Strays

(* The instruction behind these starts afresh; SET_K_D comes to itself     *)
(* again.                                                                  *)
LEMMA HereOrNext ==
    ASSUME IInv, RunsCode, Instr[1] \in {"SET", "DEF", "IF", "LAMBDA", "CALL"}
    PROVE  /\ Instr[1] # "CALL" => StartsAt(Icode, ip + 1)
           /\ ip \in Nat /\ ip + 1 \in Nat /\ StartsAt(Icode, (ip + 1) + 1)
  <1>1. InstrOK(image, Uniq, ip + 1) /\ Instr = Icode[ip + 1] /\ ip \in Nat
    BY AtInstr
  <1>2. StartsAt(Icode, (ip + 1) + 1)
    BY <1>1, Zenon DEF InstrOK, Icode
  <1>3. Instr[1] # "CALL" => StartsAt(Icode, ip + 1)
    BY AtInstr DEF StartsAt
  <1> QED
    BY <1>1, <1>2, <1>3

(* The domain of a sequence.                                               *)
LEMMA SeqDomain == \A S : \A s \in Seq(S) : DOMAIN s = 1..Len(s) /\ Len(s) \in Nat
  OBVIOUS

(* The parts of the invariant that need no other part.                     *)
LEMMA PlainFacts ==
    ASSUME IInv
    PROVE  /\ form \in Nat /\ ip \in Nat /\ made \in Nat
           /\ captured \subseteq DOMAIN vecs /\ deviations \subseteq Kinds
  BY DEF IInv, Plain

(* The family SET keeps the invariant.                                     *)
LEMMA SetVarStep == ASSUME IInv, SetVar PROVE IInv'
  <1>1. Executes("SET")
    BY DEF SetVar
  <1>2. /\ RunsCode /\ pc = "run" /\ Instr[1] = "SET" /\ ~ReachesOutside
    BY <1>1, ExecutesFacts
  <1>3. PICK S, C : Now(S, C)
    BY DEF IInv, ValuesHold, Now
  <1>4. Instr[3] \in Reads /\ Instr[2] \in Reads
    BY <1>2 DEF Reads
  <1>5. PICK value \in S : value = Get(Instr[3])
    BY <1>2, <1>3, <1>4, GetIn
  <1>6. /\ ip' \in Nat /\ StartsAt(Icode, ip' + 1)
    BY <1>2, HereOrNext DEF SetVar
  <1>7. gval' \in [1..image.globals -> S]
    <2>1. gval \in [1..image.globals -> S]
      BY <1>3 DEF Now, ValuesFit
    <2> QED
      BY <1>5, <2>1 DEF SetVar
  <1>8. vecs' \in Seq(Seq(S)) /\ Sizes(vecs') = Sizes(vecs) /\ Len(vecs') = Len(vecs)
    <2>1. vecs \in Seq(Seq(S))
      BY <1>3 DEF Now, ValuesFit
    <2>2. CASE Instr[2][1] = "G"
      BY <2>1, <2>2 DEF SetVar
    <2>3. CASE Instr[2][1] # "G"
      <3>1. PICK k, j : k = VecOf(Instr[2]) /\ j = IndexOf(Instr[2])
        OBVIOUS
      <3>2. vecs' = WithCell(vecs, k, j, value)
        BY <1>5, <2>3, <3>1 DEF SetVar, WithCell
      <3> QED
        BY <2>1, <3>2, CellSet
    <2> QED
      BY <2>2, <2>3
  <1>9. DOMAIN vecs' = DOMAIN vecs
    BY <1>3, <1>8, SeqDomain DEF Now, ValuesFit
  <1>10. call = NoCall
    BY <1>2, AtInstr
  <1>11. /\ image' = image /\ form' = form /\ pc' = pc /\ frames' = frames /\ rr' = rr
         /\ call' = call /\ made' = made /\ captured' = captured /\ deviations' = deviations
    BY DEF SetVar
  <1>12. Holds(S, C) /\ rr \in S
    BY <1>3 DEF Now, ValuesFit
  <1>13. Grows(Sizes(vecs), Sizes(vecs'))
    BY <1>8, SameGrows
  <1> QED
    BY <1>2, <1>3, <1>6, <1>7, <1>8, <1>9, <1>10, <1>11, <1>12, <1>13, PlainFacts, Straight

(* DEF keeps the invariant.                                                *)
LEMMA DefGlobalStep == ASSUME IInv, DefGlobal PROVE IInv'
  <1>1. Executes("DEF")
    BY DEF DefGlobal
  <1>2. /\ RunsCode /\ pc = "run" /\ Instr[1] = "DEF" /\ ~ReachesOutside
    BY <1>1, ExecutesFacts
  <1>3. PICK S, C : Now(S, C)
    BY DEF IInv, ValuesHold, Now
  <1>4. Get(Instr[3]) \in S
    BY <1>2, <1>3, GetIn DEF Reads
  <1>5. ip' \in Nat /\ StartsAt(Icode, ip' + 1)
    BY <1>2, HereOrNext DEF DefGlobal
  <1>6. gval' \in [1..image.globals -> S]
    BY <1>3, <1>4 DEF DefGlobal, Now, ValuesFit
  <1>7. call = NoCall
    BY <1>2, AtInstr
  <1>8. /\ image' = image /\ form' = form /\ pc' = pc /\ frames' = frames /\ rr' = rr
        /\ call' = call /\ made' = made /\ captured' = captured /\ deviations' = deviations
        /\ vecs' = vecs
    BY DEF DefGlobal
  <1>9. Holds(S, C) /\ rr \in S /\ vecs \in Seq(Seq(S))
    BY <1>3 DEF Now, ValuesFit
  <1> QED
    BY <1>2, <1>3, <1>5, <1>6, <1>7, <1>8, <1>9, SameGrows, PlainFacts, Straight

(* JMP and IF keep the invariant: their targets start afresh.              *)
LEMMA JumpStep == ASSUME IInv, Jump PROVE IInv'
  <1>1. Executes("IF") \/ Executes("JMP")
    BY DEF Jump
  <1>2. /\ RunsCode /\ pc = "run" /\ Instr[1] \in {"IF", "JMP"} /\ ~ReachesOutside
    BY <1>1, ExecutesFacts
  <1>3. PICK S, C : Now(S, C)
    BY DEF IInv, ValuesHold, Now
  <1>4. ip' \in Nat /\ StartsAt(Icode, ip' + 1)
    <2>1. InstrOK(image, Uniq, ip + 1) /\ Instr = Icode[ip + 1] /\ ip' = JumpTarget(Instr)
      BY <1>2, AtInstr DEF Jump
    <2>2. CASE Instr[1] = "JMP"
      BY <2>1, <2>2 DEF InstrOK, Icode, JumpTarget
    <2>3. CASE Instr[1] = "IF"
      <3>1. StartsAt(Icode, Instr[3] + 1) /\ Instr[3] \in Nat
        BY <2>1, <2>3 DEF InstrOK, Icode
      <3>2. ip' = Instr[3] \/ ip' = ip + 1
        BY <2>1, <2>3 DEF JumpTarget
      <3> QED
        BY <1>2, <2>3, <3>1, <3>2, HereOrNext
    <2> QED
      BY <1>2, <2>2, <2>3
  <1>5. call = NoCall
    BY <1>2, AtInstr
  <1>6. /\ image' = image /\ form' = form /\ pc' = pc /\ frames' = frames /\ rr' = rr
        /\ call' = call /\ made' = made /\ captured' = captured /\ deviations' = deviations
        /\ vecs' = vecs /\ gval' = gval
    BY DEF Jump
  <1>7. Holds(S, C) /\ rr \in S /\ vecs \in Seq(Seq(S)) /\ gval \in [1..image.globals -> S]
    BY <1>3 DEF Now, ValuesFit
  <1> QED
    BY <1>2, <1>3, <1>4, <1>5, <1>6, <1>7, SameGrows, PlainFacts, Straight

(* The chain of upper frames stays among the frames.                       *)
LEMMA SavedIn ==
    ASSUME IInv, pc = "run", NEW n \in Nat
    PROVE  SavedFrames(n) \in Seq(DOMAIN Sizes(vecs)) /\ Len(SavedFrames(n)) = n
  <1> DEFINE last == Len(frames)
             Up(x) == frames[x].up
             Rec(m, g) == g = [i \in 0..m |-> IF i = 0 THEN last ELSE Up(g[i - 1])]
             f == CHOOSE g : Rec(n, g)
             P == {m \in 0..n : \E g : Rec(m, g)}
             Q == {m \in 0..n : f[m] \in 1..last}
  <1>1. SavedFrames(n) = [i \in 1..n |-> frames[f[i - 1]].vars]
    BY DEF SavedFrames
  <1> HIDE DEF last, Up
  <1>2. Rec(0, [i \in 0..0 |-> last])
    OBVIOUS
  <1>3. ASSUME NEW m \in 0..n - 1, NEW g, Rec(m, g)
        PROVE  \E h : Rec(m + 1, h)
    <2> DEFINE h == [i \in 0..m + 1 |-> IF i = m + 1 THEN Up(g[m]) ELSE g[i]]
    <2>1. ASSUME NEW i \in 0..m + 1
          PROVE  h[i] = IF i = 0 THEN last ELSE Up(h[i - 1])
      <3>1. CASE i = 0
        BY <1>3, <3>1
      <3>2. CASE i \in 1..m
        <4>1. i \in 0..m /\ i - 1 \in 0..m + 1 /\ i # m + 1 /\ i - 1 # m + 1 /\ i # 0
          BY <3>2
        <4>2. h[i] = g[i] /\ h[i - 1] = g[i - 1]
          BY <4>1
        <4>3. g[i] = Up(g[i - 1])
          BY <1>3, <4>1
        <4> QED
          BY <4>1, <4>2, <4>3
      <3>3. CASE i = m + 1
        <4>1. i - 1 = m /\ m \in 0..m + 1 /\ m # m + 1 /\ i # 0
          BY <3>3
        <4>2. h[i] = Up(g[m]) /\ h[i - 1] = g[m]
          BY <3>3, <4>1
        <4> QED
          BY <4>1, <4>2
      <3> QED
        BY <3>1, <3>2, <3>3
    <2>2. h = [i \in 0..m + 1 |-> IF i = 0 THEN last ELSE Up(h[i - 1])]
      <3>1. h = [i \in 0..m + 1 |-> h[i]]
        OBVIOUS
      <3> HIDE DEF h
      <3> QED
        BY <2>1, <3>1
    <2> HIDE DEF h
    <2>3. Rec(m + 1, h)
      BY <2>2
    <2> QED
      BY <2>3
  <1>4. ASSUME NEW g, Rec(n, g)
        PROVE  g[0] = last /\ \A m \in 0..n - 1 : g[m + 1] = Up(g[m])
    <2>1. g[0] = last
      BY <1>4
    <2>2. ASSUME NEW m \in 0..n - 1 PROVE g[m + 1] = Up(g[m])
      <3>1. m + 1 \in 0..n /\ m + 1 # 0 /\ (m + 1) - 1 = m
        OBVIOUS
      <3>2. g[m + 1] = Up(g[(m + 1) - 1])
        BY <1>4, <3>1
      <3> QED
        BY <3>1, <3>2
    <2> QED
      BY <2>1, <2>2
  <1> HIDE DEF Rec
  <1>5. Rec(n, f)
    <2>1. 0 \in P /\ \A m \in 0..n - 1 : m \in P => m + 1 \in P
      BY <1>2, <1>3
    <2> HIDE DEF P, f
    <2>2. \A m \in 0..n : m \in P
      BY <2>1, UpTo
    <2>3. n \in P
      BY <2>2
    <2>4. \E g : Rec(n, g)
      BY <2>3 DEF P
    <2> QED
      BY <2>4 DEF f
  <1> HIDE DEF f
  <1>6. \A i \in 1..last : Up(i) \in 1..last
    <2>1. Linked(frames) /\ Len(frames) \in Nat
      BY DEF IInv, FramesInv, GoodFrames
    <2> QED
      BY <2>1 DEF Linked, last, Up
  <1>7. last \in 1..last
    BY TopClosure DEF last
  <1>8. 0 \in Q /\ \A m \in 0..n - 1 : m \in Q => m + 1 \in Q
    BY <1>4, <1>5, <1>6, <1>7
  <1>9. \A m \in 0..n : f[m] \in 1..last
    <2> HIDE DEF Q
    <2>1. \A m \in 0..n : m \in Q
      BY <1>8, UpTo
    <2> QED
      BY <2>1 DEF Q
  <1>10. \A i \in 1..last : frames[i].vars \in DOMAIN Sizes(vecs)
    BY DEF IInv, FramesFit, FrameOK, last
  <1>11. \A i \in 1..n : frames[f[i - 1]].vars \in DOMAIN Sizes(vecs)
    <2> SUFFICES ASSUME NEW i \in 1..n PROVE frames[f[i - 1]].vars \in DOMAIN Sizes(vecs)
      OBVIOUS
    <2>1. i - 1 \in 0..n
      OBVIOUS
    <2> QED
      BY <1>9, <1>10, <2>1
  <1> QED
    BY <1>1, <1>11

(* The closure LAMBDA makes has as many vectors as its function asks for,  *)
(* and the ghost has the vectors lexical scope gives it: the running       *)
(* function's locals, then those its own closure sees.                     *)
LEMMA LambdaOK ==
    ASSUME IInv, RunsCode, Instr[1] = "LAMBDA",
           NEW block, block = image.code[Instr[2]], NEW id,
           NEW closr, closr = LambdaMade(block, id),
           NEW dev, deviations \subseteq dev,
           closr[3] # SubSeq(closr[5], 1, block.frmax) => "capture" \in dev
    PROVE  /\ closr[1] = "closure" /\ ClosureOK(closr, image, Sizes(vecs), dev, form)
           /\ block.frmax \in Nat /\ \A i \in 1..block.frmax : closr[3][i] \in DOMAIN Sizes(vecs)
  <1> DEFINE u == Instr[2]
             sz == Sizes(vecs)
             around == image.around[u]
             lexical == <<Top.vars>> \o ClTop[5]
  <1>1. /\ pc = "run" /\ InstrOK(image, Uniq, ip + 1) /\ Instr = image.code[Uniq].icode[ip + 1]
    BY AtInstr DEF Icode
  <1>2. /\ u \in DOMAIN image.code /\ around = <<image.code[Uniq].fvc>> \o image.around[Uniq]
        /\ Uniq \in Finished(image) => u \in Finished(image)
    BY <1>1, Zenon DEF InstrOK
  <1>3. /\ block.uniq = u /\ around \in Seq(Nat) /\ block.frmax \in 0..Len(around)
    BY <1>2 DEF IInv, WellFormed, FunctionOK
  <1>4. /\ image.around[Uniq] \in Seq(Nat)
        /\ Top.vars \in DOMAIN sz /\ sz[Top.vars] = image.code[Uniq].fvc
        /\ ClosureOK(ClTop, image, sz, deviations, form)
    BY <1>1, TopClosure, Zenon DEF FunctionOK
  <1>5. /\ ClTop[5] \in Seq(DOMAIN sz) /\ Len(ClTop[5]) = Len(image.around[Uniq])
        /\ \A i \in 1..Len(image.around[Uniq]) : sz[ClTop[5][i]] = image.around[Uniq][i]
        /\ Uniq \in Finished(image) \/ GaveUp(image, form)
    BY <1>4 DEF ClosureOK, Uniq
  <1>6. block.frmax \in Nat
    BY <1>3
  <1>7. /\ closr[1] = "closure" /\ closr[2] = u /\ closr[3] = SavedFrames(block.frmax)
        /\ closr[5] = lexical
    BY <1>3 DEF LambdaMade, Closure
  <1>8. closr[3] \in Seq(DOMAIN sz) /\ Len(closr[3]) = block.frmax
    BY <1>1, <1>6, <1>7, SavedIn, Zenon
  <1> HIDE DEF sz
  <1>9. lexical \in Seq(DOMAIN sz) /\ Len(lexical) = Len(around)
    BY <1>2, <1>4, <1>5
  <1>10. \A i \in 1..Len(around) : sz[lexical[i]] = around[i]
    <2> SUFFICES ASSUME NEW i \in 1..Len(around) PROVE sz[lexical[i]] = around[i]
      OBVIOUS
    <2>1. CASE i = 1
      BY <1>2, <1>4, <1>5, <2>1
    <2>2. CASE i # 1
      <3>1. i - 1 \in 1..Len(image.around[Uniq])
        BY <1>2, <1>4, <2>2
      <3>2. lexical[i] = ClTop[5][i - 1] /\ around[i] = image.around[Uniq][i - 1]
        BY <1>2, <1>4, <1>5, <2>2, <3>1, SMTT(60)
      <3> QED
        BY <1>5, <3>1, <3>2
    <2> QED
      BY <2>1, <2>2
  <1>11. "capture" \notin dev => \A i \in 1..block.frmax : closr[3][i] = lexical[i]
    <2> HIDE DEF lexical
    <2>1. \A i \in 1..block.frmax : SubSeq(lexical, 1, block.frmax)[i] = lexical[i]
      BY <1>3, <1>9, SMTT(60)
    <2> QED
      BY <1>7, <2>1
  <1> HIDE DEF lexical
  <1>12. ClosureOK(closr, image, sz, dev, form)
    <2>1. closr[2] = u /\ image.code[u].frmax = block.frmax /\ closr[5] = lexical
      BY <1>7
    <2>2. u \in Finished(image) \/ GaveUp(image, form)
      BY <1>2, <1>5
    <2>3. closr[5] \in Seq(DOMAIN sz) /\ Len(closr[5]) = Len(around)
      BY <1>9, <2>1
    <2>4. \A i \in 1..Len(around) : sz[closr[5][i]] = around[i]
      BY <1>10, <2>1
    <2>5. "capture" \notin dev => \A i \in 1..block.frmax : closr[3][i] = closr[5][i]
      BY <1>11, <2>1
    <2>6. image.around[closr[2]] = around /\ image.code[closr[2]].frmax = block.frmax
      BY <2>1
    <2> HIDE DEF around, u
    <2> QED
      BY <1>2, <1>8, <2>1, <2>2, <2>3, <2>4, <2>5, <2>6 DEF ClosureOK
  <1>13. \A i \in 1..block.frmax : closr[3][i] \in DOMAIN sz
    BY <1>6, <1>8
  <1> QED
    BY <1>6, <1>7, <1>12, <1>13 DEF sz

(* A new closure among the values.                                         *)
LEMMA ClosureIn ==
    ASSUME NEW S, NEW C, Holds(S, C), NEW closr, closr[1] = "closure"
    PROVE  Holds(S \cup {closr}, C \cup {closr})
  BY DEF Holds

(* LAMBDA keeps the invariant.                                             *)
LEMMA MakeClosureStep == ASSUME IInv, MakeClosure PROVE IInv'
  <1>1. Executes("LAMBDA")
    BY Zenon DEF MakeClosure
  <1>2. /\ RunsCode /\ pc = "run" /\ Instr[1] = "LAMBDA" /\ ~ReachesOutside
    BY <1>1, ExecutesFacts
  <1>3. PICK S, C : Now(S, C)
    BY DEF IInv, ValuesHold, Now
  <1>4. PICK block, id, closr :
          /\ block = image.code[Instr[2]] /\ closr = LambdaMade(block, id)
          /\ rr' = closr
          /\ made' = IF block.frmax = 0 THEN made ELSE made + 1
          /\ captured' = captured \cup {closr[3][i] : i \in 1..block.frmax}
          /\ Deviates("capture", closr[3] # SubSeq(closr[5], 1, block.frmax))
    BY Zenon DEF MakeClosure
  <1>5. /\ deviations \subseteq deviations'
        /\ closr[3] # SubSeq(closr[5], 1, block.frmax) => "capture" \in deviations'
        /\ deviations' \subseteq Kinds
    BY <1>4, PlainFacts DEF Deviates, DeviatesIn, Kinds
  <1>6. PICK dev : dev = deviations'
    OBVIOUS
  <1>7. /\ closr[1] = "closure" /\ ClosureOK(closr, image, Sizes(vecs), dev, form)
        /\ block.frmax \in Nat /\ \A i \in 1..block.frmax : closr[3][i] \in DOMAIN Sizes(vecs)
    BY <1>2, <1>4, <1>5, <1>6, LambdaOK
  <1>8. made' \in Nat /\ captured' \subseteq DOMAIN vecs
    <2>1. made' \in Nat
      BY <1>4, PlainFacts
    <2>2. DOMAIN vecs = DOMAIN Sizes(vecs)
      BY <1>3, SeqDomain DEF Now, ValuesFit, Sizes
    <2>3. \A i \in 1..block.frmax : closr[3][i] \in DOMAIN vecs
      BY <1>7, <2>2
    <2>4. captured \subseteq DOMAIN vecs
      BY PlainFacts
    <2> QED
      BY <1>4, <2>1, <2>3, <2>4
  <1>9. PICK T, D : T = S \cup {closr} /\ D = C \cup {closr}
    OBVIOUS
  <1>10. Holds(T, D) /\ S \subseteq T /\ C \subseteq D /\ rr' \in T
    BY <1>3, <1>4, <1>7, <1>9, ClosureIn DEF Now, ValuesFit
  <1>11. /\ image' = image /\ form' = form /\ pc' = pc /\ frames' = frames
         /\ call' = call /\ vecs' = vecs /\ gval' = gval /\ ip' = ip + 1
    BY Zenon DEF MakeClosure
  <1>12. ip' \in Nat /\ StartsAt(Icode, ip' + 1) /\ call' = NoCall
    BY <1>2, <1>11, HereOrNext, AtInstr
  <1>13. vecs' \in Seq(Seq(T)) /\ gval' \in [1..image.globals -> T]
    <2>1. vecs \in Seq(Seq(S)) /\ gval \in [1..image.globals -> S]
      BY <1>3 DEF Now, ValuesFit
    <2>2. vecs \in Seq(Seq(T))
      BY <1>10, <2>1, SeqOver
    <2>3. gval \in [1..image.globals -> T]
      BY <1>10, <2>1
    <2> QED
      BY <1>11, <2>2, <2>3
  <1>14. \A c \in D : c \in C \/ ClosureOK(c, image, Sizes(vecs'), deviations', form)
    BY <1>6, <1>7, <1>9, <1>11
  <1>15. captured' \subseteq DOMAIN vecs' /\ Grows(Sizes(vecs), Sizes(vecs'))
    BY <1>8, <1>11, SameGrows
  <1> QED
    BY <1>2, <1>3, <1>5, <1>8, <1>10, <1>11, <1>12, <1>13, <1>14, <1>15, Straight, SMTT(60)

(* The sizes of the vectors have the vectors' names.                       *)
LEMMA SizesDomain == \A S : \A vs \in Seq(S) : DOMAIN Sizes(vs) = DOMAIN vs /\ DOMAIN vs = 1..Len(vs)
  BY SeqDomain DEF Sizes

(* A step within a call that has begun keeps the invariant.                *)
LEMMA Continues ==
    ASSUME IInv, RunsCode, pc' = pc, image' = image, form' = form, frames' = frames,
           made' = made, captured' = captured, gval' = gval, rr' = rr, ip' \in Nat,
           deviations \subseteq deviations', deviations' \subseteq Kinds,
           Control(image, frames, Sizes(vecs'), call', ip'),
           NEW S, NEW C, Now(S, C), vecs' \in Seq(Seq(S)), Grows(Sizes(vecs), Sizes(vecs')),
           call'.closr \in S, call'.args \in Seq(S)
    PROVE  IInv'
  <1>1. pc' = "run" /\ FramesInv'
    BY AtInstr, SameFrames DEF IInv
  <1>2. FramesFit(image, frames', Sizes(vecs'))
    BY FramesFitStay DEF IInv
  <1>3. Control(image, frames', Sizes(vecs'), call', ip')
    OBVIOUS
  <1>4. captured' \subseteq DOMAIN vecs' /\ made' \in Nat
    <2>1. vecs \in Seq(Seq(S))
      BY DEF Now, ValuesFit
    <2>2. DOMAIN vecs = DOMAIN Sizes(vecs) /\ DOMAIN Sizes(vecs') = DOMAIN vecs'
      BY <2>1, SizesDomain
    <2> QED
      BY <2>2, PlainFacts DEF Grows
  <1>5. ValuesFit(S, C, image, gval', vecs', rr', call', frames', deviations', form')
    <2>1. /\ form \in Nat /\ form' \in Nat /\ form <= form'
      BY PlainFacts
    <2>2. /\ Holds(S, C) /\ S \subseteq S /\ C \subseteq C /\ gval' \in [1..image.globals -> S]
          /\ rr' \in S /\ \A i \in 1..Len(frames') : frames'[i].closr \in C
      BY DEF Now, ValuesFit
    <2>3. \A c \in C : c \in C \/ ClosureOK(c, image, Sizes(vecs'), deviations', form')
      OBVIOUS
    <2> QED
      BY <2>1, <2>2, <2>3, ValNext
  <1>6. ValuesFit(S, C, image, gval', vecs', rr', call', frames', deviations', form)
    BY <1>5
  <1> QED
    BY <1>1, <1>2, <1>3, <1>4, <1>6, Goes

(* A closure among the values has a function of its own.                   *)
LEMMA ClosureFunction ==
    ASSUME IInv, NEW S, NEW C, Now(S, C), NEW v \in S, v[1] = "closure"
    PROVE  /\ v \in C /\ v[2] \in DOMAIN image.code /\ FunctionOK(image, v[2])
           /\ CodeOf(v) = image.code[v[2]]
           /\ ClosureOK(v, image, Sizes(vecs), deviations, form)
  <1>1. v \in C
    BY DEF Now, ValuesFit, Holds
  <1>2. ClosureOK(v, image, Sizes(vecs), deviations, form)
    BY <1>1 DEF Now, ValuesFit
  <1>3. v[2] \in DOMAIN image.code
    BY <1>2 DEF ClosureOK
  <1> QED
    BY <1>1, <1>2, <1>3 DEF IInv, WellFormed, CodeOf

(* PREP keeps the invariant: a call begins, and the vector it was given is *)
(* no frame's unless the function calls itself.                            *)
LEMMA PrepStep == ASSUME IInv, Prep PROVE IInv'
  <1>1. Executes("PREP")
    BY DEF Prep
  <1>2. /\ RunsCode /\ pc = "run" /\ Instr[1] = "PREP" /\ ~ReachesOutside /\ ~Throws
    BY <1>1, ExecutesFacts
  <1>3. PICK S, C : Now(S, C)
    BY DEF IInv, ValuesHold, Now
  <1>4. PICK callee \in S : callee = Get(Instr[2])
    <2>1. Instr[2] \in Reads
      BY <1>2 DEF Reads
    <2> QED
      BY <1>2, <1>3, <2>1, GetIn
  <1> DEFINE q == ip + 1
  <1>5. /\ q \in 1..Len(Icode) /\ Instr = Icode[q] /\ ip \in Nat /\ Len(Icode) \in Nat
        /\ Instr[3] \in Nat
    <2>1. InstrOK(image, Uniq, q) /\ Instr = image.code[Uniq].icode[q]
      BY <1>2, AtInstr DEF Icode
    <2>2. Instr[3] \in 0..Len(image.code[Uniq].icode) - q - 1
      BY <1>2, <2>1, Zenon DEF InstrOK
    <2> QED
      BY <1>2, <2>2, AtInstr
  <1>6. /\ callee[1] = "bin" => BinTakes(callee[2], Instr[3])
        /\ callee[1] \in {"bin", "closure"}
    <2>1. TakesArgs(callee, Instr[3])
      BY <1>2, <1>4 DEF Throws, IsPrep
    <2> QED
      BY <2>1 DEF TakesArgs
  <1>7. /\ image' = image /\ form' = form /\ pc' = pc /\ frames' = frames /\ made' = made
        /\ captured' = captured /\ gval' = gval /\ rr' = rr /\ ip' = q
        /\ deviations' = deviations
    BY DEF Prep
  <1>8. PICK to : /\ to = [NoCall EXCEPT !.closr = callee, !.argc = Instr[3]]
                  /\ \/ /\ ToBinargs(callee) /\ call' = to /\ vecs' = vecs
                     \/ /\ SelfTailCall(callee) /\ ~ToBinargs(callee)
                        /\ call' = [to EXCEPT !.self = TRUE, !.vec = Top.vars, !.old = Locals]
                        /\ vecs' = vecs
                     \/ /\ IsClosure(callee) /\ ~SelfTailCall(callee) /\ ~ToBinargs(callee)
                        /\ vecs' = Append(vecs, NewVec(VarCount(callee)))
                        /\ call' = [to EXCEPT !.vec = Len(vecs) + 1]
    BY <1>4, Zenon DEF Prep
  <1>9. /\ call'.closr = callee /\ call'.args = <<>>
        /\ DOMAIN call' = {"closr", "self", "vec", "args", "argc", "old"}
    BY <1>8 DEF NoCall
  <1>10. Icode = image.code[frames[Len(frames)].closr[2]].icode
    BY <1>2, AtInstr, TopClosure DEF Icode, Uniq
  <1>11. /\ Icode[q][1] = "PREP" /\ ip' = q + Len(call'.args) /\ Len(call'.args) <= Icode[q][3]
         /\ call'.closr[1] = "bin" => BinTakes(call'.closr[2], Icode[q][3])
         /\ call'.closr[1] \in {"bin", "closure"}
    BY <1>2, <1>5, <1>6, <1>7, <1>9
  <1>12. call'.closr \in S /\ call'.args \in Seq(S)
    BY <1>9
  <1>14. /\ Control(image, frames, Sizes(vecs'), call', ip')
         /\ vecs' \in Seq(Seq(S)) /\ Grows(Sizes(vecs), Sizes(vecs'))
    <2>1. vecs \in Seq(Seq(S))
      BY <1>3 DEF Now, ValuesFit
    <2>2. CASE ToBinargs(callee) /\ call' = to /\ vecs' = vecs
      <3>1. ~call'.self
        BY <1>8, <2>2 DEF NoCall
      <3>2. ~(callee[1] = "closure" /\ ~image.code[callee[2]].rest)
        BY <2>2 DEF ToBinargs, HasRest, IsClosure, CodeOf
      <3>3. Calling(image, frames, Sizes(vecs'), call', ip')
        BY <1>5, <1>9, <1>10, <1>11, <3>1, <3>2, Zenon DEF Calling
      <3> QED
        BY <2>1, <2>2, <3>3, SameGrows DEF Control
    <2>3. CASE /\ SelfTailCall(callee) /\ ~ToBinargs(callee) /\ vecs' = vecs
               /\ call' = [to EXCEPT !.self = TRUE, !.vec = Top.vars, !.old = Locals]
      <3>1. call'.self /\ call'.vec = frames[Len(frames)].vars
        BY <1>8, <2>3 DEF NoCall, Top
      <3>2. callee[1] = "closure" /\ ~image.code[callee[2]].rest /\ Icode[q][4]
        BY <1>5, <2>3 DEF ToBinargs, HasRest, IsClosure, CodeOf, SelfTailCall, SameObject
      <3>3. Calling(image, frames, Sizes(vecs'), call', ip')
        BY <1>5, <1>9, <1>10, <1>11, <3>1, <3>2, Zenon DEF Calling
      <3> QED
        BY <2>1, <2>3, <3>3, SameGrows DEF Control
    <2>4. CASE /\ IsClosure(callee) /\ ~SelfTailCall(callee) /\ ~ToBinargs(callee)
               /\ vecs' = Append(vecs, NewVec(VarCount(callee)))
               /\ call' = [to EXCEPT !.vec = Len(vecs) + 1]
      <3>1. ~call'.self /\ call'.vec = Len(vecs) + 1
        BY <1>8, <2>4 DEF NoCall
      <3>2. callee[1] = "closure" /\ ~image.code[callee[2]].rest
        BY <2>4 DEF ToBinargs, HasRest, IsClosure, CodeOf
      <3>3. FunctionOK(image, callee[2]) /\ CodeOf(callee) = image.code[callee[2]]
        BY <1>3, <3>2, ClosureFunction
      <3>4. PICK n \in Nat : n = image.code[callee[2]].fvc /\ n = VarCount(callee)
        BY <3>3 DEF VarCount, FunctionOK
      <3>5. PICK ws : ws = vecs'
        OBVIOUS
      <3>6. ws = WithVec(vecs, n) /\ Nihil \in S
        BY <1>3, <2>4, <3>4, <3>5 DEF Now, ValuesFit, Holds, WithVec
      <3>7. /\ ws \in Seq(Seq(S)) /\ Grows(Sizes(vecs), Sizes(ws))
            /\ Len(vecs) + 1 \in DOMAIN Sizes(ws) /\ Sizes(ws)[Len(vecs) + 1] = n
        BY <2>1, <3>6, VecAdded
      <3>8. \A i \in 1..Len(frames) : frames[i].vars # Len(vecs) + 1
        <4>1. \A i \in 1..Len(frames) : frames[i].vars \in DOMAIN Sizes(vecs)
          BY DEF IInv, FramesFit, FrameOK
        <4>2. Len(vecs) \in Nat /\ DOMAIN Sizes(vecs) = 1..Len(vecs)
          BY <2>1, SizesDomain
        <4> QED
          BY <4>1, <4>2
      <3>9. Calling(image, frames, Sizes(ws), call', ip')
        BY <1>5, <1>9, <1>10, <1>11, <3>1, <3>2, <3>4, <3>7, <3>8, Zenon DEF Calling
      <3> QED
        BY <3>5, <3>7, <3>9 DEF Control
    <2> QED
      BY <1>8, <2>2, <2>3, <2>4
  <1>15. ip' \in Nat /\ deviations \subseteq deviations' /\ deviations' \subseteq Kinds
    BY <1>5, <1>7, PlainFacts
  <1> QED
    BY <1>2, <1>3, <1>7, <1>12, <1>14, <1>15, Continues

(* PUSH keeps the invariant: one argument more, of those PREP counted.     *)
LEMMA PushStep == ASSUME IInv, Push PROVE IInv'
  <1>1. Executes("PUSH")
    BY DEF Push
  <1>2. /\ RunsCode /\ pc = "run" /\ Instr[1] = "PUSH" /\ ~ReachesOutside
    BY <1>1, ExecutesFacts
  <1>3. PICK S, C : Now(S, C)
    BY DEF IInv, ValuesHold, Now
  <1>4. PICK value \in S : value = Get(Instr[2])
    <2>1. Instr[2] \in Reads
      BY <1>2 DEF Reads
    <2> QED
      BY <1>2, <1>3, <2>1, GetIn
  <1>5. /\ image' = image /\ form' = form /\ pc' = pc /\ frames' = frames /\ made' = made
        /\ captured' = captured /\ gval' = gval /\ rr' = rr /\ ip' = ip + 1
        /\ call' = [call EXCEPT !.args = Append(@, value)]
        /\ vecs' = IF ToBinargs(call.closr) THEN vecs
                     ELSE WithCell(vecs, call.vec, Len(call.args) + 1, value)
        /\ deviations \subseteq deviations' /\ deviations' \subseteq Kinds
    <2>1. deviations \subseteq deviations' /\ deviations' \subseteq Kinds
      BY PlainFacts DEF Push, Deviates, DeviatesIn, Kinds
    <2> QED
      BY <1>4, <2>1 DEF Push, WithCell
  <1>6. /\ Calling(image, frames, Sizes(vecs), call, ip)
        /\ \E q \in 1..Len(Icode) :
             /\ Icode[q][1] = "PREP"
             /\ ip = q + Len(call.args) /\ Len(call.args) + 1 <= Icode[q][3]
             /\ call.closr[1] = "bin" => BinTakes(call.closr[2], Icode[q][3])
             /\ call.self => Icode[q][4]
    BY <1>2, AtPush, SMTT(60)
  <1>7. DOMAIN call = {"closr", "self", "vec", "args", "argc", "old"}
    BY <1>6, Zenon DEF Calling
  <1>8. /\ call'.closr = call.closr /\ call'.vec = call.vec /\ call'.self = call.self
        /\ call'.args = Append(call.args, value) /\ DOMAIN call' = DOMAIN call
    BY <1>5, <1>7
  <1>9. call.closr \in S /\ call.args \in Seq(S) /\ vecs \in Seq(Seq(S))
    BY <1>3 DEF Now, ValuesFit
  <1>10. call'.closr \in S /\ call'.args \in Seq(S) /\ Len(call'.args) = Len(call.args) + 1
    BY <1>8, <1>9
  <1>11. vecs' \in Seq(Seq(S)) /\ Sizes(vecs') = Sizes(vecs)
    <2>1. CASE ToBinargs(call.closr)
      BY <1>5, <1>9, <2>1
    <2>2. CASE ~ToBinargs(call.closr)
      <3>1. PICK k, j : k = call.vec /\ j = Len(call.args) + 1
        OBVIOUS
      <3>2. vecs' = WithCell(vecs, k, j, value)
        BY <1>5, <2>2, <3>1
      <3> QED
        BY <1>9, <3>2, CellSet
    <2> QED
      BY <2>1, <2>2
  <1>12. Calling(image, frames, Sizes(vecs'), call', ip')
    <2>1. Icode = image.code[frames[Len(frames)].closr[2]].icode
      BY <1>2, AtInstr, TopClosure DEF Icode, Uniq
    <2>2. \E q \in 1..Len(Icode) :
             /\ Icode[q][1] = "PREP"
             /\ ip' = q + Len(call'.args) /\ Len(call'.args) <= Icode[q][3]
             /\ call'.closr[1] = "bin" => BinTakes(call'.closr[2], Icode[q][3])
             /\ call'.self => Icode[q][4]
      <3>1. PICK q \in 1..Len(Icode) :
             /\ Icode[q][1] = "PREP"
             /\ ip = q + Len(call.args) /\ Len(call.args) + 1 <= Icode[q][3]
             /\ call.closr[1] = "bin" => BinTakes(call.closr[2], Icode[q][3])
             /\ call.self => Icode[q][4]
        BY <1>6
      <3>2. Len(call.args) \in Nat /\ Len(Icode) \in Nat
        BY <1>2, <1>9, AtInstr
      <3>3. ip' = q + Len(call'.args)
        BY <1>5, <1>10, <3>1, <3>2
      <3> QED
        BY <1>8, <1>10, <3>1, <3>3
    <2>3. DOMAIN call' = {"closr", "self", "vec", "args", "argc", "old"}
      BY <1>7, <1>8
    <2> QED
      BY <1>6, <1>8, <1>11, <2>1, <2>2, <2>3, ZenonT(60) DEF Calling
  <1>13. Control(image, frames, Sizes(vecs'), call', ip')
    BY <1>12 DEF Control
  <1>14. ip' \in Nat /\ Grows(Sizes(vecs), Sizes(vecs'))
    BY <1>5, <1>11, PlainFacts, SameGrows
  <1> QED
    BY <1>2, <1>3, <1>5, <1>10, <1>11, <1>13, <1>14, Continues

(* What a builtin returns is over the values there are.                    *)
LEMMA BinValue ==
    ASSUME IInv, RunsCode, Instr[1] \in {"CALL", "RETCALL"}, ~StraysInCall, ~Throws,
           call.closr[1] = "bin", NEW S, NEW C, Now(S, C)
    PROVE  \E T : Over(S, C, T) /\ BinCalled \in T
  <1>1. PICK name, args : name = call.closr[2] /\ args = call.args
    OBVIOUS
  <1>2. Holds(S, C) /\ call.closr \in S /\ args \in Seq(S)
    BY <1>1 DEF Now, ValuesFit
  <1>3. name \in BinNameSet
    BY <1>1, <1>2 DEF Holds
  <1>4. BinTakes(name, Len(args))
    BY <1>1, AtCall
  <1>5. ~BinPanics(name, args) /\ ~BinStrays(name, args)
    BY <1>1 DEF Throws, StraysInCall
  <1>6. BinCalled = BinResult(name, args)
    BY <1>1 DEF BinCalled
  <1> QED
    BY <1>2, <1>3, <1>4, <1>5, <1>6, BinIn

(* What a builtin deviates in is one of the kinds.                         *)
LEMMA BinKinds ==
    ASSUME IInv, BinDeviated
    PROVE  deviations \subseteq deviations' /\ deviations' \subseteq Kinds
  BY PlainFacts DEF BinDeviated, DeviatesIn, BinDeviations, Kinds

(* CALL of a builtin keeps the invariant.                                  *)
LEMMA CallBinStep == ASSUME IInv, CallBin PROVE IInv'
  <1>1. Executes("CALL") /\ call.closr[1] = "bin"
    BY DEF CallBin
  <1>2. /\ RunsCode /\ pc = "run" /\ Instr[1] = "CALL" /\ ~StraysInCall /\ ~Throws
    BY <1>1, ExecutesFacts
  <1>3. PICK S, C : Now(S, C)
    BY DEF IInv, ValuesHold, Now
  <1>4. PICK T : Over(S, C, T) /\ BinCalled \in T
    BY <1>1, <1>2, <1>3, BinValue
  <1>5. S \subseteq T /\ C \subseteq C /\ Holds(T, C)
    BY <1>4 DEF Over
  <1>6. /\ image' = image /\ form' = form /\ pc' = pc /\ frames' = frames /\ made' = made
        /\ captured' = captured /\ gval' = gval /\ vecs' = vecs /\ rr' \in T
        /\ call' = NoCall /\ ip' = ip + 1
    BY <1>4 DEF CallBin
  <1>7. ip' \in Nat /\ StartsAt(Icode, ip' + 1)
    BY <1>2, <1>6, HereOrNext
  <1>8. deviations \subseteq deviations' /\ deviations' \subseteq Kinds
    BY BinKinds DEF CallBin
  <1>9. vecs' \in Seq(Seq(T)) /\ gval' \in [1..image.globals -> T]
    <2>1. vecs \in Seq(Seq(S)) /\ gval \in [1..image.globals -> S]
      BY <1>3 DEF Now, ValuesFit
    <2>2. vecs \in Seq(Seq(T))
      BY <1>5, <2>1, SeqOver
    <2>3. gval \in [1..image.globals -> T]
      BY <1>5, <2>1
    <2> QED
      BY <1>6, <2>2, <2>3
  <1>10. \A c \in C : c \in C \/ ClosureOK(c, image, Sizes(vecs'), deviations', form)
    OBVIOUS
  <1>11. captured' \subseteq DOMAIN vecs' /\ Grows(Sizes(vecs), Sizes(vecs')) /\ made' \in Nat
    BY <1>6, SameGrows, PlainFacts
  <1> QED
    BY <1>2, <1>3, <1>5, <1>6, <1>7, <1>8, <1>9, <1>10, <1>11, Straight

-----------------------------------------------------------------------------
(* Every frame's function is one of the code.                              *)
LEMMA FrameFunction ==
    ASSUME IInv, NEW i \in 1..Len(frames)
    PROVE  /\ frames[i].closr[2] \in DOMAIN image.code /\ FunctionOK(image, frames[i].closr[2])
           /\ ClosureOK(frames[i].closr, image, Sizes(vecs), deviations, form)
  <1>1. PICK S, C : Now(S, C)
    BY DEF IInv, ValuesHold, Now
  <1>2. frames[i].closr \in C
    BY <1>1 DEF Now, ValuesFit
  <1>3. ClosureOK(frames[i].closr, image, Sizes(vecs), deviations, form)
    BY <1>1, <1>2 DEF Now, ValuesFit
  <1>4. frames[i].closr[2] \in DOMAIN image.code
    BY <1>3 DEF ClosureOK
  <1> QED
    BY <1>3, <1>4 DEF IInv, WellFormed

(* Frames left behind take nothing from those that stay.                   *)
LEMMA CutFits ==
    ASSUME NEW img, NEW fs, NEW sz, fs \in Seq(Own(fs)), Linked(fs), FramesFit(img, fs, sz),
           NEW n \in 1..Len(fs), NEW t, t = SubSeq(fs, 1, n)
    PROVE  FramesFit(img, t, sz)
  <1>1. Len(t) = n /\ Len(fs) \in Nat /\ \A i \in 1..n : t[i] = fs[i] /\ i \in 1..Len(fs)
    <2>1. n \in 0..Len(fs) /\ Len(fs) \in Nat
      OBVIOUS
    <2> QED
      BY <2>1, Cut
  <1>2. ASSUME NEW i \in 1..n PROVE FrameOK(img, sz, t[i], t[t[i].up])
    <2>1. fs[i].up \in 1..n /\ FrameOK(img, sz, fs[i], fs[fs[i].up])
      BY <1>1, LinksStay DEF FramesFit
    <2>2. t[i] = fs[i] /\ t[fs[i].up] = fs[fs[i].up]
      BY <1>1, <2>1
    <2> QED
      BY <2>1, <2>2
  <1>3. \A i, j \in 1..n : t[i].vars = t[j].vars => i = j
    BY <1>1 DEF FramesFit
  <1> QED
    BY <1>1, <1>2, <1>3 DEF FramesFit

(* A frame with locals of its own, put on those kept.                      *)
LEMMA PutFits ==
    ASSUME NEW img, NEW fs, NEW sz, fs \in Seq(Own(fs)), Linked(fs), FramesFit(img, fs, sz),
           NEW n \in 1..Len(fs), NEW f, f.up = n,
           f.vars \in DOMAIN sz, sz[f.vars] = img.code[f.closr[2]].fvc,
           f.ret \in Nat, f.final \in BOOLEAN,
           f.final \/ f.ret \in 1..Len(img.code[fs[n].closr[2]].icode),
           \A i \in 1..Len(fs) : fs[i].vars # f.vars,
           NEW t, t = Append(SubSeq(fs, 1, n), f)
    PROVE  FramesFit(img, t, sz)
  <1>1. /\ Len(t) = n + 1 /\ Len(fs) \in Nat /\ t[n + 1] = f
        /\ \A i \in 1..n : t[i] = fs[i] /\ i \in 1..Len(fs)
    <2>1. n \in 0..Len(fs) /\ Len(fs) \in Nat
      OBVIOUS
    <2> QED
      BY <2>1, CutAndPut
  <1>2. ASSUME NEW i \in 1..n PROVE FrameOK(img, sz, t[i], t[t[i].up])
    <2>1. fs[i].up \in 1..n /\ FrameOK(img, sz, fs[i], fs[fs[i].up])
      BY <1>1, LinksStay DEF FramesFit
    <2>2. t[i] = fs[i] /\ t[fs[i].up] = fs[fs[i].up]
      BY <1>1, <2>1
    <2> QED
      BY <2>1, <2>2
  <1>3. FrameOK(img, sz, t[n + 1], t[t[n + 1].up])
    <2>1. t[n + 1] = f /\ t[f.up] = fs[n]
      BY <1>1
    <2>2. FrameOK(img, sz, f, fs[n])
      BY DEF FrameOK
    <2> QED
      BY <2>1, <2>2
  <1>4. \A i \in 1..n + 1 : i \in 1..n \/ i = n + 1
    BY <1>1
  <1>5. ASSUME NEW i \in 1..n + 1, NEW j \in 1..n + 1, t[i].vars = t[j].vars
        PROVE  i = j
    <2>1. CASE i \in 1..n /\ j \in 1..n
      BY <1>1, <1>5, <2>1 DEF FramesFit
    <2>2. CASE i = n + 1 /\ j \in 1..n
      BY <1>1, <1>5, <2>2
    <2>3. CASE i \in 1..n /\ j = n + 1
      BY <1>1, <1>5, <2>3
    <2> QED
      BY <1>4, <2>1, <2>2, <2>3
  <1>6. ASSUME NEW i \in 1..n + 1 PROVE FrameOK(img, sz, t[i], t[t[i].up])
    BY <1>2, <1>3, <1>4
  <1> QED
    BY <1>1, <1>5, <1>6 DEF FramesFit

(* Steps of vm_eval that leave the machine alone.                          *)
LEMMA Idle ==
    ASSUME IInv, image' = image, gval' = gval, UNCHANGED machine, deviations' = deviations,
           form' \in 0..Len(image.forms), form <= form',
           \/ pc' \in {"done", "dead", "wild"}
           \/ pc' \in {"read", "run", "done", "dead", "wild"} /\ pc' = pc
    PROVE  IInv'
  <1>1. /\ vecs' = vecs /\ frames' = frames /\ ip' = ip /\ rr' = rr /\ call' = call
        /\ made' = made /\ captured' = captured
    BY DEF machine
  <1>2. PICK S, C : Now(S, C)
    BY DEF IInv, ValuesHold, Now
  <1>3. Plain'
    BY <1>1 DEF IInv, Plain
  <1>4. FramesInv'
    BY <1>1, SameFrames DEF IInv
  <1>5. WellFormed(image) /\ FramesFit(image, frames, Sizes(vecs))
    BY DEF IInv
  <1>6. pc' = "run" => Control(image, frames, Sizes(vecs), call, ip)
    BY DEF IInv
  <1>7. ValuesFit(S, C, image, gval', vecs', rr', call', frames', deviations', form')
    <2>1. form \in Nat /\ form' \in Nat
      BY PlainFacts, <1>3 DEF IInv, WellFormed
    <2>2. /\ Holds(S, C) /\ S \subseteq S /\ C \subseteq C /\ gval' \in [1..image.globals -> S]
          /\ rr' \in S /\ \A i \in 1..Len(frames') : frames'[i].closr \in C
          /\ vecs' \in Seq(Seq(S)) /\ call'.closr \in S /\ call'.args \in Seq(S)
      BY <1>1, <1>2 DEF Now, ValuesFit
    <2>3. \A c \in C : c \in C \/ ClosureOK(c, image, Sizes(vecs'), deviations', form')
      OBVIOUS
    <2>4. Grows(Sizes(vecs), Sizes(vecs')) /\ deviations \subseteq deviations'
      BY <1>1, SameGrows
    <2> QED
      BY <1>2, <2>1, <2>2, <2>3, <2>4, ValNext
  <1>8. ValuesHold'
    BY <1>7 DEF ValuesHold
  <1> QED
    BY <1>1, <1>3, <1>4, <1>5, <1>6, <1>8 DEF IInv

(* The end of a form keeps the invariant.                                  *)
LEMMA EndsStep ==
    ASSUME IInv, NEW value, FormEnds(value), deviations \subseteq deviations', deviations' \subseteq Kinds
    PROVE  IInv'
  <1>1. /\ pc' = "read" /\ frames' = <<>> /\ ip' = 0 /\ rr' = Void /\ call' = NoCall
        /\ image' = image /\ form' = form /\ gval' = gval /\ vecs' = vecs /\ made' = made
        /\ captured' = captured
    BY DEF FormEnds
  <1>2. PICK S, C : Now(S, C)
    BY DEF IInv, ValuesHold, Now
  <1>3. Plain'
    BY <1>1 DEF IInv, Plain
  <1>4. FramesInv'
    BY FormEndsFrames
  <1>5. FramesFit(image, frames', Sizes(vecs'))
    BY <1>1 DEF FramesFit
  <1>6. ValuesFit(S, C, image, gval', vecs', rr', call', frames', deviations', form')
    <2>1. form \in Nat /\ form' \in Nat /\ form <= form'
      BY <1>1, PlainFacts
    <2>2. /\ Holds(S, C) /\ S \subseteq S /\ C \subseteq C /\ gval' \in [1..image.globals -> S]
          /\ vecs' \in Seq(Seq(S))
      BY <1>1, <1>2 DEF Now, ValuesFit
    <2>3. rr' \in S /\ call'.closr \in S /\ call'.args \in Seq(S)
      BY <1>1, <2>2 DEF NoCall, Holds
    <2>4. \A i \in 1..Len(frames') : frames'[i].closr \in C
      BY <1>1
    <2>5. \A c \in C : c \in C \/ ClosureOK(c, image, Sizes(vecs'), deviations', form')
      OBVIOUS
    <2>6. Grows(Sizes(vecs), Sizes(vecs'))
      BY <1>1, SameGrows
    <2> QED
      BY <1>2, <2>1, <2>2, <2>3, <2>4, <2>5, <2>6, ValNext
  <1>7. ValuesHold'
    BY <1>1, <1>6 DEF ValuesHold
  <1> QED
    BY <1>1, <1>3, <1>4, <1>5, <1>7 DEF IInv

(* A return goes on behind the CALL of the upper frame's function.         *)
LEMMA RetPopStep ==
    ASSUME IInv, RunsCode, NEW S, NEW C, Now(S, C), NEW T, Over(S, C, T), NEW value \in T,
           RetPop(value), deviations \subseteq deviations', deviations' \subseteq Kinds
    PROVE  IInv'
  <1>1. CASE Top.final
    BY <1>1, EndsStep DEF RetPop
  <1>2. CASE ~Top.final
    <2> DEFINE n == Top.up
    <2>1. /\ frames' = SubSeq(frames, 1, n) /\ ip' = Top.ret /\ rr' = value /\ call' = NoCall
          /\ image' = image /\ form' = form /\ pc' = pc /\ gval' = gval /\ vecs' = vecs
          /\ made' = made /\ captured' = captured
      BY <1>2 DEF RetPop, ReturnsInto
    <2>2. pc = "run" /\ pc' = "run"
      BY <2>1, AtInstr
    <2>3. FramesInv'
      BY <2>2, RetPopFrames DEF IInv
    <2>4. /\ n \in 1..Len(frames) /\ CallAt(frames[n].closr, Top.ret, image.code)
          /\ Len(frames) \in 1..Len(frames)
      BY <1>2, <2>2, TopFacts DEF IInv
    <2>5. frames \in Seq(Own(frames)) /\ Linked(frames)
      BY DEF IInv, FramesInv, GoodFrames
    <2>6. PICK fs : fs = frames'
      OBVIOUS
    <2>7. FramesFit(image, fs, Sizes(vecs))
      BY <2>1, <2>4, <2>5, <2>6, CutFits DEF IInv
    <2>8. Len(fs) = n /\ \A i \in 1..n : fs[i] = frames[i] /\ i \in 1..Len(frames)
      BY <2>1, <2>4, <2>5, <2>6, Cut
    <2>9. Top.ret \in 1..Len(image.code[frames[n].closr[2]].icode)
      BY <1>2, <2>4, SMTT(60) DEF IInv, FramesFit, FrameOK, Top
    <2>10. Comes(image, fs, Top.ret)
      <3> DEFINE u == frames[n].closr[2]
      <3>1. InstrOK(image, u, Top.ret)
        BY <2>4, <2>9, FrameFunction, Zenon DEF FunctionOK
      <3>2. image.code[u].icode[Top.ret][1] = "CALL"
        BY <2>4 DEF CallAt
      <3>3. StartsAt(image.code[u].icode, Top.ret + 1)
        BY <3>1, <3>2, Zenon DEF InstrOK
      <3> QED
        BY <2>4, <2>8, <3>3, SMTT(60) DEF Comes
    <2>11. Control(image, fs, Sizes(vecs), NoCall, Top.ret)
      BY <2>10, SMTT(60) DEF Control
    <2>12. ip' \in Nat
      BY <2>1, <2>4 DEF IInv, FramesFit, FrameOK, Top
    <2>13. ValuesFit(T, C, image, gval', vecs', rr', call', frames', deviations', form')
      <3>1. form \in Nat /\ form' \in Nat /\ form <= form'
        BY <2>1, PlainFacts
      <3>2. Holds(T, C) /\ S \subseteq T /\ C \subseteq C
        BY DEF Over
      <3>3. gval \in [1..image.globals -> S] /\ vecs \in Seq(Seq(S))
        BY DEF Now, ValuesFit
      <3>4. gval' \in [1..image.globals -> T]
        BY <2>1, <3>2, <3>3
      <3>5. vecs' \in Seq(Seq(T))
        BY <2>1, <3>2, <3>3, SeqOver
      <3>6. rr' \in T /\ call'.closr \in T /\ call'.args \in Seq(T)
        BY <2>1, <3>2 DEF NoCall, Holds
      <3>7. \A i \in 1..Len(frames') : frames'[i].closr \in C
        BY <2>6, <2>8 DEF Now, ValuesFit
      <3>8. \A c \in C : c \in C \/ ClosureOK(c, image, Sizes(vecs'), deviations', form')
        OBVIOUS
      <3>9. Grows(Sizes(vecs), Sizes(vecs'))
        BY <2>1, SameGrows
      <3> QED
        BY <3>1, <3>2, <3>4, <3>5, <3>6, <3>7, <3>8, <3>9, ValNext
    <2>14. /\ FramesFit(image, frames', Sizes(vecs')) /\ made' \in Nat /\ captured' \subseteq DOMAIN vecs'
           /\ Control(image, frames', Sizes(vecs'), call', ip')
           /\ ValuesFit(T, C, image, gval', vecs', rr', call', frames', deviations', form)
      BY <2>1, <2>6, <2>7, <2>11, <2>13, PlainFacts
    <2> QED
      BY <2>1, <2>2, <2>3, <2>12, <2>14, Goes
  <1> QED
    BY <1>1, <1>2

(* RETCALL of a builtin keeps the invariant.                               *)
LEMMA RetcallBinStep == ASSUME IInv, RetcallBin PROVE IInv'
  <1>1. Executes("RETCALL") /\ call.closr[1] = "bin"
    BY DEF RetcallBin
  <1>2. /\ RunsCode /\ pc = "run" /\ Instr[1] = "RETCALL" /\ ~StraysInCall /\ ~Throws
    BY <1>1, ExecutesFacts
  <1>3. PICK S, C : Now(S, C)
    BY DEF IInv, ValuesHold, Now
  <1>4. PICK T : Over(S, C, T) /\ BinCalled \in T
    BY <1>1, <1>2, <1>3, BinValue
  <1>5. PICK value : value = BinCalled
    OBVIOUS
  <1>6. RetPop(value) /\ value \in T
    BY <1>4, <1>5 DEF RetcallBin
  <1>7. deviations \subseteq deviations' /\ deviations' \subseteq Kinds
    BY BinKinds DEF RetcallBin
  <1> QED
    BY <1>2, <1>3, <1>4, <1>6, <1>7, RetPopStep

(* RET keeps the invariant.                                                *)
LEMMA RetStep == ASSUME IInv, Ret PROVE IInv'
  <1>1. Executes("RET")
    BY DEF Ret
  <1>2. /\ RunsCode /\ pc = "run" /\ Instr[1] = "RET" /\ ~ReachesOutside
    BY <1>1, ExecutesFacts
  <1>3. PICK S, C : Now(S, C)
    BY DEF IInv, ValuesHold, Now
  <1>4. PICK value \in S : value = Get(Instr[2])
    <2>1. Instr[2] \in Reads
      BY <1>2 DEF Reads
    <2> QED
      BY <1>2, <1>3, <2>1, GetIn
  <1>5. RetPop(value) /\ Over(S, C, S)
    BY <1>3, <1>4, SelfOver DEF Ret, Now, ValuesFit
  <1>6. deviations \subseteq deviations' /\ deviations' \subseteq Kinds
    BY PlainFacts DEF Ret
  <1> QED
    BY <1>2, <1>3, <1>4, <1>5, <1>6, RetPopStep

(* An exception keeps the invariant.                                       *)
LEMMA PanicStep == ASSUME IInv, Panic PROVE IInv'
  <1>1. FormEnds(Err)
    BY DEF Panic
  <1>2. deviations \subseteq deviations' /\ deviations' \subseteq Kinds
    BY PlainFacts DEF Panic, Deviates, DeviatesIn, Kinds
  <1> QED
    BY <1>1, <1>2, EndsStep

(* A procedure's frame is entered.                                         *)
LEMMA EntersStep ==
    ASSUME IInv, RunsCode, Instr[1] \in {"CALL", "RETCALL"}, ~StraysInCall,
           IsClosure(call.closr), ~call.self,
           NEW n \in 1..Len(frames), NEW ret \in Nat, NEW final \in BOOLEAN,
           Enters(n, Callee(n, ret, final)),
           final \/ CallAt(frames[n].closr, ret, image.code),
           final \/ ret \in 1..Len(image.code[frames[n].closr[2]].icode),
           deviations' = deviations
    PROVE  IInv'
  <1>1. PICK f : f = Callee(n, ret, final)
    OBVIOUS
  <1>2. f.up = n /\ f.closr = call.closr /\ f.vars = call.vec /\ f.ret = ret /\ f.final = final
    BY <1>1 DEF Callee, Frame
  <1>3. /\ frames' = Append(SubSeq(frames, 1, n), f) /\ ip' = 0 /\ rr' = rr /\ call' = NoCall
        /\ image' = image /\ form' = form /\ pc' = pc /\ gval' = gval /\ vecs' = vecs
        /\ made' = made /\ captured' = captured
    BY <1>1 DEF Enters
  <1>4. PICK S, C : Now(S, C)
    BY DEF IInv, ValuesHold, Now
  <1>5. pc = "run" /\ pc' = "run"
    BY <1>3, AtInstr
  <1>6. FramesInv'
    <2>1. Enters(n, f) /\ (f.final \/ CallAt(frames[n].closr, f.ret, image.code))
      BY <1>1, <1>2
    <2> QED
      BY <1>2, <2>1, EntersFrames DEF IInv
  <1>7. frames \in Seq(Own(frames)) /\ Linked(frames)
    BY DEF IInv, FramesInv, GoodFrames
  <1>8. PICK fs : fs = frames'
    OBVIOUS
  <1>9. Len(fs) = n + 1 /\ fs[n + 1] = f /\ \A i \in 1..n : fs[i] = frames[i] /\ i \in 1..Len(frames)
    <2>1. n \in 0..Len(frames) /\ Len(frames) \in Nat
      BY <1>7
    <2> QED
      BY <1>3, <1>7, <1>8, <2>1, CutAndPut
  <1>10. /\ call.closr \in C /\ call.closr[2] \in DOMAIN image.code
         /\ FunctionOK(image, call.closr[2])
    <2>1. call.closr \in S /\ call.closr[1] = "closure"
      BY <1>4, SMTT(60) DEF Now, ValuesFit, IsClosure
    <2> QED
      BY <1>4, <2>1, ClosureFunction
  <1>11. /\ call.vec \in DOMAIN Sizes(vecs)
         /\ Sizes(vecs)[call.vec] = image.code[call.closr[2]].fvc
         /\ \A i \in 1..Len(frames) : frames[i].vars # call.vec
    <2>1. call.closr[1] = "closure" /\ ~image.code[call.closr[2]].rest
      BY DEF StraysInCall, HasRest, IsClosure, CodeOf
    <2>2. Calling(image, frames, Sizes(vecs), call, ip)
      BY AtCall, SMTT(60)
    <2> QED
      BY <2>1, <2>2 DEF Calling
  <1>12. FramesFit(image, fs, Sizes(vecs))
    <2>1. /\ f.vars \in DOMAIN Sizes(vecs) /\ Sizes(vecs)[f.vars] = image.code[f.closr[2]].fvc
          /\ f.ret \in Nat /\ f.final \in BOOLEAN
          /\ f.final \/ f.ret \in 1..Len(image.code[frames[n].closr[2]].icode)
          /\ \A i \in 1..Len(frames) : frames[i].vars # f.vars
      BY <1>2, <1>11
    <2>2. FramesFit(image, frames, Sizes(vecs))
      BY DEF IInv
    <2>3. fs = Append(SubSeq(frames, 1, n), f)
      BY <1>3, <1>8
    <2> QED
      BY <1>2, <1>7, <2>1, <2>2, <2>3, PutFits
  <1>13. Control(image, fs, Sizes(vecs), NoCall, 0)
    <2>1. fs[Len(fs)].closr[2] = call.closr[2]
      BY <1>2, <1>9
    <2>2. Comes(image, fs, 0)
      BY <1>10, <2>1 DEF Comes, FunctionOK
    <2> QED
      BY <2>2 DEF Control
  <1>14. ValuesFit(S, C, image, gval', vecs', rr', call', frames', deviations', form')
    <2>1. form \in Nat /\ form' \in Nat /\ form <= form'
      BY <1>3, PlainFacts
    <2>2. /\ Holds(S, C) /\ S \subseteq S /\ C \subseteq C /\ gval' \in [1..image.globals -> S]
          /\ vecs' \in Seq(Seq(S)) /\ rr' \in S
      BY <1>3, <1>4 DEF Now, ValuesFit
    <2>3. call'.closr \in S /\ call'.args \in Seq(S)
      BY <1>3, <2>2 DEF NoCall, Holds
    <2>4. \A i \in 1..Len(frames') : frames'[i].closr \in C
      <3>1. \A i \in 1..n + 1 : i \in 1..n \/ i = n + 1
        BY <1>7
      <3>2. \A i \in 1..Len(frames) : frames[i].closr \in C
        BY <1>4 DEF Now, ValuesFit
      <3> QED
        BY <1>2, <1>8, <1>9, <1>10, <3>1, <3>2
    <2>5. \A c \in C : c \in C \/ ClosureOK(c, image, Sizes(vecs'), deviations', form')
      OBVIOUS
    <2>6. Grows(Sizes(vecs), Sizes(vecs')) /\ deviations \subseteq deviations'
      BY <1>3, SameGrows
    <2> QED
      BY <1>4, <2>1, <2>2, <2>3, <2>4, <2>5, <2>6, ValNext
  <1>15. /\ FramesFit(image, frames', Sizes(vecs')) /\ made' \in Nat /\ captured' \subseteq DOMAIN vecs'
         /\ Control(image, frames', Sizes(vecs'), call', ip') /\ ip' \in Nat
         /\ ValuesFit(S, C, image, gval', vecs', rr', call', frames', deviations', form)
         /\ deviations' \subseteq Kinds
    BY <1>3, <1>8, <1>12, <1>13, <1>14, PlainFacts
  <1> QED
    BY <1>3, <1>5, <1>6, <1>15, Goes

(* CALL of a closure keeps the invariant.                                  *)
LEMMA CallClosureStep == ASSUME IInv, CallClosure PROVE IInv'
  <1>1. Executes("CALL") /\ IsClosure(call.closr)
    BY DEF CallClosure
  <1>2. /\ RunsCode /\ pc = "run" /\ Instr[1] = "CALL" /\ ~StraysInCall
    BY <1>1, ExecutesFacts
  <1>3. ~call.self
    BY <1>2, AtCall
  <1>4. PICK n \in 1..Len(frames), ret \in Nat, final \in BOOLEAN :
          n = Len(frames) /\ ret = ReturnIp /\ final = FALSE
    <2>1. PICK n \in 1..Len(frames) : n = Len(frames)
      BY <1>2, TopClosure
    <2>2. PICK ret \in Nat : ret = ReturnIp
      BY PlainFacts DEF ReturnIp
    <2>3. PICK final \in BOOLEAN : final = FALSE
      OBVIOUS
    <2> QED
      BY <2>1, <2>2, <2>3
  <1>5. Enters(n, Callee(n, ret, final)) /\ deviations' = deviations
    BY <1>4 DEF CallClosure
  <1>6. CallAt(frames[n].closr, ret, image.code)
    BY <1>2, <1>4 DEF CallAt, ReturnIp, Instr, ClTop, Top, CodeOf
  <1>7. ret \in 1..Len(image.code[frames[n].closr[2]].icode)
    BY <1>2, <1>4, AtInstr, TopClosure DEF ReturnIp, Icode, Uniq
  <1> QED
    BY <1>1, <1>2, <1>3, <1>5, <1>6, <1>7, EntersStep

(* RETCALL of another closure keeps the invariant.                         *)
LEMMA RetcallClosureStep == ASSUME IInv, RetcallClosure PROVE IInv'
  <1>1. Executes("RETCALL") /\ IsClosure(call.closr) /\ ~call.self
    BY DEF RetcallClosure
  <1>2. /\ RunsCode /\ pc = "run" /\ Instr[1] = "RETCALL" /\ ~StraysInCall
    BY <1>1, ExecutesFacts
  <1>3. FrameOK(image, Sizes(vecs), Top, frames[Top.up])
    BY <1>2, TopClosure DEF IInv, FramesFit, Top
  <1>4. PICK n \in 1..Len(frames), ret \in Nat, final \in BOOLEAN :
          n = Top.up /\ ret = Top.ret /\ final = Top.final
    BY <1>2, <1>3, TopClosure DEF FrameOK
  <1>5. Enters(n, Callee(n, ret, final)) /\ deviations' = deviations
    BY <1>4 DEF RetcallClosure, UpOfTail
  <1>6. final \/ CallAt(frames[n].closr, ret, image.code)
    BY <1>2, <1>4, TopFacts DEF IInv
  <1>7. final \/ ret \in 1..Len(image.code[frames[n].closr[2]].icode)
    BY <1>3, <1>4 DEF FrameOK
  <1> QED
    BY <1>1, <1>2, <1>5, <1>6, <1>7, EntersStep

(* A function that calls itself last starts over.                          *)
LEMMA RetcallSelfStep == ASSUME IInv, RetcallSelf PROVE IInv'
  <1>1. Executes("RETCALL")
    BY DEF RetcallSelf
  <1>2. /\ RunsCode /\ pc = "run"
    BY <1>1, ExecutesFacts
  <1>3. PICK S, C : Now(S, C)
    BY DEF IInv, ValuesHold, Now
  <1>4. /\ image' = image /\ form' = form /\ pc' = pc /\ frames' = frames /\ made' = made
        /\ captured' = captured /\ gval' = gval /\ vecs' = vecs /\ rr' = rr
        /\ call' = NoCall /\ ip' = 0
    BY DEF RetcallSelf
  <1>5. deviations \subseteq deviations' /\ deviations' \subseteq Kinds
    BY PlainFacts DEF RetcallSelf, Deviates, DeviatesIn, Kinds
  <1>6. ip' \in Nat /\ StartsAt(Icode, ip' + 1)
    BY <1>2, <1>4, TopClosure, AtInstr DEF FunctionOK, Icode
  <1>7. /\ Holds(S, C) /\ vecs' \in Seq(Seq(S)) /\ gval' \in [1..image.globals -> S] /\ rr' \in S
    BY <1>3, <1>4 DEF Now, ValuesFit
  <1>8. \A c \in C : c \in C \/ ClosureOK(c, image, Sizes(vecs'), deviations', form)
    OBVIOUS
  <1>9. captured' \subseteq DOMAIN vecs' /\ Grows(Sizes(vecs), Sizes(vecs')) /\ made' \in Nat
    BY <1>4, SameGrows, PlainFacts
  <1> QED
    BY <1>2, <1>3, <1>4, <1>5, <1>6, <1>7, <1>8, <1>9, Straight

(* What is known when vm_eval comes to a form.                             *)
LEMMA BegunFacts ==
    ASSUME IInv, Begun
    PROVE  /\ pc = "read" /\ form + 1 \in 1..Len(image.forms) /\ form' = form + 1
           /\ form' \in 0..Len(image.forms) /\ form \in Nat /\ form <= form'
           /\ FormOK(image, image.forms[form + 1])
  BY DEF IInv, Plain, WellFormed, Begun

(* The first frame of a form keeps the invariant.                          *)
LEMMA BeginFormStep == ASSUME IInv, BeginForm PROVE IInv'
  <1> DEFINE uniq == image.forms[form + 1].top
  <1>1. /\ pc = "read" /\ form + 1 \in 1..Len(image.forms) /\ form' = form + 1
        /\ form' \in 0..Len(image.forms) /\ form \in Nat /\ form <= form'
        /\ FormOK(image, image.forms[form + 1])
    BY BegunFacts DEF BeginForm
  <1>2. \/ image.forms[form + 1].status = "ok"
        \/ image.forms[form + 1].status = "fatal" /\ image.console
    BY DEF BeginForm, Runnable, Status
  <1>3. /\ uniq \in DOMAIN image.code /\ image.around[uniq] = <<>>
        /\ image.forms[form + 1].status = "ok" => uniq \in Finished(image)
    BY <1>1, <1>2 DEF FormOK
  <1>4. FunctionOK(image, uniq)
    BY <1>3, SMTT(60) DEF IInv, WellFormed
  <1>5. PICK S, C : Now(S, C)
    BY DEF IInv, ValuesHold, Now
  <1>6. PICK n \in Nat : n = image.code[uniq].fvc
    BY <1>4 DEF FunctionOK
  <1>7. PICK closr, f : /\ closr = Closure(uniq, <<>>, 0, <<>>)
                        /\ f = Frame(1, closr, Len(vecs) + 1, 0, TRUE)
    OBVIOUS
  <1>8. /\ closr[1] = "closure" /\ closr[2] = uniq /\ closr[3] = <<>> /\ closr[5] = <<>>
    BY <1>7 DEF Closure
  <1>9. /\ f.up = 1 /\ f.closr = closr /\ f.vars = Len(vecs) + 1 /\ f.ret = 0 /\ f.final
        /\ f.final \in BOOLEAN
    BY <1>7 DEF Frame
  <1>10. /\ image' = image /\ gval' = gval /\ ip' = ip /\ rr' = rr /\ call' = call /\ made' = made
         /\ captured' = captured /\ deviations' = deviations /\ pc' = "run"
         /\ vecs' = WithVec(vecs, n) /\ frames' = <<f>>
    BY <1>6, <1>7 DEF BeginForm, WithVec
  <1>11. PICK ws : ws = vecs'
    OBVIOUS
  <1>12. vecs \in Seq(Seq(S)) /\ Nihil \in S /\ Holds(S, C)
    BY <1>5 DEF Now, ValuesFit, Holds
  <1>13. /\ ws \in Seq(Seq(S)) /\ Grows(Sizes(vecs), Sizes(ws))
         /\ Len(vecs) + 1 \in DOMAIN Sizes(ws) /\ Sizes(ws)[Len(vecs) + 1] = n
    <2>1. ws = WithVec(vecs, n)
      BY <1>10, <1>11
    <2> QED
      BY <1>12, <2>1, VecAdded
  <1>14. Plain'
    <2>1. DOMAIN vecs \subseteq DOMAIN ws
      <3>1. DOMAIN vecs = DOMAIN Sizes(vecs) /\ DOMAIN ws = DOMAIN Sizes(ws)
        BY <1>12, <1>13, SizesDomain
      <3> QED
        BY <1>13, <3>1 DEF Grows
    <2>2. captured' \subseteq DOMAIN vecs'
      BY <1>10, <1>11, <2>1, PlainFacts
    <2> QED
      BY <1>1, <1>10, <2>2 DEF IInv, Plain
  <1>15. FramesInv'
    <2>1. GoodFrames(<<f>>, image.code)
      BY <1>9, FirstKeeps
    <2>2. GoodFrames(frames', image.code) /\ Len(frames') >= 1
      BY <1>10, <2>1
    <2> QED
      BY <1>10, <2>2 DEF FramesInv
  <1>16. PICK fs : fs = frames'
    OBVIOUS
  <1>17. Len(fs) = 1 /\ fs[1] = f /\ \A i \in 1..Len(fs) : i = 1
    BY <1>10, <1>16
  <1>18. FramesFit(image, fs, Sizes(ws))
    <2>1. FrameOK(image, Sizes(ws), f, fs[f.up])
      BY <1>6, <1>8, <1>9, <1>13 DEF FrameOK
    <2> QED
      BY <1>17, <2>1 DEF FramesFit
  <1>19. Control(image, fs, Sizes(ws), call', ip')
    <2>1. call' = NoCall /\ ip' = 0
      BY <1>1, <1>10, SMTT(60) DEF IInv, Plain
    <2>2. Comes(image, fs, 0)
      BY <1>4, <1>8, <1>9, <1>17, SMTT(60) DEF Comes, FunctionOK
    <2> QED
      BY <2>1, <2>2 DEF Control
  <1>20. ClosureOK(closr, image, Sizes(ws), deviations', form')
    <2>1. image.code[uniq].frmax = 0 /\ Len(image.around[uniq]) = 0
      BY <1>3, <1>4 DEF FunctionOK
    <2>2. uniq \in Finished(image) \/ GaveUp(image, form')
      BY <1>1, <1>2, <1>3 DEF GaveUp
    <2>3. closr[3] \in Seq(DOMAIN Sizes(ws)) /\ Len(closr[3]) = 0
      BY <1>8
    <2> HIDE DEF uniq
    <2> QED
      BY <1>3, <1>8, <2>1, <2>2, <2>3, SMTT(60) DEF ClosureOK
  <1>21. PICK T, D : T = S \cup {closr} /\ D = C \cup {closr}
    OBVIOUS
  <1>22. ValuesFit(T, D, image, gval', vecs', rr', call', frames', deviations', form')
    <2>1. form \in Nat /\ form' \in Nat /\ form <= form'
      BY <1>1
    <2>2. Holds(T, D) /\ S \subseteq T /\ C \subseteq D
      BY <1>8, <1>12, <1>21, ClosureIn
    <2>3. /\ gval \in [1..image.globals -> S] /\ rr \in S
          /\ call.closr \in S /\ call.args \in Seq(S)
      BY <1>5 DEF Now, ValuesFit
    <2>4. gval' \in [1..image.globals -> T] /\ rr' \in T /\ call'.closr \in T
      BY <1>10, <2>2, <2>3
    <2>5. vecs' \in Seq(Seq(T)) /\ call'.args \in Seq(T)
      BY <1>10, <1>11, <1>13, <2>2, <2>3, SeqOver
    <2>6. \A i \in 1..Len(frames') : frames'[i].closr \in D
      BY <1>9, <1>16, <1>17, <1>21
    <2>7. \A c \in D : c \in C \/ ClosureOK(c, image, Sizes(vecs'), deviations', form')
      BY <1>11, <1>20, <1>21
    <2>8. Grows(Sizes(vecs), Sizes(vecs')) /\ deviations \subseteq deviations'
      BY <1>10, <1>11, <1>13
    <2> QED
      BY <1>5, <2>1, <2>2, <2>4, <2>5, <2>6, <2>7, <2>8, ValNext
  <1>23. ValuesHold' /\ WellFormed(image) /\ image' = image
    BY <1>10, <1>22 DEF ValuesHold, IInv
  <1>24. FramesFit(image, frames', Sizes(vecs')) /\ Control(image, frames', Sizes(vecs'), call', ip')
    BY <1>11, <1>16, <1>18, <1>19
  <1> QED
    BY <1>14, <1>15, <1>23, <1>24 DEF IInv

(* The other steps of vm_eval, and no step, keep the invariant.            *)
LEMMA IdleSteps ==
    ASSUME IInv, Wild \/ Reject \/ Abort \/ Lose \/ EndSession \/ UNCHANGED vars
    PROVE  IInv'
  <1>0. form \in 0..Len(image.forms) /\ form <= form
    BY DEF IInv, Plain, WellFormed
  <1>1. CASE Wild
    BY <1>0, <1>1, Idle DEF Wild
  <1>2. CASE Reject
    BY <1>2, BegunFacts, Idle DEF Reject
  <1>3. CASE Abort
    BY <1>3, BegunFacts, Idle DEF Abort
  <1>4. CASE Lose
    BY <1>4, BegunFacts, Idle DEF Lose
  <1>5. CASE EndSession
    BY <1>0, <1>5, Idle DEF EndSession
  <1>6. CASE UNCHANGED vars
    <2>1. pc \in {"read", "run", "done", "dead", "wild"}
      BY DEF IInv, Plain
    <2> QED
      BY <1>0, <1>6, <2>1, Idle DEF vars
  <1> QED
    BY <1>1, <1>2, <1>3, <1>4, <1>5, <1>6

(* Every step keeps the invariant.                                         *)
LEMMA StepIInv == IInv /\ [Next]_vars => IInv'
  <1> SUFFICES ASSUME IInv, [Next]_vars PROVE IInv'
    OBVIOUS
  <1>1. \/ SetVar \/ DefGlobal \/ Jump \/ MakeClosure \/ Prep \/ Push
        \/ CallBin \/ CallClosure \/ RetcallBin \/ RetcallSelf \/ RetcallClosure
        \/ Ret \/ Panic \/ BeginForm
        \/ Wild \/ Reject \/ Abort \/ Lose \/ EndSession \/ UNCHANGED vars
    BY DEF Next, Step
  <1>2. CASE SetVar
    BY <1>2, SetVarStep
  <1>3. CASE DefGlobal
    BY <1>3, DefGlobalStep
  <1>4. CASE Jump
    BY <1>4, JumpStep
  <1>5. CASE MakeClosure
    BY <1>5, MakeClosureStep
  <1>6. CASE Prep
    BY <1>6, PrepStep
  <1>7. CASE Push
    BY <1>7, PushStep
  <1>8. CASE CallBin
    BY <1>8, CallBinStep
  <1>9. CASE CallClosure
    BY <1>9, CallClosureStep
  <1>10. CASE RetcallBin
    BY <1>10, RetcallBinStep
  <1>11. CASE RetcallSelf
    BY <1>11, RetcallSelfStep
  <1>12. CASE RetcallClosure
    BY <1>12, RetcallClosureStep
  <1>13. CASE Ret
    BY <1>13, RetStep
  <1>14. CASE Panic
    BY <1>14, PanicStep
  <1>15. CASE BeginForm
    BY <1>15, BeginFormStep
  <1>16. CASE Wild \/ Reject \/ Abort \/ Lose \/ EndSession \/ UNCHANGED vars
    BY <1>16, IdleSteps
  <1> QED
    BY <1>1, <1>2, <1>3, <1>4, <1>5, <1>6, <1>7, <1>8, <1>9, <1>10, <1>11, <1>12, <1>13,
       <1>14, <1>15, <1>16

(* The invariant holds at first: the values are the atoms, the builtins    *)
(* and the data in the code.                                               *)
LEMMA InitIInv == Init => IInv
  <1> SUFFICES ASSUME Init PROVE IInv
    OBVIOUS
  <1>1. WellFormed(image)
    BY ImageAssumption DEF Init
  <1>2. /\ form = 0 /\ pc = "read" /\ vecs = <<>> /\ frames = <<>> /\ ip = 0 /\ rr = Void
        /\ call = NoCall /\ made = 0 /\ captured = {} /\ deviations = {}
        /\ gval = [i \in 1..image.globals |->
                     IF i <= Builtins THEN Bin(BinNames[i]) ELSE Nihil]
    BY DEF Init
  <1>3. Plain
    BY <1>1, <1>2 DEF Plain, WellFormed
  <1>4. FramesInv
    BY InitFrames
  <1>5. FramesFit(image, frames, Sizes(vecs))
    BY <1>2 DEF FramesFit
  <1> DEFINE Atoms == {Nil, False, True, Void, Nihil}
             Bins == {Bin(name) : name \in BinNameSet}
             S == Atoms \cup Bins \cup image.data
  <1>6. Holds(S, {})
    <2>1. \A v \in Atoms : v[1] \notin {"closure", "bin", "pair"}
      BY DEF Nil, False, True, Void, Nihil
    <2>2. \A v \in Bins : v[1] = "bin" /\ v[2] \in BinNameSet
      BY DEF Bin
    <2>3. \A v \in image.data : /\ v[1] \notin {"closure", "bin"}
                                /\ v[1] = "pair" => v[2] \in image.data /\ v[3] \in image.data
      BY <1>1 DEF WellFormed, IsPair, Car, Cdr
    <2> HIDE DEF Bins
    <2>4. Atoms \subseteq S
      OBVIOUS
    <2> HIDE DEF Atoms
    <2>5. ASSUME NEW v \in S
          PROVE  /\ v[1] = "closure" => v \in {}
                 /\ v[1] = "bin" => v[2] \in BinNameSet
                 /\ v[1] = "pair" => v[2] \in S /\ v[3] \in S
      BY <2>1, <2>2, <2>3
    <2> HIDE DEF S
    <2> QED
      BY <2>4, <2>5 DEF Holds, Atoms
  <1>7. gval \in [1..image.globals -> S]
    <2>1. ASSUME NEW i \in 1..image.globals
          PROVE  (IF i <= Builtins THEN Bin(BinNames[i]) ELSE Nihil) \in S
      <3>1. Len(BinNames) = 21 /\ Len(BinTable) = 21
        BY DEF BinNames, BinTable
      <3>2. CASE i <= Builtins
        <4>1. image.globals \in Nat
          BY <1>1 DEF WellFormed
        <4>2. i \in 1..Len(BinTable)
          BY <3>1, <3>2, <4>1 DEF Builtins
        <4>3. BinNames[i] \in BinNameSet
          BY <4>2 DEF BinNameSet
        <4> QED
          BY <3>2, <4>3
      <3>3. CASE ~(i <= Builtins)
        BY <3>3
      <3> QED
        BY <3>2, <3>3
    <2> HIDE DEF S
    <2> QED
      BY <1>2, <2>1
  <1>8. ValuesFit(S, {}, image, gval, vecs, rr, call, frames, deviations, form)
    <2>1. vecs \in Seq(Seq(S)) /\ call.args \in Seq(S) /\ call.closr = Nihil
      BY <1>2 DEF NoCall
    <2>2. rr \in S /\ Nihil \in S /\ image.data \subseteq S
      BY <1>2
    <2> HIDE DEF S
    <2> QED
      BY <1>2, <1>6, <1>7, <2>1, <2>2 DEF ValuesFit
  <1>9. ValuesHold
    <2> HIDE DEF S
    <2> QED
      BY <1>8 DEF ValuesHold
  <1> QED
    BY <1>1, <1>2, <1>3, <1>4, <1>5, <1>9 DEF IInv

(* The invariant holds in every state.                                     *)
LEMMA AlwaysIInv == Spec => []IInv
  BY InitIInv, StepIInv, PTL DEF Spec

(* The types follow from the invariant.                                    *)
LEMMA TypesHold == IInv => TypeOK
  <1> SUFFICES ASSUME IInv PROVE TypeOK
    OBVIOUS
  <1>1. PICK S, C : Now(S, C)
    BY DEF IInv, ValuesHold, Now
  <1>2. /\ vecs \in Seq(Seq(S)) /\ DOMAIN gval = 1..image.globals
    BY <1>1 DEF Now, ValuesFit
  <1>3. /\ DOMAIN Sizes(vecs) = DOMAIN vecs /\ DOMAIN vecs = 1..Len(vecs)
    BY <1>2, SizesDomain
  <1>4. /\ form \in 0..Len(image.forms)
        /\ pc \in {"read", "run", "done", "dead", "wild"}
        /\ made \in Nat /\ captured \subseteq DOMAIN vecs
        /\ deviations \subseteq {"capture", "clobber", "shared", "rest", "overflow", "nil", "ident"}
    BY DEF IInv, Plain, Kinds
  <1>5. frames \in Seq(Own(frames)) /\ Linked(frames) /\ Len(frames) \in Nat
    BY DEF IInv, FramesInv, GoodFrames
  <1>6. ASSUME NEW i \in DOMAIN frames
        PROVE  /\ frames[i].up \in DOMAIN frames /\ frames[i].vars \in DOMAIN vecs
               /\ frames[i].closr[2] \in DOMAIN image.code
               /\ frames[i].ret \in Nat /\ frames[i].final \in BOOLEAN
               /\ Len(vecs[frames[i].vars]) = CodeOf(frames[i].closr).fvc
    <2>1. i \in 1..Len(frames) /\ DOMAIN frames = 1..Len(frames)
      BY <1>5
    <2>2. frames[i].up \in 1..i /\ frames[i].closr[2] \in DOMAIN image.code
      BY <1>5, <2>1, FrameFunction DEF Linked
    <2>3. FrameOK(image, Sizes(vecs), frames[i], frames[frames[i].up])
      BY <2>1 DEF IInv, FramesFit
    <2>4. frames[i].vars \in 1..Len(vecs)
      BY <1>3, <2>3 DEF FrameOK
    <2>5. Sizes(vecs)[frames[i].vars] = Len(vecs[frames[i].vars])
      BY <2>4 DEF Sizes
    <2> QED
      BY <1>3, <1>5, <2>1, <2>2, <2>3, <2>4, <2>5 DEF FrameOK, CodeOf
  <1>7. RunsCode => ip \in 0..Len(CodeOf(ClTop).icode) - 1
    <2> SUFFICES ASSUME RunsCode PROVE ip \in 0..Len(CodeOf(ClTop).icode) - 1
      OBVIOUS
    <2>1. CodeOf(ClTop).icode = Icode /\ ip \in Nat /\ ip + 1 \in 1..Len(Icode)
          /\ Len(Icode) \in Nat
      BY AtInstr, TopClosure
    <2> QED
      BY <2>1
  <1>8. pc = "run" => frames # <<>> /\ (call.self => call.vec = Top.vars)
    <2> SUFFICES ASSUME pc = "run" PROVE frames # <<>> /\ (call.self => call.vec = Top.vars)
      OBVIOUS
    <2>1. frames # <<>>
      BY TopClosure
    <2>2. Control(image, frames, Sizes(vecs), call, ip)
      BY DEF IInv
    <2>3. CASE call = NoCall
      BY <2>1, <2>3, SMTT(60) DEF NoCall
    <2>4. CASE Calling(image, frames, Sizes(vecs), call, ip)
      BY <2>1, <2>4 DEF Calling, Top
    <2> QED
      BY <2>2, <2>3, <2>4 DEF Control
  <1> QED
    BY <1>2, <1>4, <1>6, <1>7, <1>8 DEF TypeOK

(* The parts of the machine have their shapes, of every session whose code *)
(* is well formed: frames name frames, vectors and functions that there    *)
(* are, and the instruction pointer never leaves the code of the function  *)
(* that runs (the test of the while loop of icod_interpret).               *)
THEOREM InterpTypes == Spec => []TypeOK
  BY AlwaysIInv, TypesHold, PTL

-----------------------------------------------------------------------------
(* A function that waits for a call has locals apart from those of the one *)
(* that runs.                                                              *)
LEMMA WaitingApart ==
    ASSUME IInv, pc = "run", NEW i \in 1..Len(frames) - 1
    PROVE  i \in 1..Len(frames) /\ frames[i].vars # Top.vars
  <1>1. Len(frames) \in 1..Len(frames) /\ i \in 1..Len(frames) /\ i # Len(frames)
    BY TopClosure
  <1> QED
    BY <1>1 DEF IInv, FramesFit, Top

(* A step of a function changes the locals of one that waits only by an    *)
(* assignment to a captured variable.                                      *)
LEMMA StepKeepsLocals ==
    ASSUME IInv, [Next]_vars, NEW i \in 1..Len(frames) - 1
    PROVE  \/ vecs'[frames[i].vars] = vecs[frames[i].vars]
           \/ Instr[1] = "SET" /\ Instr[2][1] = "K"
  <1>1. PICK S, C : Now(S, C)
    BY DEF IInv, ValuesHold, Now
  <1>2. vecs \in Seq(Seq(S))
    BY <1>1 DEF Now, ValuesFit
  <1>3. i \in 1..Len(frames)
    BY DEF IInv, FramesInv, GoodFrames
  <1>4. frames[i].vars \in 1..Len(vecs)
    BY <1>2, <1>3, SizesDomain DEF IInv, FramesFit, FrameOK
  <1>5. CASE SetVar
    <2>1. /\ RunsCode /\ pc = "run" /\ Instr[1] = "SET" /\ ~ReachesOutside
      BY <1>5, ExecutesFacts DEF SetVar
    <2>2. Instr[2][1] \in {"G", "L", "K"}
      BY <2>1, AtInstr, Zenon DEF InstrOK, Icode
    <2>3. PICK value \in S : value = Get(Instr[3])
      <3>1. Instr[3] \in Reads
        BY <2>1 DEF Reads
      <3> QED
        BY <1>1, <2>1, <3>1, GetIn
    <2>4. CASE Instr[2][1] = "G"
      BY <1>5, <2>4 DEF SetVar
    <2>5. CASE Instr[2][1] = "L"
      <3>1. PICK k, j : k = VecOf(Instr[2]) /\ j = IndexOf(Instr[2])
        OBVIOUS
      <3>2. vecs' = WithCell(vecs, k, j, value)
        BY <1>5, <2>3, <2>5, <3>1 DEF SetVar, WithCell
      <3>3. \A m \in 1..Len(vecs) : m # k => vecs'[m] = vecs[m]
        BY <1>2, <3>2, CellSet
      <3>4. frames[i].vars # k
        BY <2>1, <2>5, <3>1, WaitingApart DEF VecOf
      <3> QED
        BY <1>4, <3>3, <3>4
    <2> QED
      BY <2>1, <2>2, <2>4, <2>5
  <1>6. CASE Prep
    <2>1. PICK closr : vecs' = vecs \/ vecs' = Append(vecs, NewVec(VarCount(closr)))
      BY <1>6 DEF Prep
    <2>2. CASE vecs' = vecs
      BY <2>2
    <2>3. CASE vecs' = Append(vecs, NewVec(VarCount(closr)))
      <3>1. PICK vec : vec = NewVec(VarCount(closr))
        OBVIOUS
      <3>2. vecs' = Append(vecs, vec)
        BY <2>3, <3>1
      <3>3. \A m \in 1..Len(vecs) : vecs'[m] = vecs[m]
        BY <1>2, <3>2
      <3> QED
        BY <1>4, <3>3
    <2> QED
      BY <2>1, <2>2, <2>3
  <1>7. CASE Push
    <2>1. /\ RunsCode /\ pc = "run" /\ Instr[1] = "PUSH" /\ ~ReachesOutside
      BY <1>7, ExecutesFacts DEF Push
    <2>2. PICK value \in S : value = Get(Instr[2])
      <3>1. Instr[2] \in Reads
        BY <2>1 DEF Reads
      <3> QED
        BY <1>1, <2>1, <3>1, GetIn
    <2>3. CASE ToBinargs(call.closr)
      BY <1>7, <2>3 DEF Push
    <2>4. CASE ~ToBinargs(call.closr)
      <3>1. PICK k, j : k = call.vec /\ j = Len(call.args) + 1
        OBVIOUS
      <3>2. vecs' = WithCell(vecs, k, j, value)
        BY <1>7, <2>2, <2>4, <3>1 DEF Push, WithCell
      <3>3. \A m \in 1..Len(vecs) : m # k => vecs'[m] = vecs[m]
        BY <1>2, <3>2, CellSet
      <3>4. frames[i].vars # k
        <4>1. Calling(image, frames, Sizes(vecs), call, ip)
          BY <2>1, AtPush
        <4>2. CASE call.self
          BY <2>1, <3>1, <4>1, <4>2, WaitingApart, Zenon DEF Calling, Top
        <4>3. CASE ~call.self
          <5>1. call.closr[1] = "bin" \/ call.closr[1] = "closure"
            BY <4>1 DEF Calling
          <5> QED
            BY <1>3, <2>4, <3>1, <4>1, <4>3, <5>1, ZenonT(60)
            DEF Calling, ToBinargs, HasRest, IsClosure, CodeOf
        <4> QED
          BY <4>2, <4>3
      <3> QED
        BY <1>4, <3>3, <3>4
    <2> QED
      BY <2>3, <2>4
  <1>8. CASE BeginForm
    BY <1>8 DEF BeginForm, Begun, IInv, Plain
  <1>9. CASE \/ DefGlobal \/ Jump \/ MakeClosure \/ CallBin \/ CallClosure \/ RetcallBin
             \/ RetcallSelf \/ RetcallClosure \/ Ret \/ Panic
             \/ Wild \/ Reject \/ Abort \/ Lose \/ EndSession \/ UNCHANGED vars
    <2>1. vecs' = vecs
      BY <1>9, Zenon DEF DefGlobal, Jump, MakeClosure, CallBin, CallClosure, Enters, RetcallBin,
         RetcallSelf, RetcallClosure, Ret, Panic, RetPop, FormEnds, ReturnsInto,
         Wild, Reject, Abort, Lose, EndSession, machine, vars
    <2> QED
      BY <2>1
  <1> QED
    BY <1>5, <1>6, <1>7, <1>8, <1>9 DEF Next, Step

(* The locals of a function that waits for a call to return are its own,   *)
(* of every session whose code is well formed: no PUSH of an argument, no  *)
(* SET of a local variable of another call and no tail call changes them.  *)
THEOREM WaitingLocalsKept == Spec => CallerLocalsKept
  <1>1. IInv /\ [Next]_vars =>
          [\A i \in 1..Len(frames) - 1 :
              \/ vecs'[frames[i].vars] = vecs[frames[i].vars]
              \/ Instr[1] = "SET" /\ Instr[2][1] = "K"]_vars
    BY StepKeepsLocals
  <1> QED
    BY <1>1, AlwaysIInv, PTL DEF Spec, CallerLocalsKept

-----------------------------------------------------------------------------
(* Where closures saved what lexical scope gives them, every operand is    *)
(* inside its vector.                                                      *)
LEMMA InBounds ==
    ASSUME IInv, RunsCode, "capture" \notin deviations, NEW o \in Reads
    PROVE  ~OutOfBounds(o)
  <1>1. OperandOK(image, Uniq, o)
    BY OperandsOK
  <1>2. /\ Top.vars \in DOMAIN Sizes(vecs) /\ Sizes(vecs)[Top.vars] = image.code[Uniq].fvc
        /\ ClosureOK(ClTop, image, Sizes(vecs), deviations, form)
        /\ FunctionOK(image, Uniq)
    BY AtInstr, TopClosure
  <1>3. \A k \in DOMAIN Sizes(vecs) : Sizes(vecs)[k] = Len(vecs[k])
    BY DEF Sizes
  <1>4. CASE o[1] = "L"
    <2>1. o[2] \in 0..image.code[Uniq].fvc - 1 /\ image.code[Uniq].fvc \in Nat
      BY <1>1, <1>2, <1>4 DEF OperandOK, FunctionOK
    <2>2. Len(vecs[VecOf(o)]) = image.code[Uniq].fvc /\ IndexOf(o) = o[2] + 1
      BY <1>2, <1>3, <1>4 DEF VecOf, IndexOf
    <2> QED
      BY <1>4, <2>1, <2>2 DEF OutOfBounds
  <1>5. CASE o[1] = "K"
    <2> DEFINE around == image.around[Uniq]
               frmax == image.code[Uniq].frmax
    <2>1. o[2] \in 1..frmax /\ o[3] \in 0..around[o[2]] - 1
      BY <1>1, <1>5 DEF OperandOK
    <2>2. frmax \in 0..Len(around) /\ around \in Seq(Nat)
      BY <1>2 DEF FunctionOK
    <2>3. /\ Len(ClTop[3]) = frmax /\ ClTop[3][o[2]] = ClTop[5][o[2]]
          /\ ClTop[3] \in Seq(DOMAIN Sizes(vecs))
          /\ \A i \in 1..Len(around) : Sizes(vecs)[ClTop[5][i]] = around[i]
      BY <1>2, <2>1 DEF ClosureOK, Uniq
    <2>4. o[2] \in 1..Len(around) /\ around[o[2]] \in Nat
      <3>1. PICK a : a = around
        OBVIOUS
      <3>2. PICK m : m = frmax
        OBVIOUS
      <3>3. a \in Seq(Nat) /\ m \in 0..Len(a) /\ o[2] \in 1..m
        BY <2>1, <2>2, <3>1, <3>2
      <3>4. Len(a) \in Nat /\ \A i \in 1..Len(a) : a[i] \in Nat
        BY <3>3
      <3>5. o[2] \in 1..Len(a)
        BY <3>3, <3>4
      <3> QED
        BY <3>1, <3>4, <3>5
    <2>5. ClTop[3][o[2]] \in DOMAIN Sizes(vecs)
      BY <2>1, <2>3
    <2>6. Len(vecs[VecOf(o)]) = around[o[2]] /\ IndexOf(o) = o[3] + 1
      BY <1>3, <1>5, <2>3, <2>4, <2>5 DEF VecOf, IndexOf
    <2>7. ~(o[2] > Len(ClTop[3]))
      BY <2>1, <2>2, <2>3
    <2>8. ~(IndexOf(o) > Len(vecs[VecOf(o)]))
      <3>1. PICK a \in Nat : a = around[o[2]]
        BY <2>4
      <3>2. o[3] \in 0..a - 1
        BY <2>1, <3>1
      <3>3. ~(o[3] + 1 > a)
        BY <3>2
      <3> QED
        BY <2>6, <3>1, <3>3
    <2> QED
      BY <1>5, <2>7, <2>8 DEF OutOfBounds
  <1> QED
    BY <1>4, <1>5 DEF OutOfBounds

(* A slot outside its vector is touched only after LAMBDA took a wrong     *)
(* vector from the callers' frames, of every session whose code is well    *)
(* formed.                                                                 *)
THEOREM OutsideOnlyAfterCapture == Spec => []WildOnlyAfterCapture
  <1>1. IInv => WildOnlyAfterCapture
    BY InBounds DEF WildOnlyAfterCapture, ReachesOutside
  <1> QED
    BY <1>1, AlwaysIInv, PTL

(* A function without code runs only in the console, after a form that was *)
(* given up, of every session whose code is well formed.                   *)
THEOREM NothingRunsOnlyAtConsole == Spec => []UnfinishedOnlyAtConsole
  <1>1. ASSUME IInv PROVE UnfinishedOnlyAtConsole
    <2> SUFFICES ASSUME RunsNothing
                 PROVE  image.console /\ \E i \in 1..form : image.forms[i].status = "fatal"
      BY DEF UnfinishedOnlyAtConsole
    <2>1. pc = "run" /\ Icode = <<>>
      BY <1>1, TopClosure DEF RunsNothing
    <2>2. FunctionOK(image, Uniq) /\ ClosureOK(ClTop, image, Sizes(vecs), deviations, form)
      BY <1>1, <2>1, TopClosure
    <2>3. Uniq \notin Finished(image)
      BY <2>1, <2>2 DEF FunctionOK, Icode
    <2>4. GaveUp(image, form)
      BY <2>2, <2>3 DEF ClosureOK, Uniq
    <2> QED
      BY <2>4 DEF GaveUp
  <1> QED
    BY <1>1, AlwaysIInv, PTL
=============================================================================
