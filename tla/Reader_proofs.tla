--------------------------- MODULE Reader_proofs ---------------------------
(***************************************************************************)
(* Theorems about Lexer and Reader, for any texts.                         *)
(***************************************************************************)
EXTENDS Reader, LeastNumber, SequenceTheorems

LEMMA MinIs ==
    ASSUME NEW S \in SUBSET Nat, S # {}
    PROVE  Min(S) \in S /\ \A m \in S : Min(S) <= m
  BY LeastNatural DEF Min

-----------------------------------------------------------------------------
(* The lexer.  Where it looks for something it finds it in the text, or    *)
(* stops at its end.                                                       *)
LEMMA FirstIs ==
    ASSUME NEW t \in Seq(Char), NEW i \in Nat \ {0}, NEW S
    PROVE  /\ First(t, i, S) \in 1..Len(t) + 1
           /\ i <= Len(t) + 1 => First(t, i, S) >= i
           /\ i > Len(t) => First(t, i, S) = Len(t) + 1
           /\ i \in 1..Len(t) /\ t[i] \notin S => First(t, i, S) > i
  <1> DEFINE hits == {j \in i..Len(t) : t[j] \in S}
  <1>1. hits \in SUBSET Nat /\ Len(t) \in Nat
    OBVIOUS
  <1>2. CASE hits = {}
    BY <1>1, <1>2 DEF First
  <1>3. CASE hits # {}
    <2>1. Min(hits) \in hits
      BY <1>1, <1>3, MinIs
    <2>2. First(t, i, S) = Min(hits)
      BY <1>3 DEF First
    <2> QED
      BY <1>1, <2>1, <2>2
  <1> QED
    BY <1>2, <1>3

LEMMA PastIs ==
    ASSUME NEW t \in Seq(Char), NEW i \in 1..Len(t) + 1, NEW S
    PROVE  Past(t, i, S) \in i..Len(t) + 1
  <1> DEFINE others == {j \in i..Len(t) : t[j] \notin S}
  <1>1. others \in SUBSET Nat /\ Len(t) \in Nat
    OBVIOUS
  <1>2. CASE others = {}
    BY <1>1, <1>2 DEF Past
  <1>3. CASE others # {}
    <2>1. Min(others) \in others
      BY <1>1, <1>3, MinIs
    <2>2. Past(t, i, S) = Min(others)
      BY <1>3 DEF Past
    <2> QED
      BY <1>1, <2>1, <2>2
  <1> QED
    BY <1>2, <1>3

LEMMA AtIs ==
    ASSUME NEW t \in Seq(Char), NEW i \in Nat
    PROVE  /\ i \in 1..Len(t) => At(t, i) = t[i] /\ t[i] \in Char /\ At(t, i) # EOF
           /\ i \notin 1..Len(t) => At(t, i) = EOF
  <1>1. EOF \notin Char
    BY DEF EOF, Char, Digit, Control, Delim, Whitespace, LineEnding, Initial, Letter
  <1> QED
    BY <1>1 DEF At

LEMMA AfterLineIs ==
    ASSUME NEW t \in Seq(Char), NEW i \in 1..Len(t)
    PROVE  AfterLine(t, i) \in i + 1..Len(t) + 1
  <1>1. First(t, i + 1, LineEnding) \in i + 1..Len(t) + 1
    BY FirstIs
  <1> DEFINE ends == {First(t, i + 1, LineEnding) + 1, Len(t) + 1}
  <1>2. ends \in SUBSET Nat /\ ends # {} /\ Len(t) + 1 \in ends
    BY <1>1
  <1>3. Min(ends) \in ends /\ \A m \in ends : Min(ends) <= m
    BY <1>2, MinIs
  <1>4. Min(ends) \in i + 1..Len(t) + 1
    BY <1>1, <1>2, <1>3
  <1> QED
    BY <1>4 DEF AfterLine

(* LexemeStart is a recursion from the end of the text: what it is at a    *)
(* position depends on what it is at later ones.                           *)
LEMMA LexemeStartIs ==
    ASSUME NEW t \in Seq(Char), NEW p \in 1..Len(t) + 1
    PROVE  LexemeStart(t, p) \in p..Len(t) + 1
  <1> SUFFICES ASSUME NEW n \in Nat, n = Len(t) PROVE LexemeStart(t, p) \in p..n + 1
    OBVIOUS
  <1> DEFINE Turn(g, i) ==
                 LET j == Past(t, i, Whitespace)
                 IN CASE At(t, j) = ";" -> g[AfterLine(t, j)]
                      [] At(t, j) = "#" /\ At(t, j + 1) = "|" /\ Closings(t, j) # {} ->
                             g[Min(Closings(t, j)) + 1]
                      [] OTHER -> j
             Rec(m, g) == g = [i \in m..n + 1 |-> Turn(g, i)]
             Bounded(m, g) == \A i \in m..n + 1 : g[i] \in i..n + 1
             start == CHOOSE g : Rec(1, g)
             P == {k \in 0..n : \E g : Rec(n + 1 - k, g)}
             Q == {k \in 0..n : Bounded(n + 1 - k, start)}
  <1>1. LexemeStart(t, p) = start[p]
    BY DEF LexemeStart
  <1>2. ASSUME NEW i \in 1..n + 1, NEW j, j = Past(t, i, Whitespace)
        PROVE  /\ j \in i..n + 1
               /\ At(t, j) = ";" => AfterLine(t, j) \in i + 1..n + 1
               /\ Closings(t, j) # {} => Min(Closings(t, j)) + 1 \in i + 1..n + 1
               /\ i = n + 1 => j = n + 1 /\ At(t, j) = EOF
    <2>1. j \in i..n + 1
      BY <1>2, PastIs
    <2>2. j \notin 1..n => At(t, j) = EOF
      BY <2>1, AtIs
    <2>3. j \in 1..n => AfterLine(t, j) \in j + 1..n + 1
      BY AfterLineIs
    <2>4. Closings(t, j) \in SUBSET Nat /\ \A m \in Closings(t, j) : m \in j + 3..n
      BY <2>1 DEF Closings
    <2>5. Closings(t, j) # {} => Min(Closings(t, j)) \in j + 3..n
      BY <2>4, MinIs
    <2>6. ASSUME At(t, j) = ";" PROVE AfterLine(t, j) \in i + 1..n + 1
      <3>1. j \in 1..n
        BY <2>2, <2>6 DEF EOF
      <3>2. AfterLine(t, j) \in j + 1..n + 1
        BY <2>3, <3>1
      <3> QED
        BY <2>1, <3>2
    <2>7. Closings(t, j) # {} => Min(Closings(t, j)) + 1 \in i + 1..n + 1
      <3> HIDE DEF Closings
      <3> QED
        BY <2>1, <2>5
    <2>8. i = n + 1 => j = n + 1 /\ At(t, j) = EOF
      BY <2>1, <2>2
    <2> QED
      BY <2>1, <2>6, <2>7, <2>8
  <1>3. ASSUME NEW i \in 1..n + 1, NEW g, NEW h, \A k \in i + 1..n + 1 : h[k] = g[k]
        PROVE  Turn(h, i) = Turn(g, i)
    <2> DEFINE j == Past(t, i, Whitespace)
    <2>1. /\ At(t, j) = ";" => h[AfterLine(t, j)] = g[AfterLine(t, j)]
          /\ Closings(t, j) # {} => h[Min(Closings(t, j)) + 1] = g[Min(Closings(t, j)) + 1]
      BY <1>2, <1>3
    <2> HIDE DEF j
    <2>2. Turn(h, i) = Turn(g, i)
      BY <2>1 DEF j
    <2> QED
      BY <2>2
  <1>4. ASSUME NEW i \in 1..n + 1, NEW g, \A k \in i + 1..n + 1 : g[k] \in k..n + 1
        PROVE  Turn(g, i) \in i..n + 1
    <2> DEFINE j == Past(t, i, Whitespace)
    <2>0. /\ j \in i..n + 1
          /\ At(t, j) = ";" => AfterLine(t, j) \in i + 1..n + 1
          /\ Closings(t, j) # {} => Min(Closings(t, j)) + 1 \in i + 1..n + 1
      BY <1>2
    <2>1. /\ At(t, j) = ";" => g[AfterLine(t, j)] \in i..n + 1
          /\ Closings(t, j) # {} => g[Min(Closings(t, j)) + 1] \in i..n + 1
          /\ j \in i..n + 1
      <3> HIDE DEF j
      <3>1. \A k \in i + 1..n + 1 : k..n + 1 \subseteq i..n + 1
        OBVIOUS
      <3> QED
        BY <1>4, <2>0, <3>1
    <2>2. CASE At(t, j) = ";"
      BY <2>1, <2>2
    <2>3. CASE At(t, j) = "#" /\ At(t, j + 1) = "|" /\ Closings(t, j) # {}
      BY <2>1, <2>3
    <2>4. CASE At(t, j) # ";" /\ ~(At(t, j) = "#" /\ At(t, j + 1) = "|" /\ Closings(t, j) # {})
      BY <2>1, <2>4
    <2> QED
      BY <2>2, <2>3, <2>4
  <1>5. ASSUME NEW g PROVE Turn(g, n + 1) = n + 1
    <2> DEFINE j == Past(t, n + 1, Whitespace)
    <2>1. j = n + 1 /\ At(t, j) = EOF
      <3>1. n + 1 \in 1..n + 1
        OBVIOUS
      <3> QED
        BY <1>2, <3>1
    <2>2. At(t, j) # ";" /\ At(t, j) # "#"
      BY <2>1 DEF EOF
    <2> QED
      BY <2>1, <2>2
  <1> HIDE DEF Turn
  <1>6. 0 \in P
    <2> DEFINE g == [i \in n + 1..n + 1 |-> Turn(<<>>, i)]
    <2>1. ASSUME NEW i \in n + 1..n + 1 PROVE g[i] = Turn(g, i)
      BY <1>3, <2>1
    <2>2. g = [i \in n + 1..n + 1 |-> Turn(g, i)]
      BY <2>1
    <2> HIDE DEF g
    <2>3. Rec(n + 1, g) /\ n + 1 - 0 = n + 1
      BY <2>2
    <2> QED
      BY <2>3
  <1>7. ASSUME NEW k \in 0..n - 1, k \in P PROVE k + 1 \in P
    <2> DEFINE m == n + 1 - k
    <2>1. PICK g : Rec(m, g)
      BY <1>7
    <2>2. m \in 2..n + 1 /\ m - 1 \in 1..n + 1
      OBVIOUS
    <2> HIDE DEF m
    <2> DEFINE h == [i \in m - 1..n + 1 |-> IF i = m - 1 THEN Turn(g, i) ELSE g[i]]
    <2>3. ASSUME NEW i \in m - 1..n + 1 PROVE h[i] = Turn(h, i)
      <3>1. i \in 1..n + 1 /\ \A l \in i + 1..n + 1 : h[l] = g[l]
        BY <2>2
      <3>2. Turn(h, i) = Turn(g, i)
        BY <1>3, <3>1
      <3>3. i # m - 1 => i \in m..n + 1 /\ g[i] = Turn(g, i)
        BY <2>1, <2>2
      <3> QED
        BY <3>2, <3>3
    <2>4. h = [i \in m - 1..n + 1 |-> Turn(h, i)]
      BY <2>3
    <2> HIDE DEF h
    <2>5. m - 1 = n + 1 - (k + 1) /\ k + 1 \in 0..n
      BY DEF m
    <2>6. Rec(n + 1 - (k + 1), h)
      BY <2>4, <2>5
    <2> QED
      BY <2>5, <2>6
  <1> HIDE DEF P
  <1>8. n \in P
    BY <1>6, <1>7, UpTo
  <1> USE DEF P
  <1>9. \E g : Rec(1, g)
    <2>1. n + 1 - n = 1
      OBVIOUS
    <2> QED
      BY <1>8, <2>1
  <1>10. Rec(1, start)
    BY <1>9
  <1>11. \A i \in 1..n + 1 : start[i] = Turn(start, i)
    BY <1>10
  <1> HIDE DEF start
  <1>12. 0 \in Q
    BY <1>5, <1>11
  <1>13. ASSUME NEW k \in 0..n - 1, k \in Q PROVE k + 1 \in Q
    <2> DEFINE i == n + 1 - (k + 1)
    <2>1. i \in 1..n + 1 /\ i + 1 = n + 1 - k /\ k + 1 \in 0..n
      OBVIOUS
    <2>2. \A l \in i + 1..n + 1 : start[l] \in l..n + 1
      BY <1>13, <2>1
    <2> HIDE DEF i
    <2>3. start[i] \in i..n + 1
      BY <1>4, <1>11, <2>1, <2>2
    <2>4. Bounded(i, start)
      BY <2>1, <2>2, <2>3
    <2> QED
      BY <2>1, <2>4 DEF i
  <1> HIDE DEF Q
  <1>14. n \in Q
    BY <1>12, <1>13, UpTo
  <1> USE DEF Q
  <1> QED
    BY <1>1, <1>14

(* The lexemes that may be read from position i on: of one character at    *)
(* least, and of none past the end.                                        *)
LexemesAt(t, i) == [kind : Kind \ {EOF}, text : Seq(Char), next : i + 1..Len(t) + 1]

LEMMA LexemeFits ==
    ASSUME NEW t \in Seq(Char), NEW i \in 1..Len(t), NEW j \in i + 1..Len(t) + 1,
           NEW k \in Kind \ {EOF}
    PROVE  Lexeme(k, t, i, j) \in LexemesAt(t, i)
  <1>1. \A m \in i..j - 1 : t[m] \in Char
    OBVIOUS
  <1>2. SubSeq(t, i, j - 1) \in Seq(Char)
    BY <1>1, SubSeqProperties
  <1> QED
    BY <1>2 DEF Lexeme, LexemesAt

LEMMA ErrorFits ==
    ASSUME NEW t \in Seq(Char), NEW i \in 1..Len(t), NEW c \in Nat,
           c > i \/ (c = i /\ t[i] \notin Delim)
    PROVE  Bad(t, i, c) \in LexemesAt(t, i) /\ Stop(t, i, c) \in LexemesAt(t, i)
  <1>1. First(t, c, Delim) \in i + 1..Len(t) + 1
    BY FirstIs
  <1>2. {"bad", "stop"} \subseteq Kind \ {EOF}
    BY DEF Kind, EOF
  <1> QED
    BY <1>1, <1>2, LexemeFits DEF Bad, Stop

LEMMA IdentifierFits ==
    ASSUME NEW t \in Seq(Char), NEW i \in 1..Len(t)
    PROVE  lex_read_identifier(t, i) \in LexemesAt(t, i)
  <1> DEFINE c == t[i]
             ends == {k \in i + 1..i + 3 : k = i + 3 \/ At(t, k) # "."}
             dots == Min(ends)
             peculiar == c \in {"+", "."} \/ (c = "-" /\ At(t, i + 1) # ">")
             next == IF c = "." THEN dots ELSE IF peculiar THEN i + 1 ELSE First(t, i + 1, Delim)
  <1>1. dots \in i + 1..Len(t) + 1
    <2>1. ends \in SUBSET Nat /\ i + 3 \in ends
      OBVIOUS
    <2>2. dots \in ends /\ \A m \in ends : dots <= m
      BY <2>1, MinIs
    <2>3. Len(t) + 1 \in i + 1..i + 3 => Len(t) + 1 \in ends
      BY AtIs DEF EOF
    <2> HIDE DEF dots
    <2> QED
      BY <2>2, <2>3
  <1>2. First(t, i + 1, Delim) \in i + 1..Len(t) + 1
    BY FirstIs
  <1> HIDE DEF dots
  <1>3. next \in i + 1..Len(t) + 1
    BY <1>1, <1>2
  <1>4. Lexeme("id", t, i, next) \in LexemesAt(t, i)
    BY <1>3, LexemeFits DEF Kind, Atom, EOF
  <1>5. Bad(t, i, next) \in LexemesAt(t, i)
    <2>1. next \in Nat /\ next > i
      BY <1>3
    <2> HIDE DEF next
    <2> QED
      BY <2>1, ErrorFits
  <1>6. lex_read_identifier(t, i) \in {Lexeme("id", t, i, next), Bad(t, i, next)}
    BY DEF lex_read_identifier, dots
  <1> QED
    BY <1>4, <1>5, <1>6

LEMMA NumberFits ==
    ASSUME NEW t \in Seq(Char), NEW i \in 1..Len(t),
           IF t[i] = "#" THEN i < Len(t) ELSE t[i] \notin Delim
    PROVE  lex_read_number(t, i) \in LexemesAt(t, i)
  <1> DEFINE prefixed == t[i] = "#"
             second == prefixed /\ At(t, i + 2) = "#"
             sign == i + (IF second THEN 4 ELSE IF prefixed THEN 2 ELSE 0)
             body == IF At(t, sign) \in {"+", "-"} THEN sign + 1 ELSE sign
             start == Min({body, Len(t)})
             next == First(t, start, Delim)
  <1>1. /\ body \in Nat
        /\ IF t[i] = "#" THEN body >= i + 2 ELSE body \in i..i + 1
    OBVIOUS
  <1> HIDE DEF body
  <1>2. start \in {body, Len(t)} /\ start <= body /\ start <= Len(t)
    <2> DEFINE ends == {body, Len(t)}
    <2>1. ends \in SUBSET Nat /\ ends # {} /\ body \in ends /\ Len(t) \in ends
      BY <1>1
    <2>2. Min(ends) \in ends /\ \A m \in ends : Min(ends) <= m
      BY <2>1, MinIs
    <2> QED
      BY <2>1, <2>2
  <1> HIDE DEF start
  <1>3. start \in 1..Len(t) /\ (start > i \/ (start = i /\ t[i] \notin Delim))
    BY <1>1, <1>2
  <1>4. next \in i + 1..Len(t) + 1
    BY <1>3, FirstIs
  <1> HIDE DEF next
  <1>5. Lexeme("num", t, i, next) \in LexemesAt(t, i)
    BY <1>4, LexemeFits DEF Kind, Atom, EOF
  <1>6. Bad(t, i, i + 3) \in LexemesAt(t, i)
    BY ErrorFits
  <1>7. Bad(t, i, start) \in LexemesAt(t, i)
    BY <1>3, ErrorFits
  <1>8. lex_read_number(t, i) \in {Lexeme("num", t, i, next), Bad(t, i, i + 3), Bad(t, i, start)}
    BY DEF lex_read_number, next, start, body
  <1> QED
    BY <1>5, <1>6, <1>7, <1>8

LEMMA CharFits ==
    ASSUME NEW t \in Seq(Char), NEW i \in 1..Len(t)
    PROVE  lex_read_char(t, i) \in LexemesAt(t, i)
  <1> DEFINE next == IF EndsAt(t, i + 3) THEN Min({i + 3, Len(t) + 1}) ELSE First(t, i + 3, Delim)
             ends == {i + 3, Len(t) + 1}
  <1>1. Min({i + 3, Len(t) + 1}) \in i + 1..Len(t) + 1
    <2>1. ends \in SUBSET Nat /\ ends # {} /\ Len(t) + 1 \in ends
      OBVIOUS
    <2>2. Min(ends) \in ends /\ \A m \in ends : Min(ends) <= m
      BY <2>1, MinIs
    <2> QED
      BY <2>1, <2>2
  <1>2. First(t, i + 3, Delim) \in i + 1..Len(t) + 1
    <2>1. i + 3 \in Nat \ {0} /\ Len(t) \in Nat
      OBVIOUS
    <2>2. CASE i + 3 <= Len(t) + 1
      BY <2>1, <2>2, FirstIs
    <2>3. CASE i + 3 > Len(t)
      BY <2>1, <2>3, FirstIs
    <2> QED
      BY <2>1, <2>2, <2>3
  <1>3. next \in i + 1..Len(t) + 1
    BY <1>1, <1>2
  <1> HIDE DEF next
  <1>4. Lexeme("char", t, i, next) \in LexemesAt(t, i)
    BY <1>3, LexemeFits DEF Kind, Atom, EOF
  <1>5. Bad(t, i, next) \in LexemesAt(t, i)
    BY <1>3, ErrorFits
  <1>6. lex_read_char(t, i) \in {Lexeme("char", t, i, next), Bad(t, i, next)}
    BY DEF lex_read_char, next
  <1> QED
    BY <1>4, <1>5, <1>6

LEMMA StringFits ==
    ASSUME NEW t \in Seq(Char), NEW i \in 1..Len(t)
    PROVE  lex_read_string(t, i) \in LexemesAt(t, i)
  <1> DEFINE Quote(j) == t[j] = "\"" /\ ~Escaped(t, i, j)
             quotes == {j \in i + 1..Len(t) : Quote(j)}
             next == IF quotes = {} THEN Len(t) + 1 ELSE Min(quotes) + 1
  <1> HIDE DEF Quote
  <1>1. quotes \in SUBSET Nat /\ \A j \in quotes : j \in i + 1..Len(t)
    OBVIOUS
  <1>2. quotes # {} => Min(quotes) \in i + 1..Len(t)
    BY <1>1, MinIs
  <1> HIDE DEF quotes
  <1>3. next \in i + 1..Len(t) + 1
    BY <1>2
  <1> HIDE DEF next
  <1>4. Lexeme("string", t, i, next) \in LexemesAt(t, i)
    BY <1>3, LexemeFits DEF Kind, Atom, EOF
  <1>5. Bad(t, i, next) \in LexemesAt(t, i)
    BY <1>3, ErrorFits
  <1>6. lex_read_string(t, i) \in {Lexeme("string", t, i, next), Bad(t, i, next)}
    BY DEF lex_read_string, next, quotes, Quote
  <1> QED
    BY <1>4, <1>5, <1>6

LEMMA HashFits ==
    ASSUME NEW t \in Seq(Char), NEW i \in 1..Len(t), t[i] = "#"
    PROVE  lex_read_hash(t, i) \in LexemesAt(t, i)
  <1> DEFINE c == At(t, i + 1)
             word == <<"u", "8", "(">>
             others == {k \in i + 2..i + 4 : At(t, k) # word[k - i - 1]}
             Within(l) == l \in LexemesAt(t, i)
  <1>1. c # EOF => i < Len(t)
    BY AtIs
  <1>2. Within(Bad(t, i, i + 1)) /\ Within(Bad(t, i, i + 2))
    BY ErrorFits
  <1>3. i < Len(t) => Within(lex_read_number(t, i))
    BY NumberFits
  <1>4. i < Len(t) => \A k \in {"#(", "const", "#;"} : Within(Lexeme(k, t, i, i + 2))
    <2>1. {"#(", "const", "#;"} \subseteq Kind \ {EOF}
      BY DEF Kind, Atom, Opens, Round, EOF
    <2>2. i < Len(t) => i + 2 \in i + 1..Len(t) + 1
      OBVIOUS
    <2> QED
      BY <2>1, <2>2, LexemeFits
  <1>5. Matches(t, i + 2, word) => Within(Lexeme("#vu8(", t, i, i + 5))
    <2>1. Matches(t, i + 2, word) => At(t, i + 4) = "("
      BY DEF Matches
    <2>2. Matches(t, i + 2, word) => i + 4 <= Len(t)
      BY <2>1, AtIs DEF EOF
    <2>3. Matches(t, i + 2, word) => i + 5 \in i + 1..Len(t) + 1
      BY <2>2
    <2>4. "#vu8(" \in Kind \ {EOF}
      BY DEF Kind, Opens, Round, EOF
    <2> QED
      BY <2>3, <2>4, LexemeFits
  <1>6. ~Matches(t, i + 2, word) => Within(Bad(t, i, Min(others)))
    <2>1. others \in SUBSET Nat /\ \A k \in others : k \in Nat /\ k > i
      OBVIOUS
    <2>2. ASSUME ~Matches(t, i + 2, word) PROVE others # {}
      <3>1. PICK k \in 1..3 : At(t, i + 2 + k - 1) # word[k]
        BY <2>2 DEF Matches
      <3>2. i + 2 + k - 1 \in others
        BY <3>1
      <3> QED
        BY <3>2
    <2> HIDE DEF others
    <2>3. ~Matches(t, i + 2, word) => Min(others) \in others
      BY <2>1, <2>2, MinIs
    <2>4. ~Matches(t, i + 2, word) => Min(others) \in Nat /\ Min(others) > i
      BY <2>1, <2>3
    <2> QED
      BY <2>4, ErrorFits
  <1>7. Within(lex_read_char(t, i))
    BY CharFits
  <1>8. Within(Stop(t, i, Len(t) + 1))
    BY ErrorFits
  <1>9. EOF \notin NumAfterHash \cup {"(", "v", "t", "f", "\\", "|", ";"}
    BY DEF EOF, NumAfterHash, Precision
  <1>10. /\ c \in NumAfterHash => Within(lex_read_number(t, i))
         /\ c = "(" => Within(Lexeme("#(", t, i, i + 2))
         /\ c \in {"t", "f"} => Within(Lexeme("const", t, i, i + 2))
         /\ c = ";" => Within(Lexeme("#;", t, i, i + 2))
    BY <1>1, <1>3, <1>4, <1>9
  <1> DEFINE vector == IF Matches(t, i + 2, word) THEN Lexeme("#vu8(", t, i, i + 5)
                       ELSE Bad(t, i, Min(others))
  <1>11. Within(vector)
    BY <1>5, <1>6
  <1>12. lex_read_hash(t, i) =
           CASE c \in Whitespace -> Bad(t, i, i + 1)
             [] c \in NumAfterHash -> lex_read_number(t, i)
             [] c = "(" -> Lexeme("#(", t, i, i + 2)
             [] c = "v" -> vector
             [] c \in {"t", "f"} -> Lexeme("const", t, i, i + 2)
             [] c = "\\" -> lex_read_char(t, i)
             [] c = "|" -> Stop(t, i, Len(t) + 1)
             [] c = ";" -> Lexeme("#;", t, i, i + 2)
             [] OTHER -> Bad(t, i, i + 2)
    BY DEF lex_read_hash
  <1> HIDE DEF c, vector, Within
  <1>13. Within(lex_read_hash(t, i))
    BY <1>2, <1>7, <1>8, <1>10, <1>11, <1>12
  <1> QED
    BY <1>13 DEF Within

(* What is read at a position: the end of the text there, and a lexeme of  *)
(* one character at least everywhere else.                                 *)
LEMMA LexemeIs ==
    ASSUME NEW t \in Seq(Char), NEW i \in 1..Len(t) + 1
    PROVE  IF i = Len(t) + 1 THEN pars_read_lexeme(t, i) = Lexeme(EOF, t, i, i)
           ELSE pars_read_lexeme(t, i) \in LexemesAt(t, i)
  <1> DEFINE c == At(t, i)
             d == At(t, i + 1)
             Within(l) == l \in LexemesAt(t, i)
             Numeric == \/ c \in Digit
                        \/ c \in {"+", "-"} /\ d \in NumAfterSign
                        \/ c = "." /\ d \in Digit
  <1>1. CASE i = Len(t) + 1
    <2>1. c = EOF
      BY <1>1, AtIs
    <2>2. EOF \notin Digit \cup {"+", "-", ".", ",", "{", "}", "\"", "#"} \cup Punctuation \cup Control
      BY DEF EOF, Digit, Punctuation, Control
    <2> QED
      BY <1>1, <2>1, <2>2 DEF pars_read_lexeme
  <1>2. CASE i # Len(t) + 1
    <2>1. i \in 1..Len(t) /\ c = t[i] /\ c # EOF
      BY <1>2, AtIs
    <2>2. Numeric => c \notin Delim /\ c # "#"
      BY DEF Digit, Delim, Whitespace, LineEnding
    <2>3. Numeric => Within(lex_read_number(t, i))
      BY <2>1, <2>2, NumberFits
    <2>4. Punctuation \cup {"."} \subseteq Kind \ {EOF}
      BY DEF Punctuation, Kind, Opens, Round, Closes, Quotation, EOF
    <2>5. \A k \in Punctuation \cup {"."} : Within(Lexeme(k, t, i, i + 1))
      BY <2>1, <2>4, LexemeFits
    <2>6. d = "@" => Within(Lexeme(",@", t, i, i + 2))
      <3>1. d = "@" => i + 1 <= Len(t)
        BY <2>1, AtIs DEF EOF
      <3>2. ",@" \in Kind \ {EOF}
        BY DEF Kind, Quotation, EOF
      <3>3. d = "@" => i + 2 \in i + 1..Len(t) + 1
        BY <3>1
      <3> QED
        BY <2>1, <3>2, <3>3, LexemeFits
    <2>7. Within(Stop(t, i, i + 1)) /\ Within(Bad(t, i, i + 1))
      BY <2>1, ErrorFits
    <2>8. Within(lex_read_string(t, i)) /\ Within(lex_read_identifier(t, i))
      BY <2>1, StringFits, IdentifierFits
    <2>9. c = "#" => Within(lex_read_hash(t, i))
      BY <2>1, HashFits
    <2>10. pars_read_lexeme(t, i) =
             CASE c = EOF -> Lexeme(EOF, t, i, i)
               [] Numeric -> lex_read_number(t, i)
               [] c = "." /\ EndsAt(t, i + 1) -> Lexeme(".", t, i, i + 1)
               [] c = "," /\ d = "@" -> Lexeme(",@", t, i, i + 2)
               [] c \in Punctuation /\ ~(c = "," /\ d = "@") -> Lexeme(c, t, i, i + 1)
               [] c \in {"{", "}"} -> Stop(t, i, i + 1)
               [] c = "\"" -> lex_read_string(t, i)
               [] c = "#" -> lex_read_hash(t, i)
               [] c \in Control -> Bad(t, i, i + 1)
               [] OTHER -> lex_read_identifier(t, i)
      BY DEF pars_read_lexeme
    <2> HIDE DEF c, d, Within, Numeric
    <2>11. Within(pars_read_lexeme(t, i))
      BY <2>1, <2>3, <2>5, <2>6, <2>7, <2>8, <2>9, <2>10
    <2> QED
      BY <1>2, <2>11 DEF Within
  <1> QED
    BY <1>1, <1>2

-----------------------------------------------------------------------------
(* Types.  What waits for a datum, step by step: brackets to add it to     *)
(* their items, to drop it with the comment it is, or for a dotted tail.   *)
Frames ==
    {f \in Waiting :
        /\ f.step \in {"add", "drop", "tail"} <=> f.kind \in Opens
        /\ f.step = "skip" <=> f.kind = "#;"
        /\ f.step = "tail" => f.kind \in {"(", "["} /\ f.items # <<>>
        /\ f.step \in {"add", "drop"} => f.tail = NIHIL}

(* What a step of the reader leaves: calls that fit what is to come next;  *)
(* and a call that waits gets no datum only at the end of the text.        *)
Waits(end) ==
    /\ stack \in Seq(Frames) /\ value \in Seq(Token)
    /\ errLex \in BOOLEAN /\ errDat \in BOOLEAN
    /\ pc \in {"lex", "return"}
    /\ want \in {"datum", "item", "item_after_comment", "close"}
    /\ pc = "lex" /\ want # "datum" =>
          stack # <<>> /\ Top.step = IF want = "close" THEN "tail" ELSE "add"
    /\ pc = "return" /\ value = NIHIL /\ stack # <<>> => end

ReaderInv ==
    /\ TypeOK
    /\ input \in Inputs
    /\ stack \in Seq(Frames)
    /\ pc \in {"lex", "return"} => Waits(Eof)
    /\ pc \notin {"lex", "return"} => stack = <<>>

LEMMA FramesWait ==
    ASSUME NEW st \in Seq(Frames)
    PROVE  st \in Seq(Waiting) /\ (st # <<>> => st[Len(st)] \in Frames)
  <1>1. Frames \subseteq Waiting
    BY DEF Frames
  <1> QED
    BY <1>1

LEMMA SignIs ==
    ASSUME NEW k \in Kind
    PROVE  Sign(k) \in Token
  BY DEF Sign, Token

LEMMA DataAreSequences ==
    /\ \A k \in Round, items \in Seq(Token) :
          Bracketed(k, items) \in Seq(Token) /\ Bracketed(k, items) # NIHIL
    /\ \A k \in Quotation, datum \in Seq(Token) :
          Quoted(k, datum) \in Seq(Token) /\ Quoted(k, datum) # NIHIL
    /\ \A items \in Seq(Token), tail \in Seq(Token) : Chain(items, tail) \in Seq(Token)
  <1>1. ASSUME NEW k \in Round, NEW items \in Seq(Token)
        PROVE  Bracketed(k, items) \in Seq(Token) /\ Bracketed(k, items) # NIHIL
    <2>1. Sign(k) \in Token /\ Sign(")") \in Token
      BY SignIs DEF Kind, Opens, Closes
    <2>2. <<Sign(k)>> \o items \in Seq(Token) /\ Len(<<Sign(k)>> \o items) = Len(items) + 1
      BY <2>1
    <2>3. Len(Bracketed(k, items)) = Len(items) + 2 /\ Bracketed(k, items) \in Seq(Token)
      BY <2>1, <2>2 DEF Bracketed
    <2> QED
      BY <2>3 DEF NIHIL
  <1>2. ASSUME NEW k \in Quotation, NEW datum \in Seq(Token)
        PROVE  Quoted(k, datum) \in Seq(Token) /\ Quoted(k, datum) # NIHIL
    <2>1. [kind |-> "id", text |-> <<k>>] \in Token
      <3>1. <<k>> \in Seq(Char \cup Quotation)
        OBVIOUS
      <3> QED
        BY <3>1 DEF Token, Kind, Atom
    <2>2. <<[kind |-> "id", text |-> <<k>>]>> \o datum \in Seq(Token)
      BY <2>1
    <2>3. "(" \in Round
      BY DEF Round
    <2> QED
      BY <1>1, <2>2, <2>3 DEF Quoted
  <1>3. ASSUME NEW items \in Seq(Token), NEW tail \in Seq(Token)
        PROVE  Chain(items, tail) \in Seq(Token)
    <2>1. SubSeq(tail, 2, Len(tail) - 1) \in Seq(Token)
      <3>1. \A i \in 2..Len(tail) - 1 : tail[i] \in Token
        OBVIOUS
      <3> QED
        BY <3>1, SubSeqProperties
    <2>2. items \o SubSeq(tail, 2, Len(tail) - 1) \in Seq(Token)
      BY <2>1
    <2>3. Sign(".") \in Token
      BY SignIs DEF Kind
    <2>4. items \o <<Sign(".")>> \o tail \in Seq(Token)
      BY <2>3
    <2> QED
      BY <2>2, <2>4 DEF Chain
  <1> QED
    BY <1>1, <1>2, <1>3

(* The stack as its top and the rest.                                      *)
LEMMA StackIs ==
    ASSUME stack \in Seq(Frames), stack # <<>>
    PROVE  /\ Caller \in Seq(Frames) /\ Top \in Frames
           /\ stack = Append(Caller, Top)
           /\ \A field \in {"step", "items", "tail"} : \A x :
                 Update(field, x) => stack' = Append(Caller, [Top EXCEPT ![field] = x])
  <1>1. Len(stack) \in Nat /\ Len(stack) >= 1 /\ Top \in Frames
    BY DEF Top
  <1>2. \A i \in 1..Len(stack) - 1 : stack[i] \in Frames
    OBVIOUS
  <1>3. /\ Caller \in Seq(Frames) /\ Len(Caller) = Len(stack) - 1
        /\ \A i \in 1..Len(stack) - 1 : Caller[i] = stack[i]
    <2> DEFINE n == Len(stack) - 1
    <2>1. n \in Nat /\ 1 \in Int /\ \A i \in 1..n : stack[i] \in Frames
      BY <1>1, <1>2
    <2> HIDE DEF n
    <2>2. /\ SubSeq(stack, 1, n) \in Seq(Frames)
          /\ Len(SubSeq(stack, 1, n)) = n
          /\ \A i \in 1..n : SubSeq(stack, 1, n)[i] = stack[i]
      BY <2>1, SubSeqProperties
    <2> QED
      BY <2>2 DEF Caller, n
  <1>4. stack = Append(Caller, Top)
    BY <1>1, <1>3 DEF Top
  <1>5. ASSUME NEW field \in {"step", "items", "tail"}, NEW x, Update(field, x)
        PROVE  stack' = Append(Caller, [Top EXCEPT ![field] = x])
    <2>1. stack' = [stack EXCEPT ![Len(stack)] = [Top EXCEPT ![field] = x]]
      BY <1>5 DEF Update, Top
    <2> QED
      BY <1>1, <1>3, <2>1
  <1> QED
    BY <1>1, <1>3, <1>4, <1>5

LEMMA UpdateIs ==
    ASSUME stack \in Seq(Frames), stack # <<>>
    PROVE  /\ \A x : Update("step", x) => stack' = Append(Caller, [Top EXCEPT !["step"] = x])
           /\ \A x : Update("items", x) => stack' = Append(Caller, [Top EXCEPT !["items"] = x])
           /\ \A x : Update("tail", x) => stack' = Append(Caller, [Top EXCEPT !["tail"] = x])
  <1>1. \A field \in {"step", "items", "tail"} : \A x :
            Update(field, x) => stack' = Append(Caller, [Top EXCEPT ![field] = x])
    BY StackIs
  <1>2. /\ "step" \in {"step", "items", "tail"} /\ "items" \in {"step", "items", "tail"}
        /\ "tail" \in {"step", "items", "tail"}
    OBVIOUS
  <1> QED
    BY ONLY <1>1, <1>2, Zenon

LEMMA FrameIs ==
    /\ \A k \in Opens : Frame(k, "add") \in Frames
    /\ \A k \in Quotation : Frame(k, "quote") \in Frames
    /\ Frame("#;", "skip") \in Frames
  <1>1. <<>> \in Seq(Token)
    OBVIOUS
  <1>2. \A k \in Opens : k \notin Quotation /\ k # "#;"
    BY DEF Opens, Round, Quotation
  <1>3. "#;" \notin Quotation
    BY DEF Quotation
  <1> QED
    BY <1>1, <1>2, <1>3 DEF Frame, Frames, Waiting, NIHIL

LEMMA FrontIs ==
    ASSUME NEW S, NEW st \in Seq(S), NEW f \in S
    PROVE  SubSeq(Append(st, f), 1, Len(st)) = st
  <1> DEFINE n == Len(st)
             whole == Append(st, f)
  <1>1. n \in Nat /\ 1 \in Int /\ \A i \in 1..n : whole[i] \in S /\ whole[i] = st[i]
    OBVIOUS
  <1> HIDE DEF n, whole
  <1>2. /\ SubSeq(whole, 1, n) \in Seq(S)
        /\ Len(SubSeq(whole, 1, n)) = n
        /\ \A i \in 1..n : SubSeq(whole, 1, n)[i] = whole[i]
    BY <1>1, SubSeqProperties
  <1>3. SubSeq(whole, 1, n) = st
    BY <1>1, <1>2 DEF n
  <1> QED
    BY <1>3 DEF n, whole

LEMMA TopIs ==
    ASSUME NEW st \in Seq(Frames), NEW f \in Frames, stack' = Append(st, f)
    PROVE  stack' \in Seq(Frames) /\ stack' # <<>> /\ Top' = f /\ Caller' = st
  <1>1. /\ stack' \in Seq(Frames) /\ Len(stack') = Len(st) + 1
        /\ stack'[Len(st) + 1] = f /\ Len(stack') - 1 = Len(st)
    OBVIOUS
  <1>2. Caller' = st
    BY <1>1, FrontIs DEF Caller
  <1> QED
    BY <1>1, <1>2 DEF Top

LEMMA ThrowWaits ==
    ASSUME Waits(Eof), NEW b \in BOOLEAN, Throw(b)
    PROVE  Waits(FALSE)'
  BY DEF Waits, Throw, NIHIL

LEMMA ReturnWaits ==
    ASSUME Waits(Eof), stack' \in Seq(Frames), NEW datum \in Seq(Token), Return(datum),
           errLex' \in BOOLEAN, errDat' \in BOOLEAN, NEW end \in BOOLEAN, datum # NIHIL \/ end
    PROVE  Waits(end)'
  BY DEF Waits, Return

LEMMA LexForWaits ==
    ASSUME Waits(Eof), NEW st \in Seq(Frames), NEW f \in Frames, stack' = Append(st, f), NoError,
           NEW what \in {"datum", "item", "item_after_comment", "close"}, LexFor(what),
           what # "datum" => f.step = IF what = "close" THEN "tail" ELSE "add"
    PROVE  Waits(FALSE)'
  BY TopIs DEF Waits, LexFor, NoError

LEMMA MatchWaits ==
    ASSUME Waits(Eof), NEW lex \in Token, Match(lex)
    PROVE  Waits(FALSE)'
  <1> USE DEF Waits
  <1>1. CASE lex.kind \in Atom /\ Return(<<lex>>) /\ UNCHANGED stack /\ NoError
    <2>1. <<lex>> \in Seq(Token) /\ <<lex>> # NIHIL
      BY DEF NIHIL
    <2>2. stack' \in Seq(Frames) /\ errLex' \in BOOLEAN /\ errDat' \in BOOLEAN
      BY <1>1 DEF NoError
    <2> HIDE DEF Waits
    <2> QED
      BY <1>1, <2>1, <2>2, ReturnWaits
  <1>2. CASE /\ lex.kind \in Opens
             /\ stack' = Append(stack, Frame(lex.kind, "add")) /\ LexFor("item") /\ NoError
    BY <1>2, FrameIs, LexForWaits DEF Frame
  <1>3. CASE /\ lex.kind \in Quotation
             /\ stack' = Append(stack, Frame(lex.kind, "quote")) /\ LexFor("datum") /\ NoError
    BY <1>3, FrameIs, LexForWaits
  <1>4. CASE /\ lex.kind = "#;"
             /\ stack' = Append(stack, Frame("#;", "skip")) /\ LexFor("datum") /\ NoError
    BY <1>4, FrameIs, LexForWaits
  <1>5. CASE Throw(FALSE)
    BY <1>5, ThrowWaits
  <1> QED
    BY <1>1, <1>2, <1>3, <1>4, <1>5 DEF Match

LEMMA CloseWaits ==
    ASSUME Waits(Eof), pc = "lex", want # "datum", NEW lex \in Token, Close(lex)
    PROVE  Waits(FALSE)'
  <1> USE DEF Waits
  <1> DEFINE bytes == Top.kind = "#vu8(" => \A i \in DOMAIN Top.items : Byte(Top.items[i])
             kind == IF Top.kind = "[" THEN "(" ELSE Top.kind
             datum == IF bytes THEN Bracketed(kind, Chain(Top.items, Top.tail)) ELSE Bracketed("(", <<>>)
  <1>1. Caller \in Seq(Frames) /\ Top \in Frames
    BY StackIs
  <1>2. kind \in Round /\ Top.items \in Seq(Token) /\ Top.tail \in Seq(Token)
    BY <1>1 DEF Frames, Waiting, Opens, Round
  <1>3. datum \in Seq(Token) /\ datum # NIHIL
    <2>1. "(" \in Round /\ <<>> \in Seq(Token)
      BY DEF Round
    <2> QED
      BY <1>2, <2>1, DataAreSequences
  <1>4. CASE Fits(lex)
    <2>1. stack' = Caller /\ Return(datum) /\ UNCHANGED errLex /\ errDat' = (errDat \/ ~bytes)
      BY <1>4 DEF Close
    <2> QED
      BY <1>1, <1>3, <2>1, ReturnWaits
  <1>5. CASE ~Fits(lex)
    <2>1. Throw(FALSE)
      BY <1>5 DEF Close
    <2> QED
      BY <2>1, ThrowWaits
  <1> QED
    BY <1>4, <1>5

LEMMA ItemWaits ==
    ASSUME Waits(Eof), pc = "lex", want # "datum", want # "close", NEW lex \in Token, Item(lex)
    PROVE  Waits(FALSE)'
  <1>1. Caller \in Seq(Frames) /\ Top \in Frames /\ Top.step = "add"
    BY StackIs DEF Waits
  <1>2. CASE /\ lex.kind = "." /\ Top.kind \in {"(", "["} /\ Top.items # <<>>
             /\ Update("step", "tail") /\ LexFor("datum") /\ NoError
    <2> DEFINE f == [Top EXCEPT !["step"] = "tail"]
    <2>1. stack' = Append(Caller, f)
      BY <1>2, StackIs DEF Waits
    <2>2. f \in Frames
      BY <1>1, <1>2 DEF Frames, Waiting
    <2> HIDE DEF f
    <2> QED
      BY <1>1, <1>2, <2>1, <2>2, LexForWaits
  <1>3. CASE Throw(FALSE)
    BY <1>3, ThrowWaits
  <1>4. CASE Close(lex)
    BY <1>4, CloseWaits
  <1>5. CASE Match(lex)
    BY <1>5, MatchWaits
  <1> QED
    BY <1>2, <1>3, <1>4, <1>5 DEF Item, CutShort

LEMMA SyntaxWaits ==
    ASSUME Waits(Eof), pc = "lex", NEW lex \in Token, Syntax(lex)
    PROVE  Waits(lex.kind = EOF)'
  <1>1. SUFFICES ASSUME ~Waits(FALSE)' PROVE Waits(lex.kind = EOF)'
    BY DEF Waits
  <1>2. CASE want = "datum" /\ lex.kind = EOF /\ Return(NIHIL) /\ UNCHANGED stack /\ NoError
    <2>1. /\ stack' \in Seq(Frames) /\ NIHIL \in Seq(Token)
          /\ errLex' \in BOOLEAN /\ errDat' \in BOOLEAN
      BY <1>2 DEF Waits, NoError, NIHIL
    <2>2. Waits(TRUE)'
      BY <1>2, <2>1, ReturnWaits
    <2> QED
      BY <1>2, <2>2 DEF Waits
  <1>3. CASE want = "item" /\ Update("step", "drop") /\ LexFor("datum") /\ NoError
    <2> DEFINE f == [Top EXCEPT !["step"] = "drop"]
    <2>1. Caller \in Seq(Frames) /\ Top \in Frames /\ Top.step = "add"
      BY <1>3, StackIs DEF Waits
    <2>2. stack' = Append(Caller, f)
      BY <1>3, StackIs DEF Waits
    <2>3. f \in Frames
      BY <2>1 DEF Frames, Waiting
    <2> HIDE DEF f
    <2> QED
      BY <1>1, <1>3, <2>1, <2>2, <2>3, LexForWaits
  <1>4. CASE Match(lex)
    BY <1>1, <1>4, MatchWaits
  <1>5. CASE want \in {"item", "item_after_comment"} /\ Item(lex)
    BY <1>1, <1>5, ItemWaits
  <1>6. CASE want = "close" /\ Close(lex)
    BY <1>1, <1>6, CloseWaits
  <1>7. CASE Throw(FALSE)
    BY <1>1, <1>7, ThrowWaits
  <1> QED
    BY <1>2, <1>3, <1>4, <1>5, <1>6, <1>7 DEF Syntax

LEMMA ResumeWaits ==
    ASSUME Waits(Eof), Resume
    PROVE  Waits(FALSE)'
  <1>1. pc = "return" /\ stack # <<>> /\ stack \in Seq(Frames) /\ value \in Seq(Token)
    BY DEF Resume, Waits
  <1>2. Caller \in Seq(Frames) /\ Top \in Frames /\ stack = Append(Caller, Top)
    BY <1>1, StackIs
  <1>3. CASE Throw(FALSE)
    BY <1>3, ThrowWaits
  <1>4. CASE /\ Top.step = "quote"
             /\ stack' = Caller /\ Return(Quoted(Top.kind, value)) /\ NoError
    <2>1. Top.kind \in Quotation
      BY <1>2, <1>4 DEF Frames, Waiting
    <2>2. Quoted(Top.kind, value) \in Seq(Token) /\ Quoted(Top.kind, value) # NIHIL
      BY <1>1, <2>1, DataAreSequences
    <2>3. errLex' \in BOOLEAN /\ errDat' \in BOOLEAN
      BY <1>4 DEF Waits, NoError
    <2> QED
      BY <1>2, <1>4, <2>2, <2>3, ReturnWaits
  <1>5. CASE CommentRead
    BY <1>2, <1>5 DEF CommentRead, Waits, LexFor, NoError
  <1>6. CASE /\ Top.step = "add"
             /\ Update("items", Top.items \o value) /\ LexFor("item") /\ NoError
    <2> DEFINE f == [Top EXCEPT !["items"] = Top.items \o value]
    <2>1. stack' = Append(Caller, f)
      BY <1>1, <1>6, StackIs
    <2>2. f \in Frames /\ f.step = "add"
      <3>1. Top.items \in Seq(Token)
        BY <1>2 DEF Frames, Waiting
      <3>2. Top.items \o value \in Seq(Token)
        BY <1>1, <3>1
      <3> QED
        BY <1>2, <1>6, <3>2 DEF Frames, Waiting
    <2> HIDE DEF f
    <2> QED
      BY <1>2, <1>6, <2>1, <2>2, LexForWaits
  <1>7. CASE /\ Top.step = "drop"
             /\ Update("step", "add") /\ LexFor("item_after_comment") /\ NoError
    <2> DEFINE f == [Top EXCEPT !["step"] = "add"]
    <2>1. stack' = Append(Caller, f)
      BY <1>1, <1>7, StackIs
    <2>2. f \in Frames /\ f.step = "add"
      BY <1>2, <1>7 DEF Frames, Waiting
    <2> HIDE DEF f
    <2> QED
      BY <1>2, <1>7, <2>1, <2>2, LexForWaits
  <1>8. CASE /\ Top.step = "tail"
             /\ Update("tail", value) /\ LexFor("close") /\ NoError
    <2> DEFINE f == [Top EXCEPT !["tail"] = value]
    <2>1. stack' = Append(Caller, f)
      BY <1>1, <1>8, StackIs
    <2>2. f \in Frames /\ f.step = "tail"
      BY <1>1, <1>2, <1>8 DEF Frames, Waiting
    <2> HIDE DEF f
    <2> QED
      BY <1>2, <1>8, <2>1, <2>2, LexForWaits
  <1> QED
    BY <1>3, <1>4, <1>5, <1>6, <1>7, <1>8 DEF Resume

(* pars_next_lex reads lex at position i of the text.                      *)
Reads(i, lex) ==
    /\ pos' = lex.next /\ pos' \in i..Len(text) + 1
    /\ lex.kind \in Kind /\ Bare(lex) \in Token /\ Bare(lex).kind = lex.kind
    /\ lex.kind = EOF => pos' = Len(text) + 1 /\ seen' = seen
    /\ lex.kind # EOF => pos' > i /\ seen' = Append(seen, Bare(lex))
    /\ \/ /\ lex.kind = "bad" /\ input.mode = "file"
          /\ errLex' = TRUE /\ UNCHANGED <<pc, want, stack, value, errDat>>
       \/ lex.kind \in {"bad", "stop"} /\ Throw(TRUE)
       \/ lex.kind \notin {"bad", "stop"} /\ Syntax(Bare(lex))

LEMMA LexemeRead ==
    ASSUME TypeOK, ReadLexeme
    PROVE  \E i \in pos..Len(text) + 1 : \E lex : Reads(i, lex)
  <1>1. text \in Seq(Char) /\ pos \in 1..Len(text) + 1
    BY DEF TypeOK
  <1> DEFINE i == LexemeStart(text, pos)
             lex == pars_read_lexeme(text, i)
  <1>2. i \in pos..Len(text) + 1 /\ i \in 1..Len(text) + 1
    BY <1>1, LexemeStartIs
  <1>3. /\ pos' = lex.next
        /\ seen' = IF lex.kind = EOF THEN seen ELSE Append(seen, Bare(lex))
        /\ \/ /\ lex.kind = "bad" /\ input.mode = "file"
              /\ errLex' = TRUE /\ UNCHANGED <<pc, want, stack, value, errDat>>
           \/ lex.kind \in {"bad", "stop"} /\ Throw(TRUE)
           \/ lex.kind \notin {"bad", "stop"} /\ Syntax(Bare(lex))
    BY DEF ReadLexeme
  <1> HIDE DEF i
  <1>4. CASE i = Len(text) + 1
    <2>1. lex.kind = EOF /\ lex.next = i
      BY <1>1, <1>2, <1>4, LexemeIs DEF Lexeme
    <2> HIDE DEF lex
    <2>2. Bare(lex) = Sign(EOF) /\ Bare(lex) \in Token /\ Bare(lex).kind = EOF /\ EOF \in Kind
      BY <2>1, SignIs DEF Bare, Sign, EOF, Kind
    <2>3. i \in i..Len(text) + 1
      BY <1>1, <1>2
    <2>4. Reads(i, lex)
      BY <1>3, <1>4, <2>1, <2>2, <2>3 DEF Reads
    <2> QED
      BY <1>2, <2>4
  <1>5. CASE i # Len(text) + 1
    <2>1. lex \in LexemesAt(text, i)
      BY <1>1, <1>2, <1>5, LexemeIs
    <2> HIDE DEF lex
    <2>2. lex.kind \in Kind /\ lex.kind # EOF /\ lex.text \in Seq(Char) /\ lex.next \in i + 1..Len(text) + 1
      BY <2>1 DEF LexemesAt
    <2>3. lex.text \in Seq(Char \cup Quotation)
      BY <2>2
    <2>4. Bare(lex) \in Token /\ Bare(lex).kind = lex.kind
      BY <2>2, <2>3, SignIs DEF Bare, Sign, Token
    <2>5. lex.next > i /\ lex.next \in i..Len(text) + 1
      BY <1>1, <1>2, <2>2
    <2>6. Reads(i, lex)
      BY <1>3, <2>2, <2>4, <2>5 DEF Reads
    <2> QED
      BY <1>2, <2>6
  <1> QED
    BY <1>4, <1>5

LEMMA ReadLexemeTypes ==
    ASSUME ReaderInv, ReadLexeme
    PROVE  ReaderInv'
  <1>1. TypeOK /\ pc = "lex" /\ Waits(Eof)
    BY DEF ReaderInv, ReadLexeme
  <1>0. PICK i \in pos..Len(text) + 1 : \E lex : Reads(i, lex)
    BY <1>1, LexemeRead
  <1>2. PICK lex : Reads(i, lex)
    BY <1>0
  <1>3. /\ text \in Seq(Char) /\ pos \in 1..Len(text) + 1
        /\ seen \in Seq(Token) /\ begin \in 1..Len(seen) + 1
        /\ UNCHANGED <<input, turn, text, evaluated, begin>>
    BY <1>1 DEF TypeOK, ReadLexeme
  <1>4. Waits(Eof)'
    <2>1. CASE errLex' = TRUE /\ UNCHANGED <<pc, want, stack, value, errDat>>
      BY <1>1, <2>1 DEF Waits, Top
    <2>2. CASE Throw(TRUE)
      <3>1. Waits(FALSE)'
        BY <1>1, <2>2, ThrowWaits
      <3> QED
        BY <3>1 DEF Waits
    <2>3. CASE Syntax(Bare(lex))
      <3>1. Bare(lex) \in Token
        BY <1>2 DEF Reads
      <3>2. Waits(Bare(lex).kind = EOF)'
        BY <1>1, <2>3, <3>1, SyntaxWaits
      <3>3. Bare(lex).kind = EOF => Eof'
        BY <1>2, <1>3 DEF Eof, Reads
      <3> QED
        BY <3>2, <3>3 DEF Waits
    <2> QED
      BY <1>2, <2>1, <2>2, <2>3 DEF Reads
  <1>5. pos' \in 1..Len(text') + 1
    BY <1>2, <1>3 DEF Reads
  <1>6. seen' \in Seq(Token) /\ begin' \in 1..Len(seen') + 1
    <2>1. CASE seen' = seen
      BY <1>3, <2>1
    <2>2. CASE seen' = Append(seen, Bare(lex))
      <3>1. Bare(lex) \in Token
        BY <1>2 DEF Reads
      <3>2. seen' \in Seq(Token) /\ Len(seen') = Len(seen) + 1
        BY <1>3, <2>2, <3>1
      <3> QED
        BY <1>3, <3>2
    <2> QED
      BY <1>2, <2>1, <2>2 DEF Reads
  <1>7. want' # "datum" /\ pc' = "lex" => stack' # <<>> /\ Top'.kind \in Opens
    <2>1. stack' \in Seq(Frames) /\ (stack' # <<>> => Top' \in Frames)
      BY <1>4 DEF Waits, Top
    <2> QED
      BY <1>4, <2>1 DEF Waits, Frames
  <1>8. stack' \in Seq(Waiting)
    BY <1>4, FramesWait DEF Waits
  <1> QED
    BY <1>1, <1>3, <1>4, <1>5, <1>6, <1>7, <1>8 DEF ReaderInv, TypeOK, Waits

LEMMA ResumeTypes ==
    ASSUME ReaderInv, Resume
    PROVE  ReaderInv'
  <1>1. TypeOK /\ pc = "return" /\ Waits(Eof)
    BY DEF ReaderInv, Resume
  <1>2. Waits(FALSE)'
    BY <1>1, ResumeWaits
  <1>3. UNCHANGED <<input, turn, text, pos, evaluated, seen, begin>>
    BY DEF Resume
  <1>4. want' # "datum" /\ pc' = "lex" => stack' # <<>> /\ Top'.kind \in Opens
    <2>1. stack' \in Seq(Frames) /\ (stack' # <<>> => Top' \in Frames)
      BY <1>2, FramesWait DEF Waits, Top
    <2> QED
      BY <1>2, <2>1 DEF Waits, Frames
  <1>5. stack' \in Seq(Waiting)
    BY <1>2, FramesWait DEF Waits
  <1> QED
    BY <1>1, <1>2, <1>3, <1>4, <1>5 DEF ReaderInv, TypeOK, Waits

LEMMA FedIs ==
    ASSUME NEW chars \in Seq(Char)
    PROVE  Fed(chars) \in Seq(Char)
  <1>1. " " \in Char
    <2>1. " " \in Whitespace
      BY DEF Whitespace
    <2>2. " " \in Delim
      BY <2>1 DEF Delim
    <2> QED
      BY <2>2 DEF Char
  <1>2. \A c \in Char : <<c>> \o chars \in Seq(Char)
    OBVIOUS
  <1> QED
    BY <1>1, <1>2, Zenon DEF Fed

LEMMA LoopTypes ==
    ASSUME ReaderInv, ReadDatum \/ DatumRead \/ Eval \/ OpenFile \/ EndOfFile
    PROVE  ReaderInv'
  <1>1. CASE ReadDatum
    <2>1. begin' \in 1..Len(seen') + 1 /\ want' = "datum" /\ pc' = "lex" /\ stack' = stack
      BY <1>1 DEF ReaderInv, TypeOK, ReadDatum, LexFor
    <2> QED
      BY <1>1, <2>1 DEF ReaderInv, TypeOK, ReadDatum, LexFor, Forgiven, Waits
  <1>2. CASE DatumRead
    BY <1>2 DEF ReaderInv, TypeOK, DatumRead, Top, reader
  <1>3. CASE Eval
    <2>1. evaluated' \in Seq(Seq(Token))
      BY <1>3 DEF ReaderInv, TypeOK, Eval
    <2> QED
      BY <1>3, <2>1 DEF ReaderInv, TypeOK, Eval, Top, reader
  <1>4. CASE OpenFile
    <2>1. input.files \in Seq(Seq(Char)) /\ input.files # <<>> /\ text \in Seq(Char) /\ turn \in 0..Len(input.files)
      BY InputsAssumption DEF ReaderInv, TypeOK
    <2>2. input.files[1] # <<>> => Fed(Tail(input.files[1])) \in Seq(Char)
      <3>1. input.files[1] \in Seq(Char)
        BY <2>1
      <3>2. input.files[1] # <<>> => Tail(input.files[1]) \in Seq(Char)
        BY <3>1
      <3> QED
        BY <3>2, FedIs
    <2>3. text' \in Seq(Char) /\ pc' \in {"abort", "loop"}
      BY <1>4, <2>1, <2>2 DEF OpenFile
    <2>4. pos' \in 1..Len(text') + 1 /\ turn' \in 0..Len(input.files)
      BY <1>4, <2>1, <2>3 DEF OpenFile
    <2>5. /\ seen' \in Seq(Token) /\ evaluated' \in Seq(Seq(Token)) /\ begin' \in 1..Len(seen') + 1
          /\ errLex' \in BOOLEAN /\ errDat' \in BOOLEAN /\ UNCHANGED <<input, want, stack, value>>
      <3>1. seen' = <<>> /\ evaluated' = <<>> /\ begin' = 1
        BY <1>4 DEF OpenFile
      <3>2. errLex' \in BOOLEAN /\ errDat' \in BOOLEAN /\ UNCHANGED <<input, want, stack, value>>
        BY <1>4 DEF OpenFile, Forgiven
      <3>3. <<>> \in Seq(Token) /\ <<>> \in Seq(Seq(Token)) /\ Len(<<>>) = 0
        OBVIOUS
      <3> QED
        BY <3>1, <3>2, <3>3
    <2>6. pc = "open"
      BY <1>4 DEF OpenFile
    <2> QED
      BY <2>3, <2>4, <2>5, <2>6 DEF ReaderInv, TypeOK
  <1>5. CASE EndOfFile
    BY <1>5 DEF ReaderInv, TypeOK, EndOfFile, Top, reader
  <1> QED
    BY <1>1, <1>2, <1>3, <1>4, <1>5

LEMMA InitTypes == Init => ReaderInv
  <1> SUFFICES ASSUME Init PROVE ReaderInv
    OBVIOUS
  <1>1. input.files \in Seq(Seq(Char)) /\ input.files # <<>>
    BY InputsAssumption DEF Init
  <1>3. input.files[1] \in Seq(Char)
    BY <1>1
  <1>4. text \in Seq(Char) /\ pc \in {"open", "loop"}
    <2>1. <<>> \in Seq(Char)
      OBVIOUS
    <2> QED
      BY <1>3, <2>1, FedIs DEF Init
  <1>5. pos \in 1..Len(text) + 1 /\ turn \in 0..Len(input.files)
    BY <1>1, <1>4 DEF Init
  <1>6. /\ stack = <<>> /\ value = <<>> /\ seen = <<>> /\ evaluated = <<>> /\ begin = 1
        /\ want = "datum" /\ errLex = FALSE /\ errDat = FALSE /\ input \in Inputs
    BY DEF Init, NIHIL
  <1>7. /\ stack \in Seq(Frames) /\ stack \in Seq(Waiting) /\ value \in Seq(Token) /\ seen \in Seq(Token)
        /\ evaluated \in Seq(Seq(Token)) /\ begin \in 1..Len(seen) + 1
    BY <1>6
  <1> QED
    BY <1>4, <1>5, <1>6, <1>7 DEF ReaderInv, TypeOK

(* In every state the reader is in its types, on any text: charcur is in   *)
(* the text, and a turn of the loop over a compound has one to go on with. *)
THEOREM ReaderTypes == Spec => []TypeOK /\ []ReaderInv
  <1>1. ReaderInv /\ [Next]_vars => ReaderInv'
    <2> SUFFICES ASSUME ReaderInv, [Next]_vars PROVE ReaderInv'
      OBVIOUS
    <2>1. CASE ReadLexeme
      BY <2>1, ReadLexemeTypes
    <2>2. CASE Resume
      BY <2>2, ResumeTypes
    <2>3. CASE ReadDatum \/ DatumRead \/ Eval \/ OpenFile \/ EndOfFile
      BY <2>3, LoopTypes
    <2>4. CASE UNCHANGED vars
      BY <2>4 DEF vars, reader, ReaderInv, TypeOK, Waits, Top, Eof
    <2> QED
      BY <2>1, <2>2, <2>3, <2>4 DEF Next
  <1>2. ReaderInv => TypeOK
    BY DEF ReaderInv
  <1> QED
    BY InitTypes, <1>1, <1>2, PTL DEF Spec

(* The lexer goes on, on any text: what pars_read_lexeme reads again is    *)
(* never given back to the next lexeme.                                    *)
THEOREM LexerGoesOn == Spec => LexemesTakeText
  <1>1. ReaderInv /\ [Next]_vars => [turn' = turn => pos' >= pos /\ (seen' # seen => pos' > pos)]_vars
    <2> SUFFICES ASSUME ReaderInv, Next PROVE turn' = turn => pos' >= pos /\ (seen' # seen => pos' > pos)
      OBVIOUS
    <2>0. text \in Seq(Char) /\ pos \in 1..Len(text) + 1 /\ TypeOK /\ turn \in Nat
      BY DEF ReaderInv, TypeOK
    <2>1. CASE ReadLexeme
      <3>0. PICK i \in pos..Len(text) + 1 : \E lex : Reads(i, lex)
        BY <2>0, <2>1, LexemeRead
      <3>1. PICK lex : Reads(i, lex)
        BY <3>0
      <3> QED
        BY <2>0, <3>1 DEF Reads
    <2>2. CASE Resume
      BY <2>0, <2>2 DEF Resume
    <2>3. CASE ReadDatum \/ DatumRead \/ Eval \/ EndOfFile
      BY <2>0, <2>3 DEF ReadDatum, DatumRead, Eval, EndOfFile, reader
    <2>4. CASE OpenFile
      BY <2>0, <2>4 DEF OpenFile
    <2> QED
      BY <2>1, <2>2, <2>3, <2>4 DEF Next
  <1> QED
    BY <1>1, ReaderTypes, PTL DEF Spec, LexemesTakeText

-----------------------------------------------------------------------------
(* The grammar the reader follows, as the least pair of relations between  *)
(* lexemes and what they spell: D for data, I for the items of a compound. *)
(* A comment stands before a datum, or behind the items of a compound.     *)
Readings == Seq(Token) \X Seq(Token)
a ++ b == a \o b       \* what a reads and then b
Led(t, u) == <<t>> ++ u
Commented(u) == Led(Sign("#;"), u)
Dotted(u) == Led(Sign("."), u)
ClosedBy(open) == IF open = "[" THEN "]" ELSE ")"
Enclosed(open, u) == Led(Sign(open), u ++ Led(Sign(ClosedBy(open)), NIHIL))
BytesIn(open, items) == open = "#vu8(" => \A i \in DOMAIN items : Byte(items[i])
Compound(open, items) == Bracketed(IF open = "[" THEN "(" ELSE open, items)

Atoms(D) == \A t \in Token : t.kind \in Atom => <<<<t>>, <<t>>>> \in D
Quotations(D) ==
    \A k \in Quotation : \A u, d \in Seq(Token) :
        <<u, d>> \in D => <<Led(Sign(k), u), Quoted(k, d)>> \in D
Compounds(D, I) ==
    \A k \in Opens : \A u, l \in Seq(Token) :
        <<u, l>> \in I /\ BytesIn(k, l) =>
            <<Enclosed(k, u), Compound(k, l)>> \in D
Tails(D, I) ==
    \A k \in {"(", "["} : \A u, l, v, d \in Seq(Token) :
        <<u, l>> \in I /\ l # NIHIL /\ <<v, d>> \in D =>
            <<Enclosed(k, u ++ Dotted(v)), Compound(k, Chain(l, d))>> \in D
Comments(D, I) ==
    \A c, x \in Seq(Token) :
        <<c, x>> \in D =>
            /\ \A u, d \in Seq(Token) : <<u, d>> \in D => <<Commented(c) ++ u, d>> \in D
            /\ \A u, l \in Seq(Token) : <<u, l>> \in I => <<u ++ Commented(c), l>> \in I
ItemsOf(D, I) ==
    /\ <<NIHIL, NIHIL>> \in I
    /\ \A u, l, v, d \in Seq(Token) :
          <<u, l>> \in I /\ <<v, d>> \in D => <<u ++ v, l ++ d>> \in I

Grammar(D, I) ==
    Atoms(D) /\ Quotations(D) /\ Compounds(D, I) /\ Tails(D, I) /\ Comments(D, I) /\ ItemsOf(D, I)

Spells(u, d) == \A D, I \in SUBSET Readings : Grammar(D, I) => <<u, d>> \in D

(* What is between two data; and the lexemes a waiting call has read.      *)
Gap(D, I) ==
    {g \in Seq(Token) :
        /\ \A u, d \in Seq(Token) : <<u, d>> \in D => <<g ++ u, d>> \in D
        /\ \A u, l \in Seq(Token) : <<u, l>> \in I => <<u ++ g, l>> \in I}
Mark(step) == Sign(IF step = "drop" THEN "#;" ELSE ".")
Begun(D, I, f, w) ==
    \/ /\ f.step \in {"quote", "skip"}
       /\ \E g \in Gap(D, I) : w = Led(Sign(f.kind), g)
    \/ /\ f.step = "add"
       /\ \E u \in Seq(Token) : <<u, f.items>> \in I /\ w = Led(Sign(f.kind), u)
    \/ /\ f.step \in {"drop", "tail"}
       /\ \E u \in Seq(Token), g \in Gap(D, I) :
             <<u, f.items>> \in I /\ w = Led(Sign(f.kind), u ++ Led(Mark(f.step), g))

(* What all the calls on a stack have read.                                *)
Stacks == Seq(Frames) \X Seq(Token)
Calls(D, I, K) ==
    /\ \A g \in Gap(D, I) : <<<<>>, g>> \in K
    /\ \A st \in Seq(Frames), f \in Frames : \A s, w \in Seq(Token) :
          <<st, s>> \in K /\ Begun(D, I, f, w) => <<Append(st, f), s ++ w>> \in K
Read(D, I, st, s) == \A K \in SUBSET Stacks : Calls(D, I, K) => <<st, s>> \in K
ReadBy(D, I, st, f, s) == Read(D, I, Append(st, f), s)
ReadWith(D, I, st, d, s) ==
    \E r, v \in Seq(Token) : s = r ++ v /\ Read(D, I, st, r) /\ <<v, d>> \in D

-----------------------------------------------------------------------------
LEMMA Joined ==
    /\ NIHIL \in Seq(Token)
    /\ \A a, b \in Seq(Token) : a ++ b \in Seq(Token)
    /\ \A a, b, c \in Seq(Token) : (a ++ b) ++ c = a ++ (b ++ c)
    /\ \A a \in Seq(Token) : a ++ NIHIL = a /\ NIHIL ++ a = a
  <1>1. NIHIL \in Seq(Token)
    BY DEF NIHIL
  <1>2. \A a, b \in Seq(Token) : a ++ b \in Seq(Token)
    BY DEF ++
  <1>3. \A a, b, c \in Seq(Token) : (a ++ b) ++ c = a ++ (b ++ c)
    BY ConcatAssociative DEF ++
  <1>4. \A a \in Seq(Token) : a ++ NIHIL = a /\ NIHIL ++ a = a
    BY ConcatEmptySeq DEF NIHIL, ++
  <1> QED
    BY <1>1, <1>2, <1>3, <1>4

LEMMA LedIs ==
    ASSUME NEW t \in Token, NEW a \in Seq(Token)
    PROVE  /\ Led(t, a) \in Seq(Token)
           /\ \A b \in Seq(Token) : Led(t, a) ++ b = Led(t, a ++ b)
  <1>1. <<t>> \in Seq(Token)
    OBVIOUS
  <1> QED
    BY <1>1, Joined DEF Led

LEMMA SignsAre ==
    /\ \A k \in Opens \cup Quotation \cup {"#;", ".", ")", "]"} : Sign(k) \in Token
    /\ \A k \in Opens : Sign(ClosedBy(k)) \in Token
    /\ \A step : Mark(step) \in Token
  <1>1. \A k \in Opens \cup Quotation \cup {"#;", ".", ")", "]"} : Sign(k) \in Token
    BY SignIs DEF Kind, Closes
  <1> QED
    BY <1>1 DEF ClosedBy, Mark

LEMMA GapIs ==
    ASSUME NEW D, NEW I, Grammar(D, I)
    PROVE  /\ NIHIL \in Gap(D, I)
           /\ \A g, h \in Gap(D, I) : g ++ h \in Gap(D, I)
           /\ \A v, d \in Seq(Token) : <<v, d>> \in D => Commented(v) \in Gap(D, I)
  <1>1. NIHIL \in Gap(D, I)
    <2>1. \A u \in Seq(Token) : NIHIL ++ u = u /\ u ++ NIHIL = u
      BY Joined
    <2> QED
      BY <2>1, Joined DEF Gap
  <1>2. ASSUME NEW g \in Gap(D, I), NEW h \in Gap(D, I)
        PROVE  g ++ h \in Gap(D, I)
    <2>1. g \in Seq(Token) /\ h \in Seq(Token) /\ g ++ h \in Seq(Token)
      BY Joined DEF Gap
    <2>2. ASSUME NEW u \in Seq(Token), NEW d \in Seq(Token), <<u, d>> \in D
          PROVE  <<(g ++ h) ++ u, d>> \in D
      <3>1. <<h ++ u, d>> \in D /\ h ++ u \in Seq(Token)
        BY <2>1, <2>2, Joined DEF Gap
      <3>2. <<g ++ (h ++ u), d>> \in D
        BY <3>1 DEF Gap
      <3>3. (g ++ h) ++ u = g ++ (h ++ u)
        BY <2>1, Joined
      <3> QED
        BY <3>2, <3>3
    <2>3. ASSUME NEW u \in Seq(Token), NEW l \in Seq(Token), <<u, l>> \in I
          PROVE  <<u ++ (g ++ h), l>> \in I
      <3>1. <<u ++ g, l>> \in I /\ u ++ g \in Seq(Token)
        BY <2>1, <2>3, Joined DEF Gap
      <3>2. <<(u ++ g) ++ h, l>> \in I
        BY <3>1 DEF Gap
      <3>3. (u ++ g) ++ h = u ++ (g ++ h)
        BY <2>1, Joined
      <3> QED
        BY <3>2, <3>3
    <2> QED
      BY <2>1, <2>2, <2>3 DEF Gap
  <1>3. ASSUME NEW v \in Seq(Token), NEW d \in Seq(Token), <<v, d>> \in D
        PROVE  Commented(v) \in Gap(D, I)
    <2>1. Commented(v) \in Seq(Token)
      BY SignsAre, LedIs DEF Commented
    <2> QED
      BY <1>3, <2>1 DEF Gap, Grammar, Comments
  <1> QED
    BY <1>1, <1>2, <1>3

(* A stack is read in this way only: before its first call there are       *)
(* comments, and each call has begun behind the one that waits for it.     *)
LEMMA ReadIs ==
    ASSUME NEW D, NEW I
    PROVE  /\ \A g \in Gap(D, I) : Read(D, I, <<>>, g)
           /\ \A st \in Seq(Frames), f \in Frames : \A s, w \in Seq(Token) :
                 Read(D, I, st, s) /\ Begun(D, I, f, w) => Read(D, I, Append(st, f), s ++ w)
           /\ \A s \in Seq(Token) : Read(D, I, <<>>, s) => s \in Gap(D, I)
           /\ \A st \in Seq(Frames), f \in Frames, s \in Seq(Token) :
                 Read(D, I, Append(st, f), s) =>
                     \E r, w \in Seq(Token) : s = r ++ w /\ Read(D, I, st, r) /\ Begun(D, I, f, w)
  <1> DEFINE Inverted(st, s) ==
                 \/ st = <<>> /\ s \in Gap(D, I)
                 \/ \E st2 \in Seq(Frames), f \in Frames : \E r, w \in Seq(Token) :
                       /\ st = Append(st2, f) /\ s = r ++ w
                       /\ Read(D, I, st2, r) /\ Begun(D, I, f, w)
             Shown(st, s) == Read(D, I, st, s) /\ Inverted(st, s)
             K == {p \in Stacks : Shown(p[1], p[2])}
  <1>1. \A g \in Gap(D, I) : Read(D, I, <<>>, g)
    BY DEF Read, Calls
  <1>2. \A st \in Seq(Frames), f \in Frames : \A s, w \in Seq(Token) :
            Read(D, I, st, s) /\ Begun(D, I, f, w) => Read(D, I, Append(st, f), s ++ w)
    BY DEF Read, Calls
  <1>3. \A g \in Gap(D, I) : Shown(<<>>, g)
    BY <1>1
  <1>4. \A st \in Seq(Frames), f \in Frames : \A s, w \in Seq(Token) :
            Shown(st, s) /\ Begun(D, I, f, w) => Shown(Append(st, f), s ++ w)
    <2> TAKE st \in Seq(Frames), f \in Frames
    <2> TAKE s, w \in Seq(Token)
    <2> HAVE Shown(st, s) /\ Begun(D, I, f, w)
    <2>1. Read(D, I, st, s) /\ Begun(D, I, f, w)
      OBVIOUS
    <2>2. Inverted(Append(st, f), s ++ w)
      BY <2>1
    <2> QED
      BY <1>2, <2>1, <2>2
  <1>5. /\ \A g \in Gap(D, I) : <<<<>>, g>> \in Stacks
        /\ \A st \in Seq(Frames), f \in Frames : \A s, w \in Seq(Token) :
              <<Append(st, f), s ++ w>> \in Stacks
    <2>1. \A g \in Gap(D, I) : <<<<>>, g>> \in Stacks
      <3>1. <<>> \in Seq(Frames)
        OBVIOUS
      <3>2. \A g \in Gap(D, I) : g \in Seq(Token)
        BY DEF Gap
      <3> QED
        BY <3>1, <3>2 DEF Stacks
    <2>2. \A st \in Seq(Frames), f \in Frames : Append(st, f) \in Seq(Frames)
      OBVIOUS
    <2>3. \A s, w \in Seq(Token) : s ++ w \in Seq(Token)
      BY Joined
    <2> QED
      BY <2>1, <2>2, <2>3 DEF Stacks
  <1> HIDE DEF Shown
  <1>6. K \in SUBSET Stacks /\ Calls(D, I, K)
    <2>1. ASSUME NEW st \in Seq(Frames), NEW f \in Frames, NEW s \in Seq(Token), NEW w \in Seq(Token),
                 <<st, s>> \in K, Begun(D, I, f, w)
          PROVE  <<Append(st, f), s ++ w>> \in K
      <3>1. Shown(st, s)
        BY <2>1
      <3>2. Shown(Append(st, f), s ++ w)
        BY <1>4, <2>1, <3>1
      <3> QED
        BY <1>5, <3>2
    <2>2. ASSUME NEW g \in Gap(D, I) PROVE <<<<>>, g>> \in K
      BY <1>3, <1>5
    <2> QED
      BY <2>1, <2>2 DEF Calls
  <1>7. \A st, s : Read(D, I, st, s) => Inverted(st, s)
    <2> TAKE st, s
    <2> HIDE DEF Inverted
    <2>1. Read(D, I, st, s) => <<st, s>> \in K
      BY <1>6 DEF Read
    <2>2. Read(D, I, st, s) => Shown(st, s)
      BY <2>1
    <2> QED
      BY <2>2 DEF Shown
  <1>8. ASSUME NEW st \in Seq(Frames), NEW f \in Frames
        PROVE  /\ Append(st, f) # <<>>
               /\ \A st2 \in Seq(Frames), f2 \in Frames : Append(st, f) = Append(st2, f2) => st = st2 /\ f = f2
    BY AppendProperties, AppendInjective
  <1>9. \A s \in Seq(Token) : Read(D, I, <<>>, s) => s \in Gap(D, I)
    <2> TAKE s \in Seq(Token)
    <2> HAVE Read(D, I, <<>>, s)
    <2>1. Inverted(<<>>, s)
      BY <1>7
    <2> QED
      BY <1>8, <2>1
  <1>10. ASSUME NEW st \in Seq(Frames), NEW f \in Frames, NEW s \in Seq(Token), Read(D, I, Append(st, f), s)
        PROVE  \E r, w \in Seq(Token) : s = r ++ w /\ Read(D, I, st, r) /\ Begun(D, I, f, w)
    <2>1. Inverted(Append(st, f), s)
      BY <1>7, <1>10
    <2>2. PICK st2 \in Seq(Frames), f2 \in Frames : \E r, w \in Seq(Token) :
              /\ Append(st, f) = Append(st2, f2) /\ s = r ++ w
              /\ Read(D, I, st2, r) /\ Begun(D, I, f2, w)
      BY <1>8, <2>1
    <2>3. st = st2 /\ f = f2
      BY <1>8, <2>2
    <2> QED
      BY <2>2, <2>3
  <1> QED
    BY <1>1, <1>2, <1>9, <1>10

LEMMA CallIs ==
    ASSUME NEW D, NEW I
    PROVE  \A st \in Seq(Frames), f \in Frames :
              /\ \A s, w \in Seq(Token) :
                    Read(D, I, st, s) /\ Begun(D, I, f, w) => ReadBy(D, I, st, f, s ++ w)
              /\ \A s \in Seq(Token) :
                    ReadBy(D, I, st, f, s) =>
                        \E r, w \in Seq(Token) : s = r ++ w /\ Read(D, I, st, r) /\ Begun(D, I, f, w)
  BY ReadIs DEF ReadBy

(* Whatever waits for a datum takes a comment before it.                   *)
LEMMA ReadGap ==
    ASSUME NEW D, NEW I, Grammar(D, I),
           NEW st \in Seq(Frames), NEW s \in Seq(Token), Read(D, I, st, s), NEW g \in Gap(D, I)
    PROVE  Read(D, I, st, s ++ g)
  <1>1. g \in Seq(Token)
    BY DEF Gap
  <1>2. CASE st = <<>>
    BY <1>2, GapIs, ReadIs
  <1>3. CASE st # <<>>
    <2>1. PICK st2 \in Seq(Frames), f \in Frames : st = Append(st2, f)
      BY <1>3, SequenceEmptyOrAppend
    <2>2. PICK r \in Seq(Token), w \in Seq(Token) : s = r ++ w /\ Read(D, I, st2, r) /\ Begun(D, I, f, w)
      BY <2>1, ReadIs
    <2>9. Begun(D, I, f, w)
      BY <2>2
    <2>3. f.kind \in Opens \cup Quotation \cup {"#;"} /\ f.items \in Seq(Token)
          /\ f.step \in {"quote", "skip", "add", "drop", "tail"}
      BY DEF Frames, Waiting
    <2>4. Sign(f.kind) \in Token /\ Mark(f.step) \in Token
      BY <2>3, SignsAre
    <2>5. Begun(D, I, f, w ++ g)
      <3>1. CASE f.step \in {"quote", "skip"}
        <4>1. PICK h \in Gap(D, I) : w = Led(Sign(f.kind), h)
          BY <2>9, <3>1 DEF Begun
        <4>2. h \in Seq(Token)
          BY DEF Gap
        <4>0. h ++ g \in Gap(D, I)
          BY GapIs
        <4>3. Led(Sign(f.kind), h) ++ g = Led(Sign(f.kind), h ++ g)
          BY <1>1, <2>4, <4>2, LedIs
        <4> QED
          BY <3>1, <4>0, <4>1, <4>3 DEF Begun
      <3>2. CASE f.step = "add"
        <4>1. PICK u \in Seq(Token) : <<u, f.items>> \in I /\ w = Led(Sign(f.kind), u)
          BY <2>9, <3>2 DEF Begun
        <4>2. <<u ++ g, f.items>> \in I /\ u ++ g \in Seq(Token)
          BY <1>1, <2>3, <4>1, Joined DEF Gap
        <4>3. Led(Sign(f.kind), u) ++ g = Led(Sign(f.kind), u ++ g)
          BY <1>1, <2>4, LedIs
        <4> QED
          BY <3>2, <4>1, <4>2, <4>3 DEF Begun
      <3>3. CASE f.step \in {"drop", "tail"}
        <4>1. PICK u \in Seq(Token), h \in Gap(D, I) :
                  <<u, f.items>> \in I /\ w = Led(Sign(f.kind), u ++ Led(Mark(f.step), h))
          BY <2>9, <3>3 DEF Begun
        <4>2. h \in Seq(Token)
          BY DEF Gap
        <4>0. h ++ g \in Gap(D, I)
          BY GapIs
        <4>3. Led(Mark(f.step), h) \in Seq(Token) /\ Led(Mark(f.step), h) ++ g = Led(Mark(f.step), h ++ g)
          BY <1>1, <2>4, <4>2, LedIs
        <4> DEFINE v == Led(Mark(f.step), h)
        <4>6. u ++ v \in Seq(Token)
          BY <4>3, Joined
        <4>4. Led(Sign(f.kind), u ++ v) ++ g = Led(Sign(f.kind), (u ++ v) ++ g)
          BY <1>1, <2>4, <4>6, LedIs
        <4>5. (u ++ v) ++ g = u ++ (v ++ g)
          BY <1>1, <4>3, Joined
        <4> QED
          BY <3>3, <4>0, <4>1, <4>3, <4>4, <4>5 DEF Begun
      <3> QED
        BY <2>3, <3>1, <3>2, <3>3
    <2>6. (r ++ w) ++ g = r ++ (w ++ g)
      BY <1>1, Joined
    <2>8. w ++ g \in Seq(Token)
      BY <1>1, Joined
    <2>7. Read(D, I, Append(st2, f), r ++ (w ++ g))
      BY <2>2, <2>5, <2>8, ReadIs
    <2> QED
      BY <2>1, <2>2, <2>6, <2>7
  <1> QED
    BY <1>2, <1>3

(* A call begins with its sign, and goes on behind its items.              *)
LEMMA Begins ==
    ASSUME NEW D, NEW I, Grammar(D, I),
           NEW st \in Seq(Frames), NEW s \in Seq(Token), Read(D, I, st, s),
           NEW f \in Frames, f.step \in {"quote", "skip", "add"}, f.items = NIHIL
    PROVE  Read(D, I, Append(st, f), s ++ Led(Sign(f.kind), NIHIL))
  <1>1. Begun(D, I, f, Led(Sign(f.kind), NIHIL))
    BY GapIs, Joined DEF Begun, Grammar, ItemsOf
  <1>2. Led(Sign(f.kind), NIHIL) \in Seq(Token)
    BY SignsAre, LedIs, Joined DEF Frames, Waiting
  <1> QED
    BY <1>1, <1>2, ReadIs

LEMMA FrameHolds ==
    ASSUME NEW f \in Frames
    PROVE  /\ f.items \in Seq(Token) /\ Sign(f.kind) \in Token /\ Mark(f.step) \in Token
           /\ f.step \in {"add", "drop", "tail"} => f.kind \in Opens
  BY SignsAre DEF Frames, Waiting

LEMMA MarkRead ==
    ASSUME NEW D, NEW I, Grammar(D, I),
           NEW st \in Seq(Frames), NEW f \in Frames, f.step = "add", NEW h \in Frames,
           h.kind = f.kind, h.items = f.items, h.step \in {"drop", "tail"},
           NEW s \in Seq(Token), ReadBy(D, I, st, f, s)
    PROVE  ReadBy(D, I, st, h, s ++ Led(Mark(h.step), NIHIL))
  <1>w. PICK r \in Seq(Token), w \in Seq(Token) : s = r ++ w /\ Read(D, I, st, r) /\ Begun(D, I, f, w)
    BY CallIs
  <1>u. PICK u \in Seq(Token) : <<u, f.items>> \in I /\ w = Led(Sign(f.kind), u)
    BY <1>w DEF Begun
  <1>1. s = r ++ Led(Sign(f.kind), u) /\ Read(D, I, st, r) /\ <<u, f.items>> \in I
    BY <1>w, <1>u
  <1>2. PICK m \in Seq(Token) : m = Led(Mark(h.step), NIHIL)
    BY SignsAre, LedIs, Joined
  <1>3. Sign(f.kind) \in Token
    BY FrameHolds
  <1>0. u ++ m \in Seq(Token)
    BY Joined
  <1>4. Led(Sign(f.kind), u) \in Seq(Token) /\ Led(Sign(f.kind), u ++ m) \in Seq(Token)
    BY <1>0, <1>3, LedIs
  <1>5. Led(Sign(f.kind), u) ++ m = Led(Sign(f.kind), u ++ m)
    BY <1>3, LedIs
  <1>6. s ++ m = r ++ Led(Sign(f.kind), u ++ m)
    BY <1>1, <1>4, <1>5, Joined
  <1>7. Begun(D, I, h, Led(Sign(f.kind), u ++ m))
    BY <1>1, <1>2, GapIs DEF Begun
  <1>8. ReadBy(D, I, st, h, r ++ Led(Sign(f.kind), u ++ m))
    BY <1>1, <1>4, <1>7, CallIs
  <1> QED
    BY <1>2, <1>6, <1>8

LEMMA CloseRead ==
    ASSUME NEW D, NEW I, Grammar(D, I),
           NEW st \in Seq(Frames), NEW f \in Frames, f.step = "add",
           NEW s \in Seq(Token), ReadBy(D, I, st, f, s),
           BytesIn(f.kind, f.items)
    PROVE  ReadWith(D, I, st, Compound(f.kind, f.items), s ++ Led(Sign(ClosedBy(f.kind)), NIHIL))
  <1>w. PICK r \in Seq(Token), w \in Seq(Token) : s = r ++ w /\ Read(D, I, st, r) /\ Begun(D, I, f, w)
    BY CallIs
  <1>u. PICK u \in Seq(Token) : <<u, f.items>> \in I /\ w = Led(Sign(f.kind), u)
    BY <1>w DEF Begun
  <1>1. s = r ++ Led(Sign(f.kind), u) /\ Read(D, I, st, r) /\ <<u, f.items>> \in I
    BY <1>w, <1>u
  <1>2. f.kind \in Opens /\ f.items \in Seq(Token) /\ Sign(f.kind) \in Token
    BY FrameHolds
  <1>3. PICK c \in Seq(Token) : c = Led(Sign(ClosedBy(f.kind)), NIHIL)
    BY <1>2, SignsAre, LedIs, Joined
  <1>0. u ++ c \in Seq(Token)
    BY Joined
  <1>4. Led(Sign(f.kind), u) \in Seq(Token) /\ Led(Sign(f.kind), u ++ c) \in Seq(Token)
    BY <1>0, <1>2, LedIs
  <1>5. Led(Sign(f.kind), u) ++ c = Led(Sign(f.kind), u ++ c)
    BY <1>2, LedIs
  <1>6. s ++ c = r ++ Led(Sign(f.kind), u ++ c)
    BY <1>1, <1>4, <1>5, Joined
  <1>7. Enclosed(f.kind, u) = Led(Sign(f.kind), u ++ c)
    BY <1>3 DEF Enclosed
  <1>8. <<Enclosed(f.kind, u), Compound(f.kind, f.items)>> \in D
    BY <1>1, <1>2 DEF Grammar, Compounds
  <1> QED
    BY <1>1, <1>3, <1>4, <1>6, <1>7, <1>8 DEF ReadWith

LEMMA CloseTailRead ==
    ASSUME NEW D, NEW I, Grammar(D, I),
           NEW st \in Seq(Frames), NEW f \in Frames, f.step = "tail",
           NEW s \in Seq(Token), ReadBy(D, I, st, f, s),
           NEW v \in Seq(Token), NEW d \in Seq(Token), <<v, d>> \in D
    PROVE  ReadWith(D, I, st, Compound(f.kind, Chain(f.items, d)),
                    (s ++ v) ++ Led(Sign(ClosedBy(f.kind)), NIHIL))
  <1>1. PICK r \in Seq(Token), w \in Seq(Token) : s = r ++ w /\ Read(D, I, st, r) /\ Begun(D, I, f, w)
    BY CallIs
  <1>2. PICK u \in Seq(Token), g \in Gap(D, I) :
            <<u, f.items>> \in I /\ w = Led(Sign(f.kind), u ++ Led(Mark(f.step), g))
    BY <1>1 DEF Begun
  <1>3. /\ f.kind \in {"(", "["} /\ f.kind \in Opens /\ f.items \in Seq(Token) /\ f.items # NIHIL
        /\ Sign(f.kind) \in Token /\ Mark(f.step) \in Token /\ Mark(f.step) = Sign(".")
    BY FrameHolds DEF Frames, NIHIL, Mark
  <1>4. PICK c \in Seq(Token) : c = Led(Sign(ClosedBy(f.kind)), NIHIL)
    BY <1>3, SignsAre, LedIs, Joined
  <1>5. g \in Seq(Token) /\ g ++ v \in Seq(Token) /\ <<g ++ v, d>> \in D
    BY Joined DEF Gap
  <1>6. PICK t \in Seq(Token) : t = Led(Mark(f.step), g)
    BY <1>3, <1>5, LedIs
  <1>7. t ++ v = Dotted(g ++ v) /\ t ++ v \in Seq(Token)
    BY <1>3, <1>5, <1>6, LedIs, Joined DEF Dotted
  <1>8. u ++ t \in Seq(Token) /\ (u ++ t) ++ v = u ++ (t ++ v) /\ u ++ (t ++ v) \in Seq(Token)
    BY <1>7, Joined
  <1>9. (w ++ v) ++ c = Led(Sign(f.kind), (u ++ Dotted(g ++ v)) ++ c)
    <2>1. w ++ v = Led(Sign(f.kind), u ++ (t ++ v))
      BY <1>2, <1>3, <1>6, <1>8, LedIs
    <2> QED
      BY <1>3, <1>7, <1>8, <2>1, LedIs
  <1>10. (w ++ v) ++ c = Enclosed(f.kind, u ++ Dotted(g ++ v))
    BY <1>4, <1>9 DEF Enclosed
  <1>11. (s ++ v) ++ c = r ++ ((w ++ v) ++ c) /\ (w ++ v) ++ c \in Seq(Token)
    <2>1. w ++ v \in Seq(Token) /\ (r ++ w) ++ v = r ++ (w ++ v)
      BY Joined
    <2> QED
      BY <1>1, <2>1, Joined
  <1>12. <<Enclosed(f.kind, u ++ Dotted(g ++ v)), Compound(f.kind, Chain(f.items, d))>> \in D
    BY <1>2, <1>3, <1>5 DEF Grammar, Tails
  <1> QED
    BY <1>1, <1>4, <1>10, <1>11, <1>12 DEF ReadWith

(* What a call does with the datum it waited for.                          *)
LEMMA QuoteRead ==
    ASSUME NEW D, NEW I, Grammar(D, I),
           NEW st \in Seq(Frames), NEW f \in Frames, f.step = "quote",
           NEW s \in Seq(Token), ReadBy(D, I, st, f, s),
           NEW v \in Seq(Token), NEW d \in Seq(Token), <<v, d>> \in D
    PROVE  ReadWith(D, I, st, Quoted(f.kind, d), s ++ v)
  <1>1. PICK r \in Seq(Token), w \in Seq(Token) : s = r ++ w /\ Read(D, I, st, r) /\ Begun(D, I, f, w)
    BY CallIs
  <1>2. PICK g \in Gap(D, I) : w = Led(Sign(f.kind), g)
    BY <1>1 DEF Begun
  <1>3. f.kind \in Quotation /\ Sign(f.kind) \in Token
    BY FrameHolds DEF Frames, Waiting
  <1>4. g \in Seq(Token) /\ g ++ v \in Seq(Token) /\ <<g ++ v, d>> \in D
    BY Joined DEF Gap
  <1>5. w ++ v = Led(Sign(f.kind), g ++ v) /\ w ++ v \in Seq(Token)
    BY <1>2, <1>3, <1>4, LedIs, Joined
  <1>6. s ++ v = r ++ (w ++ v)
    BY <1>1, Joined
  <1>7. <<w ++ v, Quoted(f.kind, d)>> \in D
    BY <1>3, <1>4, <1>5 DEF Grammar, Quotations
  <1> QED
    BY <1>1, <1>5, <1>6, <1>7 DEF ReadWith

LEMMA CommentRemoved ==
    ASSUME NEW D, NEW I, Grammar(D, I),
           NEW st \in Seq(Frames), NEW f \in Frames, f.step = "skip",
           NEW s \in Seq(Token), ReadBy(D, I, st, f, s),
           NEW v \in Seq(Token), NEW d \in Seq(Token), <<v, d>> \in D
    PROVE  Read(D, I, st, s ++ v)
  <1>1. PICK r \in Seq(Token), w \in Seq(Token) : s = r ++ w /\ Read(D, I, st, r) /\ Begun(D, I, f, w)
    BY CallIs
  <1>2. PICK g \in Gap(D, I) : w = Led(Sign(f.kind), g)
    BY <1>1 DEF Begun
  <1>3. f.kind = "#;" /\ Sign(f.kind) \in Token
    BY FrameHolds DEF Frames
  <1>4. g \in Seq(Token) /\ g ++ v \in Seq(Token) /\ <<g ++ v, d>> \in D
    BY Joined DEF Gap
  <1>5. w ++ v = Commented(g ++ v)
    <2>1. w ++ v = Led(Sign(f.kind), g ++ v)
      BY <1>2, <1>3, <1>4, LedIs
    <2> QED
      BY <1>3, <2>1 DEF Commented
  <1>6. w ++ v \in Gap(D, I)
    BY <1>4, <1>5, GapIs
  <1>7. s ++ v = r ++ (w ++ v)
    BY <1>1, Joined
  <1>8. Read(D, I, st, r ++ (w ++ v))
    BY <1>1, <1>6, ReadGap
  <1> QED
    BY <1>7, <1>8

LEMMA ItemRead ==
    ASSUME NEW D, NEW I, Grammar(D, I),
           NEW st \in Seq(Frames), NEW f \in Frames, f.step = "add", NEW h \in Frames,
           NEW v \in Seq(Token), NEW d \in Seq(Token), <<v, d>> \in D,
           h.kind = f.kind, h.items = f.items ++ d, h.step = "add",
           NEW s \in Seq(Token), ReadBy(D, I, st, f, s)
    PROVE  ReadBy(D, I, st, h, s ++ v)
  <1>w. PICK r \in Seq(Token), w \in Seq(Token) : s = r ++ w /\ Read(D, I, st, r) /\ Begun(D, I, f, w)
    BY CallIs
  <1>u. PICK u \in Seq(Token) : <<u, f.items>> \in I /\ w = Led(Sign(f.kind), u)
    BY <1>w DEF Begun
  <1>1. s = r ++ Led(Sign(f.kind), u) /\ Read(D, I, st, r) /\ <<u, f.items>> \in I
    BY <1>w, <1>u
  <1>2. Sign(f.kind) \in Token /\ f.items \in Seq(Token)
    BY FrameHolds
  <1>3. <<u ++ v, h.items>> \in I /\ u ++ v \in Seq(Token)
    <2>1. <<u ++ v, f.items ++ d>> \in I
      BY <1>1, <1>2 DEF Grammar, ItemsOf
    <2> QED
      BY <2>1, Joined
  <1>4. Led(Sign(f.kind), u) ++ v = Led(Sign(f.kind), u ++ v) /\ Led(Sign(f.kind), u) \in Seq(Token)
    BY <1>2, LedIs
  <1>5. Led(Sign(f.kind), u ++ v) \in Seq(Token)
    BY <1>2, <1>3, LedIs
  <1>6. s ++ v = r ++ Led(Sign(f.kind), u ++ v)
    BY <1>1, <1>4, Joined
  <1>7. Begun(D, I, h, Led(Sign(f.kind), u ++ v))
    BY <1>3 DEF Begun
  <1> QED
    BY <1>1, <1>5, <1>6, <1>7, CallIs

LEMMA DropRead ==
    ASSUME NEW D, NEW I, Grammar(D, I),
           NEW st \in Seq(Frames), NEW f \in Frames, f.step = "drop", NEW h \in Frames,
           NEW v \in Seq(Token), NEW d \in Seq(Token), <<v, d>> \in D,
           h.kind = f.kind, h.items = f.items, h.step = "add",
           NEW s \in Seq(Token), ReadBy(D, I, st, f, s)
    PROVE  ReadBy(D, I, st, h, s ++ v)
  <1>1. PICK r \in Seq(Token), w \in Seq(Token) : s = r ++ w /\ Read(D, I, st, r) /\ Begun(D, I, f, w)
    BY CallIs
  <1>2. PICK u \in Seq(Token), g \in Gap(D, I) :
            <<u, f.items>> \in I /\ w = Led(Sign(f.kind), u ++ Led(Mark(f.step), g))
    BY <1>1 DEF Begun
  <1>3. /\ Sign(f.kind) \in Token /\ f.items \in Seq(Token)
        /\ Mark(f.step) \in Token /\ Mark(f.step) = Sign("#;")
    BY FrameHolds DEF Mark
  <1>4. g \in Seq(Token) /\ g ++ v \in Seq(Token) /\ <<g ++ v, d>> \in D
    BY Joined DEF Gap
  <1>5. PICK t \in Seq(Token) : t = Led(Mark(f.step), g)
    BY <1>3, <1>4, LedIs
  <1>6. t ++ v = Commented(g ++ v) /\ t ++ v \in Gap(D, I) /\ t ++ v \in Seq(Token)
    <2>1. t ++ v = Led(Mark(f.step), g ++ v)
      BY <1>3, <1>4, <1>5, LedIs
    <2>3. t ++ v = Commented(g ++ v)
      BY <1>3, <2>1 DEF Commented
    <2>2. t ++ v \in Gap(D, I)
      BY <1>4, <2>3, GapIs
    <2> QED
      BY <2>2, <2>3 DEF Gap
  <1>7. <<u ++ (t ++ v), f.items>> \in I
    BY <1>2, <1>3, <1>6 DEF Gap
  <1>8. u ++ t \in Seq(Token) /\ (u ++ t) ++ v = u ++ (t ++ v) /\ u ++ (t ++ v) \in Seq(Token)
    BY <1>6, Joined
  <1>9. w ++ v = Led(Sign(f.kind), u ++ (t ++ v)) /\ w ++ v \in Seq(Token)
    <2>2. w = Led(Sign(f.kind), u ++ t)
      BY <1>2, <1>5
    <2>4. u ++ t \in Seq(Token) /\ Sign(f.kind) \in Token
      BY <1>3, <1>8
    <2>3. Led(Sign(f.kind), u ++ t) ++ v = Led(Sign(f.kind), (u ++ t) ++ v)
      BY ONLY <2>4, v \in Seq(Token), LedIs
    <2>1. w ++ v = Led(Sign(f.kind), u ++ (t ++ v))
      BY <1>8, <2>2, <2>3
    <2> QED
      BY <2>1, Joined
  <1>10. s ++ v = r ++ (w ++ v)
    BY <1>1, Joined
  <1>11. Begun(D, I, h, w ++ v)
    BY <1>7, <1>8, <1>9 DEF Begun
  <1> QED
    BY <1>1, <1>9, <1>10, <1>11, CallIs

LEMMA TailRead ==
    ASSUME NEW D, NEW I, NEW st \in Seq(Frames), NEW f \in Frames, f.step = "tail", NEW h \in Frames,
           h.kind = f.kind, h.items = f.items, h.step = "tail",
           NEW s \in Seq(Token), ReadBy(D, I, st, f, s)
    PROVE  ReadBy(D, I, st, h, s)
  <1>1. PICK r \in Seq(Token), w \in Seq(Token) : s = r ++ w /\ Read(D, I, st, r) /\ Begun(D, I, f, w)
    BY CallIs
  <1>2. Begun(D, I, h, w)
    BY <1>1 DEF Begun
  <1> QED
    BY <1>1, <1>2, CallIs

(* The lexemes of the datum that is being read.                            *)
Own == SubSeq(seen, begin, Len(seen))

(* What was read is what the waiting calls have read, with the datum read  *)
(* behind it; what is evaluated was read with nothing in front of it.      *)
ReadUpTo(D, I) ==
    /\ pc = "lex" /\ want # "close" => Read(D, I, stack, Own)
    /\ pc = "lex" /\ want = "close" =>
          ReadWith(D, I, stack, Top.tail, Own)
    /\ pc = "return" /\ value # NIHIL => ReadWith(D, I, stack, value, Own)

LEMMA LedOne == \A t \in Token : Led(t, NIHIL) = <<t>> /\ <<t>> \in Seq(Token)
  <1> TAKE t \in Token
  <1>1. <<t>> \in Seq(Token)
    OBVIOUS
  <1> QED
    BY <1>1, Joined DEF Led

LEMMA SubSeqGrows ==
    ASSUME NEW s \in Seq(Token), NEW b \in 1..Len(s) + 1, NEW x \in Token
    PROVE  /\ SubSeq(s, b, Len(s)) \in Seq(Token)
           /\ SubSeq(Append(s, x), b, Len(Append(s, x))) = Append(SubSeq(s, b, Len(s)), x)
  <1> DEFINE n == Len(s)
             t == Append(s, x)
             m == Len(t)
             before == SubSeq(s, b, n)
             after == SubSeq(t, b, m)
  <1>1. n \in Int /\ b \in Int /\ b >= 1 /\ b <= n + 1 /\ m = n + 1 /\ m \in Int
    OBVIOUS
  <1>2. t[m] = x /\ \A i \in b..n : s[i] \in Token /\ t[i] = s[i]
    OBVIOUS
  <1>3. \A i \in b..m : t[i] \in Token
    BY <1>1, <1>2
  <1> HIDE DEF n, m, t
  <1>4. /\ before \in Seq(Token)
        /\ Len(before) = IF b <= n THEN n - b + 1 ELSE 0
        /\ \A i \in 1..n - b + 1 : before[i] = s[b + i - 1]
    BY <1>1, <1>2, SubSeqProperties
  <1>5. /\ after \in Seq(Token)
        /\ Len(after) = IF b <= m THEN m - b + 1 ELSE 0
        /\ \A i \in 1..m - b + 1 : after[i] = t[b + i - 1]
    BY <1>1, <1>3, SubSeqProperties
  <1> HIDE DEF before, after
  <1>6. Len(before) = n - b + 1 /\ Len(after) = n - b + 2
    BY <1>1, <1>4, <1>5
  <1>7. \A i \in 1..n - b + 1 : after[i] = before[i]
    <2> TAKE i \in 1..n - b + 1
    <2>1. b + i - 1 \in b..n /\ i \in 1..m - b + 1
      BY <1>1
    <2> QED
      BY <1>2, <1>4, <1>5, <2>1
  <1>8. after[n - b + 2] = x
    <2>1. n - b + 2 \in 1..m - b + 1 /\ b + (n - b + 2) - 1 = m
      BY <1>1
    <2> QED
      BY <1>2, <1>5, <2>1
  <1>9. after = Append(before, x)
    BY <1>1, <1>4, <1>5, <1>6, <1>7, <1>8
  <1> QED
    BY <1>4, <1>9 DEF n, m, t, before, after

LEMMA OwnGrows ==
    ASSUME seen \in Seq(Token), begin \in 1..Len(seen) + 1, NEW lex \in Token,
           seen' = Append(seen, lex), begin' = begin
    PROVE  Own \in Seq(Token) /\ Own' = Own ++ Led(lex, NIHIL)
  <1>1. Own \in Seq(Token) /\ Own' = Append(Own, lex)
    BY SubSeqGrows DEF Own
  <1>2. Own \o <<lex>> = Append(Own, lex)
    BY <1>1
  <1> QED
    BY <1>1, <1>2, LedOne DEF ++

LEMMA MatchReads ==
    ASSUME NEW D, NEW I, Grammar(D, I), stack \in Seq(Frames), Own \in Seq(Token),
           Read(D, I, stack, Own), NEW lex \in Token, lex.kind \notin Atom => lex = Sign(lex.kind),
           Own' = Own ++ Led(lex, NIHIL), Match(lex)
    PROVE  errDat' \/ ReadUpTo(D, I)'
  <1>1. CASE lex.kind \in Atom /\ Return(<<lex>>) /\ UNCHANGED stack /\ NoError
    <2>1. <<Led(lex, NIHIL), value'>> \in D /\ Led(lex, NIHIL) \in Seq(Token)
      BY <1>1, LedOne DEF Grammar, Atoms, Return
    <2>2. Read(D, I, stack', Own)
      BY <1>1
    <2>3. Own' = Own ++ Led(lex, NIHIL) /\ pc' = "return"
      BY <1>1 DEF Return
    <2>4. ReadWith(D, I, stack', value', Own')
      BY <2>1, <2>2, <2>3 DEF ReadWith
    <2> QED
      BY <2>3, <2>4 DEF ReadUpTo
  <1>2. ASSUME NEW f \in Frames, f.kind = lex.kind, f.items = NIHIL, f.step \in {"quote", "skip", "add"},
               lex.kind \notin Atom, stack' = Append(stack, f), pc' = "lex", want' # "close"
        PROVE  ReadUpTo(D, I)'
    <2>1. Read(D, I, Append(stack, f), Own ++ Led(Sign(f.kind), NIHIL))
      BY <1>2, Begins
    <2> QED
      BY <1>2, <2>1 DEF ReadUpTo
  <1>3. CASE /\ lex.kind \in Opens
             /\ stack' = Append(stack, Frame(lex.kind, "add")) /\ LexFor("item") /\ NoError
    <2>1. Frame(lex.kind, "add") \in Frames /\ lex.kind \notin Atom
      BY <1>3, FrameIs DEF Opens, Round, Atom
    <2> QED
      BY <1>2, <1>3, <2>1 DEF Frame, LexFor, NIHIL
  <1>4. CASE /\ lex.kind \in Quotation
             /\ stack' = Append(stack, Frame(lex.kind, "quote")) /\ LexFor("datum") /\ NoError
    <2>1. Frame(lex.kind, "quote") \in Frames /\ lex.kind \notin Atom
      BY <1>4, FrameIs DEF Quotation, Atom
    <2> QED
      BY <1>2, <1>4, <2>1 DEF Frame, LexFor, NIHIL
  <1>5. CASE /\ lex.kind = "#;"
             /\ stack' = Append(stack, Frame("#;", "skip")) /\ LexFor("datum") /\ NoError
    <2>1. Frame("#;", "skip") \in Frames /\ lex.kind \notin Atom
      BY <1>5, FrameIs DEF Atom
    <2> QED
      BY <1>2, <1>5, <2>1 DEF Frame, LexFor, NIHIL
  <1>6. CASE Throw(FALSE)
    BY <1>6 DEF Throw
  <1> QED
    BY <1>1, <1>3, <1>4, <1>5, <1>6 DEF Match

LEMMA CloseReads ==
    ASSUME NEW D, NEW I, Grammar(D, I), Waits(Eof), Own \in Seq(Token), pc = "lex", want # "datum",
           ReadUpTo(D, I), NEW lex \in Token, lex.kind \in Closes, lex = Sign(lex.kind),
           Own' = Own ++ Led(lex, NIHIL), Close(lex)
    PROVE  errDat' \/ ReadUpTo(D, I)'
  <1> DEFINE bytes == Top.kind = "#vu8(" => \A i \in DOMAIN Top.items : Byte(Top.items[i])
             kind == IF Top.kind = "[" THEN "(" ELSE Top.kind
             datum == Bracketed(kind, Chain(Top.items, Top.tail))
  <1>1. stack \in Seq(Frames) /\ Caller \in Seq(Frames) /\ Top \in Frames /\ stack = Append(Caller, Top)
    BY StackIs DEF Waits
  <1>2. Top.step = IF want = "close" THEN "tail" ELSE "add"
    BY DEF Waits
  <1>3. SUFFICES ASSUME ~errDat' PROVE ReadUpTo(D, I)'
    OBVIOUS
  <1>4. Fits(lex) /\ bytes /\ stack' = Caller /\ Return(datum)
    BY <1>3 DEF Close, Throw
  <1>5. Top.kind \in Opens
    BY <1>1, <1>2, FrameHolds
  <1>6. lex = Sign(ClosedBy(Top.kind))
    BY <1>4, <1>5 DEF Fits, Closes, ClosedBy, Opens, Round
  <1>7. BytesIn(Top.kind, Top.items) /\ datum = Compound(Top.kind, Chain(Top.items, Top.tail))
    BY <1>4 DEF BytesIn, Compound
  <1> HIDE DEF datum, bytes, kind
  <1>8. ReadWith(D, I, Caller, datum, Own')
    <2>1. CASE want = "close"
      <3>1. PICK s \in Seq(Token), v \in Seq(Token) : Own = s ++ v /\ Read(D, I, stack, s) /\ <<v, Top.tail>> \in D
        BY <2>1 DEF ReadUpTo, ReadWith
      <3>2. ReadBy(D, I, Caller, Top, s) /\ Top.tail \in Seq(Token) /\ Top.step = "tail"
        BY <1>1, <1>2, <2>1, <3>1 DEF ReadBy, Frames, Waiting
      <3>3. ReadWith(D, I, Caller, Compound(Top.kind, Chain(Top.items, Top.tail)),
                     (s ++ v) ++ Led(Sign(ClosedBy(Top.kind)), NIHIL))
        <4>1. PICK st \in Seq(Frames), f \in Frames, d \in Seq(Token) : st = Caller /\ f = Top /\ d = Top.tail
          BY <1>1, <3>2
        <4>2. ReadBy(D, I, st, f, s) /\ f.step = "tail" /\ <<v, d>> \in D
          BY <3>1, <3>2, <4>1
        <4>3. ReadWith(D, I, st, Compound(f.kind, Chain(f.items, d)),
                       (s ++ v) ++ Led(Sign(ClosedBy(f.kind)), NIHIL))
          BY <4>2, CloseTailRead
        <4> QED
          BY <4>1, <4>3
      <3> QED
        BY <1>6, <1>7, <3>1, <3>3
    <2>2. CASE want # "close"
      <3>1. ReadBy(D, I, Caller, Top, Own)
        BY <1>1, <2>2 DEF ReadUpTo, ReadBy
      <3>2. Top.step = "add" /\ Top.tail = NIHIL
        BY <1>1, <1>2, <2>2 DEF Frames
      <3>3. ReadWith(D, I, Caller, Compound(Top.kind, Top.items),
                     Own ++ Led(Sign(ClosedBy(Top.kind)), NIHIL))
        <4>1. PICK st \in Seq(Frames), f \in Frames : st = Caller /\ f = Top
          BY <1>1
        <4>2. ReadBy(D, I, st, f, Own) /\ f.step = "add" /\ BytesIn(f.kind, f.items)
          BY <1>7, <3>1, <3>2, <4>1
        <4>3. ReadWith(D, I, st, Compound(f.kind, f.items), Own ++ Led(Sign(ClosedBy(f.kind)), NIHIL))
          BY <4>2, CloseRead
        <4> QED
          BY <4>1, <4>3
      <3>4. datum = Compound(Top.kind, Top.items)
        BY <1>7, <3>2 DEF Chain, IsList
      <3> QED
        BY <1>6, <3>3, <3>4
    <2> QED
      BY <2>1, <2>2
  <1> QED
    BY <1>4, <1>8 DEF ReadUpTo, Return

(* "." and "#;" behind items: the call on top waits for a datum now.       *)
LEMMA MarkReads ==
    ASSUME NEW D, NEW I, Grammar(D, I), Waits(Eof), Own \in Seq(Token), pc = "lex",
           want \in {"item", "item_after_comment"}, ReadUpTo(D, I),
           NEW step \in {"drop", "tail"}, step = "tail" => Top.kind \in {"(", "["} /\ Top.items # <<>>,
           Update("step", step), LexFor("datum"), Own' = Own ++ Led(Mark(step), NIHIL)
    PROVE  ReadUpTo(D, I)'
  <1>1. /\ stack \in Seq(Frames) /\ stack # <<>> /\ Caller \in Seq(Frames) /\ Top \in Frames /\ stack = Append(Caller, Top)
        /\ Top.step = "add"
    BY StackIs DEF Waits
  <1>2. PICK st \in Seq(Frames), f \in Frames : st = Caller /\ f = Top
    BY <1>1
  <1>3. PICK h : h = [f EXCEPT !["step"] = step]
    OBVIOUS
  <1>4. stack' = Append(st, h)
    <2>1. stack' = Append(Caller, [Top EXCEPT !["step"] = step])
      BY <1>1, UpdateIs, Zenon
    <2> QED
      BY <1>2, <1>3, <2>1
  <1>5. h \in Frames /\ h.kind = f.kind /\ h.items = f.items /\ h.step = step
    BY <1>1, <1>2, <1>3 DEF Frames, Waiting
  <1>6. ReadBy(D, I, st, f, Own) /\ f.step = "add"
    BY <1>1, <1>2 DEF ReadUpTo, ReadBy
  <1>7. ReadBy(D, I, st, h, Own ++ Led(Mark(h.step), NIHIL))
    BY <1>5, <1>6, MarkRead
  <1>8. Read(D, I, stack', Own')
    BY <1>4, <1>5, <1>7 DEF ReadBy
  <1> QED
    BY <1>8 DEF ReadUpTo, LexFor

LEMMA ItemReads ==
    ASSUME NEW D, NEW I, Grammar(D, I), Waits(Eof), Own \in Seq(Token), pc = "lex",
           want \in {"item", "item_after_comment"}, ReadUpTo(D, I),
           NEW lex \in Token, lex.kind \notin Atom => lex = Sign(lex.kind),
           Own' = Own ++ Led(lex, NIHIL), Item(lex)
    PROVE  errDat' \/ ReadUpTo(D, I)'
  <1>1. CASE /\ lex.kind = "." /\ Top.kind \in {"(", "["} /\ Top.items # <<>>
             /\ Update("step", "tail") /\ LexFor("datum") /\ NoError
    <2>1. lex = Mark("tail")
      BY <1>1 DEF Mark, Atom
    <2> QED
      BY <1>1, <2>1, MarkReads
  <1>2. CASE Throw(FALSE)
    BY <1>2 DEF Throw
  <1>3. CASE lex.kind \in Closes /\ Close(lex)
    <2>1. lex = Sign(lex.kind)
      BY <1>3 DEF Closes, Atom
    <2> QED
      BY <1>3, <2>1, CloseReads
  <1>4. CASE Match(lex)
    <2>1. stack \in Seq(Frames) /\ Read(D, I, stack, Own)
      BY DEF Waits, ReadUpTo
    <2> QED
      BY <1>4, <2>1, MatchReads
  <1> QED
    BY <1>1, <1>2, <1>3, <1>4 DEF Item, CutShort

LEMMA SyntaxReads ==
    ASSUME NEW D, NEW I, Grammar(D, I), Waits(Eof), Own \in Seq(Token), pc = "lex", ReadUpTo(D, I),
           NEW lex \in Token, lex.kind \notin Atom => lex = Sign(lex.kind), lex.kind # EOF,
           Own' = Own ++ Led(lex, NIHIL), Syntax(lex)
    PROVE  errDat' \/ ReadUpTo(D, I)'
  <1>1. CASE want = "datum" /\ Match(lex)
    <2>1. stack \in Seq(Frames) /\ Read(D, I, stack, Own)
      BY <1>1 DEF Waits, ReadUpTo
    <2> QED
      BY <1>1, <2>1, MatchReads
  <1>2. CASE want = "item" /\ lex.kind = "#;" /\ Update("step", "drop") /\ LexFor("datum") /\ NoError
    <2>1. lex = Mark("drop")
      BY <1>2 DEF Mark, Atom
    <2> QED
      BY <1>2, <2>1, MarkReads
  <1>3. CASE want \in {"item", "item_after_comment"} /\ Item(lex)
    BY <1>3, ItemReads
  <1>4. CASE want = "close" /\ lex.kind \in Closes /\ Close(lex)
    <2>1. lex = Sign(lex.kind)
      BY <1>4 DEF Closes, Atom
    <2> QED
      BY <1>4, <2>1, CloseReads
  <1>5. CASE Throw(FALSE)
    BY <1>5 DEF Throw
  <1> QED
    BY <1>1, <1>2, <1>3, <1>4, <1>5 DEF Syntax

(* The end of the text ends all calls, one after the other.                *)
LEMMA EofEnds ==
    ASSUME NEW lex, lex.kind = EOF, Syntax(lex)
    PROVE  errDat' \/ (pc' = "return" /\ value' = NIHIL)
  <1>1. lex.kind \notin Atom \cup Opens \cup Quotation \cup Closes \cup {"#;", "."}
    BY DEF EOF, Atom, Opens, Round, Quotation, Closes
  <1> QED
    BY <1>1 DEF Syntax, Item, Match, CutShort, Throw, Return

LEMMA ErrorsStay ==
    ASSUME errDat \in BOOLEAN, errLex \in BOOLEAN
    PROVE  /\ \A lex : Syntax(lex) => (errLex => errLex') /\ (errDat => errDat')
           /\ Resume => (errLex => errLex') /\ (errDat => errDat')
           /\ Throw(TRUE) => errLex'
  <1> DEFINE Stay == (errLex => errLex') /\ (errDat => errDat')
  <1>1. NoError => Stay
    BY DEF NoError
  <1>2. \A b : Throw(b) => Stay
    BY DEF Throw
  <1>3. \A lex : Close(lex) => Stay
    BY <1>2 DEF Close
  <1>4. CommentRead => Stay
    BY <1>1 DEF CommentRead
  <1> HIDE DEF Stay
  <1>5. \A lex : Match(lex) => Stay
    BY <1>1, <1>2 DEF Match
  <1>6. \A lex : Item(lex) => Stay
    BY <1>1, <1>2, <1>3, <1>5 DEF Item, CutShort
  <1>7. \A lex : Syntax(lex) => Stay
    BY <1>1, <1>2, <1>3, <1>5, <1>6 DEF Syntax
  <1>8. Resume => Stay
    BY <1>1, <1>2, <1>4 DEF Resume
  <1>9. Throw(TRUE) => errLex'
    BY DEF Throw
  <1> QED
    BY <1>7, <1>8, <1>9 DEF Stay

LEMMA ResumeReads ==
    ASSUME NEW D, NEW I, Grammar(D, I), Waits(Eof), Own \in Seq(Token), ReadUpTo(D, I),
           Own' = Own, Resume, value # NIHIL
    PROVE  errDat' \/ ReadUpTo(D, I)'
  <1>1. /\ pc = "return" /\ value \in Seq(Token)
        /\ stack \in Seq(Frames) /\ stack # <<>>
        /\ Caller \in Seq(Frames) /\ Top \in Frames /\ stack = Append(Caller, Top)
    BY StackIs DEF Resume, Waits
  <1>2. PICK r \in Seq(Token), v \in Seq(Token) : Own = r ++ v /\ Read(D, I, stack, r) /\ <<v, value>> \in D
    BY <1>1 DEF ReadUpTo, ReadWith
  <1>3. PICK st \in Seq(Frames), f \in Frames, d \in Seq(Token) : st = Caller /\ f = Top /\ d = value
    BY <1>1
  <1>4. ReadBy(D, I, st, f, r) /\ <<v, d>> \in D
    BY <1>1, <1>2, <1>3 DEF ReadBy
  <1>5. CASE /\ Top.step = "quote"
             /\ stack' = Caller /\ Return(Quoted(Top.kind, value)) /\ NoError
    <2>1. ReadWith(D, I, st, Quoted(f.kind, d), r ++ v)
      BY <1>3, <1>4, <1>5, QuoteRead
    <2> QED
      BY <1>2, <1>3, <1>5, <2>1 DEF ReadUpTo, Return
  <1>6. CASE Top.step = "skip" /\ CommentRead
    <2>1. Read(D, I, st, r ++ v)
      BY <1>3, <1>4, <1>6, CommentRemoved
    <2> QED
      BY <1>2, <1>3, <1>6, <2>1 DEF ReadUpTo, CommentRead, LexFor
  <1>7. CASE /\ Top.step = "add"
             /\ Update("items", Top.items \o value) /\ LexFor("item") /\ NoError
    <2>1. PICK h : h = [f EXCEPT !["items"] = f.items ++ d]
      OBVIOUS
    <2>2. f.items \in Seq(Token) /\ f.items ++ d \in Seq(Token) /\ f.items ++ d = Top.items \o value
      BY <1>3, FrameHolds, Joined DEF ++
    <2>3. stack' = Append(st, h)
      <3>1. PICK x : x = Top.items \o value
        OBVIOUS
      <3>2. Update("items", x)
        BY <1>7, <3>1
      <3>3. stack' = Append(Caller, [Top EXCEPT !["items"] = x])
        BY ONLY <1>1, <3>2, UpdateIs, Zenon
      <3> QED
        BY <1>3, <2>1, <2>2, <3>1, <3>3
    <2>4. h \in Frames /\ h.kind = f.kind /\ h.items = f.items ++ d /\ h.step = "add" /\ f.step = "add"
      BY <1>3, <1>7, <2>1, <2>2 DEF Frames, Waiting
    <2>5. ReadBy(D, I, st, h, r ++ v)
      BY <1>4, <2>4, ItemRead
    <2>6. Read(D, I, stack', Own')
      BY <1>2, <2>3, <2>5 DEF ReadBy
    <2> QED
      BY <1>7, <2>6 DEF ReadUpTo, LexFor
  <1>8. CASE /\ Top.step = "drop"
             /\ Update("step", "add") /\ LexFor("item_after_comment") /\ NoError
    <2>1. PICK h : h = [f EXCEPT !["step"] = "add"]
      OBVIOUS
    <2>3. stack' = Append(st, h)
      <3>1. stack' = Append(Caller, [Top EXCEPT !["step"] = "add"])
        BY ONLY <1>1, <1>8, UpdateIs, Zenon
      <3> QED
        BY <1>3, <2>1, <3>1
    <2>4. h \in Frames /\ h.kind = f.kind /\ h.items = f.items /\ h.step = "add" /\ f.step = "drop"
      BY <1>3, <1>8, <2>1 DEF Frames, Waiting
    <2>5. ReadBy(D, I, st, h, r ++ v)
      BY <1>4, <2>4, DropRead
    <2>6. Read(D, I, stack', Own')
      BY <1>2, <2>3, <2>5 DEF ReadBy
    <2> QED
      BY <1>8, <2>6 DEF ReadUpTo, LexFor
  <1>9. CASE /\ Top.step = "tail"
             /\ Update("tail", value) /\ LexFor("close") /\ NoError
    <2>1. PICK h : h = [f EXCEPT !["tail"] = d]
      OBVIOUS
    <2>3. stack' = Append(st, h)
      <3>1. stack' = Append(Caller, [Top EXCEPT !["tail"] = value])
        BY ONLY <1>1, <1>9, UpdateIs, Zenon
      <3> QED
        BY <1>3, <2>1, <3>1
    <2>4. /\ h \in Frames /\ h.kind = f.kind /\ h.items = f.items /\ h.step = "tail" /\ f.step = "tail"
          /\ h.tail = d
      BY <1>3, <1>9, <2>1 DEF Frames, Waiting
    <2>5. ReadBy(D, I, st, h, r)
      BY <1>4, <2>4, TailRead
    <2>6. Read(D, I, stack', r) /\ Top' = h
      BY <2>3, <2>4, <2>5, TopIs DEF ReadBy
    <2>7. ReadWith(D, I, stack', Top'.tail, Own')
      BY <1>2, <1>4, <2>4, <2>6 DEF ReadWith
    <2> QED
      BY <1>9, <2>7 DEF ReadUpTo, LexFor
  <1>10. CASE Throw(FALSE)
    BY <1>10 DEF Throw
  <1> QED
    BY <1>5, <1>6, <1>7, <1>8, <1>9, <1>10 DEF Resume

(* A datum has no error so far only if all its lexemes are accounted for.  *)
SpelledInv ==
    /\ ~errLex /\ ~errDat /\ (pc = "lex" => ~Eof) =>
          \A D, I \in SUBSET Readings : Grammar(D, I) => ReadUpTo(D, I)
    /\ pc = "eval" => Spells(Own, value)

(* What is evaluated is the datum its lexemes spell, on any text.          *)
EvaluatedIsSpelled == pc = "eval" => Spells(Own, value)

LEMMA ReadLexemeReads ==
    ASSUME ReaderInv, SpelledInv, ReadLexeme
    PROVE  SpelledInv'
  <1>1. /\ TypeOK /\ pc = "lex" /\ Waits(Eof) /\ text \in Seq(Char) /\ pos \in 1..Len(text) + 1
        /\ seen \in Seq(Token) /\ begin \in 1..Len(seen) + 1 /\ begin' = begin
        /\ errLex \in BOOLEAN /\ errDat \in BOOLEAN
    BY DEF ReaderInv, ReadLexeme, TypeOK
  <1>2. PICK i \in pos..Len(text) + 1 : \E lex : Reads(i, lex)
    BY <1>1, LexemeRead
  <1>3. PICK lex : Reads(i, lex)
    BY <1>2
  <1>4. Bare(lex) \in Token /\ Bare(lex).kind = lex.kind
    BY <1>3 DEF Reads
  <1>5. pc' # "eval"
    <2>1. CASE Syntax(Bare(lex))
      <3>1. Waits(Bare(lex).kind = EOF)'
        BY <1>1, <1>4, <2>1, SyntaxWaits
      <3> QED
        BY <3>1 DEF Waits
    <2>2. CASE UNCHANGED pc \/ Throw(TRUE)
      BY <1>1, <2>2 DEF Throw
    <2> QED
      BY <1>3, <2>1, <2>2 DEF Reads
  <1>6. ASSUME ~errLex', ~errDat', NEW D \in SUBSET Readings, NEW I \in SUBSET Readings, Grammar(D, I)
        PROVE  ReadUpTo(D, I)'
    <2>1. Syntax(Bare(lex)) /\ lex.kind \notin {"bad", "stop"} /\ ~errLex /\ ~errDat
      BY <1>1, <1>3, <1>6, ErrorsStay DEF Reads
    <2>2. CASE lex.kind = EOF
      <3>1. pc' = "return" /\ value' = NIHIL
        BY <1>4, <1>6, <2>1, <2>2, EofEnds
      <3> QED
        BY <3>1 DEF ReadUpTo
    <2>3. CASE lex.kind # EOF
      <3>1. pos' > i /\ pos' \in i..Len(text) + 1 /\ seen' = Append(seen, Bare(lex))
        BY <1>3, <2>3 DEF Reads
      <3>2. ~Eof
        BY <1>1, <3>1 DEF Eof
      <3>3. ReadUpTo(D, I)
        BY <1>1, <1>6, <2>1, <3>2 DEF SpelledInv
      <3>4. Own \in Seq(Token) /\ Own' = Own ++ Led(Bare(lex), NIHIL)
        BY <1>1, <1>4, <3>1, OwnGrows
      <3>5. Bare(lex).kind \notin Atom => Bare(lex) = Sign(Bare(lex).kind)
        BY <1>4, <2>1 DEF Bare, Atom
      <3> QED
        BY <1>1, <1>4, <1>6, <2>1, <2>3, <3>3, <3>4, <3>5, SyntaxReads
    <2> QED
      BY <2>2, <2>3
  <1> QED
    BY <1>5, <1>6 DEF SpelledInv

LEMMA OwnSame ==
    ASSUME UNCHANGED <<seen, begin>>, TypeOK
    PROVE  Own' = Own /\ Own \in Seq(Token)
  <1>1. seen \in Seq(Token) /\ begin \in 1..Len(seen) + 1
    BY DEF TypeOK
  <1>2. \A i \in begin..Len(seen) : seen[i] \in Token
    BY <1>1
  <1> DEFINE n == Len(seen)
  <1>3. n \in Int /\ begin \in Int
    BY <1>1
  <1> HIDE DEF n
  <1>4. SubSeq(seen, begin, n) \in Seq(Token)
    BY <1>2, <1>3, SubSeqProperties DEF n
  <1> QED
    BY <1>4 DEF Own, n

LEMMA ResumeSpelled ==
    ASSUME ReaderInv, SpelledInv, Resume
    PROVE  SpelledInv'
  <1>1. /\ TypeOK /\ pc = "return" /\ Waits(Eof) /\ UNCHANGED <<text, pos, seen, begin>>
        /\ errLex \in BOOLEAN /\ errDat \in BOOLEAN /\ stack # <<>>
    BY DEF ReaderInv, Resume, TypeOK
  <1>2. Own' = Own /\ Own \in Seq(Token) /\ Eof' = Eof
    BY <1>1, OwnSame DEF Eof
  <1>3. Waits(FALSE)'
    BY <1>1, ResumeWaits
  <1>4. ASSUME ~errLex', ~errDat', pc' = "lex" => ~Eof',
               NEW D \in SUBSET Readings, NEW I \in SUBSET Readings, Grammar(D, I)
        PROVE  ReadUpTo(D, I)'
    <2>1. ~errLex /\ ~errDat /\ ReadUpTo(D, I)
      BY <1>1, <1>4, ErrorsStay DEF SpelledInv
    <2>2. CASE value # NIHIL
      BY <1>1, <1>2, <1>4, <2>1, <2>2, ResumeReads
    <2>3. CASE value = NIHIL
      <3>1. Eof
        BY <1>1, <2>3 DEF Waits
      <3>2. pc' = "return"
        BY <1>2, <1>3, <1>4, <3>1 DEF Waits
      <3>3. Throw(FALSE)
        BY <2>3, <3>2 DEF Resume, LexFor
      <3> QED
        BY <1>4, <3>3 DEF Throw
    <2> QED
      BY <2>2, <2>3
  <1> QED
    BY <1>3, <1>4 DEF SpelledInv, Waits

LEMMA LoopSpelled ==
    ASSUME ReaderInv, SpelledInv, ReadDatum \/ DatumRead \/ Eval \/ OpenFile \/ EndOfFile
    PROVE  SpelledInv'
  <1> USE DEF ReaderInv
  <1>1. CASE ReadDatum
    <2>1. pc = "loop" /\ pc' = "lex" /\ want' = "datum" /\ stack' = stack /\ stack = <<>>
      BY <1>1 DEF ReadDatum, LexFor
    <2>2. Own' = NIHIL
      <3>1. seen \in Seq(Token) /\ seen' = seen /\ begin' = Len(seen) + 1
        BY <1>1 DEF ReadDatum, TypeOK
      <3> QED
        BY <3>1 DEF Own, NIHIL
    <2>3. ASSUME NEW D \in SUBSET Readings, NEW I \in SUBSET Readings, Grammar(D, I)
          PROVE  ReadUpTo(D, I)'
      <3>1. Read(D, I, <<>>, NIHIL)
        BY <2>3, GapIs, ReadIs
      <3> QED
        BY <2>1, <2>2, <3>1 DEF ReadUpTo
    <2> QED
      BY <2>1, <2>3 DEF SpelledInv
  <1>2. CASE DatumRead
    <2>1. /\ pc = "return" /\ stack = <<>> /\ UNCHANGED <<seen, begin, value, errLex, errDat>>
          /\ value \in Seq(Token) /\ pc' \in {"eval", "loop"}
          /\ pc' = "eval" => value # NIHIL /\ ~errLex /\ ~errDat
      BY <1>2 DEF DatumRead, reader, TypeOK
    <2>2. Own' = Own /\ Own \in Seq(Token)
      BY <2>1, OwnSame
    <2>3. ASSUME pc' = "eval", NEW D \in SUBSET Readings, NEW I \in SUBSET Readings, Grammar(D, I)
          PROVE  <<Own, value>> \in D
      <3>1. ReadWith(D, I, <<>>, value, Own)
        BY <2>1, <2>3 DEF SpelledInv, ReadUpTo
      <3>2. PICK g \in Seq(Token), v \in Seq(Token) : Own = g ++ v /\ Read(D, I, <<>>, g) /\ <<v, value>> \in D
        BY <3>1 DEF ReadWith
      <3>3. g \in Gap(D, I)
        BY <3>2, ReadIs
      <3> QED
        BY <2>1, <3>2, <3>3 DEF Gap
    <2> QED
      BY <2>1, <2>2, <2>3 DEF SpelledInv, Spells, ReadUpTo
  <1>3. CASE Eval \/ OpenFile \/ EndOfFile
    <2>1. pc' \notin {"lex", "return", "eval"}
      BY <1>3 DEF Eval, OpenFile, EndOfFile
    <2> QED
      BY <2>1 DEF SpelledInv, ReadUpTo
  <1> QED
    BY <1>1, <1>2, <1>3

(* Whatever the text, a datum that is evaluated is spelled by the lexemes  *)
(* its reading took: brackets match, comments and nothing else are left    *)
(* out, and no lexeme is bad.                                              *)
THEOREM OnlySpelledEvaluated == Spec => []EvaluatedIsSpelled
  <1>1. Init => SpelledInv
    BY DEF Init, SpelledInv, ReadUpTo
  <1>2. ReaderInv /\ SpelledInv /\ [Next]_vars => SpelledInv'
    <2> SUFFICES ASSUME ReaderInv, SpelledInv, [Next]_vars PROVE SpelledInv'
      OBVIOUS
    <2>1. CASE ReadLexeme
      BY <2>1, ReadLexemeReads
    <2>2. CASE Resume
      BY <2>2, ResumeSpelled
    <2>3. CASE ReadDatum \/ DatumRead \/ Eval \/ OpenFile \/ EndOfFile
      BY <2>3, LoopSpelled
    <2>4. CASE UNCHANGED vars
      <3>1. UNCHANGED <<pc, want, stack, value, errLex, errDat, Own, Eof, Top>>
        BY <2>4 DEF vars, reader, Own, Eof, Top
      <3> QED
        BY <3>1 DEF SpelledInv, ReadUpTo
    <2> QED
      BY <2>1, <2>2, <2>3, <2>4 DEF Next
  <1>3. SpelledInv => EvaluatedIsSpelled
    BY DEF SpelledInv, EvaluatedIsSpelled
  <1> QED
    BY <1>1, <1>2, <1>3, ReaderTypes, PTL DEF Spec
=============================================================================
