------------------------------- MODULE Lexer -------------------------------
(***************************************************************************)
(* The lexer of parse.c over the character classes of charcat.c: what      *)
(* pars_read_lexeme makes of the characters from one position on.          *)
(*                                                                         *)
(* A text is a sequence of characters; a position is that of charcur, the  *)
(* one character read ahead, and Len(text) + 1 the end.  readp, which      *)
(* reads again what the dispatch has already read, is reading from the     *)
(* position where the lexeme starts.  A lexeme keeps its spelling: no      *)
(* property needs the value of a number or of a character.                 *)
(***************************************************************************)
EXTENDS Integers, Sequences, FiniteSets, FiniteSetsExt

EOF == "eof"
At(t, i) == IF i \in DOMAIN t THEN t[i] ELSE EOF

(* charcat.c for ASCII.  Apart from brackets, digits and blanks, every     *)
(* graphic character is in one of the categories of <constituent>; which   *)
(* of them are delimiters is asked first.  Some characters are left out,   *)
(* one control character stands for all, and the backquote has a name.     *)
Digit == {"0", "1", "2", "3", "4", "5", "6", "7", "8", "9"}
Letter == {"a", "b", "c", "d", "e", "f", "g", "h", "i", "j", "k", "l", "m",
           "n", "o", "p", "q", "r", "s", "t", "u", "v", "w", "x", "y", "z"}
Control == {"^A"}
LineEnding == {"\n"}
Whitespace == {" ", "\t"} \cup LineEnding
Delim == {"(", ")", "[", "]", "{", "}", "\"", ";", "#"} \cup Whitespace
Initial == Letter \cup {"+", "-", ".", "@", "!", "*", "/", "<", ">", "=", "?", "_",
                        "'", "quasi", ",", "|", "\\", "\"", ";", "#"}
Subsequent == Initial \cup Digit
Char == Digit \cup Control \cup Delim \cup Initial

Radix(c) == CASE c = "x" -> 16 [] c = "o" -> 8 [] c = "b" -> 2 [] OTHER -> 10
Precision == {"i", "e"}
NumAfterHash == Precision \cup {"d", "x", "o", "b"}
NumAfterSign == Digit \cup {".", "n", "i"}
ExpMarker == {"e", "s", "d", "f", "l"}
DigitOf(radix) ==
    CASE radix = 2 -> {"0", "1"}
      [] radix = 8 -> Digit \ {"8", "9"}
      [] radix = 10 -> Digit
      [] radix = 16 -> Digit \cup {"a", "b", "c", "d", "e", "f"}

-----------------------------------------------------------------------------
(* readch and readp until a character of S, past those of S, or the end.   *)
First(t, i, S) ==
    LET hits == {j \in i..Len(t) : t[j] \in S}
    IN IF hits = {} THEN Len(t) + 1 ELSE Min(hits)
Past(t, i, S) ==
    LET others == {j \in i..Len(t) : t[j] \notin S}
    IN IF others = {} THEN Len(t) + 1 ELSE Min(others)
AllIn(t, i, j, S) == \A k \in i..j - 1 : t[k] \in S
EndsAt(t, i) == At(t, i) \in Delim \cup {EOF}
Matches(t, i, word) == \A k \in DOMAIN word : At(t, i + k - 1) = word[k]

Lexeme(kind, t, i, j) == [kind |-> kind, text |-> SubSeq(t, i, j - 1), next |-> j]

(* lex_error_u: whatever was wrong, the rest up to a delimiter goes with   *)
(* it, from the character c that was read last.                            *)
BadStays(t, i, c) == Lexeme("bad", t, i, c)                    \* mutant
Bad(t, i, c) == Lexeme("bad", t, i, First(t, c, Delim))
Stop(t, i, c) == Lexeme("stop", t, i, First(t, c, Delim))

(* skip_comment_line stops behind the line ending; skip_comment_nested     *)
(* behind the |# that balances.  A | or # may belong to two signs at once. *)
AfterLine(t, i) == Min({First(t, i + 1, LineEnding) + 1, Len(t) + 1})
Pairs(t, i, j, a, b) == Cardinality({k \in i + 1..j : t[k - 1] = a /\ t[k] = b})
Closings(t, i) ==
    {j \in i + 3..Len(t) : /\ t[j - 1] = "|" /\ t[j] = "#"
                           /\ Pairs(t, i + 2, j, "|", "#") = 1 + Pairs(t, i + 2, j, "#", "|")}

(* Where the next lexeme starts: the loop to "start" in pars_read_lexeme.  *)
LexemeStart(t, p) ==
    LET start[i \in 1..Len(t) + 1] ==
            LET j == Past(t, i, Whitespace)
            IN CASE At(t, j) = ";" -> start[AfterLine(t, j)]
                 [] At(t, j) = "#" /\ At(t, j + 1) = "|" /\ Closings(t, j) # {} ->
                        start[Min(Closings(t, j)) + 1]
                 [] OTHER -> j
    IN start[p]

-----------------------------------------------------------------------------
(* An identifier, or one of the peculiar ones: + - ... ->x.  At the end of *)
(* the text + and ... are refused, since EOF is no chrp_delim.             *)
lex_read_identifier(t, i) ==
    LET c == t[i]
        dots == Min({k \in i + 1..i + 3 : k = i + 3 \/ At(t, k) # "."})
        peculiar == c \in {"+", "."} \/ (c = "-" /\ At(t, i + 1) # ">")
        next == IF c = "." THEN dots ELSE IF peculiar THEN i + 1 ELSE First(t, i + 1, Delim)
    IN IF /\ EndsAt(t, next) /\ (c \in {"+", "."} => At(t, next) # EOF)
          /\ peculiar \/ \A k \in i + 1..next - 1 : t[k] \in Subsequent
       THEN Lexeme("id", t, i, next)
       ELSE Bad(t, i, next)

(* Mantissa, fraction or denominator, exponent, as far as each will go.    *)
Exponent(t, f, e, digits) ==
    /\ t[f] \in ExpMarker
    /\ \E x \in f + 1..e - 1 :
          /\ x = IF t[f + 1] \in {"+", "-"} THEN f + 2 ELSE f + 1
          /\ AllIn(t, x, e, digits)
Unsigned(t, i, e, digits) ==
    \E m \in i..e, f \in i..e :
        /\ m = e \/ t[m] \notin digits
        /\ f = e \/ t[f] \notin digits
        /\ AllIn(t, i, m, digits)
        /\ \/ m = f /\ m > i /\ At(t, m) \notin {".", "/"}
           \/ m < f /\ t[m] = "." /\ AllIn(t, m + 1, f, digits) /\ (m > i \/ f > m + 1)
           \/ m < f /\ t[m] = "/" /\ AllIn(t, m + 1, f, digits) /\ m > i /\ f > m + 1
        /\ f = e \/ Exponent(t, f, e, digits)

(* A number: prefix, sign, and what follows up to a delimiter.  After a    *)
(* prefix that ends the text, set_readp_ix steps back onto the prefix's    *)
(* last character, which is then read as if it were a digit.               *)
lex_read_number(t, i) ==
    LET prefixed == t[i] = "#"
        second == prefixed /\ At(t, i + 2) = "#"
        markers == IF second THEN {At(t, i + 1), At(t, i + 3)} ELSE {At(t, i + 1)}
        radix == IF prefixed /\ ~(markers \subseteq Precision)
                 THEN Radix(CHOOSE c \in markers : c \notin Precision) ELSE 10
        sign == i + (IF second THEN 4 ELSE IF prefixed THEN 2 ELSE 0)
        body == IF At(t, sign) \in {"+", "-"} THEN sign + 1 ELSE sign
        start == Min({body, Len(t)})
        next == First(t, start, Delim)
        respecified == second /\ \/ At(t, i + 3) \notin NumAfterHash
                                 \/ At(t, i + 1) \in Precision <=> At(t, i + 3) \in Precision
        Naninf(word) == Matches(t, body, word) /\ At(t, body + 5) \in Delim
    IN IF /\ ~respecified
          /\ IF At(t, body) \in {"n", "i"}
             THEN Naninf(<<"n", "a", "n", ".", "0">>) \/ Naninf(<<"i", "n", "f", ".", "0">>)
             ELSE Unsigned(t, start, next, DigitOf(radix))
       THEN Lexeme("num", t, i, next)
       ELSE Bad(t, i, IF respecified THEN i + 3 ELSE start)

(* A character: #\ and one character, its code, or its name (three of the  *)
(* twelve).                                                                *)
CharName == {<<"n", "u", "l">>, <<"t", "a", "b">>, <<"e", "s", "c">>}
lex_read_char(t, i) ==
    LET code == Past(t, i + 3, DigitOf(16))
        hex == At(t, i + 2) = "x" /\ code > i + 3 /\ EndsAt(t, code)
        named == \E w \in CharName : Matches(t, i + 2, w) /\ EndsAt(t, i + 2 + Len(w))
        next == IF EndsAt(t, i + 3) THEN Min({i + 3, Len(t) + 1}) ELSE First(t, i + 3, Delim)
    IN IF EndsAt(t, i + 3) \/ hex \/ named
       THEN Lexeme("char", t, i, next) ELSE Bad(t, i, next)

(* A string ends at the first " that no backslash escapes; what follows a  *)
(* backslash is looked at when new_string_lex builds the string.           *)
Escape == {"a", "b", "t", "n", "v", "f", "r", "\"", "\\"} \cup LineEnding
Escaped(t, i, j) ==
    Cardinality({k \in i + 1..j - 1 : \A m \in k..j - 1 : t[m] = "\\"}) % 2 = 1
Escapes(t, i, j) ==
    \/ t[j] \in Escape
    \/ LET e == Past(t, j + 1, DigitOf(16)) IN t[j] = "x" /\ e > j + 1 /\ At(t, e) = ";"
lex_read_string(t, i) ==
    LET quotes == {j \in i + 1..Len(t) : t[j] = "\"" /\ ~Escaped(t, i, j)}
        next == IF quotes = {} THEN Len(t) + 1 ELSE Min(quotes) + 1
    IN IF /\ quotes # {}
          /\ \A j \in i + 1..next - 2 : Escaped(t, i, j) => Escapes(t, i, j)
       THEN Lexeme("string", t, i, next) ELSE Bad(t, i, next)

(* What starts with #.                                                     *)
lex_read_hash(t, i) ==
    LET c == At(t, i + 1)
    IN CASE c \in Whitespace -> Bad(t, i, i + 1)
         [] c \in NumAfterHash -> lex_read_number(t, i)
         [] c = "(" -> Lexeme("#(", t, i, i + 2)
         [] c = "v" -> IF Matches(t, i + 2, <<"u", "8", "(">>)
                       THEN Lexeme("#vu8(", t, i, i + 5)
                       ELSE Bad(t, i, Min({k \in i + 2..i + 4 : At(t, k) # <<"u", "8", "(">>[k - i - 1]}))
         [] c \in {"t", "f"} -> Lexeme("const", t, i, i + 2)
         [] c = "\\" -> lex_read_char(t, i)
         [] c = "|" -> Stop(t, i, Len(t) + 1)
         [] c = ";" -> Lexeme("#;", t, i, i + 2)
         [] OTHER -> Bad(t, i, i + 2)

(* The lexeme that starts at i; its kind is EOF at the end of the text.    *)
Punctuation == {"(", ")", "[", "]", "'", "quasi", ","}
pars_read_lexeme(t, i) ==
    LET c == At(t, i)
        d == At(t, i + 1)
    IN CASE c = EOF -> Lexeme(EOF, t, i, i)
         [] \/ c \in Digit
            \/ c \in {"+", "-"} /\ d \in NumAfterSign
            \/ c = "." /\ d \in Digit -> lex_read_number(t, i)
         [] c = "." /\ EndsAt(t, i + 1) -> Lexeme(".", t, i, i + 1)
         [] c = "," /\ d = "@" -> Lexeme(",@", t, i, i + 2)
         [] c \in Punctuation /\ ~(c = "," /\ d = "@") -> Lexeme(c, t, i, i + 1)
         [] c \in {"{", "}"} -> Stop(t, i, i + 1)
         [] c = "\"" -> lex_read_string(t, i)
         [] c = "#" -> lex_read_hash(t, i)
         [] c \in Control -> Bad(t, i, i + 1)
         [] OTHER -> lex_read_identifier(t, i)
=============================================================================
