------------------------------- MODULE Texts -------------------------------
(***************************************************************************)
(* What TLC reads with Reader, and what it should find there.  A text is   *)
(* put together from pieces, each a way to spell a lexeme, a blank or a    *)
(* comment; the data a text spells are given by a grammar of its lexemes.  *)
(* Neither is a translation of code.                                       *)
(***************************************************************************)
EXTENDS Reader

(* A piece: its characters, the lexeme it is (kind "" for blanks and       *)
(* comments), and what has to follow it to keep it apart.                  *)
Whatever == Char \cup {EOF}
Ended == Delim \cup {EOF}
Piece(kind, chars, follow) == [kind |-> kind, text |-> chars, follow |-> follow]
Atoms == {Piece("id", <<"x">>, Ended), Piece("id", <<"-", ">", "1">>, Ended),
          Piece("id", <<"+">>, Delim), Piece("id", <<".", ".", ".">>, Delim),
          Piece("num", <<"7">>, Ended), Piece("num", <<"-", "1", "/", "2">>, Ended),
          Piece("num", <<"#", "e", "#", "x", "f", "s", "+", "1">>, Ended),
          Piece("num", <<".", "5", "e", "1">>, Ended),
          Piece("num", <<"+", "n", "a", "n", ".", "0">>, Delim),
          Piece("char", <<"#", "\\", "(">>, Ended), Piece("char", <<"#", "\\">>, {EOF}),
          Piece("char", <<"#", "\\", "x", "a">>, Ended),
          Piece("char", <<"#", "\\", "n", "u", "l">>, Ended),
          Piece("const", <<"#", "t">>, Whatever), Piece("string", <<"\"", "\"">>, Whatever),
          Piece("string", <<"\"", "\\", "\"", "\\", "\\", "\"">>, Whatever)}
Faulty == {Piece("bad", <<"1", "x">>, Ended), Piece("bad", <<"+", "x">>, Ended),
           Piece("bad", <<"#", "x", "g">>, Ended), Piece("bad", <<"#", "v", "u">>, Ended),
           Piece("bad", <<"\"", "\\", "q", "\"">>, Ended), Piece("bad", <<"1", "/">>, Ended),
           Piece("stop", <<"{">>, Ended), Piece("stop", <<"#", "|", "x">>, {EOF})}
Signs == {Piece(p[1], p[2], Whatever) : p \in
            {<<"(", <<"(">>>>, <<"]", <<"]">>>>, <<")", <<")">>>>, <<"'", <<"'">>>>, <<",@", <<",", "@">>>>,
             <<"#(", <<"#", "(">>>>, <<"#vu8(", <<"#", "v", "u", "8", "(">>>>, <<"#;", <<"#", ";">>>>}}
         \cup {Piece(".", <<".">>, Ended), Piece(",", <<",">>, Whatever \ {"@"})}
Space == {Piece("", <<"\n">>, Whatever), Piece("", <<";", "x", "\n">>, Whatever), Piece("", <<";", "(">>, {EOF}),
          Piece("", <<"#", "|", "#", "|", "|", "#", "(", "|", "#">>, Whatever)}

Spelled(pieces) == FlattenSeq([i \in DOMAIN pieces |-> pieces[i].text])
Apart(pieces) ==
    \A i \in DOMAIN pieces :
        (IF i = Len(pieces) THEN EOF ELSE pieces[i + 1].text[1]) \in pieces[i].follow
LexemesOf(pieces) ==
    LET shown == SelectSeq(pieces, LAMBDA p : p.kind # "")
    IN [i \in DOMAIN shown |-> Bare(shown[i])]

(* An input whose files begin with a character that file_loop may lose.    *)
Input(mode, pieces, count) ==
    [mode |-> mode, count |-> count,
     files |-> [i \in 1..count |-> (IF mode = "file" THEN <<"\n">> ELSE <<>>) \o Spelled(pieces)],
     apart |-> Apart(pieces), lexemes |-> LexemesOf(pieces)]

-----------------------------------------------------------------------------
(* The grammar.  A group is a datum with the bad lexemes and the comments  *)
(* in front of it; it keeps a "bad" for each bad lexeme it holds.          *)
Bads(group) == SelectSeq(group, LAMBDA l : l.kind = "bad")
AllBad(s, i, j) == \A k \in i..j : s[k].kind = "bad"
ClosedBy(open) == IF open = "[" THEN "]" ELSE ")"

RECURSIVE Group(_, _, _), Items(_, _, _)
Group(s, i, k) ==
    IF i > k THEN {}
    ELSE LET kind == s[i].kind
         IN CASE kind \in Atom -> IF i = k THEN {<<s[i]>>} ELSE {}
              [] kind \in Quotation -> {Quoted(kind, g) : g \in Group(s, i + 1, k)}
              [] kind = "bad" -> {<<s[i]>> \o g : g \in Group(s, i + 1, k)}
              [] kind = "#;" ->
                    UNION {UNION {{Bads(c) \o g : g \in Group(s, m + 1, k)} : c \in Group(s, i + 1, m)}
                             : m \in i + 1..k - 1}
              [] kind \in {"(", "["} /\ s[k].kind = ClosedBy(kind) ->
                    {Bracketed("(", l) : l \in Items(s, i + 1, k - 1)} \cup
                    UNION {UNION {{Bracketed("(", Chain(l, t)) : t \in Group(s, m + 1, q)}
                                    : l \in {x \in Items(s, i + 1, m - 1) : ~AllBad(x, 1, Len(x))}}
                             : m \in {n \in i + 2..k - 2 : s[n].kind = "."},
                               q \in {n \in i + 3..k - 1 : AllBad(s, n + 1, k - 1)}}
              [] kind = "#(" /\ s[k].kind = ")" -> {Bracketed("#(", l) : l \in Items(s, i + 1, k - 1)}
              [] kind = "#vu8(" /\ s[k].kind = ")" ->
                    {IF \A n \in DOMAIN l : Byte(l[n]) THEN Bracketed("#vu8(", l) ELSE <<Sign("bad")>>
                       : l \in Items(s, i + 1, k - 1)}
              [] OTHER -> {}

(* What may stand between brackets: at most one comment behind the last    *)
(* datum, which is less than the grammar quoted in parse.c allows.         *)
Items(s, i, j) ==
    IF AllBad(s, i, j) THEN {SubSeq(s, i, j)}
    ELSE UNION {UNION {{g \o l : l \in Items(s, k + 1, j)} : g \in Group(s, i, k)} : k \in i..j}
         \cup IF s[i].kind # "#;" THEN {}
              ELSE UNION {{Bads(c) \o SubSeq(s, m + 1, j) : c \in Group(s, i + 1, m)}
                            : m \in {n \in i + 1..j : AllBad(s, n + 1, j)}}

RECURSIVE OnlyGaps(_, _), File(_, _)
OnlyGaps(s, i) ==
    \/ i > Len(s)
    \/ s[i].kind = "bad" /\ OnlyGaps(s, i + 1)
    \/ s[i].kind = "#;" /\ \E m \in i + 1..Len(s) : Group(s, i + 1, m) # {} /\ OnlyGaps(s, m + 1)
File(s, i) ==
    (IF OnlyGaps(s, i) THEN {<<>>} ELSE {}) \cup
    UNION {UNION {{<<g>> \o l : l \in File(s, k + 1)} : g \in Group(s, i, k)} : k \in i..Len(s)}

Clean(group) == Bads(group) = <<>>
=============================================================================
