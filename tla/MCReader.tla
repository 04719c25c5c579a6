------------------------------ MODULE MCReader ------------------------------
(***************************************************************************)
(* Reader for TLC, with its properties.                                    *)
(***************************************************************************)
EXTENDS Texts

CONSTANTS Longest,      \* the longest text of signs, atoms and a bad lexeme
          LongestList   \* what a longer text, one list, holds

(* Texts of lexemes kept apart; lists with comments and dots; and pieces   *)
(* written next to each other, whether that keeps them apart or not.       *)
Blank == Piece("", <<" ">>, Whatever)
Few == {Piece(p, <<p>>, Whatever) : p \in {"(", ")", "]", "'"}} \cup
       {Piece(".", <<".">>, Ended), Piece("#;", <<"#", ";">>, Whatever), Piece("id", <<"x">>, Ended), Piece("bad", <<"1", "x">>, Ended)}
Fewer == {p \in Few : p.kind \notin {"'", "]", "bad"}}
List(pieces) == <<Piece("(", <<"(">>, Whatever)>> \o pieces \o <<Piece(")", <<")">>, Whatever), Blank>>
Spaced(pieces) == FlattenSeq([i \in DOMAIN pieces |-> <<pieces[i], Blank>>])
Pieces == Atoms \cup Faulty \cup Signs \cup Space
MCInputs ==
    {Input("file", Spaced(p), 1) : p \in BoundedSeq(Few, Longest)} \cup
    {Input("file", List(Spaced(p)), 1) : p \in [1..LongestList -> Fewer]} \cup
    {Input(mode, p, 1) : mode \in {"file", "console"}, p \in BoundedSeq(Pieces, 2)} \cup
    {Input("console", Spaced(p), 1) : p \in BoundedSeq(Few, 3)} \cup
    {Input("file", p, 2) : p \in BoundedSeq(Few, 2)} \cup
    {[Input("file", p, 1) EXCEPT !.files = <<Spelled(p)>>, !.apart = FALSE] : p \in BoundedSeq(Few, 2)}

AtEnd == pc = "loop" /\ Eof
HasBad(s) == \E i \in DOMAIN s : s[i].kind = "bad"

(* Lexemes that delimiters keep apart are read as they were spelled, in    *)
(* their order, whatever stands between them, and a bad one costs no other *)
(* (lex_error_u goes on to a delimiter; the syntax errors of the reader    *)
(* leave the lexer where it is).                                           *)
LexemesAgree ==
    input.apart =>
        /\ IsPrefix(seen, input.lexemes)
        /\ AtEnd => seen = input.lexemes

(* Whatever the text, what is evaluated is a datum, spelled by the lexemes *)
(* its reading took, none of them bad: brackets match, comments are taken  *)
(* out, and no error in a datum is forgotten at its end.                   *)
OnlySpelledData ==
    pc = "eval" =>
        LET own == SubSeq(seen, begin, Len(seen))
        IN ~HasBad(own) /\ value \in Group(own, 1, Len(own))

(* When a text is a sequence of data, every one of them is evaluated, once *)
(* and in order, but for those with a bad lexeme in or before them: an     *)
(* error costs one datum, and the next is read from a clean state.         *)
EveryDatumRead ==
    AtEnd /\ (input.mode = "file" \/ ~HasBad(seen)) =>
        \A groups \in File(seen, 1) : evaluated = SelectSeq(groups, Clean)

(* What is evaluated is what the text says: nothing else, and all of it.   *)
DataAgree == OnlySpelledData /\ EveryDatumRead

(* A program of files comes to its end, on any text: what is read at the   *)
(* end of a text never makes a loop of the lexer or the reader go on.      *)
ReadingEnds == input.mode = "file" => <>(pc \in {"done", "abort"})
=============================================================================
