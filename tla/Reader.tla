------------------------------- MODULE Reader -------------------------------
(***************************************************************************)
(* The reader of parse.c under the loops of main.c: file_loop opens a      *)
(* file, reads one datum after the other and evaluates those without an    *)
(* error; console_loop does it with one endless input.                     *)
(*                                                                         *)
(* One action per lexeme.  The C stack of syn_read_datum, syn_match_datum  *)
(* and syn_read_compound is stack; what is waiting for the value of a call *)
(* says so in the frame, and want says which call the next lexeme is for.  *)
(* A datum is written as the sequence of its lexemes, NIHIL as the empty   *)
(* one; brackets of lists are round, and a dotted tail that is a list is   *)
(* spliced, since it is the same pairs.                                    *)
(***************************************************************************)
EXTENDS Lexer, SequencesExt

CONSTANT Inputs     \* [mode, files]: "file" and the files' texts, or "console" and one

ASSUME InputsAssumption ==
    \A in \in Inputs : /\ in.mode \in {"file", "console"}
                      /\ in.files \in Seq(Seq(Char)) /\ in.files # <<>>

VARIABLES
    input,          \* the command line: mode, and what the files hold
    turn,           \* the turns of file_loop over the file names
    pc,             \* "open", "loop", "lex", "return", "eval", "done", "abort"
    text, pos,      \* what the port delivers, and where charcur is
    want,           \* "datum", "item", "item_after_comment", "close"
    stack,          \* calls that wait for a datum
    value,          \* the datum a call returned
    errLex, errDat, \* PARS_BITM_ERR_LEX, PARS_BITM_ERR_DAT
    evaluated,      \* ghost: the data of this file given to vm_eval
    seen, begin     \* ghost: the lexemes of this file, and where the datum's start

reader == <<pos, want, stack, value, errLex, errDat, seen>>
vars == <<input, turn, pc, text, reader, evaluated, begin>>

NIHIL == <<>>
Eof == pos > Len(text)

Sign(kind) == [kind |-> kind, text |-> <<>>]
Bare(lex) == IF lex.kind \in {"id", "num", "char", "string", "const", "bad", "stop"}
             THEN [kind |-> lex.kind, text |-> lex.text] ELSE Sign(lex.kind)

Atom == {"id", "num", "char", "string", "const"}
Quotation == {"'", "quasi", ",", ",@"}
Round == {"(", "#(", "#vu8("}
Opens == Round \cup {"["}
Closes == {")", "]"}

Byte(lex) == lex.kind = "num" /\ Len(lex.text) \in 1..2 /\ ToSet(lex.text) \subseteq Digit

-----------------------------------------------------------------------------
(* Data.  CONSCAR puts what is quoted into a list of one.                  *)
Bracketed(kind, items) == <<Sign(kind)>> \o items \o <<Sign(")")>>
Quoted(kind, datum) == Bracketed("(", <<[kind |-> "id", text |-> <<kind>>]>> \o datum)
IsList(datum) == datum # NIHIL /\ datum[1].kind = "("
Chain(items, tail) ==
    CASE tail = NIHIL -> items
      [] IsList(tail) -> items \o SubSeq(tail, 2, Len(tail) - 1)
      [] OTHER -> items \o <<Sign(".")>> \o tail

-----------------------------------------------------------------------------
Frame(kind, step) == [kind |-> kind, step |-> step, items |-> <<>>, tail |-> NIHIL]
Top == stack[Len(stack)]
Caller == SubSeq(stack, 1, Len(stack) - 1)
Update(field, x) == stack' = [stack EXCEPT ![Len(stack)][field] = x]

(* A call returns, and its caller goes on with what it returned.           *)
Return(datum) == pc' = "return" /\ value' = datum /\ UNCHANGED want

(* An exception of the reader: pars_read_datum catches it, returns NIHIL,  *)
(* and its loop goes on behind the lexeme that was read last.              *)
Throw(lexError) ==
    /\ errLex' = (errLex \/ lexError) /\ errDat' = (errDat \/ ~lexError)
    /\ stack' = <<>> /\ value' = NIHIL /\ pc' = "return" /\ UNCHANGED want

NoError == UNCHANGED <<errLex, errDat>>
Forgiven == errLex' = FALSE /\ errDat' = FALSE
LexFor(what) == want' = what /\ pc' = "lex" /\ UNCHANGED value

(* syn_match_datum.                                                        *)
Match(lex) ==
    \/ lex.kind \in Atom /\ Return(<<lex>>) /\ UNCHANGED stack /\ NoError
    \/ /\ lex.kind \in Opens
       /\ stack' = Append(stack, Frame(lex.kind, "add")) /\ LexFor("item") /\ NoError
    \/ /\ lex.kind \in Quotation
       /\ stack' = Append(stack, Frame(lex.kind, "quote")) /\ LexFor("datum") /\ NoError
    \/ /\ lex.kind = "#;"
       /\ stack' = Append(stack, Frame("#;", "skip")) /\ LexFor("datum") /\ NoError
    \/ lex.kind \in Closes \cup {"."} /\ Throw(FALSE)

(* The end of syn_read_compound's loop, and what it makes of the items.    *)
Fits(lex) == lex.kind = ")" <=> Top.kind \in Round
Close(lex) ==
    LET bytes == Top.kind = "#vu8(" => \A i \in DOMAIN Top.items : Byte(Top.items[i])
        kind == IF Top.kind = "[" THEN "(" ELSE Top.kind
    IN IF Fits(lex)
       THEN /\ stack' = Caller
            /\ errDat' = (errDat \/ ~bytes) /\ UNCHANGED errLex
            /\ Return(IF bytes THEN Bracketed(kind, Chain(Top.items, Top.tail))
                               ELSE Bracketed("(", <<>>))
       ELSE Throw(FALSE)

(* One turn of that loop.                                                  *)
GoesOn == LexFor("item") /\ UNCHANGED stack /\ NoError              \* mutant
CutShort == Throw(FALSE)
Item(lex) ==
    \/ /\ lex.kind = "." /\ Top.kind \in {"(", "["} /\ Top.items # <<>>
       /\ Update("step", "tail") /\ LexFor("datum") /\ NoError
    \/ /\ lex.kind = "." /\ ~(Top.kind \in {"(", "["} /\ Top.items # <<>>)
       /\ Throw(FALSE)
    \/ lex.kind \in Closes /\ Close(lex)
    \/ lex.kind = EOF /\ CutShort
    \/ lex.kind \notin Closes \cup {".", EOF} /\ Match(lex)

(* What the lexeme read is for.  A comment is dropped at one place of the  *)
(* loop only; a second one goes to syn_match_datum, which wants a datum    *)
(* behind it.                                                              *)
Syntax(lex) ==
    \/ want = "datum" /\ lex.kind = EOF /\ Return(NIHIL) /\ UNCHANGED stack /\ NoError
    \/ want = "datum" /\ lex.kind # EOF /\ Match(lex)
    \/ /\ want = "item" /\ lex.kind = "#;"
       /\ Update("step", "drop") /\ LexFor("datum") /\ NoError
    \/ want = "item" /\ lex.kind # "#;" /\ Item(lex)
    \/ want = "item_after_comment" /\ Item(lex)
    \/ want = "close" /\ lex.kind \in Closes /\ Close(lex)
    \/ want = "close" /\ lex.kind \notin Closes /\ Throw(FALSE)

(* pars_next_lex.  A bad lexeme is retried in a file and thrown at the     *)
(* console (PARS_BITM_ALWAYSFATAL).                                        *)
ReadLexeme ==
    /\ pc = "lex"
    /\ \E i \in {LexemeStart(text, pos)} : \E lex \in {pars_read_lexeme(text, i)} :
           /\ pos' = lex.next
           /\ seen' = IF lex.kind = EOF THEN seen ELSE Append(seen, Bare(lex))
           /\ \/ /\ lex.kind = "bad" /\ input.mode = "file"
                 /\ errLex' = TRUE /\ UNCHANGED <<pc, want, stack, value, errDat>>
              \/ lex.kind = "bad" /\ input.mode = "console" /\ Throw(TRUE)
              \/ lex.kind = "stop" /\ Throw(TRUE)
              \/ lex.kind \notin {"bad", "stop"} /\ Syntax(Bare(lex))
    /\ UNCHANGED <<input, turn, text, evaluated, begin>>

(* What a call does with the datum it waited for.                          *)
CommentReadInList == stack' = Caller /\ LexFor("item") /\ NoError   \* mutant
CommentRead == stack' = Caller /\ LexFor("datum") /\ NoError
Resume ==
    /\ pc = "return" /\ stack # <<>>
    /\ \/ value = NIHIL /\ Top.step \in {"quote", "skip", "add"} /\ Throw(FALSE)
       \/ /\ value # NIHIL /\ Top.step = "quote"
          /\ stack' = Caller /\ Return(Quoted(Top.kind, value)) /\ NoError
       \/ value # NIHIL /\ Top.step = "skip" /\ CommentRead
       \/ /\ value # NIHIL /\ Top.step = "add"
          /\ Update("items", Top.items \o value) /\ LexFor("item") /\ NoError
       \/ /\ Top.step = "drop"
          /\ Update("step", "add") /\ LexFor("item_after_comment") /\ NoError
       \/ /\ Top.step = "tail"
          /\ Update("tail", value) /\ LexFor("close") /\ NoError
    /\ UNCHANGED <<input, turn, text, pos, evaluated, seen, begin>>

-----------------------------------------------------------------------------
(* pars_read_datum, from either loop.                                      *)
ReadDatum ==
    /\ pc = "loop" /\ (input.mode = "file" => ~Eof)
    /\ Forgiven
    /\ LexFor("datum") /\ begin' = Len(seen) + 1
    /\ UNCHANGED <<input, turn, text, pos, stack, evaluated, seen>>

(* The loop looks at the error bits of the parser and not at what threw.   *)
DatumRead ==
    /\ pc = "return" /\ stack = <<>>
    /\ pc' = IF value # NIHIL /\ ~errLex /\ ~errDat THEN "eval" ELSE "loop"
    /\ UNCHANGED <<input, turn, text, reader, evaluated, begin>>

Eval ==
    /\ pc = "eval"
    /\ evaluated' = Append(evaluated, value) /\ pc' = "loop"
    /\ UNCHANGED <<input, turn, text, reader, begin>>

(* new_parser starts with a blank as charcur.  file_loop takes the name of *)
(* the first file on every turn, and its assert reads one character of it. *)
Fed(chars) == <<" ">> \o chars
OpenFile ==
    /\ pc = "open" /\ turn < Len(input.files)
    /\ IF input.files[1] = <<>>
       THEN pc' = "abort" /\ UNCHANGED text
       ELSE pc' = "loop" /\ text' = Fed(Tail(input.files[1]))
    /\ turn' = turn + 1 /\ pos' = 1
    /\ Forgiven
    /\ evaluated' = <<>> /\ seen' = <<>> /\ begin' = 1
    /\ UNCHANGED <<input, want, stack, value>>

EndOfFile ==
    /\ \/ pc = "loop" /\ input.mode = "file" /\ Eof /\ pc' = "open"
       \/ pc = "open" /\ turn = Len(input.files) /\ pc' = "done"
    /\ UNCHANGED <<input, turn, text, reader, evaluated, begin>>

Init ==
    /\ input \in Inputs
    /\ turn = 0 /\ pos = 1
    /\ IF input.mode = "file"
       THEN pc = "open" /\ text = <<>> ELSE pc = "loop" /\ text = Fed(input.files[1])
    /\ want = "datum" /\ stack = <<>> /\ value = NIHIL
    /\ errLex = FALSE /\ errDat = FALSE
    /\ evaluated = <<>> /\ seen = <<>> /\ begin = 1

Next == ReadLexeme \/ Resume \/ ReadDatum \/ DatumRead \/ Eval \/ OpenFile \/ EndOfFile

Spec == Init /\ [][Next]_vars
FairSpec == Spec /\ WF_vars(Next)

-----------------------------------------------------------------------------
Kind == Atom \cup Quotation \cup Opens \cup Closes \cup {"#;", ".", EOF, "bad", "stop"}
Token == [kind : Kind, text : Seq(Char \cup Quotation)]
Waiting == [kind : Opens \cup Quotation \cup {"#;"}, step : {"quote", "skip", "add", "drop", "tail"},
            items : Seq(Token), tail : Seq(Token)]

(* Every variable stays in its type, charcur in the text, and a turn of the*)
(* loop of syn_read_compound finds a list to go on with.                   *)
TypeOK ==
    /\ turn \in 0..Len(input.files)
    /\ pc \in {"open", "loop", "lex", "return", "eval", "done", "abort"}
    /\ text \in Seq(Char) /\ pos \in 1..Len(text) + 1
    /\ want \in {"datum", "item", "item_after_comment", "close"}
    /\ stack \in Seq(Waiting) /\ value \in Seq(Token)
    /\ errLex \in BOOLEAN /\ errDat \in BOOLEAN
    /\ evaluated \in Seq(Seq(Token))
    /\ seen \in Seq(Token) /\ begin \in 1..Len(seen) + 1
    /\ want # "datum" /\ pc = "lex" => stack # <<>> /\ Top.kind \in Opens

(* The lexer goes on: charcur never moves back within a file, whatever is  *)
(* read again from buflex, and every lexeme but the end takes a character. *)
LexemesTakeText == [][turn' = turn => pos' >= pos /\ (seen' # seen => pos' > pos)]_vars
=============================================================================
