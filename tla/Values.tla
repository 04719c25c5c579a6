------------------------------- MODULE Values -------------------------------
(***************************************************************************)
(* Data, which are both the forms of a program and its values, and the     *)
(* builtins of libr.c.  A datum is a tuple whose first element is its tag. *)
(* Pairs are immutable (bin_cons sets their CONST bit) and what stands at  *)
(* the end of a list, NIHIL or SYMB_NIL, is Nil.  An identifier is what    *)
(* the parser makes of a name; a symbol is what it names.                  *)
(***************************************************************************)
EXTENDS Integers, Sequences, SequencesExt

CONSTANT FixBits     \* the bits of a fixnum (63 in the code, desc_from_fixnum)

Fix(n) == <<"int", n>>
Id(x) == <<"id", x>>
Sym(x) == <<"sym", x>>
Nil == <<"nil">>
False == <<"#f">>            \* SYMB_F
True == <<"#t">>             \* SYMB_T
Void == <<"void">>           \* SYMB_VOID
Undef == <<"undef">>         \* SYMB_UNDEF
Nihil == <<"nihil">>         \* NIHIL: a slot nothing was written to
Pair(a, b) == <<"pair", a, b>>
Bin(name) == <<"bin", name>>

(* What stands for the result of a top-level form that ends in an error.   *)
Err == <<"error">>

IsPair(v) == v[1] = "pair"
IsInt(v) == v[1] = "int"
IsId(v) == v[1] = "id"
Car(v) == v[2]
Cdr(v) == v[3]
Cond(b) == IF b THEN True ELSE False

-----------------------------------------------------------------------------
(* Lists: the elements along the cdrs, and what ends them.  No list of a   *)
(* session is longer than MaxLength.                                       *)
MaxLength == 12

Spine(d) ==
    LET walk[n \in 0..MaxLength] ==
            IF n = 0 THEN [elements |-> <<>>, end |-> d]
            ELSE LET w == walk[n - 1] IN
                 IF IsPair(w.end)
                   THEN [elements |-> Append(w.elements, Car(w.end)), end |-> Cdr(w.end)]
                   ELSE w
    IN  walk[MaxLength]

Elements(d) == Spine(d).elements
EndOf(d) == Spine(d).end
IsList(d) == EndOf(d) = Nil

(* cli_len: the length, negative if the list is improper.                  *)
CliLen(d) == IF IsList(d) THEN Len(Elements(d)) ELSE -Len(Elements(d))

ListEnding(es, end) ==
    LET from[i \in 0..Len(es)] ==
            IF i = 0 THEN end ELSE Pair(es[Len(es) + 1 - i], from[i - 1])
    IN  from[Len(es)]
List(es) == ListEnding(es, Nil)

(* The names that are keywords wherever they stand (symbol_reserved); the  *)
(* one a form is headed by; the names in a list of parameters, the one     *)
(* for what is left of the arguments included.                             *)
Keywords == {"let", "let*", "letrec", "letrec*", "lambda", "define", "if", "cond", "case",
             "set!", "begin", "begin0", "else", "call/cc", "quote", "quasiquote",
             "unquote", "unquote-splicing"}
HeadName(d) == IF IsPair(d) /\ IsId(Car(d)) THEN Car(d)[2] ELSE ""
IsUnquote(d) == HeadName(d) \in {"unquote", "unquote-splicing"}
Formals(ps) == Elements(ps) \o (IF IsList(ps) THEN <<>> ELSE <<EndOf(ps)>>)

-----------------------------------------------------------------------------
(* The builtins: name, argc, and whether more arguments may follow.        *)
BinTable ==
    << <<"+", 0, TRUE>>, <<"*", 0, TRUE>>, <<"-", 1, TRUE>>,
       <<"<", 2, TRUE>>, <<"=", 2, TRUE>>, <<"eq?", 2, FALSE>>,
       <<"and", 0, TRUE>>, <<"or", 0, TRUE>>, <<"not", 1, FALSE>>,
       <<"list", 0, TRUE>>, <<"cons", 2, FALSE>>, <<"car", 1, FALSE>>, <<"cdr", 1, FALSE>>,
       <<"list?", 1, FALSE>>, <<"null?", 1, FALSE>>, <<"pair?", 1, FALSE>>,
       <<"length", 1, FALSE>>, <<"list-cat", 0, TRUE>>,
       <<"quote", 1, FALSE>>, <<"unquote", 1, FALSE>>, <<"unquote-splicing", 1, FALSE>> >>

BinNames == [i \in 1..Len(BinTable) |-> BinTable[i][1]]
BinNamed(name) == BinTable[CHOOSE i \in 1..Len(BinTable) : BinTable[i][1] = name]
BinTakes(name, n) == n = BinNamed(name)[2] \/ (BinNamed(name)[3] /\ n >= BinNamed(name)[2])

(* desc_from_fixnum shifts the tag's bit out of what arithmetic leaves.    *)
Wrap(n) == ((n + 2^(FixBits - 1)) % 2^FixBits) - 2^(FixBits - 1)

Add2(n, v) == n + v[2]
Times2(n, v) == n * v[2]
Minus2(n, v) == n - v[2]

Exact(name, args) ==
    CASE name = "+" -> FoldLeft(Add2, 0, args)
      [] name = "*" -> FoldLeft(Times2, 1, args)
      [] name = "-" -> IF Len(args) = 1 THEN -args[1][2]
                       ELSE FoldLeft(Minus2, args[1][2], Tail(args))

IsArithmetic(name) == name \in {"+", "*", "-"}
IsOrder(name) == name \in {"<", "="}
InOrder(name, a, b) == IF name = "<" THEN a[2] < b[2] ELSE a[2] = b[2]

(* A comparison looks at its arguments until one is out of order.          *)
Looked(name, args) ==
    {i \in 1..Len(args) :
        \A j \in 2..i - 1 : /\ IsInt(args[j - 1]) /\ IsInt(args[j])
                            /\ InOrder(name, args[j - 1], args[j])}

(* PANIC_BAD_ARG: an argument of the wrong type.                           *)
BinPanics(name, args) ==
    \/ name \in {"car", "cdr"} /\ ~IsPair(args[1])
    \/ name = "length" /\ ~(IsPair(args[1]) /\ IsList(args[1]))
    \/ name = "unquote-splicing" /\ ~IsList(args[1])
    \/ IsArithmetic(name) /\ \E i \in 1..Len(args) : ~IsInt(args[i])
    \/ IsOrder(name) /\ \E i \in Looked(name, args) : ~IsInt(args[i])

(* "and" of no arguments returns the one before the first.                 *)
BinStrays(name, args) == name = "and" /\ args = <<>>

(* bin_list_cat: lists one after the other, an atom as a list of itself.   *)
(* The last list that is not empty keeps what it ends in.                  *)
Part(d) == IF IsPair(d) \/ d = Nil THEN d ELSE Pair(d, Nil)
Before(d, rest) == ListEnding(Elements(d), IF rest = Nil THEN EndOf(d) ELSE rest)
Catenated(ds) ==
    LET from[i \in 0..Len(ds)] ==
            IF i = 0 THEN Nil ELSE Before(Part(ds[Len(ds) + 1 - i]), from[i - 1])
    IN  from[Len(ds)]

(* In Scheme (and) is #t; the code never comes to that: see BinStrays.     *)
AndOf(ds) ==
    IF ds = <<>> THEN True
    ELSE IF \E i \in 1..Len(ds) : ds[i] = False THEN False
    ELSE ds[Len(ds)]
OrOf(ds) ==
    LET others == {i \in 1..Len(ds) : ds[i] # False}
    IN  IF others = {} THEN False ELSE ds[CHOOSE i \in others : \A j \in others : i <= j]

BinResult(name, args) ==
    CASE IsArithmetic(name) -> Fix(Wrap(Exact(name, args)))
      [] IsOrder(name) ->
           Cond(\A i \in 2..Len(args) : i \in Looked(name, args) =>
                    InOrder(name, args[i - 1], args[i]))
      [] name = "eq?" -> Cond(args[1] = args[2])
      [] name = "and" -> AndOf(args)
      [] name = "or" -> OrOf(args)
      [] name = "not" -> Cond(args[1] = False)
      [] name = "list" -> List(args)
      [] name = "cons" -> Pair(args[1], args[2])
      [] name = "car" -> Car(args[1])
      [] name = "cdr" -> Cdr(args[1])
      [] name = "list?" -> Cond(IsList(args[1]))
      [] name = "null?" -> Cond(args[1] = Nil)
      [] name = "pair?" -> Cond(IsPair(args[1]))
      [] name = "length" -> Fix(CliLen(args[1]))
      [] name = "list-cat" -> Catenated(args)
      [] name = "quote" -> IF IsId(args[1]) THEN Sym(args[1][2]) ELSE args[1]
      [] name = "unquote" -> IF IsPair(args[1]) THEN Pair(args[1], Nil) ELSE args[1]
      [] name = "unquote-splicing" -> args[1]

(* Ghosts: what a builtin does that Scheme does not.  A sum that needs     *)
(* more bits is cut; an unquoted empty list is lost; the names in a quoted *)
(* list stay identifiers, which are not eq? to their symbols.              *)
BinDeviations(name, args) ==
    {k \in {"overflow", "nil", "ident"} :
        \/ k = "overflow" /\ IsArithmetic(name) /\ Wrap(Exact(name, args)) # Exact(name, args)
        \/ k = "nil" /\ name = "unquote" /\ args[1] = Nil
        \/ k = "ident" /\ name = "eq?" /\ {args[1][1], args[2][1]} = {"id", "sym"}}
=============================================================================
