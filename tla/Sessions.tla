------------------------------ MODULE Sessions ------------------------------
(***************************************************************************)
(* The sessions the interpreter is checked on.                             *)
(***************************************************************************)
EXTENDS Anf, Scheme

Lit(v) == v
App(es) == List(es)
Form1(keyword, es) == List(<<Id(keyword)>> \o es)
If(c, a, b) == Form1("if", <<c, a, b>>)
Set(x, e) == Form1("set!", <<Id(x), e>>)
BindingList(bs) == List([i \in DOMAIN bs |-> List(<<Id(bs[i][1]), bs[i][2]>>)])
LetBy(keyword, bs, body) == Form1(keyword, <<BindingList(bs)>> \o body)
Let(bs, body) == LetBy("let", bs, body)
Letrec(bs, body) == LetBy("letrec", bs, body)
IdList(xs) == List([i \in DOMAIN xs |-> Id(xs[i])])
Lambda(ps, body) == Form1("lambda", <<IdList(ps)>> \o body)
Begin(body) == Form1("begin", body)
Define(x, e) == Form1("define", <<Id(x), e>>)
CallCC(e) == Form1("call/cc", <<e>>)

Call(f, args) == App(<<Id(f)>> \o args)
Vars(xs) == [i \in 1..Len(xs) |-> Id(xs[i])]
Num(n) == Fix(n)
Fn(ps, e) == Lambda(ps, <<e>>)
Let1(x, e, body) == Let(<< <<x, e>> >>, <<body>>)
Letrec1(x, e, body) == Letrec(<< <<x, e>> >>, <<body>>)

(* The lists the sessions loop over end in #f: (cons 2 (cons 1 #f)).       *)
ListOf(n) ==
    LET l[i \in 0..n] ==
            IF i = 0 THEN Lit(False) ELSE Call("cons", <<Num(i), l[i - 1]>>)
    IN  l[n]
X == Id("x")
Rest == Call("cdr", <<X>>)

-----------------------------------------------------------------------------
(* A family of loops,                                                      *)
(*   (define f (lambda (x y z) (if x (... (f (cdr x) A B)) BASE)))         *)
(*   (f (cons 2 (cons 1 #f)) 10 20)  (f 1 1)                               *)
(* over the arguments A and B, what is around the recursive call, and the  *)
(* base.  A variable is read where the operands that are forms leave it    *)
(* unchanged: see Scheme.tla on the order of evaluation.                   *)
Arguments ==
    << Id("y"), Id("z"), Call("cons", Vars(<<"y", "z">>)), Call("car", <<X>>),
      Fn(<<>>, Id("y")), Call("+", <<Id("y"), Call("car", <<X>>)>>),
      Let1("t", Call("cons", Vars(<<"z", "y">>)), Id("t")),
      If(Call("cdr", <<X>>), Id("z"), Call("cons", Vars(<<"x", "y">>))) >>

Recursions(a, b) ==
    << Call("f", <<Rest, a, b>>),
      Begin(<<Set("z", a), Call("f", <<Rest, Id("y"), Id("z")>>)>>),
      Let1("w", a, Call("f", <<Rest, Id("w"), b>>)),
      Call("cons", <<Call("f", <<Rest, a, b>>), Id("y")>>),
      App(<<Fn(<<"w">>, Call("f", <<Rest, Id("w"), b>>)), a>>) >>

Bases == << Call("cons", Vars(<<"y", "z">>)), App(<<Id("y")>>), Call("car", <<Id("y")>>) >>

Loop(r, base) ==
    << Define("f", Fn(<<"x", "y", "z">>, If(X, r, base))),
       Call("f", <<ListOf(2), Num(10), Num(20)>>),
       Call("f", <<Num(1), Num(1)>>) >>

LoopCount == 8 * 8 * 5 * 3
LoopNumbered(n) ==
    LET a == Arguments[(n % 8) + 1]
        b == Arguments[((n \div 8) % 8) + 1]
    IN  Loop(Recursions(a, b)[((n \div 64) % 5) + 1], Bases[(n \div 320) + 1])

-----------------------------------------------------------------------------
(* Generators, as in test/prog1.scm: closures that share and assign the    *)
(* variable of a let; (gen) is called by a loop of a letrec.               *)
Generators ==
    << Define("gen", Fn(<<"from", "to">>,
         Let1("cur", Id("from"),
           Lambda(<<>>, << Set("cur", Call("cdr", <<Id("cur")>>)),
                           If(Id("cur"), Call("car", <<Id("cur")>>), Id("to")) >>)))),
       Define("g", Call("gen", <<ListOf(3), Num(7)>>)),
       Define("h", Call("gen", <<ListOf(2), Num(8)>>)),
       Call("cons", <<Call("g", <<>>), Call("h", <<>>)>>),
       Call("cons", <<Call("g", <<>>), Call("h", <<>>)>>),
       Call("cons", <<Call("g", <<>>), Call("g", <<>>)>>) >>

LetrecLoop ==
    << Define("len", Fn(<<"l">>,
         Letrec1("loop", Fn(<<"x", "n">>,
             If(X, Call("loop", <<Rest, Call("+", <<Id("n"), Num(1)>>)>>), Id("n"))),
           Call("loop", <<Id("l"), Num(0)>>)))),
       Call("len", <<ListOf(3)>>), Call("+", <<Call("len", <<ListOf(1)>>), Num(5)>>) >>

(* The loop and what goes round it are the same function: a call that is   *)
(* not last must not reuse the locals.                                     *)
Tree ==
    << Define("tree", Fn(<<"x">>,
         If(X, Call("cons", <<Call("tree", <<Rest>>),
                              Call("cons", <<Call("tree", <<Rest>>), X>>)>>),
               Num(0)))),
       Call("tree", <<ListOf(3)>>) >>

MutualRecursion ==
    << Define("even", Fn(<<"x">>, If(X, Call("odd", <<Rest>>), Num(1)))),
       Define("odd", Fn(<<"x">>, If(X, Call("even", <<Rest>>), Num(2)))),
       Call("even", <<ListOf(3)>>),
       Call("cons", <<Call("even", <<ListOf(2)>>), Num(0)>>) >>

(* Conditions and lets as operands of operands: temporaries come and go.   *)
Nested(op) ==
    LET choose(a, b) == If(Call("car", <<X>>), a, b)
        pick == Call(op, <<choose(Call("cdr", <<X>>), Num(3)), choose(X, Num(4))>>)
    IN  << Define("n", Fn(<<"x", "y">>,
             Call(op, <<Call("cons", <<Call("car", <<X>>), pick>>),
                        Let1("t", Call("cons", <<pick, Id("y")>>),
                             Call(op, <<Id("t"), Call("cdr", <<Id("t")>>)>>))>>))),
           Call("n", <<ListOf(2), Num(1)>>),
           Call("n", <<Call("cons", <<Lit(False), Num(9)>>), Num(1)>>),
           Call("n", Vars(<<"n">>)) >>

(* If in the place of a condition, an operator that is computed, a body of *)
(* several forms, globals assigned from functions.                         *)
Control ==
    << Define("c", Lambda(<<"x">>,
         << Fn(<<>>, X),
            Set("x", If(If(X, Lit(False), Call("cons", <<X, X>>)), Num(5), X)),
            App(<<If(X, Id("cons"), Id("car")), X, Call("cons", <<X, X>>)>>) >>)),
       Call("c", <<Lit(False)>>), Call("c", <<Num(2)>>),
       Define("k", Num(1)), Define("copy", Id("k")),
       Begin(<<Set("k", Call("+", <<Id("k"), Id("copy")>>)), Set("copy", Id("k")),
               Set("k", Num(3)), Call("cons", Vars(<<"k", "copy">>))>>),
       If(Lit(False), Id("nowhere"), Letrec1("u", Id("u"), Id("u"))),
       If(Id("k"), Id("copy"), Id("nowhere")) >>

(* What a form changed before its error stays; the next form is read.      *)
Errors ==
    << Define("a", Num(1)), Define("a", Num(2)), Id("a"),
       Begin(<<Set("a", Num(3)), Call("car", <<Id("a")>>)>>), Id("a"),
       Set("nowhere", Num(1)), Id("nowhere"), Call("cons", <<Id("a")>>),
       Call("nowhere", <<>>), Define("nowhere", Id("a")), Id("nowhere"),
       Call("cons", <<Call("+", <<Id("cons"), Num(1)>>), Num(2)>>) >>

(* A closure of a closure: the inner lambda sees what is two levels up.    *)
Curried ==
    << Define("add", Fn(<<"x">>, Fn(<<"y">>, Fn(<<"z">>,
         Call("+", Vars(<<"x", "y", "z">>)))))),
       Define("add1", Call("add", <<Num(1)>>)),
       Define("add12", Call("add1", <<Num(2)>>)),
       Call("add12", <<Num(3)>>) >>

(* The same, where the frames of the callers are those of the definers.    *)
CurriedInside ==
    << Define("add", Fn(<<"x">>,
         Call("cons", <<App(<<Fn(<<"y">>, Call("cons", <<App(<<
             Fn(<<"z">>, Call("+", Vars(<<"x", "y", "z">>))), Num(3)>>), Id("y")>>)),
           Num(2)>>), X>>))),
       Call("add", <<Num(1)>>) >>

(* A captured variable is assigned a datum.                                *)
Reset ==
    << Define("r", Fn(<<"x">>, Call("cons", <<App(<<Fn(<<>>, Set("x", Num(0)))>>), X>>))),
       Call("r", <<Num(1)>>) >>

(* Forms the transformer refuses, and one that fails an assert of it.      *)
Refused ==
    << Define("p", CallCC(Id("car"))), App(<<Num(1), Num(2)>>),
       Call("cons", <<Num(1), Num(2)>>), Define("q", Let1("t", Num(1), Id("t"))), Num(5) >>

(* The forms that are rewritten: a cond as in a dispatch, let* whose       *)
(* second value needs the first, functions defined with their parameters.  *)
Cond1(clauses) == Form1("cond", [i \in DOMAIN clauses |-> List(clauses[i])])
DefineFn(names, body) == Form1("define", <<IdList(names)>> \o body)
Quote1(d) == Form1("quote", <<d>>)

Sugar ==
    << DefineFn(<<"sign", "x">>,
         << Cond1(<< <<Call("<", <<X, Num(0)>>), Quote1(Id("neg"))>>,
                     <<Call("=", <<X, Num(0)>>), Num(0), Quote1(Id("zero"))>>,
                     <<Id("else"), Quote1(List(<<Id("pos"), Num(1)>>))>> >>) >>),
       Call("list", <<Call("sign", <<Num(-2)>>), Call("sign", <<Num(0)>>), Call("sign", <<Num(3)>>)>>),
       Call("eq?", <<Call("sign", <<Num(0)>>), Quote1(Id("zero"))>>),
       LetBy("let*", << <<"x", Num(2)>>, <<"y", Call("+", <<X, X>>)>>, <<"x", Call("*", <<Id("y"), X>>)>> >>,
             <<Call("list", Vars(<<"x", "y">>))>>),
       LetBy("let*", <<>>, <<Num(1), Num(2)>>),
       Cond1(<< <<False, Num(1)>>, <<Call("null?", <<Nil>>), Num(2)>> >>),
       Cond1(<< <<False, Num(1)>> >>), Cond1(<< <<Id("else"), Num(1), Num(3)>> >>) >>

Quasi(es) == Form1("quasiquote", <<List(es)>>)
Unquote1(e) == Form1("unquote", <<e>>)
Splice(e) == Form1("unquote-splicing", <<e>>)

(* append and lists of test/prog2.scm; an unquoted empty list; a splice of *)
(* what is no list.                                                        *)
Quotations ==
    << Define("l", Quote1(List(<<Id("a"), Num(2)>>))),
       Quasi(<<Num(1), Unquote1(Call("car", <<Id("l")>>)), Id("b"), Num(3), Splice(Id("l"))>>),
       Quasi(<<Unquote1(Id("l")), Splice(Nil), Quasi(<<Id("c")>>)>>),
       Quasi(<<Splice(Id("l")), Splice(Call("cdr", <<Id("l")>>)), Unquote1(Num(7))>>),
       Quasi(<<Splice(Num(1))>>),
       Call("list-cat", <<Id("l"), Num(5), Nil, Pair(Id("quote"), Pair(Pair(Id("d"), Num(6)), Nil))>>),
       Call("length", <<Id("l")>>), Call("length", <<Nil>>) >>
Unquoted0 == << Quasi(<<Num(1), Unquote1(Nil), Num(2)>>) >>
Identifiers == << Call("eq?", <<Call("car", <<Quote1(List(<<Id("a")>>))>>), Quote1(Id("a"))>>) >>

Numbers ==
    << Call("+", <<>>), Call("-", <<Num(3)>>), Call("-", <<Num(9), Num(4), Num(3)>>),
       Call("*", <<Num(2), Num(3), Num(4)>>), Call("<", <<Num(1), Num(2), Num(2)>>),
       Call("<", <<Num(2), Num(1), Nil>>), Call("<", <<Num(1), Num(2), Nil>>),
       Call("=", <<Num(3), Num(3), Num(3)>>),
       Call("and", <<Num(1), False, Num(2)>>), Call("or", <<False, Num(4), Num(5)>>),
       Call("not", <<Call("or", <<>>)>>), Call("and", <<Num(1), Num(2)>>) >>
Overflow == << Call("+", <<Num(120), Num(30)>>) >>
NoConjuncts == << Call("and", <<>>) >>

(* A parameter for what is left of the arguments: defined, called with too *)
(* few arguments, and with enough.                                         *)
RestOf == Form1("define", <<Pair(Id("f"), Pair(X, Id("r"))), X>>)
RestFew == << RestOf, Call("f", <<>>), Call("f", <<Num(1)>>), Num(2) >>
RestEnough == << RestOf, Call("f", <<Num(1), Num(2)>>), Num(2) >>
RestLast == << RestOf, DefineFn(<<"g">>, <<Call("f", <<Num(1), Num(2), Num(3)>>)>>), Call("g", <<>>) >>

ManyArguments == << Call("list", [i \in 1..5 |-> Num(i)]), Call("+", [i \in 1..6 |-> Num(1)]) >>

(* What an unquote holds is not checked, and no procedure here: in a form  *)
(* of its own and in a function.                                           *)
Unchecked ==
    << DefineFn(<<"f", "x">>, <<Quasi(<<X, Unquote1(App(<<Num(1), X>>))>>)>>), Num(1),
       Call("f", <<Num(2)>>) >>
UncheckedAtTop == << Num(1), Quasi(<<Unquote1(App(<<Num(1)>>))>>), Num(2) >>

Others ==
    << Generators, LetrecLoop, Tree, MutualRecursion, Nested("cons"), Nested("+"), Control,
       Errors, Curried, CurriedInside, Reset, Refused, Sugar, Quotations, Unquoted0,
       Identifiers, Numbers, Overflow, NoConjuncts, RestFew, RestEnough, RestLast,
       ManyArguments, Unchecked, UncheckedAtTop >>

-----------------------------------------------------------------------------
(* Forms that are nearly right: of each template, every form that differs  *)
(* from it in one place, where a part is replaced, left out or doubled.    *)
A == Id("a")
Templates ==
    << Form1("if", <<Num(1), A, Num(2)>>), Set("car", Num(1)), Begin(<<Num(1), A>>),
       Let1("a", Num(1), A), Letrec(<< <<"a", Num(1)>>, <<"b", A>> >>, <<A>>),
       LetBy("let*", << <<"a", Num(1)>>, <<"b", A>> >>, <<Id("b")>>),
       Lambda(<<"a", "b">>, <<A>>), Form1("lambda", <<Pair(A, Id("b")), A>>),
       Define("a", Num(1)), DefineFn(<<"f", "a", "b">>, <<A>>),
       Cond1(<< <<A, Num(1)>>, <<Id("else"), Num(2)>> >>),
       Quote1(List(<<A, Num(1)>>)), Quasi(<<A, Unquote1(Num(1)), Splice(Nil)>>),
       Call("cons", <<Num(1), A>>), CallCC(A), Call("begin0", <<A>>) >>

Junk == << A, Num(3), Nil, Id("if"), Id("else"), Id("unquote"), Pair(A, Nil),
           List(<<Id("unquote"), A>>) >>

RECURSIVE Edits(_)
EditsBelow(d) ==
    LET first == Edits(Car(d))
        others == Edits(Cdr(d))
    IN  [i \in DOMAIN first |-> Pair(first[i], Cdr(d))]
        \o [i \in DOMAIN others |-> Pair(Car(d), others[i])]
Edits(d) ==
    Junk \o (IF IsPair(d) THEN <<Cdr(d), Pair(Car(d), d)>> \o EditsBelow(d) ELSE <<>>)

EditedForms == FoldLeft(LAMBDA es, d : es \o Edits(d), <<>>, Templates)

-----------------------------------------------------------------------------
(* The sessions: those with many forms, once in a file and once at the     *)
(* console; the loops; the edited forms.                                   *)
AllSessions ==
    LET edited == EditedForms
    IN  Others \o Others \o [n \in 1..LoopCount |-> LoopNumbered(n - 1)]
               \o [n \in DOMAIN edited |-> <<edited[n]>>]

(* What Scheme has the session print, form by form.                        *)
ExpectedOf(forms) == Results(forms, StartOf(40))

(* The calls of a form in tail position and elsewhere; only builtins are   *)
(* called elsewhere in a session that is TailOnly.                         *)
RECURSIVE TailCallsOnly(_, _)
AllTailCalls(es, tail) ==
    \A i \in DOMAIN es : TailCallsOnly(es[i], tail /\ i = Len(es))
TailCallsOnly(d, tail) ==
    LET es == Elements(d) IN
    CASE ~IsPair(d) \/ HeadName(d) = "quote" -> TRUE
      [] IsPair(d) /\ HeadName(d) = "if" ->
           /\ TailCallsOnly(es[2], FALSE)
           /\ \A i \in 3..Len(es) : TailCallsOnly(es[i], tail)
      [] HeadName(d) \in {"set!", "define"} -> IsId(es[2]) /\ TailCallsOnly(es[3], FALSE)
      [] HeadName(d) \in {"let", "letrec"} ->
           /\ \A i \in DOMAIN Elements(es[2]) : TailCallsOnly(BoundTo(Elements(es[2])[i]), FALSE)
           /\ AllTailCalls(SubSeq(es, 3, Len(es)), tail)
      [] HeadName(d) = "lambda" -> AllTailCalls(SubSeq(es, 3, Len(es)), TRUE)
      [] HeadName(d) = "begin" -> AllTailCalls(Tail(es), tail)
      [] IsPair(d) /\ HeadName(d) \notin Keywords ->
           /\ tail \/ HeadName(d) \in ToSet(BinNames)
           /\ \A i \in DOMAIN es : TailCallsOnly(es[i], FALSE)
      [] OTHER -> FALSE

TailOnlyOf(forms) ==
    \A i \in DOMAIN forms : IsForm(forms[i], FALSE) /\ TailCallsOnly(forms[i], TRUE)

-----------------------------------------------------------------------------
(* A session as it is loaded: compiled; of each form whether it is one of  *)
(* the grammar, and of the grammar the checker knows; what the session     *)
(* should print; and whether it only calls in tail position.               *)
LoadedForm(f, d) == f @@ [strict |-> IsForm(d, FALSE), lax |-> IsForm(d, TRUE)]
LoadedForms(forms, fs) ==
    FoldLeft(LAMBDA ls, f : Append(ls, LoadedForm(f, forms[Len(ls) + 1])), <<>>, fs)
(* The data in the code, with all their parts; of each function, how many  *)
(* locals the functions around it have, the innermost first.               *)
RECURSIVE PartsOf(_)
PartsOf(d) == {d} \cup (IF IsPair(d) THEN PartsOf(Car(d)) \cup PartsOf(Cdr(d)) ELSE {})
OperandsOf(instr) ==
    CASE instr[1] = "SET" -> {instr[2], instr[3]}
      [] instr[1] = "DEF" -> {instr[3]}
      [] instr[1] \in {"IF", "PREP", "PUSH", "RET"} -> {instr[2]}
      [] OTHER -> {}
DataIn(code) ==
    LET instrs == UNION {ToSet(code[u].icode) : u \in DOMAIN code}
        data == {o \in UNION {OperandsOf(instr) : instr \in instrs} : o[1] = "D"}
    IN  UNION {PartsOf(o[2]) : o \in data}

AroundIn(code) ==
    LET outer(u) == {p \in DOMAIN code : <<"LAMBDA", u>> \in ToSet(code[p].icode)}
        around[u \in DOMAIN code] ==
            IF outer(u) = {} THEN <<>>
            ELSE LET p == CHOOSE p \in outer(u) : TRUE IN <<code[p].fvc>> \o around[p]
    IN  around

Loaded(forms, compiled, console) ==
    [console |-> console, forms |-> LoadedForms(forms, compiled.forms),
     globals |-> Len(compiled.globs), code |-> compiled.code,
     data |-> DataIn(compiled.code), around |-> AroundIn(compiled.code),
     expected |-> ExpectedOf(forms), tailOnly |-> TailOnlyOf(forms)]
=============================================================================
