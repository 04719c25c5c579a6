-------------------------------- MODULE Anf --------------------------------
(***************************************************************************)
(* trf_transform_to_anf of transform.c: a form becomes linear code whose   *)
(* calls have only variables and data as operands.  Each operator below    *)
(* stands for the anf_match_... function of its form; it returns what is   *)
(* left of the form and the new state of the transformer.  Forms were      *)
(* checked by Syntax, but for what stands in an unquote.                   *)
(***************************************************************************)
EXTENDS Syntax, Icode

(* Where the value of a form goes (rid): to an operand of the caller's     *)
(* choosing, out of the function, nowhere, to a global being defined, or   *)
(* to a variable.                                                          *)
ToOperand == <<"undef">>
ToCaller == <<"ret">>
Nowhere == <<"none">>
ToGlobal(g) == <<"def", g>>

(* The transformer's state: of the function at hand the linear code, fvc,  *)
(* frmax and the functions in it not yet transformed (children, the last   *)
(* one first); the free temporaries (arl); the names of the globals, in    *)
(* the order of their reservation; the next unique number and mark; the    *)
(* functions done and those begun (stubs); and how it ended: "fatal" is    *)
(* EXCEP_TRANSFORM_FATAL, "abort" a failed assert, "wild" a pair read      *)
(* where there is none, or an exception that the try has no clause for.    *)
Transformer(globs, next) ==
    [code |-> <<>>, fvc |-> 0, frmax |-> 0, children |-> <<>>, pool |-> <<>>,
     globs |-> globs, next |-> next, mark |-> 1, done |-> <<>>, stubs |-> <<>>,
     status |-> "ok"]

Left(o, s) == [o |-> o, s |-> s]
Emit(s, c) == [s EXCEPT !.code = Append(@, c)]
EmitMark(s, label) == Emit(s, <<"mark", label>>)

(* fcod_pop_local: a free temporary, or a new slot.                        *)
LocalPopped(s) == IF s.pool = <<>> THEN s.fvc ELSE s.pool[Len(s.pool)]
PopLocal(s) ==
    IF s.pool = <<>> THEN [s EXCEPT !.fvc = @ + 1] ELSE [s EXCEPT !.pool = Front(@)]

(* anf_resolv_var: the frames of the environment, innermost first, map     *)
(* names to slots; a name in none of them is a global, reserved if new.    *)
Visible(env, x) == {d \in 1..Len(env) : x \in DOMAIN env[d]}
Depth(env, x) == CHOOSE d \in Visible(env, x) : \A e \in Visible(env, x) : d <= e

Variable(s, env, x) ==
    IF Visible(env, x) # {}
      THEN LET d == Depth(env, x) IN
           IF d = 1 THEN <<"L", env[1][x]>> ELSE <<"K", d - 1, env[d][x]>>
    ELSE IF x \in ToSet(s.globs)
      THEN <<"G", CHOOSE i \in 1..Len(s.globs) : s.globs[i] = x>>
    ELSE <<"G", Len(s.globs) + 1>>

Resolved(s, env, x) ==
    IF Visible(env, x) # {}
      THEN [s EXCEPT !.frmax = IF @ < Depth(env, x) - 1 THEN Depth(env, x) - 1 ELSE @]
    ELSE IF x \in ToSet(s.globs) THEN s
    ELSE [s EXCEPT !.globs = Append(@, x)]

(* env_extend: a name is added to the innermost frame.                     *)
Extended(env, x, ix) ==
    <<[y \in DOMAIN env[1] \cup {x} |-> IF y = x THEN ix ELSE env[1][y]]>> \o Tail(env)

(* anf_rid                                                                 *)
Rid(s, rid, x) ==
    CASE rid = ToOperand /\ IsSimple(x) -> Left(x, s)
      [] rid = ToOperand /\ ~IsSimple(x) ->
           LET t == <<"T", LocalPopped(s)>> IN Left(t, Emit(PopLocal(s), <<"set", t, x>>))
      [] rid = ToCaller -> Left(Nihil, Emit(s, <<"ret", x>>))
      [] rid = Nowhere -> Left(Nihil, IF IsSimple(x) THEN s ELSE Emit(s, <<"do", x>>))
      [] rid[1] = "def" -> Left(Nihil, Emit(s, <<"def", rid[2], x>>))
      [] IsVar(rid) -> Left(rid, Emit(s, <<"set", rid, x>>))

VoidTo(s, rid) == Rid(s, rid, <<"D", Void>>)

(* The temporaries among the operands of a call are free once all operands *)
(* are done, before the call's own result takes a slot.                    *)
TempsOf(os) == LET ts == SelectSeq(os, IsTemp) IN [i \in 1..Len(ts) |-> ts[i][2]]
Freed(s, os) == [s EXCEPT !.pool = @ \o TempsOf(os)]

Ended(s, how) == Left(Nihil, [s EXCEPT !.status = how])

Arg(d, i) == Elements(Cdr(d))[i]
Argc(d) == Len(Elements(Cdr(d)))

RECURSIVE Form(_, _, _, _)

WithOperandFreed(os, f) == Left(Append(os.o, f.o), Freed(f.s, <<f.o>>))   \* mutant
WithOperand(os, f) == Left(Append(os.o, f.o), f.s)

Operands(s, env, es) ==
    FoldLeft(LAMBDA os, e : WithOperand(os, Form(os.s, env, ToOperand, e)), Left(<<>>, s), es)

CallOf(os, rid) == Rid(Freed(os.s, os.o), rid, <<"call", os.o[1], Tail(os.o)>>)

Expr(s, env, rid, d) ==
    CASE ~IsId(Car(d)) /\ ~IsPair(Car(d)) -> Ended(s, "fatal")
      [] OTHER -> IF ~IsList(d) THEN Ended(s, "wild")
                  ELSE CallOf(Operands(s, env, Elements(d)), rid)

(* A quote is a call of the builtin with the datum as it stands; where its *)
(* arguments end in an atom cl_len throws, and the try has no clause.      *)
QuoteForm(s, env, rid, d) ==
    LET data == [i \in 1..Argc(d) |-> <<"D", Arg(d, i)>>]
    IN  IF ~IsList(d) THEN Ended(s, "wild")
        ELSE CallOf(Left(<<Variable(s, env, "quote")>> \o data, Resolved(s, env, "quote")), rid)

(* A quasi-quoted list becomes a call of list-cat: of what its unquotes    *)
(* left, computed first, and of quotes of what stands between them.        *)
Quoted(run) == IF run = <<>> THEN <<>> ELSE <<List(<<Id("quote"), List(run)>>)>>
Unquoted(q, f) == [items |-> q.items \o Quoted(q.run) \o <<f.o>>, run |-> <<>>, s |-> f.s]

WithItem(q, env, u) ==
    IF ~IsUnquote(u) THEN [q EXCEPT !.run = Append(@, u)]
    ELSE IF ~IsPair(Cdr(u)) THEN [q EXCEPT !.s.status = "wild"]
    ELSE Unquoted(q, Form(q.s, env, ToOperand, List(<<Car(u), Arg(u, 1)>>)))

ListCat(q, env, rid) ==
    IF q.s.status # "ok" THEN Left(Nihil, q.s)
    ELSE Form(q.s, env, rid, List(<<Id("list-cat")>> \o q.items \o Quoted(q.run)))

QuasiForm(s, env, rid, d) ==
    IF Argc(d) < 1 \/ ~IsList(Arg(d, 1)) THEN Ended(s, "wild")
    ELSE ListCat(FoldLeft(LAMBDA q, u : WithItem(q, env, u),
                          [items |-> <<>>, run |-> <<>>, s |-> s], Elements(Arg(d, 1))), env, rid)

(* A condition that is a datum is decided here; otherwise the branches     *)
(* leave their values in the same place, and in a tail position each       *)
(* returns by itself.                                                      *)
Otherwise(s, mark, env, to, e) ==
    IF to = ToCaller THEN Form(EmitMark(s, mark), env, to, e).s
    ELSE EmitMark(Form(EmitMark(Emit(s, <<"jmp", mark + 1>>), mark), env, to, e).s, mark + 1)

ElsePart(d) == IF Argc(d) < 3 THEN Void ELSE Arg(d, 3)

Branches(s, mark, env, rid, d) ==
    LET to == IF rid = ToOperand THEN <<"T", LocalPopped(s)>> ELSE rid
        yes == Form(IF rid = ToOperand THEN PopLocal(s) ELSE s, env, to, Arg(d, 2)).s
    IN  Left(to, Otherwise(yes, mark, env, to, ElsePart(d)))

IfTested(c, env, rid, d) ==
    IF c.s.status # "ok" THEN c
    ELSE IF c.o[1] = "D"
      THEN Form(c.s, env, rid, IF c.o[2] = False THEN ElsePart(d) ELSE Arg(d, 2))
    ELSE Branches(Emit([c.s EXCEPT !.mark = @ + 2], <<"if", c.o, c.s.mark>>), c.s.mark,
                  env, rid, d)

IfForm(s, env, rid, d) ==
    IF Argc(d) < 2 THEN Ended(s, "wild")
    ELSE IfTested(Form(s, env, ToOperand, Arg(d, 1)), env, rid, d)

SetTo(s, env, rid, x, d) ==
    VoidTo(Form(Resolved(s, env, x), env, Variable(s, env, x), Arg(d, 2)).s, rid)
SetForm(s, env, rid, d) ==
    IF Argc(d) < 2 THEN Ended(s, "wild")
    ELSE IF ~IsId(Arg(d, 1)) THEN Ended(s, "fatal")
    ELSE SetTo(s, env, rid, Arg(d, 1)[2], d)

DefineTo(s, env, rid, x, d) ==
    LET var == Variable(s, env, x) IN
    IF var[1] # "G" THEN Ended(s, "fatal")
    ELSE VoidTo(Form(Resolved(s, env, x), env, ToGlobal(var[2]), Arg(d, 2)).s, rid)
DefineForm(s, env, rid, d) ==
    IF Argc(d) < 2 THEN Ended(s, "wild")
    ELSE IF ~IsId(Arg(d, 1)) THEN Ended(s, "fatal")
    ELSE DefineTo(s, env, rid, Arg(d, 1)[2], d)

(* The forms of a body; only the value of the last one is of use.          *)
BodyOf(s, env, rid, body) ==
    IF body = <<>> THEN VoidTo(s, rid)
    ELSE Form(FoldLeft(LAMBDA t, e : Form(t, env, Nowhere, e).s, s, Front(body)),
              env, rid, Last(body))
Body(s, env, rid, l) ==
    IF ~IsPair(l) /\ l # Nil THEN Ended(s, "abort")
    ELSE IF ~IsList(l) THEN Ended(s, "wild")
    ELSE BodyOf(s, env, rid, Elements(l))

(* let: each name gets a slot just before its value is computed in the     *)
(* outer environment.  Returns the environment of the body.                *)
NameOf(b) == Car(b)[2]
LetBindings(s, env, bs) ==
    FoldLeft(LAMBDA l, b : Left(Extended(l.o, NameOf(b), LocalPopped(l.s)),
                                Form(PopLocal(l.s), env, <<"L", LocalPopped(l.s)>>, Arg(b, 1)).s),
             Left(env, s), bs)

(* letrec: slots for all names, all set to SYMB_UNDEF, then the values in  *)
(* the inner environment.                                                  *)
RecSlots(s, env, bs) ==
    FoldLeft(LAMBDA l, b : Left(Extended(l.o, NameOf(b), LocalPopped(l.s)), PopLocal(l.s)),
             Left(env, s), bs)

RecBindings(s, env, bs) ==
    FoldLeft(LAMBDA t, b : Form(t, env, <<"L", env[1][NameOf(b)]>>, Arg(b, 1)).s, s, bs)

Undefined(bs) == [i \in 1..Len(bs) |-> List(<<Car(bs[i]), Undef>>)]

LetBody(l, rid, body) == Body(l.s, l.o, rid, body)
LetrecBody(l, rid, bs, body) ==
    Body(RecBindings(l.s, l.o, Undefined(bs) \o bs), l.o, rid, body)

LetForm(s, env, rid, d) ==
    LET bs == Elements(Arg(d, 1))
        body == Cdr(Cdr(d))
    IN  CASE Argc(d) < 1 -> Ended(s, "wild")
          [] OTHER ->
               IF ~IsList(Arg(d, 1)) \/ \E i \in DOMAIN bs : ~IsPair(bs[i]) \/ ~IsPair(Cdr(bs[i]))
                 THEN Ended(s, "wild")
               ELSE IF \E i \in DOMAIN bs : ~IsId(Car(bs[i])) THEN Ended(s, "fatal")
               ELSE IF HeadName(d) = "let" THEN LetBody(LetBindings(s, env, bs), rid, body)
               ELSE LetrecBody(RecSlots(s, env, bs), rid, bs, body)

(* new_fcode: the function's frame holds its parameters, the one for what  *)
(* is left of the arguments included.  A lambda whose value goes nowhere   *)
(* is not transformed at all.                                              *)
FrameOf(names) ==
    [x \in {names[i][2] : i \in DOMAIN names} |->
        Max({i \in DOMAIN names : names[i][2] = x}) - 1]

Fcode(fc, fvc, frmax, icode) ==
    [uniq |-> fc.uniq, argc |-> fc.argc, rest |-> fc.rest, fvc |-> fvc, frmax |-> frmax,
     icode |-> icode]
Stub(fc) == Fcode(fc, fc.argc, 0, <<>>)

LambdaForm(s, env, rid, d) ==
    LET names == Formals(Arg(d, 1))
        child == [uniq |-> s.next, argc |-> Len(names), rest |-> ~IsList(Arg(d, 1)),
                  body |-> Cdr(Cdr(d)), env |-> <<FrameOf(names)>> \o env]
    IN  IF rid = Nowhere THEN Left(<<"D", Void>>, s)
        ELSE IF Argc(d) < 1 THEN Ended(s, "wild")
        ELSE IF \E i \in DOMAIN names : ~IsId(names[i]) THEN Ended(s, "fatal")
        ELSE Rid([s EXCEPT !.next = @ + 1, !.children = <<child>> \o @,
                           !.stubs = Append(@, Stub(child))],
                 rid, <<"lambda", s.next>>)

CallccForm(s, env, rid, d) ==
    LET k == Form(s, env, ToOperand, Arg(d, 1)) IN
    IF Argc(d) < 1 THEN Ended(s, "wild") ELSE Rid(k.s, rid, <<"callcc", k.o>>)

VariableForm(s, env, rid, x) ==
    LET var == Variable(s, env, x) IN Left(var, Rid(Resolved(s, env, x), rid, var).s)

(* anf_match_form; what an unquote left is an operand already.             *)
Form(s, env, rid, d) ==
    CASE s.status # "ok" -> Left(Nihil, s)
      [] s.status = "ok" /\ IsId(d) -> VariableForm(s, env, rid, d[2])
      [] s.status = "ok" /\ IsVar(d) -> Left(d, Rid(s, rid, d).s)
      [] s.status = "ok" /\ ~IsPair(d) /\ ~IsId(d) /\ ~IsVar(d) ->
           Left(<<"D", d>>, Rid(s, rid, <<"D", d>>).s)
      [] s.status = "ok" /\ IsPair(d) ->
           CASE HeadName(d) = "define" -> DefineForm(s, env, rid, d)
             [] HeadName(d) = "begin" -> Body(s, env, rid, Cdr(d))
             [] HeadName(d) = "if" -> IfForm(s, env, rid, d)
             [] HeadName(d) = "quote" -> QuoteForm(s, env, rid, d)
             [] HeadName(d) \in {"let", "letrec"} -> LetForm(s, env, rid, d)
             [] HeadName(d) = "set!" -> SetForm(s, env, rid, d)
             [] HeadName(d) = "lambda" -> LambdaForm(s, env, rid, d)
             [] HeadName(d) = "call/cc" -> CallccForm(s, env, rid, d)
             [] HeadName(d) = "quasiquote" -> QuasiForm(s, env, rid, d)
             [] OTHER -> Expr(s, env, rid, d)

-----------------------------------------------------------------------------
(* anf_finalize_fcode: the function's body, then its instructions, then    *)
(* the functions in it.                                                    *)
RECURSIVE Finalize(_, _)

Assembled(s, ic, fc) ==
    IF ic.status # "ok" THEN [s EXCEPT !.status = ic.status]
    ELSE FoldLeft(LAMBDA t, child : IF t.status = "ok" THEN Finalize(t, child) ELSE t,
                  [s EXCEPT !.done = Append(@, Fcode(fc, s.fvc, s.frmax, ic.icode))], s.children)

Linear(s, fc) == IF s.status = "ok" THEN Assembled(s, IcodeOf(s.code), fc) ELSE s

Finalize(s, fc) ==
    Linear(Body([s EXCEPT !.code = <<>>, !.fvc = fc.argc, !.frmax = 0,
                          !.children = <<>>, !.pool = <<>>], fc.env, ToCaller, fc.body).s, fc)

(* A session: the forms one after the other, each first checked; the       *)
(* globals and the unique numbers go on from form to form, also after one  *)
(* that failed.  Of that one the functions not yet done have no code.      *)
TopFunction(d, uniq) ==
    [uniq |-> uniq, argc |-> 0, rest |-> FALSE, body |-> Pair(d, Nil), env |-> << <<>> >>]

CodeWith(code, fcodes) ==
    FoldLeft(LAMBDA c, fc : c @@ (fc.uniq :> fc), code, fcodes)

WithForm(c, verdict, s) ==
    [forms |-> Append(c.forms, [verdict |-> verdict, status |-> s.status, top |-> c.next]),
     code |-> CodeWith(CodeWith(c.code, s.done), s.stubs),
     globs |-> s.globs, next |-> s.next]

CompiledForm(c, check) ==
    LET verdict == Verdict(check)
        s == Transformer(c.globs, c.next + 1)
        top == TopFunction(check.d, c.next)
    IN  WithForm(c, verdict,
                 IF verdict = "ok" THEN Finalize([s EXCEPT !.stubs = <<Stub(top)>>], top)
                 ELSE [s EXCEPT !.status = verdict, !.next = c.next])

(* The session the interpreter runs: its functions by unique number.       *)
Compile(forms) ==
    FoldLeft(LAMBDA c, d : CompiledForm(c, Check(d, "top")),
             [forms |-> <<>>, code |-> <<>>, globs |-> BinNames, next |-> 1], forms)
=============================================================================
