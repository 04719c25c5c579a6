------------------------------- MODULE Scheme -------------------------------
(***************************************************************************)
(* The forms of the language: its grammar, to which the syntax check is    *)
(* compared, and what the forms mean, an evaluator with lexical scope and  *)
(* a store, to which transformer and interpreter are.  The order of        *)
(* evaluation, which Scheme leaves open, is the one the transformer        *)
(* chooses: the operands that are forms first, from left to right, then    *)
(* the variables among them.                                               *)
(***************************************************************************)
EXTENDS Values

-----------------------------------------------------------------------------
(* The grammar.  With lax, also what the checker lets pass beyond it:      *)
(* further expressions in a definition, call/cc (there is no such          *)
(* instruction), an application headed by a keyword that heads no form,    *)
(* anything in an unquote, and unquotes deeper in a quasi-quoted list.     *)
RECURSIVE IsExpr(_, _), IsPlain(_)

IsVariable(d) == IsId(d) /\ d[2] \notin Keywords
AreDistinct(names) ==
    /\ \A i \in DOMAIN names : IsVariable(names[i])
    /\ \A i, j \in DOMAIN names : names[i] = names[j] => i = j
AreExprs(es, lax) == \A i \in DOMAIN es : IsExpr(es[i], lax)
IsBody(l, lax) == IsList(l) /\ l # Nil /\ AreExprs(Elements(l), lax)

IsBinding(b, lax) ==
    /\ IsList(b) /\ Len(Elements(b)) = 2
    /\ IsVariable(Elements(b)[1]) /\ IsExpr(Elements(b)[2], lax)

IsLet(d, lax) ==
    LET bs == Elements(Elements(d)[2])
        names == [i \in DOMAIN bs |-> Elements(bs[i])[1]]
    IN  /\ Len(Elements(d)) > 2 /\ IsList(Elements(d)[2])
        /\ \A i \in DOMAIN bs : IsBinding(bs[i], lax)
        /\ HeadName(d) = "let*" \/ AreDistinct(names)
        /\ IsBody(Cdr(Cdr(d)), lax)

IsLambda(ps, body, lax) ==
    (IsPair(ps) \/ ps = Nil) /\ AreDistinct(Formals(ps)) /\ IsBody(body, lax)

IsClause(q, last, lax) ==
    /\ IsList(q) /\ Len(Elements(q)) > 1
    /\ IF HeadName(q) = "else" THEN last /\ IsBody(Cdr(q), lax) ELSE IsBody(q, lax)

(* No unquote anywhere in a datum.                                         *)
IsPlain(d) ==
    IF IsPair(d) THEN ~IsUnquote(d) /\ IsPlain(Car(d)) /\ IsPlain(Cdr(d))
    ELSE ~IsUnquote(Pair(d, Nil))

IsQuasi(d, lax) ==
    LET es == Elements(d) IN
    /\ \A i \in DOMAIN es : /\ ~IsUnquote(Pair(es[i], Nil))
                            /\ IsUnquote(es[i]) => IsList(es[i]) /\ Len(Elements(es[i])) = 2
    /\ lax \/ \A i \in DOMAIN es : IF IsUnquote(es[i]) THEN IsExpr(Elements(es[i])[2], lax)
                                   ELSE IsPlain(es[i])
    /\ lax \/ IsPlain(EndOf(d))
    /\ lax \/ IsList(d) \/ \A i \in DOMAIN es : ~IsUnquote(es[i])

(* es: the elements of the form.                                           *)
IsKeywordForm(d, es, lax) ==
    CASE HeadName(d) = "quote" -> Len(es) = 2
      [] HeadName(d) = "quasiquote" -> Len(es) = 2 /\ IsQuasi(es[2], lax)
      [] HeadName(d) = "if" -> Len(es) \in {3, 4} /\ AreExprs(Tail(es), lax)
      [] HeadName(d) = "set!" -> Len(es) = 3 /\ IsVariable(es[2]) /\ IsExpr(es[3], lax)
      [] HeadName(d) \in {"let", "let*", "letrec"} -> IsLet(d, lax)
      [] HeadName(d) = "lambda" -> Len(es) > 2 /\ IsLambda(es[2], Cdr(Cdr(d)), lax)
      [] HeadName(d) = "begin" -> IsBody(Cdr(d), lax)
      [] HeadName(d) = "cond" -> Len(es) > 1 /\ \A i \in 2..Len(es) : IsClause(es[i], i = Len(es), lax)
      [] HeadName(d) = "call/cc" ->
           lax /\ Len(es) > 1 /\ AreExprs(Tail(es), lax) /\ (IsId(es[2]) \/ IsPair(es[2]))
      [] HeadName(d) = "begin0" -> lax /\ IsBody(Cdr(d), lax)
      [] HeadName(d) \in {"else", "case", "letrec*"} -> lax /\ AreExprs(Tail(es), lax)
      [] OTHER -> FALSE

IsExpr(d, lax) ==
    IF ~IsPair(d) THEN ~IsId(d) \/ IsVariable(d)
    ELSE /\ IsList(d)
         /\ IF HeadName(d) \in Keywords THEN IsKeywordForm(d, Elements(d), lax)
            ELSE (IsId(Car(d)) \/ IsPair(Car(d))) /\ AreExprs(Elements(d), lax)

IsDefinition(d, lax) ==
    LET es == Elements(d) IN
    /\ IsList(d) /\ Len(es) > 2
    /\ IF IsPair(es[2]) THEN /\ IsVariable(Car(es[2]))
                             /\ IsLambda(Pair(Id(""), Cdr(es[2])), Cdr(Cdr(d)), lax)
       ELSE IsVariable(es[2]) /\ AreExprs(SubSeq(es, 3, Len(es)), lax) /\ (lax \/ Len(es) = 3)

IsForm(d, lax) == IF HeadName(d) = "define" THEN IsDefinition(d, lax) ELSE IsExpr(d, lax)

-----------------------------------------------------------------------------
(* The state of an evaluation: the locations, the bound globals, whether   *)
(* an error ended it, and how many calls it may still make.                *)
GlobalsAtStart == [x \in ToSet(BinNames) |-> Bin(x)]
StartOf(fuel) == [store |-> <<>>, glob |-> GlobalsAtStart, err |-> FALSE, fuel |-> fuel]

Out(v, st) == [v |-> v, st |-> st]
Fail(st) == Out(Void, [st EXCEPT !.err = TRUE])

(* env maps the lexically visible names to their locations.                *)
Bound(env, x) == x \in DOMAIN env
Extend(env, xs, locs) ==
    [x \in DOMAIN env \cup ToSet(xs) |->
        IF x \in ToSet(xs) THEN locs[CHOOSE i \in 1..Len(xs) : xs[i] = x] ELSE env[x]]

Alloc(st, vs) == [st EXCEPT !.store = @ \o vs]
NewLocs(st, n) == [i \in 1..n |-> Len(st.store) + i]

Read(x, env, st) ==
    IF Bound(env, x) THEN Out(st.store[env[x]], st)
    ELSE IF x \in DOMAIN st.glob THEN Out(st.glob[x], st)
    ELSE Fail(st)

Assign(x, v, env, st) ==
    IF Bound(env, x) THEN Out(Void, [st EXCEPT !.store[env[x]] = v])
    ELSE IF x \in DOMAIN st.glob THEN Out(Void, [st EXCEPT !.glob[x] = v])
    ELSE Fail(st)

BindGlobal(x, v, st) ==
    IF x \in DOMAIN st.glob THEN Fail(st)
    ELSE Out(Void, [st EXCEPT !.glob =
                       [y \in DOMAIN st.glob \cup {x} |-> IF y = x THEN v ELSE st.glob[y]]])

RECURSIVE Eval(_, _, _), Quote(_)

EvalBody(body, env, st) ==
    IF body = <<>> THEN Out(Void, st)
    ELSE Eval(Last(body), env, FoldLeft(LAMBDA t, e : Eval(e, env, t).st, st, Front(body)))

(* The forms among es, in order; atoms are left for later.                 *)
Evaluated(r, out) == [vs |-> Append(r.vs, out.v), st |-> out.st]
EvalForms(es, env, st) ==
    FoldLeft(LAMBDA r, e : Evaluated(r, IF ~IsPair(e) THEN Out(Void, r.st) ELSE Eval(e, env, r.st)),
             [vs |-> <<>>, st |-> st], es)

(* A builtin computes with integers of any size.                           *)
Computed(name, args) ==
    IF IsArithmetic(name) THEN Fix(Exact(name, args)) ELSE BinResult(name, args)

(* What the parameters of a procedure receive: with a rest parameter, it   *)
(* the list of the arguments no other one takes.                           *)
Received(f, args) ==
    LET n == Len(f[2]) - 1 IN
    IF f[5] /\ Len(args) >= n
      THEN SubSeq(args, 1, n) \o <<List(SubSeq(args, n + 1, Len(args)))>>
    ELSE IF f[5] THEN <<>> ELSE args

Apply(f, args, st) ==
    CASE st.fuel = 0 -> Fail(st)
      [] f[1] = "bin" ->
           IF BinTakes(f[2], Len(args)) /\ ~BinPanics(f[2], args)
             THEN Out(Computed(f[2], args), st) ELSE Fail(st)
      [] f[1] = "proc" ->
           LET vs == Received(f, args) IN
           IF Len(vs) = Len(f[2])
             THEN EvalBody(f[3], Extend(f[4], f[2], NewLocs(st, Len(vs))),
                           [Alloc(st, vs) EXCEPT !.fuel = @ - 1])
             ELSE Fail(st)
      [] OTHER -> Fail(st)

Applied(outs, st) ==
    IF st.err \/ \E i \in DOMAIN outs : outs[i].st.err THEN Fail(st)
    ELSE Apply(outs[1].v, [i \in 1..Len(outs) - 1 |-> outs[i + 1].v], st)

AtomsRead(es, env, r) ==
    [i \in 1..Len(es) |->
        IF IsPair(es[i]) THEN Out(r.vs[i], r.st) ELSE Eval(es[i], env, r.st)]

WithAtoms(es, env, r) == Applied(AtomsRead(es, env, r), r.st)
EvalApp(es, env, st) == WithAtoms(es, env, EvalForms(es, env, st))

(* The initial values of bs, each evaluated in inEnv and stored at the     *)
(* location env gives its name.                                            *)
Stored(x, env, out) == Assign(x, out.v, env, out.st).st
BoundName(b) == Car(b)[2]
BoundTo(b) == Elements(b)[2]
EvalBindings(bs, inEnv, env, st) ==
    FoldLeft(LAMBDA t, b : IF t.err THEN t ELSE Stored(BoundName(b), env, Eval(BoundTo(b), inEnv, t)),
             st, bs)

Names(bs) == [i \in 1..Len(bs) |-> BoundName(bs[i])]

EvalLet(rec, bs, body, env, st) ==
    LET n == Len(bs)
        inner == Extend(env, Names(bs), NewLocs(st, n))
        fresh == Alloc(st, [i \in 1..n |-> Undef])
    IN  EvalBody(body, inner, EvalBindings(bs, IF rec THEN inner ELSE env, inner, fresh))

(* let*: each value is computed with the names before it in scope.         *)
StarBound(x, r, out) ==
    IF out.st.err THEN [r EXCEPT !.st = out.st]
    ELSE [env |-> Extend(r.env, <<x>>, NewLocs(out.st, 1)), st |-> Alloc(out.st, <<out.v>>)]
EvalLetStar(bs, body, env, st) ==
    LET r == FoldLeft(LAMBDA t, b : StarBound(BoundName(b), t, Eval(BoundTo(b), t.env, t.st)),
                      [env |-> env, st |-> st], bs)
    IN  EvalBody(body, r.env, r.st)

(* The datum a quote stands for: its names are symbols.                    *)
Quote(d) ==
    CASE IsId(d) -> Sym(d[2])
      [] IsPair(d) -> Pair(Quote(Car(d)), Quote(Cdr(d)))
      [] OTHER -> d

(* A quasi-quoted list: its elements quoted, evaluated, or evaluated to    *)
(* the lists that are spliced in.                                          *)
Spliced(r, out) ==
    IF out.st.err \/ ~IsList(out.v) THEN [r EXCEPT !.st = Fail(out.st).st]
    ELSE [vs |-> r.vs \o Elements(out.v), st |-> out.st]
QuasiElement(r, e, env) ==
    CASE HeadName(e) = "unquote" -> Evaluated(r, Eval(BoundTo(e), env, r.st))
      [] HeadName(e) = "unquote-splicing" -> Spliced(r, Eval(BoundTo(e), env, r.st))
      [] OTHER -> Evaluated(r, Out(Quote(e), r.st))

EvalQuasi(d, env, st) ==
    LET r == FoldLeft(LAMBDA t, e : QuasiElement(t, e, env), [vs |-> <<>>, st |-> st], Elements(d))
    IN  Out(ListEnding(r.vs, Quote(EndOf(d))), r.st)

(* The first clause of a cond whose test is not false.                     *)
RECURSIVE EvalCond(_, _, _)
EvalCond(qs, env, st) ==
    IF qs = <<>> THEN Out(Void, st)
    ELSE IF HeadName(Head(qs)) = "else" THEN EvalBody(Elements(Cdr(Head(qs))), env, st)
    ELSE LET test == Eval(Car(Head(qs)), env, st) IN
         IF test.st.err THEN test
         ELSE IF test.v = False THEN EvalCond(Tail(qs), env, test.st)
         ELSE EvalBody(Elements(Cdr(Head(qs))), env, test.st)

Procedure(ps, body, env) ==
    <<"proc", [i \in DOMAIN Formals(ps) |-> Formals(ps)[i][2]], Elements(body), env,
      ~IsList(ps)>>

EvalDefine(d, env, st) ==
    LET to == Elements(d)[2]
        v == IF IsPair(to) THEN Out(Procedure(Cdr(to), Cdr(Cdr(d)), env), st)
             ELSE Eval(Elements(d)[3], env, st)
    IN  IF v.st.err THEN v ELSE BindGlobal(IF IsPair(to) THEN Car(to)[2] ELSE to[2], v.v, v.st)

EvalForm(d, es, env, st) ==
    CASE HeadName(d) = "quote" -> Out(Quote(es[2]), st)
      [] HeadName(d) = "quasiquote" -> EvalQuasi(es[2], env, st)
      [] HeadName(d) = "if" ->
           LET c == Eval(es[2], env, st) IN
           IF c.v # False THEN Eval(es[3], env, c.st)
           ELSE IF Len(es) = 4 THEN Eval(es[4], env, c.st) ELSE Out(Void, c.st)
      [] HeadName(d) = "cond" -> EvalCond(Tail(es), env, st)
      [] HeadName(d) = "set!" ->
           LET v == Eval(es[3], env, st) IN
           IF v.st.err THEN v ELSE Assign(es[2][2], v.v, env, v.st)
      [] HeadName(d) = "let*" -> EvalLetStar(Elements(es[2]), SubSeq(es, 3, Len(es)), env, st)
      [] HeadName(d) \in {"let", "letrec"} ->
           EvalLet(HeadName(d) = "letrec", Elements(es[2]), SubSeq(es, 3, Len(es)), env, st)
      [] HeadName(d) = "lambda" -> Out(Procedure(es[2], Cdr(Cdr(d)), env), st)
      [] HeadName(d) = "begin" -> EvalBody(Tail(es), env, st)
      [] HeadName(d) = "define" -> EvalDefine(d, env, st)
      [] OTHER -> EvalApp(es, env, st)

Eval(d, env, st) ==
    IF st.err THEN Fail(st)
    ELSE IF IsId(d) THEN Read(d[2], env, st)
    ELSE IF IsPair(d) THEN EvalForm(d, Elements(d), env, st)
    ELSE Out(d, st)

(* A value as the REPL can show it: procedures are all alike, and so are a *)
(* symbol and an identifier.                                               *)
RECURSIVE Shown(_)
Shown(v) ==
    CASE v[1] \in {"proc", "closure", "bin"} -> <<"procedure">>
      [] v[1] = "pair" -> Pair(Shown(v[2]), Shown(v[3]))
      [] v[1] = "id" -> Sym(v[2])
      [] OTHER -> v

(* The results of a session, form by form; a form that is none of the      *)
(* grammar has no effect and an undefined value; an error ends the form,   *)
(* and leaves what it has already changed.                                 *)
WithResult(r, out) ==
    [vs |-> Append(r.vs, IF out.st.err THEN Err ELSE Shown(out.v)),
     st |-> [out.st EXCEPT !.err = FALSE]]

Results(forms, st) ==
    FoldLeft(LAMBDA r, d : WithResult(r, IF IsForm(d, FALSE) THEN Eval(d, <<>>, r.st)
                                         ELSE Out(Undef, r.st)),
             [vs |-> <<>>, st |-> st], forms).vs
=============================================================================
