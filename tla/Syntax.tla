------------------------------- MODULE Syntax -------------------------------
(***************************************************************************)
(* trf_check_syntax of transform.c: a form is checked before it is         *)
(* transformed, and its let*, cond, quasiquote and function definitions    *)
(* are rewritten in place.  One operator per kw_check_... function.        *)
(***************************************************************************)
EXTENDS Values, FiniteSetsExt

(* What a check leaves: the form as rewritten, what the function returned, *)
(* and marks: "err" when an error was reported (the form is then not       *)
(* transformed), "wild" when something that is no pair, or no identifier,  *)
(* was taken apart as one.                                                 *)
Checked(d, ok, marks) == [d |-> d, ok |-> ok, marks |-> marks]
Fine(d) == Checked(d, TRUE, {})
Bad(d) == Checked(d, FALSE, {"err"})
With(c, marks) == [c EXCEPT !.marks = @ \cup marks]

Reserved(d) == IsId(d) /\ d[2] \in Keywords

WithTail(d, c) == [c EXCEPT !.d = Pair(Car(d), c.d)]

(* kw_error_ifnotid, kw_push_id                                            *)
IsName(d) == IsId(d) /\ ~Reserved(d)
Repeats(ds) == Cardinality(ToSet(ds)) < Len(ds)

(* The parameters of a list (x y . rest): an immediate among them is       *)
(* looked into for its symbol all the same.                                *)
ParamMarksRepeated(names) ==                    \* mutant
    {m \in {"err", "wild"} :
        \/ m = "err" /\ \E i \in DOMAIN names : ~IsName(names[i])
        \/ m = "wild" /\ \E i \in DOMAIN names : ~IsId(names[i]) /\ ~IsPair(names[i])}

ParamMarks(names) ==
    {m \in {"err", "wild"} :
        \/ m = "err" /\ (Repeats(names) \/ \E i \in DOMAIN names : ~IsName(names[i]))
        \/ m = "wild" /\ \E i \in DOMAIN names : ~IsId(names[i]) /\ ~IsPair(names[i])}

RECURSIVE Check(_, _)

(* kw_match_tail_cx: all elements of a list that was found to be proper.   *)
AndElement(c, e) == Checked(Append(c.d, e.d), c.ok /\ e.ok, c.marks \cup e.marks)
MatchTail(l) ==
    LET c == FoldLeft(LAMBDA cs, e : AndElement(cs, Check(e, "expr")), Fine(<<>>), Elements(l))
    IN  With([c EXCEPT !.d = ListEnding(@, EndOf(l))], IF IsList(l) THEN {} ELSE {"wild"})

CheckRest(d) == WithTail(d, MatchTail(Cdr(d)))

(* The head of an application is checked, but what comes of it is left to  *)
(* the error reported.                                                     *)
CheckExpr(d) ==
    IF ~IsList(d) \/ (~IsPair(Car(d)) /\ ~IsId(Car(d))) THEN Bad(d)
    ELSE LET head == IF IsPair(Car(d)) THEN Check(Car(d), "expr") ELSE Fine(Car(d))
         IN  With(CheckRest(Pair(head.d, Cdr(d))), head.marks)

CheckQuote(d) == IF CliLen(Cdr(d)) # 1 THEN Bad(d) ELSE Fine(d)

CheckUnquote(d, cx) == IF cx # "quote" \/ CliLen(Cdr(d)) # 1 THEN Bad(d) ELSE Fine(d)

(* Only the elements of the quasi-quoted list itself are looked at; with   *)
(* no unquote among them the form becomes a quote.                         *)
CheckQuasi(d) ==
    LET es == Elements(Car(Cdr(d)))
        asName(e) == IsUnquote(Pair(e, Nil))
        unquotes == SelectSeq(es, IsUnquote)
        checks == [i \in 1..Len(unquotes) |-> Check(unquotes[i], "quote")]
    IN  IF CliLen(Cdr(d)) # 1 \/ \E i \in DOMAIN es : asName(es[i]) THEN Bad(d)
        ELSE IF unquotes = <<>> THEN Fine(Pair(Id("quote"), Cdr(d)))
        ELSE Checked(d, \A i \in DOMAIN checks : checks[i].ok,
                     UNION {checks[i].marks : i \in DOMAIN checks})

-----------------------------------------------------------------------------
(* let, letrec and let*: first the bindings and their values; then the     *)
(* whole rest, the list of bindings, as an application, included.          *)
BadBinding(b) == CliLen(b) # 2 \/ ~IsName(Car(b))
BadBindings(d) ==
    \/ CliLen(Cdr(d)) < 2
    \/ LET bs == Elements(Car(Cdr(d)))
       IN  \/ ~IsList(Car(Cdr(d)))
           \/ \E i \in DOMAIN bs : BadBinding(bs[i])
           \/ HeadName(d) # "let*" /\ Repeats([i \in DOMAIN bs |-> Car(bs[i])])

(* let* stops at the first value that is not fine.                         *)
CheckInit(c, star, b) ==
    IF star /\ ~c.ok THEN AndElement(c, Fine(b))
    ELSE LET init == Check(Car(Cdr(b)), "expr")
         IN  AndElement(c, [init EXCEPT !.d = Pair(Car(b), Pair(@, Nil))])

CheckInits(d) ==
    FoldLeft(LAMBDA c, b : CheckInit(c, HeadName(d) = "let*", b), Fine(<<>>),
             Elements(Car(Cdr(d))))

AfterInits(d, inits) ==
    LET rest == CheckRest(Pair(Car(d), Pair(List(inits.d), Cdr(Cdr(d)))))
    IN  IF HeadName(d) = "let*" /\ ~inits.ok THEN Checked(d, FALSE, inits.marks)
        ELSE With([rest EXCEPT !.ok = @ /\ inits.ok], inits.marks)

CheckLet(d) == IF BadBindings(d) THEN Bad(d) ELSE AfterInits(d, CheckInits(d))

(* (let* (b1 b2) . body) becomes (let (b1) (let (b2) . body)).             *)
NestedLets(d) ==
    LET bs == Elements(Car(Cdr(d)))
        one(b, body) == Pair(Id("let"), Pair(Pair(b, Nil), body))
    IN  IF bs = <<>> THEN Pair(Id("let"), Cdr(d))
        ELSE Car(FoldRight(LAMBDA b, body : Pair(one(b, body), Nil), bs, Cdr(Cdr(d))))

CheckLetStar(d) ==
    LET c == CheckLet(d) IN IF c.ok THEN [c EXCEPT !.d = NestedLets(@)] ELSE c

-----------------------------------------------------------------------------
CheckBody(d, names) ==
    LET body == MatchTail(Cdr(Cdr(d))) IN
    With(Checked(Pair(Car(d), Pair(Car(Cdr(d)), body.d)), body.ok /\ ParamMarks(names) = {},
                 body.marks),
         ParamMarks(names))

CheckLambda(d) ==
    IF CliLen(Cdr(d)) < 2 \/ ~(IsPair(Car(Cdr(d))) \/ Car(Cdr(d)) = Nil) THEN Bad(d)
    ELSE CheckBody(d, Formals(Car(Cdr(d))))

(* An improper list has a negative length, which as an unsigned one is no  *)
(* length an if or a set! may have, but not below the 1 a begin must have. *)
CheckIf(d) == IF CliLen(Cdr(d)) \notin {2, 3} THEN Bad(d) ELSE CheckRest(d)
CheckBegin(d) == IF CliLen(Cdr(d)) = 0 THEN Bad(d) ELSE CheckRest(d)

CheckSet(d) ==
    IF CliLen(Cdr(d)) # 2 THEN Bad(d)
    ELSE LET value == WithTail(d, WithTail(Cdr(d), MatchTail(Cdr(Cdr(d)))))
         IN  IF IsName(Car(Cdr(d))) THEN value ELSE With([value EXCEPT !.ok = FALSE], {"err"})

CheckCallcc(d) ==
    IF CliLen(Cdr(d)) < 1 \/ (~IsId(Car(Cdr(d))) /\ ~IsPair(Car(Cdr(d)))) THEN Bad(d)
    ELSE CheckRest(d)

(* (define f e) and (define (f . params) . body), the latter rewritten; of *)
(* the former any expressions more are checked and let pass.               *)
NamedLambdaWhole(d) ==                          \* mutant
    LET proto == Car(Cdr(d)) IN
    List(<<Car(d), proto, Pair(Id("lambda"), Pair(Cdr(proto), Cdr(Cdr(d))))>>)
NamedLambda(d) ==
    LET proto == Car(Cdr(d)) IN
    List(<<Car(d), Car(proto), Pair(Id("lambda"), Pair(Cdr(proto), Cdr(Cdr(d))))>>)

CheckFunction(d) ==
    LET proto == Car(Cdr(d))
        c == CheckBody(d, Formals(Cdr(proto)))
    IN  IF ~IsName(Car(proto)) THEN With([c EXCEPT !.ok = FALSE], {"err"})
        ELSE IF c.ok THEN [c EXCEPT !.d = NamedLambda(@)]
        ELSE c

CheckDefine(d, cx) ==
    CASE cx # "top" \/ CliLen(Cdr(d)) < 2 -> Bad(d)
      [] cx = "top" /\ CliLen(Cdr(d)) >= 2 ->
           IF IsPair(Car(Cdr(d))) THEN CheckFunction(d)
           ELSE IF IsName(Car(Cdr(d))) THEN CheckRest(d)
           ELSE Bad(d)

-----------------------------------------------------------------------------
(* cond: clause after clause, up to the first that is not fine.            *)
IsElse(q) == HeadName(q) = "else"
CheckClause(c, q) ==
    IF ~c.ok THEN c
    ELSE IF CliLen(q) < 2 \/ \E i \in DOMAIN c.d : IsElse(c.d[i])
      THEN AndElement(c, Bad(q))
    ELSE AndElement(c, IF IsElse(q) THEN CheckRest(q) ELSE MatchTail(q))

(* Each clause becomes an if, the next one its third part.                 *)
IfOf(q, rest) ==
    LET begin == Pair(Id("begin"), Cdr(q))
    IN  Pair(IF IsElse(q) THEN begin ELSE Pair(Id("if"), Pair(Car(q), Pair(begin, rest))), Nil)

CheckCond(d) ==
    LET c == FoldLeft(CheckClause, Fine(<<>>), Elements(Cdr(d)))
    IN  IF CliLen(Cdr(d)) < 1 THEN Bad(d)
        ELSE IF c.ok THEN [c EXCEPT !.d = Car(FoldRight(IfOf, @, Nil))]
        ELSE [c EXCEPT !.d = d]

-----------------------------------------------------------------------------
(* kw_check_form                                                           *)
CheckPair(d, cx) ==
    CASE HeadName(d) = "define" -> CheckDefine(d, cx)
      [] HeadName(d) = "lambda" -> CheckLambda(d)
      [] HeadName(d) = "if" -> CheckIf(d)
      [] HeadName(d) = "cond" -> CheckCond(d)
      [] HeadName(d) = "set!" -> CheckSet(d)
      [] HeadName(d) \in {"let", "letrec"} -> CheckLet(d)
      [] HeadName(d) = "let*" -> CheckLetStar(d)
      [] HeadName(d) = "quote" -> CheckQuote(d)
      [] HeadName(d) = "quasiquote" -> CheckQuasi(d)
      [] IsUnquote(d) -> CheckUnquote(d, cx)
      [] HeadName(d) \in {"begin", "begin0"} -> CheckBegin(d)
      [] HeadName(d) = "call/cc" -> CheckCallcc(d)
      [] OTHER -> CheckExpr(d)

Check(d, cx) ==
    IF IsPair(d) THEN CheckPair(d, cx) ELSE IF Reserved(d) THEN Bad(d) ELSE Fine(d)

(* How trf_check_syntax ends for a form at top level.                      *)
Verdict(c) == IF "wild" \in c.marks THEN "wild" ELSE IF "err" \in c.marks THEN "refused" ELSE "ok"
=============================================================================
