------------------------------- MODULE Icode -------------------------------
(***************************************************************************)
(* icod_create of interpret.c: the linear code the transformer builds for  *)
(* one function becomes instructions of the interpreter.                   *)
(* An operand is <<"D", v>> (a datum), <<"L", ix>> (a local variable that  *)
(* has a name), <<"T", ix>> (a local slot without one, a temporary),       *)
(* <<"K", fr, ix>> (a variable of the fr-th saved frame) or <<"G", ix>> (a *)
(* global).  In an instruction temporaries are locals, and R stands for    *)
(* the result register rr.                                                 *)
(***************************************************************************)
EXTENDS Values

R == <<"R">>

IsVar(o) == o[1] \in {"L", "T", "K", "G"}
IsTemp(o) == o[1] = "T"

(* What is left of a sub-expression: an operand, or something to compute.  *)
IsSimple(x) == x[1] \notin {"call", "lambda", "callcc"}

Slot(o) == IF IsTemp(o) THEN <<"L", o[2]>> ELSE o

(* The code so far, whether a mark stands at its end, where the marks are, *)
(* and how the translation ended: "ok", "fatal" (EXCEP_TRANSFORM_FATAL) or *)
(* "abort" (a failed assert).                                              *)
NoCode == [ic |-> <<>>, prevmark |-> FALSE, at |-> <<>>, status |-> "ok"]

Add(k, instr) == [k EXCEPT !.ic = Append(@, instr), !.prevmark = FALSE]

(* icod_rem_set_xr: the instruction that moves rr to the temporary o is    *)
(* dropped when it is the last one and no mark stands behind it.           *)
RemovesAtMark(k, o) ==                          \* mutant
    /\ IsTemp(o)
    /\ Len(k.ic) >= 2
    /\ k.ic[Len(k.ic)] = <<"SET", Slot(o), R>>

Removes(k, o) ==
    /\ IsTemp(o)
    /\ ~k.prevmark
    /\ Len(k.ic) >= 2
    /\ k.ic[Len(k.ic)] = <<"SET", Slot(o), R>>

Fetch(k, o) == IF Removes(k, o) THEN R ELSE Slot(o)
Kept(k, o) == IF Removes(k, o) THEN [k EXCEPT !.ic = Front(@)] ELSE k

(* icod_add_call                                                           *)
AddCall(k, app, ret) ==
    LET prep == Add(Kept(k, app[2]), <<"PREP", Fetch(k, app[2]), Len(app[3]), ret>>)
        pushed == [prep EXCEPT !.ic =
                     @ \o [i \in 1..Len(app[3]) |-> <<"PUSH", Slot(app[3][i])>>]]
    IN  Add(pushed, <<IF ret THEN "RETCALL" ELSE "CALL">>)

(* A right-hand side is computed into rr, or is an operand already.        *)
AddRhs(k, x) ==
    CASE x[1] = "call" -> AddCall(k, x, FALSE)
      [] x[1] = "lambda" -> Add(k, <<"LAMBDA", x[2]>>)
      [] x[1] = "callcc" -> [k EXCEPT !.status = "fatal"]
      [] OTHER -> k

Source(x) == IF IsSimple(x) THEN Slot(x) ELSE R

AddSet(k, var, x) == Add(AddRhs(k, x), <<"SET", Slot(var), Source(x)>>)

(* vmi_def_xy asserts that a variable defined as another one is a global.  *)
AddDef(k, g, x) ==
    IF IsSimple(x) /\ x[1] \notin {"D", "G"} THEN [k EXCEPT !.status = "abort"]
    ELSE Add(AddRhs(k, x), <<"DEF", g, Source(x)>>)

AddRet(k, x) ==
    IF x[1] = "call" THEN AddCall(k, x, TRUE)
    ELSE Add(AddRhs(k, x), <<"RET", Source(x)>>)

(* One element of the linear code.  A mark is a position; the code patches *)
(* the jump that refers to it, which Resolve does at the end.              *)
AddLcode(k, c) ==
    IF k.status # "ok" THEN k
    ELSE CASE c[1] = "set" -> AddSet(k, c[2], c[3])
           [] c[1] = "def" -> AddDef(k, c[2], c[3])
           [] c[1] = "ret" -> AddRet(k, c[2])
           [] c[1] = "do" ->
                IF c[2][1] = "call" THEN AddCall(k, c[2], FALSE)
                ELSE [k EXCEPT !.status = "fatal"]
           [] c[1] = "if" -> Add(Kept(k, c[2]), <<"IF", Fetch(k, c[2]), c[3]>>)
           [] c[1] = "jmp" -> Add(k, <<"JMP", c[2]>>)
           [] c[1] = "mark" ->
                [k EXCEPT !.prevmark = TRUE, !.at = Append(@, <<c[2], Len(k.ic)>>)]

Resolve(k) ==
    LET target(label) == (CHOOSE m \in ToSet(k.at) : m[1] = label)[2] IN
    [i \in 1..Len(k.ic) |->
        LET c == k.ic[i] IN
        CASE c[1] = "IF" -> <<"IF", c[2], target(c[3])>>
          [] c[1] = "JMP" -> <<"JMP", target(c[2])>>
          [] OTHER -> c]

(* The instructions, indexed from 0 in the code and from 1 here.           *)
IcodeOf(lcode) ==
    LET k == FoldLeft(AddLcode, NoCode, lcode) IN
    [status |-> k.status, icode |-> IF k.status = "ok" THEN Resolve(k) ELSE <<>>]
=============================================================================
