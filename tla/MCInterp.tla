------------------------------ MODULE MCInterp ------------------------------
(***************************************************************************)
(* Interp for TLC: it runs every session of Sessions, compiled by Anf, and *)
(* is compared with Scheme's reading of the source.                        *)
(***************************************************************************)
EXTENDS Interp, Sessions

(* A definition with no parameter is evaluated before the run starts.      *)
Images ==
    LET sessions == AllSessions
    IN  [n \in DOMAIN sessions |-> Loaded(sessions[n], Compile(sessions[n]), n <= Len(Others))]
MCCount == Len(AllSessions)
MCImage(n) == Images[n]

(* The syntax check lets pass the forms of the grammar, and the few kinds  *)
(* beyond it that Scheme names under lax, and no others: of those that     *)
(* differ from a form in one place, too.  (What it takes apart blindly, a  *)
(* (begin 1 . 2) or a number among parameters, it does not let pass.)      *)
SyntaxAgrees == \A i \in DOMAIN image.forms : image.forms[i].verdict = "ok" <=> image.forms[i].lax

(* The transformer is up to every form of the grammar the checker lets     *)
(* pass: it neither throws nor reads past a list.  (A definition as a      *)
(* local variable fails an assert of it.)                                  *)
CheckedFormsTransform ==
    \A i \in DOMAIN image.forms :
        image.forms[i].verdict = "ok" /\ image.forms[i].strict =>
            image.forms[i].status \in {"ok", "abort"}

(* A session whose forms return what they mean in Scheme, if none of these *)
(* departures of the interpreter occurred: a lambda that saves the wrong   *)
(* vectors (interpret.c:964), a self tail call that overwrites an argument *)
(* it is still to read (interpret.c:1021), or one that reuses locals a     *)
(* closure holds, a rest parameter counted as required, a sum that needs   *)
(* more bits than a fixnum has, an empty list unquoted, an identifier      *)
(* compared to a symbol.  Registers, temporaries, jumps, saved frames,     *)
(* return addresses and rewritten forms all have to be right for it.       *)
Comparable ==
    /\ pc = "done"
    /\ \A i \in DOMAIN image.forms :
          IF image.forms[i].verdict = "ok" THEN image.forms[i].strict /\ image.forms[i].status = "ok"
          ELSE ~image.forms[i].strict
AsExpected == [i \in DOMAIN results |-> Shown(results[i])] = image.expected

ResultsAgree == Comparable /\ deviations = {} => AsExpected

(* Self tail calls evaluate as calls do (README.md:10, "Tail recursion     *)
(* support"): the same, for the sessions where no closure holds the locals *)
(* of a loop, with nothing else set aside.                                 *)
LoopsAgree == Comparable /\ captured = {} /\ deviations \subseteq {"clobber"} => AsExpected

(* A session whose calls in its source are all last, or of builtins, runs  *)
(* in the form's frame and one more (README.md:10, "Without tail recursion *)
(* you can't write optimal loops in Scheme").                              *)
TailLoopsBounded == image.tailOnly => Len(frames) <= 2

(* Every session comes to its end, but for one that assigns a datum to a   *)
(* captured variable: that instruction is executed for ever                *)
(* (interpret.c:929 has no IPNEXT).                                        *)
Spins == Runs("SET") /\ Instr[2][1] = "K" /\ Instr[3][1] = "D"
SessionEnds == <>(pc \in {"done", "dead", "wild"} \/ Spins)
=============================================================================
