------------------------------- MODULE Interp -------------------------------
(***************************************************************************)
(* The interpreter of interpret.c: icod_interpret runs the instructions of *)
(* the functions of a session, form after form; vm_run catches what a form *)
(* throws.  One action per family of instructions.                         *)
(*                                                                         *)
(* A vector of locals is named by its index in vecs, as the C code names   *)
(* it by its address: frames and closures share vectors.  Frames are       *)
(* reachable only along the chain of "up" from the top one, so frames      *)
(* holds that chain, the top one last, and drops what is left behind.      *)
(***************************************************************************)
EXTENDS Values

CONSTANTS
    Count,      \* how many sessions there are
    Image(_),   \* each session compiled: what Compile of Anf returns, and more
    BinargsSize \* the room for a builtin's arguments (512, DEF_BINARGS_SZ)

VARIABLES
    image,      \* the session that runs: its compiled forms and functions
    form,       \* how many of its forms were begun
    pc,         \* "read", "run", "done", "dead" (a failed assert), "wild"
    gval,       \* the globals' values (Nihil: no box yet)
    vecs,       \* the vectors of locals
    frames,     \* the frames in use
    ip, rr,     \* the next instruction and the result register
    call,       \* cl_c, tailcall, c_locals and what parg was given so far
    made,       \* how many closures were allocated
    results,    \* what vm_eval returned for each form
    captured,   \* ghost: the vectors some closure saved
    deviations  \* ghost: what happened that Scheme does not know

machine == <<vecs, frames, ip, rr, call, made, captured>>
vars == <<image, form, pc, gval, machine, results, deviations>>

Builtins == Len(BinNames)

(* A closure: the function it is of, the vectors it saved, its identity    *)
(* (0 for the one new_closure keeps in the fcode), and, as a ghost, the    *)
(* vectors lexical scope would have it see.                                *)
Closure(uniq, saved, id, lexical) == <<"closure", uniq, saved, id, lexical>>
IsClosure(v) == v[1] = "closure"
SameObject(v, w) == IsClosure(v) /\ v[2] = w[2] /\ v[4] = w[4]

CodeOf(closr) == image.code[closr[2]]
Top == frames[Len(frames)]
ClTop == Top.closr
Locals == vecs[Top.vars]
Instr == CodeOf(ClTop).icode[ip + 1]

(* A function the transformer gave up has no code.                         *)
RunsNothing == pc = "run" /\ CodeOf(ClTop).icode = <<>>
RunsCode == pc = "run" /\ ~RunsNothing
Runs(op) == RunsCode /\ Instr[1] = op

Frame(up, closr, locals, ret, final) ==
    [up |-> up, closr |-> closr, vars |-> locals, ret |-> ret, final |-> final]
NewVec(n) == [i \in 1..n |-> Nihil]
NoCall == [closr |-> Nihil, self |-> FALSE, vec |-> 0, args |-> <<>>, argc |-> 0, old |-> <<>>]

-----------------------------------------------------------------------------
(* What the interpreter relies on and never tests: the shape of the code   *)
(* of a session.  Its image comes with the data in the code and all their  *)
(* parts (data), and, of each function, how many locals the functions      *)
(* around it have, the innermost first (around).                           *)

(* Control comes to an instruction that does not continue a call.          *)
StartsAt(icode, i) == i \in 1..Len(icode) /\ icode[i][1] \notin {"PUSH", "CALL", "RETCALL"}

OperandOK(img, u, o) ==
    \/ o[1] = "R"
    \/ o[1] = "D" /\ o[2] \in img.data
    \/ o[1] = "G" /\ o[2] \in 1..img.globals
    \/ o[1] = "L" /\ o[2] \in 0..img.code[u].fvc - 1
    \/ o[1] = "K" /\ o[2] \in 1..img.code[u].frmax /\ o[3] \in 0..img.around[u][o[2]] - 1

(* The functions of a form: they have the numbers from its own code's to   *)
(* that of the next form's.  Those of a form that was done are finished.   *)
FunctionsOf(img, i) ==
    {u \in DOMAIN img.code :
        /\ img.forms[i].top <= u
        /\ \A j \in i + 1..Len(img.forms) : u < img.forms[j].top}
Finished(img) ==
    {u \in DOMAIN img.code :
        \E i \in 1..Len(img.forms) : img.forms[i].status = "ok" /\ u \in FunctionsOf(img, i)}

InstrOK(img, u, i) ==
    LET icode == img.code[u].icode
        instr == icode[i]
        is(op) == instr[1] = op
    IN  /\ instr[1] \in {"SET", "DEF", "IF", "JMP", "LAMBDA", "PREP", "PUSH", "CALL", "RETCALL", "RET"}
        /\ is("SET") => /\ OperandOK(img, u, instr[2]) /\ instr[2][1] \in {"G", "L", "K"}
                        /\ OperandOK(img, u, instr[3])
        /\ is("DEF") => instr[2] \in 1..img.globals /\ OperandOK(img, u, instr[3])
        /\ is("IF") => OperandOK(img, u, instr[2]) /\ StartsAt(icode, instr[3] + 1) /\ instr[3] \in Nat
        /\ is("JMP") => StartsAt(icode, instr[2] + 1) /\ instr[2] \in Nat
        /\ is("LAMBDA") => /\ instr[2] \in DOMAIN img.code
                           /\ img.around[instr[2]] = <<img.code[u].fvc>> \o img.around[u]
                           /\ u \in Finished(img) => instr[2] \in Finished(img)
        /\ is("PREP") => /\ OperandOK(img, u, instr[2])
                         /\ instr[3] \in 0..Len(icode) - i - 1
                         /\ \A j \in 1..instr[3] : icode[i + j][1] = "PUSH"
                         /\ icode[i + instr[3] + 1][1] = IF instr[4] THEN "RETCALL" ELSE "CALL"
        /\ is("PUSH") \/ is("RET") => OperandOK(img, u, instr[2])
        /\ instr[1] \in {"SET", "DEF", "IF", "LAMBDA", "CALL"} => StartsAt(icode, i + 1)

FunctionOK(img, u) ==
    LET fc == img.code[u] IN
    /\ fc.uniq = u /\ fc.fvc \in Nat
    /\ img.around[u] \in Seq(Nat) /\ fc.frmax \in 0..Len(img.around[u])
    /\ Len(fc.icode) \in Nat
    /\ fc.icode # <<>> => StartsAt(fc.icode, 1)
    /\ u \in Finished(img) => fc.icode # <<>>
    /\ \A i \in 1..Len(fc.icode) : InstrOK(img, u, i)

FormOK(img, f) ==
    /\ f.status \in {"ok", "fatal"} =>
          f.top \in DOMAIN img.code /\ img.around[f.top] = <<>>
    /\ f.status = "ok" => f.top \in Finished(img)

WellFormed(img) ==
    /\ Len(img.forms) \in Nat
    /\ img.globals \in Nat /\ img.globals >= Builtins
    /\ \A v \in img.data :
          /\ v[1] \notin {"closure", "bin"}
          /\ IsPair(v) => Car(v) \in img.data /\ Cdr(v) \in img.data
    /\ \A u \in DOMAIN img.code : FunctionOK(img, u)
    /\ \A i \in 1..Len(img.forms) : FormOK(img, img.forms[i])

ASSUME ImageAssumption == \A n \in 1..Count : WellFormed(Image(n))

-----------------------------------------------------------------------------
(* Operands: GET_VAR_L, GET_VAR_G, GET_VAR_K, and a datum in the code.     *)
VecOf(o) == IF o[1] = "K" THEN ClTop[3][o[2]] ELSE Top.vars
IndexOf(o) == IF o[1] = "K" THEN o[3] + 1 ELSE o[2] + 1

OutOfBounds(o) ==
    \/ o[1] = "K" /\ o[2] > Len(ClTop[3])
    \/ o[1] \in {"K", "L"} /\ IndexOf(o) > Len(vecs[VecOf(o)])

UnboundGlobal(o) == o[1] = "G" /\ gval[o[2]] = Nihil

Get(o) ==
    CASE o[1] = "R" -> rr
      [] o[1] = "D" -> o[2]
      [] o[1] = "G" -> gval[o[2]]
      [] o[1] \in {"L", "K"} -> vecs[VecOf(o)][IndexOf(o)]

IsPrep == Instr[1] = "PREP"
Reads ==
    CASE Instr[1] = "SET" -> {Instr[3], Instr[2]}
      [] Instr[1] = "DEF" -> {Instr[3]}
      [] Instr[1] \in {"IF", "PREP", "PUSH", "RET"} -> {Instr[2]}
      [] Instr[1] \in {"JMP", "LAMBDA", "CALL", "RETCALL"} -> {}

(* A slot outside its vector is read or written: anything may follow.      *)
ReachesOutside == \E o \in Reads : OutOfBounds(o)

(* A builtin's arguments, and those of a procedure with a rest parameter,  *)
(* are pushed to binargs, the others to the vector of the callee's locals. *)
(* Nothing tests the end of binargs; "and" of no arguments reads in front  *)
(* of it; and CALL spreads the arguments of a procedure with a rest        *)
(* parameter into a vector of locals that no PREP allocated.               *)
HasRest(callee) == IsClosure(callee) /\ CodeOf(callee).rest
ToBinargs(callee) == callee[1] = "bin" \/ HasRest(callee)

StraysInCall ==
    \/ Instr[1] = "PUSH" /\ ToBinargs(call.closr) /\ Len(call.args) = BinargsSize
    \/ /\ Instr[1] \in {"CALL", "RETCALL"}
       /\ \/ HasRest(call.closr)
          \/ call.closr[1] = "bin" /\ BinStrays(call.closr[2], call.args)

Strays == ReachesOutside \/ StraysInCall

(* argc counts the parameter for what is left of the arguments.            *)
TakesArgs(v, n) ==
    CASE v[1] = "closure" -> n = CodeOf(v).argc \/ (CodeOf(v).rest /\ n > CodeOf(v).argc)
      [] v[1] = "bin" -> BinTakes(v[2], n)
      [] OTHER -> FALSE

(* The instruction throws: an undefined or redefined global, a call of     *)
(* something else than a procedure, a wrong number or type of arguments.   *)
Throws ==
    \/ \E o \in Reads : UnboundGlobal(o)
    \/ Instr[1] = "DEF" /\ gval[Instr[2]] # Nihil
    \/ IsPrep /\ ~TakesArgs(Get(Instr[2]), Instr[3])
    \/ /\ Instr[1] \in {"CALL", "RETCALL"}
       /\ call.closr[1] = "bin"
       /\ BinPanics(call.closr[2], call.args)

Executes(op) == Runs(op) /\ ~Strays /\ ~Throws

-----------------------------------------------------------------------------
(* Ghosts.  In a self call the arguments are stored into the very locals   *)
(* they are read from: an argument is clobbered when its variable was      *)
(* overwritten by an earlier one, and shared when a closure saved them.    *)
DeviatesIn(kinds) == deviations' = deviations \cup kinds
Deviates(kind, happens) == DeviatesIn(IF happens THEN {kind} ELSE {})

Clobbers(o) == call.self /\ o[1] = "L" /\ Get(o) # call.old[IndexOf(o)]

-----------------------------------------------------------------------------
(* The family SET.  SET_K_D has no IPNEXT.                                 *)
StaysOnAny == Instr[2][1] = "K"                 \* mutant
Stays == Instr[2][1] = "K" /\ Instr[3][1] = "D"

SetVar ==
    /\ Executes("SET")
    /\ LET to == Instr[2]
           value == Get(Instr[3])
       IN  IF to[1] = "G"
             THEN gval' = [gval EXCEPT ![to[2]] = value] /\ UNCHANGED vecs
             ELSE vecs' = [vecs EXCEPT ![VecOf(to)][IndexOf(to)] = value] /\ UNCHANGED gval
    /\ ip' = IF Stays THEN ip ELSE ip + 1
    /\ UNCHANGED <<image, form, pc, frames, rr, call, made, captured, results, deviations>>

DefGlobal ==
    /\ Executes("DEF")
    /\ gval' = [gval EXCEPT ![Instr[2]] = Get(Instr[3])]
    /\ ip' = ip + 1
    /\ UNCHANGED <<image, form, pc, vecs, frames, rr, call, made, captured, results, deviations>>

JumpTarget(c) == CASE c[1] = "JMP" -> c[2]
                   [] c[1] = "IF" -> IF Get(c[2]) = False THEN c[3] ELSE ip + 1

Jump ==
    /\ Executes("IF") \/ Executes("JMP")
    /\ ip' = JumpTarget(Instr)
    /\ UNCHANGED <<image, form, pc, gval, vecs, frames, rr, call, made, captured, results,
                   deviations>>

(* The vectors a closure saves: those of the frames up the chain, n of     *)
(* them.  The first frame of a form is its own upper frame.                *)
SavedFrames(n) ==
    LET f[i \in 0..n] == IF i = 0 THEN Len(frames) ELSE frames[f[i - 1]].up
    IN  [i \in 1..n |-> frames[f[i - 1]].vars]

LambdaMade(block, id) ==
    Closure(block.uniq, SavedFrames(block.frmax), id, <<Top.vars>> \o ClTop[5])

(* new_closure hands out the closure kept in the fcode when nothing is to  *)
(* be saved.                                                               *)
MakeClosure ==
    /\ Executes("LAMBDA")
    /\ LET block == image.code[Instr[2]]
           id == IF block.frmax = 0 THEN 0 ELSE made + 1
           closr == LambdaMade(block, id)
           lexical == SubSeq(closr[5], 1, block.frmax)
       IN  /\ rr' = closr
           /\ made' = IF block.frmax = 0 THEN made ELSE made + 1
           /\ captured' = captured \cup {closr[3][i] : i \in 1..block.frmax}
           /\ Deviates("capture", closr[3] # lexical)
    /\ ip' = ip + 1
    /\ UNCHANGED <<image, form, pc, gval, vecs, frames, call, results>>

-----------------------------------------------------------------------------
(* PREP and RPREP: the procedure to call is found and checked, and where   *)
(* its arguments go: binargs for a builtin, a new vector for a closure,    *)
(* the locals themselves when a function calls itself in tail position.    *)
SelfAnyCall(callee) == SameObject(callee, ClTop)    \* mutant
SelfTailCall(callee) == Instr[4] /\ SameObject(callee, ClTop)

NoRoomForVars(closr) == CodeOf(closr).argc      \* mutant
VarCount(closr) == CodeOf(closr).fvc

Prep ==
    /\ Executes("PREP")
    /\ LET callee == Get(Instr[2])
           to == [NoCall EXCEPT !.closr = callee, !.argc = Instr[3]]
       IN  \/ /\ ToBinargs(callee)
              /\ call' = to
              /\ UNCHANGED vecs
           \/ /\ SelfTailCall(callee) /\ ~ToBinargs(callee)
              /\ call' = [to EXCEPT !.self = TRUE, !.vec = Top.vars, !.old = Locals]
              /\ UNCHANGED vecs
           \/ /\ IsClosure(callee) /\ ~SelfTailCall(callee) /\ ~ToBinargs(callee)
              /\ vecs' = Append(vecs, NewVec(VarCount(callee)))
              /\ call' = [to EXCEPT !.vec = Len(vecs) + 1]
    /\ ip' = ip + 1
    /\ UNCHANGED <<image, form, pc, gval, frames, rr, made, captured, results, deviations>>

Push ==
    /\ Executes("PUSH")
    /\ LET value == Get(Instr[2]) IN
       /\ call' = [call EXCEPT !.args = Append(@, value)]
       /\ vecs' = IF ToBinargs(call.closr) THEN vecs
                    ELSE [vecs EXCEPT ![call.vec][Len(call.args) + 1] = value]
    /\ Deviates("clobber", Clobbers(Instr[2]))
    /\ ip' = ip + 1
    /\ UNCHANGED <<image, form, pc, gval, frames, rr, made, captured, results>>

-----------------------------------------------------------------------------
(* What a form leaves when it ends, with its value or with an error.       *)
FormEnds(value) ==
    /\ pc' = "read"
    /\ results' = Append(results, value)
    /\ frames' = <<>> /\ ip' = 0 /\ rr' = Void /\ call' = NoCall
    /\ UNCHANGED <<image, form, gval, vecs, made, captured>>

(* FRAME_RETPOP: the caller goes on where it left off; the frame that runs *)
(* the form's own code, or that took its place, ends the form.             *)
ReturnsInto(value) ==
    /\ frames' = SubSeq(frames, 1, Top.up)
    /\ ip' = Top.ret
    /\ rr' = value
    /\ call' = NoCall
    /\ UNCHANGED <<image, form, pc, gval, vecs, made, captured, results>>

RetPop(value) == IF Top.final THEN FormEnds(value) ELSE ReturnsInto(value)

ReturnIpOfCall == ip                            \* mutant
ReturnIp == ip + 1

(* The procedure's frame is entered: CLOSR_JMP starts its code at 0.       *)
Enters(base, frame) ==
    /\ frames' = Append(SubSeq(frames, 1, base), frame)
    /\ ip' = 0
    /\ call' = NoCall
    /\ UNCHANGED <<image, form, pc, gval, vecs, rr, made, captured, results>>

Callee(up, ret, final) == Frame(up, call.closr, call.vec, ret, final)

BinCalled == BinResult(call.closr[2], call.args)
BinDeviated == DeviatesIn(BinDeviations(call.closr[2], call.args))

CallBin ==
    /\ Executes("CALL") /\ call.closr[1] = "bin"
    /\ rr' = BinCalled
    /\ ip' = ip + 1
    /\ call' = NoCall
    /\ BinDeviated
    /\ UNCHANGED <<image, form, pc, gval, vecs, frames, made, captured, results>>

CallClosure ==
    /\ Executes("CALL") /\ IsClosure(call.closr)
    /\ Enters(Len(frames), Callee(Len(frames), ReturnIp, FALSE))
    /\ UNCHANGED deviations

RetcallBin ==
    /\ Executes("RETCALL") /\ call.closr[1] = "bin"
    /\ RetPop(BinCalled)
    /\ BinDeviated

(* A function that calls itself last starts over in the same frame.        *)
RetcallSelf ==
    /\ Executes("RETCALL") /\ call.self
    /\ ip' = 0
    /\ call' = NoCall
    /\ Deviates("shared", Top.vars \in captured)
    /\ UNCHANGED <<image, form, pc, gval, vecs, frames, rr, made, captured, results>>

(* Any other function's frame takes the place of this one, except of the   *)
(* form's own frame, which is its upper frame and stays.                   *)
UpOfTop == Len(frames)                          \* mutant
UpOfTail == Top.up

RetcallClosure ==
    /\ Executes("RETCALL") /\ IsClosure(call.closr) /\ ~call.self
    /\ Enters(UpOfTail, Callee(UpOfTail, Top.ret, Top.final))
    /\ UNCHANGED deviations

Ret ==
    /\ Executes("RET")
    /\ RetPop(Get(Instr[2]))
    /\ UNCHANGED deviations

(* The exception ends the form; vm_run returns SYMB_VOID after a message.  *)
(* A rest parameter that would be given no arguments is one missing.       *)
LacksRest ==
    IsPrep /\ HasRest(Get(Instr[2])) /\ Instr[3] = CodeOf(Get(Instr[2])).argc - 1

Panic ==
    /\ RunsCode /\ ~Strays /\ Throws
    /\ FormEnds(Err)
    /\ Deviates("rest", LacksRest)

Wild ==
    /\ RunsNothing \/ (RunsCode /\ Strays)
    /\ pc' = "wild"
    /\ UNCHANGED <<image, form, gval, machine, results, deviations>>

-----------------------------------------------------------------------------
(* vm_eval, form by form: what was transformed runs, what was not returns  *)
(* SYMB_UNDEF, and a failed assert of the transformer ends the program.    *)
(* console_loop runs what the transformer gave up, too.                    *)
RunnableAlways(status) == status \in {"ok", "fatal"}        \* mutant
Runnable(status) == status = "ok" \/ (status = "fatal" /\ image.console)

Status == image.forms[form + 1].status
Begun ==
    /\ pc = "read" /\ form < Len(image.forms)
    /\ form' = form + 1

BeginForm ==
    /\ Begun /\ Runnable(Status)
    /\ pc' = "run"
    /\ LET uniq == image.forms[form + 1].top IN
       /\ vecs' = Append(vecs, NewVec(image.code[uniq].fvc))
       /\ frames' = <<Frame(1, Closure(uniq, <<>>, 0, <<>>), Len(vecs) + 1, 0, TRUE)>>
    /\ UNCHANGED <<image, gval, ip, rr, call, made, captured, results, deviations>>

(* What the checker refuses and what a transformation ends that throws.    *)
Reject ==
    /\ Begun /\ Status \in {"refused", "fatal"} /\ ~Runnable(Status)
    /\ results' = Append(results, Undef)
    /\ UNCHANGED <<image, pc, gval, machine, deviations>>

Abort ==
    /\ Begun /\ Status = "abort"
    /\ pc' = "dead"
    /\ UNCHANGED <<image, gval, machine, results, deviations>>

(* The checker or the transformer took apart what is no pair.              *)
Lose ==
    /\ Begun /\ Status = "wild"
    /\ pc' = "wild"
    /\ UNCHANGED <<image, gval, machine, results, deviations>>

EndSession ==
    /\ pc = "read" /\ form = Len(image.forms)
    /\ pc' = "done"
    /\ UNCHANGED <<image, form, gval, machine, results, deviations>>

-----------------------------------------------------------------------------
Init ==
    /\ \E n \in 1..Count : image = Image(n)
    /\ form = 0 /\ pc = "read"
    /\ gval = [i \in 1..image.globals |->
                 IF i <= Builtins THEN Bin(BinNames[i]) ELSE Nihil]
    /\ vecs = <<>> /\ frames = <<>>
    /\ ip = 0 /\ rr = Void /\ call = NoCall /\ made = 0
    /\ results = <<>> /\ captured = {} /\ deviations = {}

Step ==
    \/ SetVar \/ DefGlobal \/ Jump \/ MakeClosure \/ Prep \/ Push
    \/ CallBin \/ CallClosure \/ RetcallBin \/ RetcallSelf \/ RetcallClosure
    \/ Ret \/ Panic \/ Wild
    \/ BeginForm \/ Reject \/ Abort \/ Lose \/ EndSession

Next == Step
Spec == Init /\ [][Next]_vars

(* The interpreter's loop goes on as long as the process runs.             *)
FairSpec == Spec /\ WF_vars(Next)

-----------------------------------------------------------------------------
(* Every part has its shape, every reference among frames, vectors and     *)
(* code has something to refer to, and the instruction pointer is inside   *)
(* the function that runs: control never falls off the end of its code     *)
(* (the test of the while loop, interpret.c:919).                          *)
TypeOK ==
    /\ form \in 0..Len(image.forms)
    /\ pc \in {"read", "run", "done", "dead", "wild"}
    /\ DOMAIN gval = 1..image.globals
    /\ \A i \in DOMAIN frames :
          /\ frames[i].up \in DOMAIN frames /\ frames[i].vars \in DOMAIN vecs
          /\ frames[i].closr[2] \in DOMAIN image.code
          /\ frames[i].ret \in Nat /\ frames[i].final \in BOOLEAN
          /\ Len(vecs[frames[i].vars]) = CodeOf(frames[i].closr).fvc
    /\ RunsCode => ip \in 0..Len(CodeOf(ClTop).icode) - 1
    /\ pc = "run" => /\ frames # <<>>
                     /\ call.self => call.vec = Top.vars
    /\ made \in Nat /\ captured \subseteq DOMAIN vecs
    /\ deviations \subseteq {"capture", "clobber", "shared", "rest", "overflow", "nil", "ident"}

(* "upper frame is always older!" (vmdefs.h:77), the form's first frame    *)
(* excepted: what lets a frame be linked to its upper one with no write    *)
(* barrier, and what ends a walk up the chain.  A frame that is not to end *)
(* the form returns to the instruction behind a CALL of the frame above it *)
(* in the chain: tail calls, which copy their caller's return address and  *)
(* upper frame, never return into the wrong function.                      *)
FramesLinked ==
    \A i \in DOMAIN frames :
        /\ frames[i].up < i \/ (i = 1 /\ frames[i].up = 1)
        /\ \/ frames[i].final
           \/ LET code == CodeOf(frames[frames[i].up].closr).icode
              IN  code[frames[i].ret][1] = "CALL"

(* The locals of a function that waits for a call to return are its own:   *)
(* only an assignment to a captured variable changes them meanwhile.       *)
CallerLocalsKept ==
    [][\A i \in 1..Len(frames) - 1 :
          \/ vecs'[frames[i].vars] = vecs[frames[i].vars]
          \/ Instr[1] = "SET" /\ Instr[2][1] = "K"]_vars

(* A slot outside its vector is touched only by code whose function, or a  *)
(* function around it, was created two levels up: LAMBDA takes the vectors *)
(* from the callers' frames instead of the definers'.                      *)
WildOnlyAfterCapture == RunsCode /\ ReachesOutside => "capture" \in deviations

(* A function the transformer gave up, or never came to, is run only in    *)
(* the console, after an error in the form it is of: vm_eval leaves such a *)
(* form alone (interpret.c:835), and no closure of a form that was done    *)
(* lacks its code.                                                         *)
UnfinishedOnlyAtConsole ==
    RunsNothing => image.console /\ \E i \in 1..form : image.forms[i].status = "fatal"
=============================================================================
