----------------------------- MODULE TryBlocks -----------------------------
(***************************************************************************)
(* The exceptions of src/src/sysexcep.c and src/inc/sysexcep.h: each _try_ *)
(* block links a node on its C stack frame into a chain, a throw longjmps  *)
(* to the last node, and the block's switch finds a _catch_ clause, or     *)
(* _catchall_, or neither.  The R-stack of the collector grows and shrinks *)
(* with the same frames.  A program is a table of the functions that       *)
(* contain a _try_ block.                                                  *)
(***************************************************************************)
EXTENDS Integers, Sequences, SequencesExt

CONSTANTS
    Site,      \* functions with a _try_ block
    Main,      \* the outermost one
    Code,      \* exception codes
    Calls,     \* sites that may be entered from a site's block
    Raises,    \* codes thrown in the block itself, outside of any inner one
    Clause,    \* what a site does with a code: a value of ClauseKind
    Saves,     \* sites that SAVE_RSTK before the block and UNWIND_RSTK after
    MaxDepth,  \* bound: nested blocks
    MaxRoots,  \* bound: entries of the R-stack
    MaxLinks   \* bound: links of the chain

(* A _catch_ or _catchall_ clause that ends the block, one that ends with  *)
(* _retry_, with _rethrow_, or with UNWIND_RSTK and _rethrow_, or no clause*)
(* for the code.                                                           *)
ClauseKind == {"resume", "retry", "rethrow", "unwind_rethrow", "none"}

ASSUME TableAssumption ==
    /\ Main \in Site
    /\ Calls \in [Site -> SUBSET Site]
    /\ Raises \in [Site -> SUBSET Code]
    /\ Clause \in [Site -> [Code -> ClauseKind]]
    /\ Saves \subseteq Site
    /\ "nothing" \notin Code
    /\ MaxDepth \in Nat /\ MaxRoots \in Nat /\ MaxLinks \in Nat

Wild == {"wild_jump", "wild_pop"}

VARIABLES
    frames,    \* the live calls of sites, outermost first, each with the
               \* height of the R-stack it saved
    chain,     \* the linked nodes, outermost first: the depth of the call a
               \* node lies in, or 0 when that call has returned
    rstk,      \* the R-stack: for each entry the depth of the call whose local
               \* variable it points to, or 0 when the variable is gone
    pending,   \* the exception under way, or "nothing"
    swallowed, \* history: an exception found no clause
    pc         \* "run", "exit", or undefined behaviour: a throw that jumps
               \* into a function that has returned ("wild_jump"), a pop of the
               \* node of one ("wild_pop")

vars == <<frames, chain, rstk, pending, swallowed, pc>>

depth == Len(frames)
Here == frames[depth].site

(* What remains of the chain and of the R-stack when the calls below d are *)
(* the only live ones.                                                     *)
ForgetInner(s, d) == [i \in 1..Len(s) |-> IF s[i] <= d THEN s[i] ELSE 0]   \* mutant
Forget(s, d) == [i \in 1..Len(s) |-> IF s[i] < d THEN s[i] ELSE 0]

Init ==
    /\ frames = <<[site |-> Main, saved |-> 0]>>
    /\ chain = <<1>>
    /\ rstk = <<>>
    /\ pending = "nothing"
    /\ swallowed = FALSE
    /\ pc = "run"

Running == pc = "run" /\ pending = "nothing"

(* A function with a _try_ block is called, and the block entered.         *)
Enter(s) ==
    /\ Running
    /\ s \in Calls[Here]
    /\ depth < MaxDepth /\ Len(chain) < MaxLinks
    /\ frames' = Append(frames, [site |-> s, saved |-> Len(rstk)])
    /\ chain' = Append(chain, depth + 1)
    /\ UNCHANGED <<rstk, pending, swallowed, pc>>

(* A function called in the block protects a local variable (PUSH_RSTK),   *)
(* or returns and unwinds it.                                              *)
Protect ==
    /\ Running
    /\ Len(rstk) < MaxRoots
    /\ rstk' = Append(rstk, depth)
    /\ UNCHANGED <<frames, chain, pending, swallowed, pc>>

Unprotect ==
    /\ Running
    /\ rstk # <<>> /\ Last(rstk) = depth
    /\ rstk' = Front(rstk)
    /\ UNCHANGED <<frames, chain, pending, swallowed, pc>>

(* __excep_node_pop, when it pops: passing NULL to __excep_node only reads *)
(* it, so the first node of the chain is never unlinked.                   *)
PoppedNever(ch) == ch                           \* mutant
Popped(ch) == IF Len(ch) > 1 THEN Front(ch) ELSE ch

(* The current call returns, with what UNWIND_RSTK leaves.                 *)
ReturnFromUnwound(ch, rs, d, fs) ==             \* mutant
    /\ chain' = Forget(ch, d)
    /\ rstk' = Forget(rs, d)
    /\ frames' = SubSeq(fs, 1, d - 1)
    /\ pc' = IF d = 1 THEN "exit" ELSE "run"

ReturnFrom(ch, rs, d, fs) ==
    /\ chain' = Forget(ch, d)
    /\ rstk' = Forget(IF fs[d].site \in Saves THEN SubSeq(rs, 1, fs[d].saved) ELSE rs, d)
    /\ frames' = SubSeq(fs, 1, d - 1)
    /\ pc' = IF d = 1 THEN "exit" ELSE "run"

(* The block ends (_except_).  Functions called in it have returned; only  *)
(* a site that unwinds may leave an entry of its own.                      *)
Leave ==
    /\ Running
    /\ Here \in Saves \/ \A i \in 1..Len(rstk) : rstk[i] # depth
    /\ Last(chain) # 0
    /\ ReturnFrom(Popped(chain), rstk, depth, frames)
    /\ UNCHANGED <<pending, swallowed>>

LeaveWild ==
    /\ Running
    /\ Last(chain) = 0
    /\ pc' = "wild_pop"
    /\ UNCHANGED <<frames, chain, rstk, pending, swallowed>>

Throw(c) ==
    /\ Running
    /\ c \in Raises[Here]
    /\ pending' = c
    /\ UNCHANGED <<frames, chain, rstk, swallowed, pc>>

-----------------------------------------------------------------------------
(***************************************************************************)
(* __excep_raise (its assert that there is a node can only fail before the *)
(* first block is entered): longjmp to the last node of the chain, d.  The calls     *)
(* nested in d end without unlinking anything or unwinding the R-stack.    *)
(***************************************************************************)
Raising == pc = "run" /\ pending # "nothing"

Landing ==
    LET d == Last(chain) IN
    /\ Raising
    /\ d # 0

(* The state the switch runs in: the frames up to d, and the chain and the *)
(* R-stack, with the variables of the functions called in block d gone.    *)
Landed(d) == SubSeq(frames, 1, d)
LandedRoots(d) == Forget(rstk, d)

ClauseAt(d) == Clause[frames[d].site][pending]

Catch ==
    LET d == Last(chain) IN
    /\ Landing
    /\ ClauseAt(d) = "resume"
    /\ ReturnFrom(Popped(Forget(chain, d + 1)), LandedRoots(d), d, Landed(d))
    /\ pending' = "nothing"
    /\ UNCHANGED swallowed

(* _retry_ enters the block again: setjmp returns EXCEP_RETRY_CODE.        *)
RetryLinksTwice ==                              \* mutant
    LET d == Last(chain) IN
    /\ Landing
    /\ ClauseAt(d) = "retry"
    /\ chain' = Append(Forget(chain, d + 1), d)
    /\ rstk' = LandedRoots(d)
    /\ frames' = Landed(d)
    /\ pending' = "nothing"
    /\ UNCHANGED <<swallowed, pc>>

Retry ==
    LET d == Last(chain)
        ch == Popped(Forget(chain, d + 1)) IN
    /\ Landing
    /\ ClauseAt(d) = "retry"
    /\ chain' = IF Last(ch) = d THEN ch ELSE Append(ch, d)
    /\ rstk' = LandedRoots(d)
    /\ frames' = Landed(d)
    /\ pending' = "nothing"
    /\ UNCHANGED <<swallowed, pc>>

(* _rethrow_ in a clause: the exception goes on to the next node.          *)
Rethrow ==
    LET d == Last(chain) IN
    /\ Landing
    /\ ClauseAt(d) \in {"rethrow", "unwind_rethrow"}
    /\ chain' = Popped(Forget(chain, d + 1))
    /\ rstk' = IF ClauseAt(d) = "rethrow" THEN LandedRoots(d)
               ELSE SubSeq(LandedRoots(d), 1, frames[d].saved)
    /\ frames' = Landed(d)
    /\ UNCHANGED <<pending, swallowed, pc>>

(* No clause for the code: control leaves the switch below _end_try_ with  *)
(* the node still linked, and the function returns.                        *)
Swallow ==
    LET d == Last(chain) IN
    /\ Landing
    /\ ClauseAt(d) = "none"
    /\ ReturnFrom(Forget(chain, d + 1), LandedRoots(d), d, Landed(d))
    /\ pending' = "nothing"
    /\ swallowed' = TRUE

RaiseWild ==
    /\ Raising
    /\ Last(chain) = 0
    /\ pc' = "wild_jump"
    /\ UNCHANGED <<frames, chain, rstk, pending, swallowed>>

-----------------------------------------------------------------------------
Raised == Catch \/ Retry \/ Rethrow \/ Swallow \/ RaiseWild

Ended == pc \in {"exit"} \cup Wild /\ UNCHANGED vars

Next ==
    \/ \E s \in Site : Enter(s)
    \/ Protect \/ Unprotect
    \/ Leave \/ LeaveWild
    \/ \E c \in Code : Throw(c)
    \/ Raised
    \/ Ended

(* An exception is raised and caught by plain C code, which keeps running. *)
Spec == Init /\ [][Next]_vars /\ WF_vars(Raised)

-----------------------------------------------------------------------------
(* Every variable keeps its type: no link and no entry of the R-stack is   *)
(* deeper than the live calls.                                             *)
TypeOK ==
    /\ frames \in Seq([site : Site, saved : Nat])
    /\ chain \in Seq(0..depth)
    /\ rstk \in Seq(0..depth)
    /\ pending \in Code \cup {"nothing"}
    /\ swallowed \in BOOLEAN
    /\ pc \in {"run", "exit"} \cup Wild
    /\ pc = "run" => depth > 0

(* The links that are not stale are 1 to n, each once and in order.        *)
LinksFollow(ch, n) ==
    /\ \A d \in 1..n : \E i \in 1..Len(ch) : ch[i] = d
    /\ \A i, j \in 1..Len(ch) : i < j /\ ch[j] # 0 => ch[i] < ch[j]

(* While the program runs, the nodes still linked are those of the blocks  *)
(* it is in, in the order of their nesting: push and pop by the macros, the*)
(* jumps over whole calls and the outermost pop that does nothing add up.  *)
LiveLinksAreNesting == Running => LinksFollow(chain, depth)

(* An exception reaches the innermost enclosing block: as long as every    *)
(* exception found a clause, no link is left behind.                       *)
ChainIsNesting ==
    Running /\ ~swallowed => chain = [i \in 1..depth |-> i]

(* A throw or a pop never meets a node whose function has returned, unless *)
(* a block without a clause for the code left it linked.                   *)
WildOnlyAfterSwallow == pc \in Wild => swallowed

(* _rethrow_ "rethrows exeption (to outer _try_ blocks, if any)": it jumps *)
(* to a live block.                                                        *)
NeverJumpsWild == pc # "wild_jump"

(* Whenever a collection may start, every entry of the R-stack points to a *)
(* variable of a live call.                                                *)
RStackIsLive == Running => \A i \in 1..Len(rstk) : rstk[i] # 0

Retries(s) == s \in Saves /\ \E c \in Code : Clause[s][c] = "retry"

(* Entries that point to variables of functions a throw has cut short are  *)
(* left only while a retried block that unwinds is still running: nothing  *)
(* that has left its block, by whatever way, leaves one behind.            *)
StaleRootsOnlyInRetry ==
    Running =>
        \A i \in 1..Len(rstk) : rstk[i] = 0 =>
            \E d \in 1..depth : Retries(frames[d].site) /\ frames[d].saved < i

(* What that takes of a table of blocks: a site that does not unwind passes*)
(* on every code that reaches it, the outermost excepted, which may end.   *)
Passes(s, c) == Clause[s][c] \in {"rethrow", "unwind_rethrow"}
Reaches(reach) ==
    /\ reach \in [Site -> SUBSET Code]
    /\ \A s \in Site :
          /\ Raises[s] \subseteq reach[s]
          /\ \A t \in Calls[s] : {c \in reach[t] : Passes(t, c)} \subseteq reach[s]
Unwinds(reach) ==
    /\ \A s \in Site : Main \notin Calls[s]
    /\ \A s \in Site \ Saves : \A c \in reach[s] :
          Passes(s, c) \/ (s = Main /\ Clause[s][c] # "retry")

(* Raising an exception ends: in a clause, or in undefined behaviour.      *)
RaiseEnds == pending # "nothing" ~> pending = "nothing" \/ pc \in Wild
=============================================================================
