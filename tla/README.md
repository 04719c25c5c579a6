# A verification development of scheme2c

scheme2c is a small Scheme interpreter in C with a precise, generational, moving
garbage collector.  This directory holds TLA+ models of its components, the TLC
configurations that check them on small instances, and proofs that hold for
every instance.  Paths below are relative to the repository; `memmgr.c` means
`src/memmgr.c` there.

## The system

| Component | State | Operations | Hard behaviour |
|---|---|---|---|
| Collector (`memmgr.c`, `vmdefs.h`) | two young and two old semispaces, permanent boxes, the pool `orefs`, tags of objects | `gc_mov_alloc`, `SLOT_SET`/`__gc_check_old`, `gc_mov_minorcollect`, `gc_mov_majorcollect` | every mutation of the heap may precede every collection; two destination spaces; the remembered set must be complete and bounded |
| Exceptions and R-stack (`sysexcep.c`, `sysexcep.h`) | chain of `jmp_buf` nodes on the C stack, pending code, R-stack of protected variables | `_try_`, `_throw_`, `_rethrow_`, `_retry_`, `_end_try_`, `UNWIND_RSTK` | non-local jumps past frames that never unlink or unprotect anything |
| Parser (`parse.c`) | lexer buffer, reader stack, position | `pars_next_lex`, `pars_read_datum` | errors in the middle of a datum, retry after a bad lexeme |
| Transformer (`transform.c`) | the form itself, rewritten while it is checked; environments, slot allocator, linear code under construction | `trf_check_syntax`, `trf_transform_to_anf` | forms rewritten in place and checked again; what the check does not look at; temporaries share local slots; captured variables; tail positions; functions left unfinished by an error |
| Interpreter (`interpret.c`) | frames, vectors of locals, instruction pointer, result register | `icod_create`; one case of `icod_interpret` per instruction; `vm_run`, `vm_eval` | tail calls reuse a frame and its vector; closures share vectors with live frames |
| VM state (`svm.c`) | table of globals, symbol table, call-back hooks | `global_reserve`, `global_bind`, `env_lookup`, `vm_init` | the table at its limit; a symbol found in its box and out of it |
| Data (`datum.c`) | string buffers, array lists, hash tables | constructors, `ss_add`, `htb_put` | growth at a boundary; cached hash codes; arguments that move during a constructor |
| Program and REPL (`main.c`, `opts.c`) | input port, mode | `console_loop`, `file_loop` | what follows an error |
| Library (`libr.c`), ports (`ioport.c`, `charcat.c`), support (`logger.c`, `elapse.c`, ...) | little | primitives | — |

The REPL reads a datum (parser), checks it and transforms it to A-normal form
(transformer), makes instructions of it and runs them (interpreter), whose
builtins are the library.  All of them allocate through the collector: an
allocation may move every object, so a C variable that lives across one is
registered on the R-stack, and a store into an object goes through the write
barrier.  Any of them may throw; the R-stack and the exception chain follow the
same C frames, and a `longjmp` skips the code that would have restored them.
Everything runs in one thread: the order of events is that of nested calls, and
nothing is persisted.

### What makes each part correct

- *Collector*: what the program can name is never reclaimed; an old object with
  a young referent is in the pool; the pool is never overrun; survivors fit the
  space they are copied to; a collection and the allocation loop end; the
  program cannot tell that objects move.
- *Exceptions*: the chain is the nesting of the live blocks; an exception
  reaches the innermost block with a clause for it; the R-stack points only at
  live variables whenever a collection may start.
- *Transformer and interpreter*: the check lets pass the forms of the grammar
  and no others; what it lets pass the transformer can do; a form returns what
  it means in Scheme; code is missing only where an error was reported; a
  caller's locals survive a call; a return goes back behind its call; loops run
  in constant space; a session comes to its end.
- *Parser and REPL*: lexemes come out as they are spelled; only a datum without
  an error is evaluated; an error costs one datum and no lexeme but its own;
  reading ends with the text.
- *Globals*: a name is one symbol; a name keeps its global, and the global its
  value; nothing goes past the table unless a reservation was refused.
- *Data*: a hash table answers what was put last; a string stays within its
  buffer, but for the terminator; a cached hash code is that of the text; a
  constructor's arguments survive its allocations (planned).

## The modules

| Module | What it is |
|---|---|
| `GenGC` | the collector: allocation, barrier, minor and major collection, one action per visited slot |
| `MutatorHeap` | abstract: a heap whose objects never move and are never reclaimed |
| `GenGCNames` | `GenGC` with a history variable that numbers objects, and the refinement mapping to `MutatorHeap`, in one form for behaviours without major collections and in one, step by step, for all |
| `MCGenGC`, `MCGenGCNames` | for TLC; `ListSpec` restricts the mutator to a growing list whose first cell may be a global, `FairNSpec` adds the fairness of the collector and the allocator to the specification with names |
| `GenGC_proofs` | the theorems about pool and heap: what dangles, what is remembered, that survivors fit, that major collections are precise |
| `GenGCNames_proofs` | the refinement of `MutatorHeap`: each step of the collector is one of its steps or does not show |
| `TryBlocks` | the exception macros over a table of functions with a `_try_` |
| `VmBlocks` | that table for scheme2c: every `_try_` in the program, its clauses, what it calls |
| `MCTryBlocks`, `TryBlocks_proofs` | for TLC; the theorems about chain and R-stack |
| `Values` | data, lists, and 21 builtins of `libr.c` |
| `Scheme` | the grammar of forms, and their meaning: an evaluator with lexical scope and a store (not a translation of code: what the checker and the compiled code are compared with) |
| `Syntax` | `trf_check_syntax`: one operator per `kw_check_...` function, with what it rewrites |
| `Anf` | `trf_transform_to_anf`: forms to linear code, with environments, slots and temporaries |
| `Icode` | `icod_create`: linear code to instructions |
| `Interp` | `icod_interpret`: the interpreter as a state machine over a compiled session; knows nothing of `Scheme` or `Anf` |
| `Sessions` | the sessions TLC runs: a family of loops, 25 others, and forms with one fault |
| `MCInterp` | the composition of the six for TLC |
| `LeastNumber` | induction over numbers, as lemmas about a set of them |
| `Interp_proofs` | the theorems about builtins, frames, locals, closures and unfinished functions |
| `Lexer` | `pars_read_lexeme`: the lexeme at a position of a text |
| `Reader` | `pars_next_lex` to `pars_read_datum`, and the loops of `main.c`, as a state machine over lexemes |
| `Texts` | pieces that texts are made of, and a grammar of data (not a translation of code: what the reader is compared with) |
| `MCReader` | the texts TLC reads, and the properties |
| `Reader_proofs` | the theorems about lexer and reader, for any texts |
| `HashTable` | the hash tables of `datum.c` as operators over rows of entries, for any hash and equality, and the lemmas about them |
| `Globals` | symbols, the symbol table, the table of globals, the resolution of names |
| `Tables` | `make-hashtable`, `hashtable-set!`, `hashtable-ref` |
| `StringBuffer` | a mutable string: buffer, length, cached hash code |
| `Bindings` | abstract: names with values, for globals (define, assign, read) and for tables (put, read) |
| `MCStores` | the last three machines for TLC |
| `Stores_proofs` | the theorems about globals, tables, strings and the three together |

`GenGC`, `TryBlocks`, `Interp`, `Reader`, `Globals`, `Tables` and `StringBuffer`
are parameterised by constants (sizes; a table of blocks; compiled sessions;
texts; names; keys; characters) and contain no `RECURSIVE` operator, so they can be proved about.  `Syntax`, `Anf`
and `Scheme` recurse over forms, `Texts` over lexemes, and are used by TLC only.

### GenGC and the code

Space `y0`/`y1` and `o0`/`o1` are the semispaces, `from`/`ofrom` the current
ones, `top` their allocation pointers, `mem` the cells: slots, ADDED bit, age,
forwarding address.  Every object takes one cell and has `NSlots` slots; slots
that hold no heap reference are `Nil`.  `orefs` is the pool: its first `y2o`
entries are over-aged young objects, the rest remembered old ones.  `root` is
the R-stack.  `Load`, `Drop`, `Store`, `AskAlloc` are what the program does
between collections; `Alloc`/`AllocCollects` are the loop of `gc_mov_alloc`;
`BeginMinor` to `EndMinor` and `BeginMajor` to `EndMajor` are the collections,
phase by phase (`pc`), visiting one slot per step.  A collection that starts
when the old space is tight becomes a major one, as at its first test.  A failed
assert is a final state of its own (`assert_copy`, `assert_pool`).

### TryBlocks and the code

`frames` are the live calls of functions with a `_try_`, `chain` the linked
nodes, `rstk` the R-stack; an entry is the depth of the call whose frame it
points into, or 0 when that call has returned.  `Enter`, `Leave`, `Throw`,
`Protect`, `Unprotect` are the program's moves; `Catch`, `Retry`, `Rethrow`,
`Swallow` are what the block's switch does with the code, by its clauses.
A jump or a pop that meets a node of a returned function is undefined behaviour
and a state of its own (`wild_jump`, `wild_pop`).  The first node of the chain
is never unlinked, as in the code.

### The interpreter's modules and the code

A form is a datum: a number, an identifier, a constant or a pair of data, as the
reader leaves it.  `Check` of `Syntax` returns what a `kw_check_...` function
leaves behind: the form as rewritten (`cond` to `if`, `let*` to `let`,
`(define (f . ps) . body)` to a lambda, a quasiquote without unquotes to a
quote), its result, and two marks: "err", an error was reported
(`TRANSF_BITM_ERR_KWSYN`, which decides whether the form is transformed), and
"wild", an atom was taken apart as a pair or an identifier: `begin` with an
improper list, a number among parameters.  Checking goes where the code goes:
over the values of a `let` twice (`transform.c:297`, `transform.c:304`), not
into unquotes, not into more than the elements of a quasi-quoted list.

`Compile` of `Anf` follows `anf_match_form` form by form: `rid` says where a
value goes, the transformer's state is the function's linear code, its slot
counter and free list, `frmax`, its children, and the reserved globals.  A form
that ends in an error keeps the functions it had finished and begun: the latter
(`stubs`) have no code.  "wild" here also stands for
`EXCEP_IMPROPER_LIST`, which `cl_len` (`datum.c:727`) throws for an improper
`quote` in an unquote: the try of `trf_transform_to_anf` has no clause for it and
returns linked, as every code without a clause does in `TryBlocks`
(`Try_bug_swallow`).  A quasiquote becomes a call of `list-cat` on operands
computed first.  `IcodeOf` is the loop of `icod_create` with its peephole
(`Removes`).

In `Interp` a vector of locals is named by its index in `vecs`, since frames and
closures share it; the frames are the chain of `up` links from the top one.
Each family of instructions is one action, with all that the macros in
`__interpret.h` do; `Panic` is every throw.  `Wild` is what has no defined
outcome: a slot outside its vector, more arguments than `binargs` holds, any
call of a function with a rest parameter (`CALL` spreads the arguments into a
vector no `PREP` allocated), `(and)`, which reads in front of `binargs`, and the
code of a function the transformer gave up.  `Lose` is the same in checker or
transformer, `Reject` a form not run, `Abort` a failed assert.  What a form with
an error leads to depends on the loop: `vm_eval`, which reads files, leaves it
alone, `console_loop` runs it (`Runnable`, `main.c:528`).  Fixnums have
`FixBits` bits.  `captured` and `deviations` are ghosts: which vectors closures
hold, and which of seven known departures from Scheme happened, so that
`ResultsAgree` can say that everything is right in their absence.

`ImageAssumption` states what the interpreter relies on and never tests, of each
session's image.  An image comes with two fields for it: `data`, the data in the
code with all their parts, and `around`, for each function the numbers of
locals of the functions around it.  `WellFormed`: operands are data of `data`,
globals of the image, locals of the function or of one around it; a `PREP` of n
arguments is followed by n `PUSH`es and a `CALL`, or a `RETCALL` if it is the
`PREP` of a tail call; a jump goes to an instruction that starts afresh, and one
that goes on is followed by such; `LAMBDA` names a function that lies in this
one; a form that was done has all its functions' code.  TLC evaluates it for
the code that `Anf` and `Icode` make of every session.  Of the transformer it
is not proved, that being a recursion over forms.

Pairs are terms: `eq?` of two pairs is equality of their contents, and nothing
changes a pair (`set-car!` is not modelled; `bin_cons` sets the CONST bit).

### Lexer, Reader and the code

A text is a sequence of characters and `pos` is where `charcur` was read; the
characters read again from `buflex` (`readp`) are those from the lexeme's first
position on.  A lexeme is its kind and its spelling: no property needs the
value of a number or a character.  What a bad lexeme takes with it is up to the
next delimiter, as in `lex_error_u`.  `stack` is the C stack of
`syn_read_datum`, `syn_match_datum` and `syn_read_compound`: a frame holds what
a list has so far and what the datum it waits for is (`step`); `want` is where
in `syn_read_compound`'s loop the next lexeme is asked for.  `Throw` is every
exception of lexer and reader: it cuts the stack, sets an error bit, and
`pars_read_datum` returns NIHIL.  A bad lexeme in a file is retried
(`_retry_`), at the console it is thrown; what the retry leaves on the R-stack
is `TryBlocks`'s matter.  `evaluated`, `seen` and `begin` are ghosts.

Evaluation always returns.  Left out: code points that are no characters,
upper case, CR, characters outside ASCII, nine of the twelve names of
characters, and numbers of three digits in a `#vu8`.

### Symbols, globals, hash tables, strings

`HashTable` is a function from rows to sequences of entries, the newest first;
`HashOf` and `Same` are the table's two closures.  In `Globals` an entry is a
symbol or the box that holds one, as `bin_htbsym_hash` and `bin_htbsym_eq` tell
them apart; `symbols` maps each symbol that exists to its `globix`.  A symbol is
a name and a number, so that two symbols of a name could exist.
`SymbolReserve` is a turn of `vm_init_symbols`, which puts the special symbols
into the table before anything is bound (`Booted`: both lists are through).
`SymbolFromString` is `symbol_from_string`, which the reader calls;
`ResolveBound`, `ResolveFree` and `ResolveRefused` are `anf_resolv_var` when the
name is in no inner environment; `GlobalBind` is `global_bind`; `Execute` is
what `DEF_*`, `SET_G_*` and a reference do, through an index that code keeps.
Past the table is a state of its own (`wild`): `ExecuteWild`, and `CollectWild`
for a collection, which scans up to `Globt_ptr`.  `global_reserve` counts first
and tests for equality afterwards: it gives out all indices but the last,
refuses once, and never again.  The table comes from `malloc`, unzeroed; it is
modelled as zero, which large fresh blocks are.

Boxes in the symbol table are weak only with `MEMMGR_WREFS`, which
`loggers.h:14` has in a comment: in this build symbols are never removed, and
neither the finalizer nor `htb_rem` is modelled.

`Tables` has keys that are scalars or a pair: `hashtable-ref` takes a pair for
an entry and looks its car up, `hashtable-set!` fails an assert on one.
`make-hashtable` accepts 0 and the first use then divides by zero; putting a
present key again stores the value and then reads the CDR of the key
(`datum.c:581`).  These end the process (`broken`).

In `StringBuffer` a buffer of capacity k has k + 1 units, the last for the
terminator; `spill` counts units written past it, whatever the allocator rounds
the buffer up to.  NUL units and `u_strcmp` are left out.

## The runs

| Run | Expect | Shows |
|---|---|---|
| `GenGC_minor` | pass | minor collections of every age (`NewAgeMax = 1`), pool of 2: nothing nameable is reclaimed, the pool is complete, exact and in bounds, and `GenGCNames` implements `MutatorHeap` |
| `GenGC_major` | pass | with major collections: what dangles is only in objects with a stale ADDED bit; every step after which nothing dangles is one of `MutatorHeap`, or does not show; collections and the allocation loop end |
| `GenGC_list` | pass | a growing list, whose first cell may be a global, fills the old space: promotions always fit, a major collection keeps exactly what is reachable |
| `GenGC_bug_major_overflow` | violation | `CopyFits` |
| `GenGC_bug_stale` | violation | `NoDangling` after a major collection |
| `Try_blocks` | pass | the chain, the R-stack and raising, over every `_try_` of the program in file mode |
| `Try_bug_swallow` | violation | `NeverJumpsWild`, console mode |
| `Try_bug_retry` | violation | `RStackIsLive`, file mode |
| `Interp_sessions` | pass | 2560 sessions (1133 different) checked, transformed, run instruction by instruction and compared with `Scheme`, at the console and from files; 1550 of them are one form with one fault, for the checker |
| `Interp_bug_tail_args` | violation | `LoopsAgree` |
| `Reader_texts` | pass | 11501 inputs, as files and at the console, against the spelling of their lexemes and a grammar of data |
| `Stores` | pass | symbols, globals, hash tables and strings: refinement of `Bindings`, one symbol per name, the limits of the table of globals and of a buffer |

*Bounds.*  Collector: 2-3 young and 4-6 old cells, one slot per object, two
roots and a global box, a pool of 2-3 entries, and `MaxAllocs` allocations; this
is enough for an object to be copied young, to over-age, to be promoted by the
pool and by the scan, for old-to-young links of old objects and of boxes, for
shared and cyclic references, and for a full pool.  One slot per object keeps
chains and cycles but not branching, which the copier treats slot by slot.
`MajorAllowed = FALSE` stops a behaviour where it would collect the old space,
which separates what minor collections guarantee by themselves.  The list run
allocates 9 objects, enough for the old space to fill more than once.  The runs
that compare the collector with `MutatorHeap` never refuse an allocation after a
major collection; that this is a step of `MutatorHeap` too is only proved.
Exceptions: five nested blocks (main, run, transform, collect below it, and one
more; or read and next_lex), 2-3 R-stack entries, six links.  Interpreter: the
sessions are the bound.  The loops are the product of 8 x 8 arguments, 5 places
of the recursive call and 3 bases; the others nest conditions, lets and
operands (temporaries), share and assign captured variables, recurse mutually
and not in tail position, define, redefine, fail and go on, use every form the
checker rewrites, quasi-quote, overflow, and call procedures with a rest
parameter.  Functions nest up to three levels.  The forms with a fault are made
of 16 templates, one for each kind of form: any part of one replaced by one of
eight data, left out or doubled.  They are short, so a fault that needs two
others to show would be missed.  `FixBits = 8` and `BinargsSize = 5` stand for 63
and 512, so that a sum and a list of arguments can pass them; lists are at most
`MaxLength = 12` long, and the evaluator of `Scheme` stops after 40 calls, which
no session needs.  Each session is deterministic, so the state space is the
union of their runs, up to 222 steps.
Reader: all texts of up to four of eight lexemes (brackets, quote, dot, comment,
a name, a bad lexeme); all lists of five of `( ) . #; x`, enough for two
comments, a dotted tail and a comment behind it; all pairs of 38 pieces, one
for each way a lexeme is spelled, refused or skipped, written next to each other
and at the end of the text; and two files on one command line.
Stores: a behaviour follows one of the three machines, which share no state.
Four names, one special and one bound to a builtin, three of them in one of two
rows; a table of globals with three indices, of which two are given out, one is
refused and one more passes (`MaxPtr`); room for two symbols of a name.  Three
keys in tables of no row, one and two; two values.  Strings of up to 10 units
over characters of one and two units, from a capacity of 1, so that the buffer
grows twice and either kind of character can be the last to fit.

*Deadlock* is checked in the collector's and the exceptions' runs, whose final
states are explicit (`Stopped`, `Ended`), and switched off for the
interpreter's, the reader's and the stores', where a session, a program and a
process that went wild really end.

*Fairness.*  `WF_vars(Collector)`, `WF_vars(Allocator)`, `WF_vars(Raised)` and,
for the interpreter and the reader, `WF_vars(Next)`: each is a stretch of plain C that, once
entered, keeps running to its end with nothing to wait for.  No fairness is
assumed of the mutator, of entering or leaving blocks, or of throwing.

*Which properties are interesting and why.*  `NoDangling` and
`ImplementsMutatorHeap` need the barrier, both stages of a minor collection and
the tag bits to agree over several collections.  `StepsAsMutatorHeap` says the same
of major collections: where nothing dangles is a condition on the state a step
leads to only, so it holds of the steps before and after a reference that dangles too.  `AllocEnds` has an exception,
`Stuck`: an over-aged object reached through an ADDED parent is marked ADDED
and not pooled, and when the link is cut it stays in the young space.
`StaleRootsOnlyInRetry` relates the R-stack to the one block that is ever
retried.  `SyntaxAgrees` compares the checker, which rewrites a form while it
looks at it, with a grammar that is only read; `CheckedFormsTransform` says that
what passed needs no guard behind it, over all of those forms;
`UnfinishedOnlyAtConsole` that a function without code is met only where the
console runs a form that failed, and never through a closure a good form made.
`ResultsAgree` compares two independent readings of a program;
`CallerLocalsKept` relates a step to the frames below it.  `DataAgree` says that whatever is evaluated, on any text, is spelled by the
lexemes its reading took, none of them bad (`OnlySpelledData`), and compares
the data evaluated with every reading the grammar allows of the whole text, so
an error in one datum that reached another would show; `LexemesAgree` does so
for characters.  Its second part says nothing of a console's text with a bad lexeme
in it, where the reader starts anew in the middle of a datum.

## What the code does against its documents

1. **A major collection may overflow** (`memmgr.c:187`).  Survivors of both
   generations are copied into one old space and what is left is tested only
   afterwards, so the assert in `mblk_copyto` fails instead of the
   out-of-memory exception at `memmgr.c:767`.
2. **Stale ADDED bits** (`memmgr.c:727`).  A major collection empties the pool
   without clearing the bit of the holders in it; they are never remembered
   again, and a minor collection reclaims what they hold.
3. **A swallowed exception leaves its node linked** (`transform.c:1599`).
   `trf_transform_to_anf` has a clause for one code only; with another it
   returns, and the next throw jumps into its dead frame.
4. **`_retry_` keeps dead R-stack entries** (`parse.c:1107`).  After a bad
   lexeme in file mode the entries of the functions the throw skipped stay while
   the block runs again.
5. **Self tail calls overwrite what they still read** (`interpret.c:1021`).
   `(f (cdr x) z y)` called last in `f` passes `z` twice.

Not stated as runs: `(set! x 0)` on a captured variable never ends
(`SET_K_D` has no `IPNEXT`; `SessionEnds` excepts it); a closure two levels in
takes its vectors from its callers (`interpret.c:964`; ghost "capture"); a loop
reuses locals a closure holds (ghost "shared"); and `README.md:10` says mutual
recursion is "not optimized" while `RETCALL` does replace the frame:
`TailLoopsBounded` holds of the mutually recursive session too.

Of the checker and the builtins, likewise seen in the runs and not stated: a
`begin` whose list is improper passes the test that is to refuse it, since its
negative length is taken for unsigned (`transform.c:478`); a parameter that is
no identifier is reported and then looked into for its symbol
(`transform.c:430`, `transform.c:647`); what an unquote holds is not checked, and
the transformer gives up half-way or takes apart what is no pair; `call/cc`
passes, and no instruction is made of it; `else`, `case` and `letrec*` head
applications; `(define x 1 2)` passes.  A rest parameter is counted as a required
argument (`transform.c:902`), and with enough arguments the call writes through
a vector it has not (`interpret.c:797`, `interpret.c:1042`).  `(and)` returns
what lies before its arguments (`libr.c:269`).  An unquoted empty list
disappears from its quasi-quoted list (`libr.c:480`: it is no pair, so no list
of it is made).  Names in a quoted list stay identifiers, which are not `eq?` to
the symbol a quoted name gives (`libr.c:473`).

In the reader (the grammar of `Texts` is the one the code reads where they
differ): two `#;` comments in a row before a closing bracket, or one behind a
dotted tail, are errors, which the grammar at `parse.c:605-616` allows; `+`,
`...` and `+nan.0` at the very end of a text are refused, since the end is no
`chrp_delim`; `#x#e` at the end of a text is read as a number, its last letter
taken for a digit, and `#\` as the character -1; a bad lexeme between two data
costs the second (its error bit stays set); after brackets that do not match,
the rest of the list is evaluated as if it stood alone; a `#vu8` with a
component that is no byte returns the empty list and sets an error bit without
throwing; `file_loop` opens the first file on every turn (`main.c:458`), drops
a character of it (`main.c:463`, in an assert), and fails that assert on an
empty one; `console_loop` turns for ever at the end of its input, so
`ReadingEnds` is about files.

## What is proved

TLAPS checks these for every value of the constants.

- `TypeCorrect` (`GenGC_proofs`): `Spec => []TypeOK`.  `TypeOK` is inductive by
  itself: that every address read or written lies in its space needs the
  allocation pointers to stay below the capacities and the loop indices in
  range, which it states.  Assumes `SizesAssumption` and `NilAssumption`, the
  asserts of `gc_mov_make`.
- `PoolSafe`: `Spec => []PoolInBounds`.  The barrier tests the pool's end by
  equality, after appending.  The invariant that makes this enough, `PoolInv`:
  the pool may be full only from the barrier's request for a collection until
  that collection has taken its entries out (phases `collect`, `y2o`,
  `remembered`) or an assert has failed; in every other phase there is room for
  one entry more, which the copier's assert keeps true.
- `HeapSound` (`GenGC_proofs`): `Spec => []HeapInv`, the invariant of the
  three-colour argument, with major collections.  During a collection a
  reference is *unmoved* (it may lead to a space being left, and leads to no
  copy) or *moved* (it leads out of those spaces).  A slot of a cell that stays
  is moved unless it is `Pending`: in a copy the scan pointer has not reached,
  in a remembered object or a global box whose turn is to come, or in an old
  holder that the collection passes over (`Skipped`).  Each visit takes one slot
  off the pending ones and adds only those of the copy it makes; when the loops
  have ended only `Skipped` is left, which is what `Stale` says once the pool is
  cleared, so the spaces can be emptied.  The other conjuncts make the steps
  go through: which spaces are empty when (`TopsInv`), that the first part of
  the pool lists over-aged young cells in the order of their addresses and the
  second old ones (`PoolPartsInv`), where forwarding addresses lead and that in
  the first loop only entries already passed have one (`FwdInv`), how far
  the roots are (`RootsInv`).
  From it: `OnlyStaleDangles` (`DanglingOnlyInStale`), `BarrierComplete`
  (`OldToYoungRemembered`) and `PoolAsserts` (`PoolAssertsHold`).
- `NoHolderStale` and `NothingDangles` (`GenGC_proofs`): `NoStaleHolder` and
  `NoDangling`, for `MajorAllowed = FALSE`, the behaviours up to the first
  major collection.  They fail after it (`GenGC_bug_stale`).
  `AddedInv` follows the bit through a minor collection: in the pool between
  collections, among the entries to come in the second loop, nowhere after it;
  a copy made in the old space starts without it.
- `MinorFits` (`GenGC_proofs`): `Spec => PromotionsFit`, with major
  collections.  `RoomInv` counts: each cell taken in either target space is
  paid for by one forwarded cell of the young space (`Gone`), of which there
  are at most `NovSize`, and the old space had that much free when the
  collection began.  A visit that copies finds a cell not forwarded, so one is
  still unpaid and there is room.
- `StepsRefine` and `Refines` (`GenGCNames_proofs`): `NSpec =>
  StepsAsMutatorHeap`, with major collections, and `NSpec =>
  ImplementsMutatorHeap`, for `MajorAllowed = FALSE`; for every size of the heap,
  every number of variables and boxes.  The history variable `name` gives each cell
  the number of the object it is a copy of, and the mapping shows for an object the
  slots of its current copy (the one not forwarded), if a path leads to it.
  `NamesInv` adds to `HeapInv`: the copy and what it was copied from bear one
  number and no two current copies do (`CopiesInv`); an object asked for has a
  number and no cell (`NumbersInv`); boxes are no object's (`NoBoxRefs`).  A visit
  replaces a reference by one to the same object, so `View` does not change
  (`VisitView`), whatever else is reached; the end of a collection takes the names
  off the cells it reclaims, which are of objects no path leads to as long as
  nothing dangles (`EndView`).  Between collections, an operation is
  HLoad to HRefuse on the numbers: these write one object that is reached, or
  make one that is not yet, and `Reached` is a least closed set, so what holds of
  it needs no induction.  `Refines` follows with `NothingDangles`.  Assumes that
  `Nil` is no object's number (`NamesAssumption`).
- `MajorPrecise` (`GenGC_proofs`): `Spec => MajorIsPrecise`.  `PreciseInv`: in a
  major collection each cell of the space being filled is the value of a variable, or
  is referred to by a box or by a cell before it; a visit rewrites a reference that
  leads elsewhere (`HeapInv`), so it takes no such witness away, and what it rewrites
  is the witness of the copy it makes.  By induction on its place a cell is then
  reached in as many steps (`TraceableReached`).
- `ChainFollowsNesting` and `NoWildWithoutSwallow` (`TryBlocks_proofs`): for
  every table of blocks.  `IInv` strengthens `ChainIsNesting` to the middle of
  a raise, when the chain is still the nesting of the calls a jump will cut, up
  to the landing node; without that the chain could not be followed through
  `Rethrow`.
- `TypesKept`, `LiveLinksFollowNesting` (`TryBlocks_proofs`): for every table of
  blocks, after swallowed exceptions too.  `TypeOK` is not inductive: that
  `UNWIND_RSTK` cuts the R-stack, and never lengthens it, needs `Heights`, that
  the saved heights grow inwards and below a call's lie only entries of calls
  further out.  `NestInv` says of which blocks the links are: those around the
  program or, after a `_rethrow_`, those around the block it left.
- `StaleRootsAreOfRetries` (`TryBlocks_proofs`): for tables where a site that
  does not unwind passes on each code that reaches it (`Unwinds`, over any
  `reach` closed under `Reaches`; `VmBlocksUnwind`, an assumption TLC evaluates,
  says that scheme2c's table is one: `trf_check_syntax` has a clause that ends
  and no unwinding, but its code does not reach it).  `RootInv`: while an exception
  is under way, stale entries lie above what the last block saved, so the block
  that ends it, which unwinds, takes them with it.
- `FramesAreLinked` (`Interp_proofs`): for every set of
  compiled sessions, with no assumption on the code.  `FramesInv`: each frame is
  linked to an older one (the first to itself), and ends the form or returns
  behind a `CALL` of its upper frame's function.  A tail call copies its
  caller's return address and upper frame together, which is why the pair stays
  matched.
- `InterpTypes`, `WaitingLocalsKept`, `OutsideOnlyAfterCapture` and
  `NothingRunsOnlyAtConsole` (`Interp_proofs`): `TypeOK`, `CallerLocalsKept`,
  `WildOnlyAfterCapture` and `UnfinishedOnlyAtConsole`, for every set of
  well-formed sessions (`ImageAssumption`), from one invariant, `IInv`.  None of
  the four is inductive; what they need of each other:
  - `ValuesHold`: there is a set of values and of closures among them that all
    the machine keeps (globals, vectors, `rr`, arguments, what is called) is
    taken from, closed under taking pairs apart.  Each closure is `ClosureOK`:
    a vector for each function around it that it asks for, the ones of lexical
    scope unless a capture deviated, and code unless a form was given up.  So
    whatever is called can be entered, and its variables are found.
  - `FramesFit`: a frame's vector is as long as its function asks for, and no
    two frames share one.
  - `Control`: either no call has begun and control comes to an instruction that
    starts afresh, or `Calling`: the call's `PREP` is behind by as many
    instructions as arguments were pushed, and their vector is no frame's, or
    the top frame's if this is a self tail call.  With `FramesFit` this is why
    a pushed argument cannot reach a waiting caller's locals.
- `BinIn` (`Interp_proofs`): a builtin's result is an atom, one of the values it
  was given, a part of one, or pairs of such; the lists of `list`, `list-cat`
  and the spine of a list are recursive functions, followed by `UpTo`.
- `ReaderTypes` (`Reader_proofs`): `Spec => []TypeOK`, for any command lines
  (`InputsAssumption`: a mode, and at least one file) and any texts in them.  `charcur`
  stays in the text because each of the lexer's functions is shown to stop at its
  end (`FirstIs` to `HashFits`; blanks and comments, skipped by a recursive function,
  by `UpTo`).  `TypeOK` is not inductive: that a turn of `syn_read_compound` finds
  a compound needs `Frames`, which calls wait in which step, and `Waits`, that the
  next lexeme is one for the call on top, and that a call that waits is
  given nothing at the end of the text only.
- `LexerGoesOn` (`Reader_proofs`): `Spec => LexemesTakeText`, an action property: `charcur` never moves
  back within a file, though parts of `buflex` are read twice, and each lexeme but
  the end takes a character.
- `OnlySpelledEvaluated` (`Reader_proofs`): `Spec => []EvaluatedIsSpelled`, for any
  texts: an evaluated datum is one that the grammar of `parse.c` gives to exactly the
  lexemes its reading took.  `Grammar` states it as the least pair of relations
  (`D` for data, `I` for the items of a compound) closed under its rules, so that no
  recursive operator is needed; a comment stands before a datum or behind items.
  It allows more comments behind items than the code accepts: it bounds what is
  evaluated, and does not say what must be.  `SpelledInv`: as
  long as no error is noted, the lexemes taken so far are those which the waiting calls
  have read, and the datum that is returned, if any, behind them (`ReadUpTo`).
  What a stack of calls has read (`Read`) is a least relation too, and `ReadIs`
  inverts it.  Behind the end of the text nothing is claimed unless a call
  returns: each call is then cut short and notes an error.

- `TableIsKept` (`Stores_proofs`): as long as no reservation was refused, no
  index in code is past the table and no collection scans past it.  `GInv`: until
  then `Globt_ptr` is below the limit and so is every index a symbol or code
  has.  It is not inductive without `ptr < Limit`: with `ptr = Limit` the test
  of equality would pass.  Assumes that the builtins fit the table.
- `NamesHaveOneSymbol`, `GlobalsImplementBindings`, `GlobalsTypes`
  (`Stores_proofs`): `OneSymbolPerName`, the refinement of `Bindings` and the
  types, for all names, hash functions, numbers of rows and table sizes, and
  whatever number of symbols a name could have.  `StoreInv`: the table and the
  symbols agree (`TableOf`: a name is found exactly when a symbol has it, and it
  is that symbol), each index belongs to one symbol and lies below `Globt_ptr`,
  code holds indices of symbols, and what is not reserved holds no value
  (`IndexInv`).  A define by `bin_init` needs its index to lie in the table:
  `refused => Booted` and `GInv` say so.  Assumes that hash codes are natural
  numbers, that index 0 is no global's, and that a table has rows.
- `TablesImplementBindings` (`Stores_proofs`): the same for the hash tables of
  programs, tables of no row included.  `TInv`: no key is in a table twice.
- Both rest on `HashTable`'s lemmas, for any entries, hash and equality:
  `PutIsPut` says what a put changes and what it leaves, and under which
  conditions on the two closures; `EntryFound` and `PairFacts` show that the
  closures of `svm.c` and `datum.c` meet them, the box that answers nothing
  included.  The first entry of a row is a least number, which exists by
  `LeastNatural`.
- `SpillBounded` and `HashFresh` (`Stores_proofs`): for every initial
  capacity and all characters of one or two units.  `SInv`: the text is at most
  one unit longer than the capacity, which the growth by seven restores before
  a second character could make it two.
- `StoresAreApart` and `StoreTypes` (`Stores_proofs`): TLC's specification of
  the three is each of them, and `TypeOK` holds.

Only model-checked: the liveness properties and the fairness they need; what
speaks of the code the transformer makes (`SyntaxAgrees`, `CheckedFormsTransform`,
`ResultsAgree`, `TailLoopsBounded`, `SessionEnds`, and that it is well formed), since
the transformer is a recursion over forms; and of what the reader
makes of a text, that its lexemes are those of the pieces it was made of (`LexemesAgree`)
and that every clean datum of it is evaluated, once and in order (`EveryDatumRead`, a part of
`DataAgree`), which a recursive grammar states.  The library's induction theorems take an operator and cannot be cited;
an argument by a least counterexample can (`LeastNatural` and `UpTo` in
`LeastNumber`), so that properties of recursive functions over numbers are within
reach, and those of `RECURSIVE` operators are not.

## What is not modelled

- Collector: the malloc-backed debug collector, weak references (compiled out),
  statistics, objects of different sizes, the three-bit width of the age at
  `newagemax = 7`.
- Transformer: positions, the wording of errors, the translation to C; what a
  wild read of checker or transformer leads to.
- Interpreter: call/cc (the code refuses it), compiled-to-C functions,
  and collections while it runs: values are immutable terms, and that objects do not visibly move is what the collector's model
  shows.
- Library: reals, `/`, strings, characters, vectors, mutable pairs, `equal?`,
  the identity of pairs, `load`, `eval`.
- Reader: values of numbers, characters and strings, positions in the text, and
  what a failed evaluation does to the loops.
- Data: constructors, array stacks and lists, structural equality, removal from
  a hash table; tables that refuse a second put (`HTB_BITM_NO_REPUT`, never set).
- Output ports, options; `logger.c`, `elapse.c`, `opsys.c` and `unittest.c` keep no state the rest depends on; `__gen*.h` are generated.

## Plan

Done, in this order: `GenGC` with its abstract specification; `TryBlocks` with
`VmBlocks`; the transformer and the interpreter; the lexer and the reader;
symbols and globals, hash tables, string buffers; the syntax check, the forms it
rewrites, quasi-quotation, rest parameters, the builtins they need, and the two
loops of `main.c` as the interpreter sees them.  What is left:

1. *Data* (`datum.c`): constructors with arguments protected across
   allocations (`new_cons2`), array stacks.
2. *Translation to C* (`interpret.c`, `__gen*.h`): the same instructions as C
   statements, to be compared with `Interp`.
3. *Proofs*: for `Reader`, that no datum of a text is passed over, which needs a
   grammar that gives a text one reading.

Runs are few on purpose: what comes next extends existing runs where the
questions are the same.
