----------------------------- MODULE VmBlocks -----------------------------
(***************************************************************************)
(* The functions of scheme2c that contain a _try_ block, as a table for    *)
(* TryBlocks.  Codes are grouped by the clauses that tell them apart:      *)
(* PARSE stands for EXCEP_PARSE_DAT, _DAT_STOP and _LEX_STOP, FATAL for    *)
(* EXCEP_TRANSFORM_FATAL, OTHER for the rest (a global past the table's    *)
(* end, an improper list, a wrong option, a missing file, an interpreter   *)
(* error).  `calls` says what may run inside the block: between the blocks *)
(* lie file_loop, console_loop, vm_eval and the eval builtin, and any      *)
(* allocation may collect.                                                 *)
(***************************************************************************)
VmCode == {"BADLEX", "PARSE", "FATAL", "NO_MEM", "OTHER"}

All(kind) == [c \in VmCode |-> kind]
On(codes, kind, rest) == [c \in VmCode |-> IF c \in codes THEN kind ELSE rest]

main ==
    [calls |-> {"vm_init", "read", "check", "transform", "run", "collect"},
     raises |-> {"OTHER"}, saves |-> FALSE, clause |-> All("resume")]

vm_init ==
    [calls |-> {}, raises |-> {"NO_MEM"}, saves |-> FALSE, clause |-> All("rethrow")]

pars_read_datum ==
    [calls |-> {"next_lex", "collect"}, raises |-> {"PARSE"}, saves |-> TRUE,
     clause |-> On({"PARSE"}, "resume", "rethrow")]

(* lex_error_u: with PARS_BITM_ALWAYSFATAL, the console's mode, a bad      *)
(* lexeme is thrown as EXCEP_PARSE_LEX_STOP.                               *)
BadLexeme(alwaysFatal) == IF alwaysFatal THEN {"PARSE"} ELSE {"PARSE", "BADLEX"}

pars_next_lex(alwaysFatal) ==
    [calls |-> {"collect"}, raises |-> BadLexeme(alwaysFatal), saves |-> TRUE,
     clause |-> On({"BADLEX"}, "retry", "unwind_rethrow")]

trf_check_syntax ==
    [calls |-> {"collect"}, raises |-> {}, saves |-> FALSE,
     clause |-> On({"FATAL"}, "resume", "rethrow")]

trf_transform_to_anf ==
    [calls |-> {"collect"}, raises |-> {"FATAL", "OTHER"}, saves |-> TRUE,
     clause |-> On({"FATAL"}, "resume", "none")]

vm_run ==
    [calls |-> {"check", "transform", "run", "collect"},
     raises |-> {"FATAL", "OTHER"}, saves |-> TRUE, clause |-> All("resume")]

gc_mov_minorcollect ==
    [calls |-> {}, raises |-> {"NO_MEM"}, saves |-> FALSE, clause |-> All("rethrow")]

Block(alwaysFatal) ==
    [main |-> main, vm_init |-> vm_init, read |-> pars_read_datum,
     next_lex |-> pars_next_lex(alwaysFatal), check |-> trf_check_syntax,
     transform |-> trf_transform_to_anf, run |-> vm_run,
     collect |-> gc_mov_minorcollect]

VmSite == DOMAIN Block(TRUE)
VmCalls == [s \in VmSite |-> Block(TRUE)[s].calls]
VmClause == [s \in VmSite |-> Block(TRUE)[s].clause]
VmSaves == {s \in VmSite : Block(TRUE)[s].saves}
VmRaises(alwaysFatal) == [s \in VmSite |-> Block(alwaysFatal)[s].raises]

(* The codes that reach each block's switch in file mode.                  *)
VmReach ==
    [main |-> {"OTHER", "NO_MEM"}, vm_init |-> {"NO_MEM"}, read |-> {"PARSE", "NO_MEM"},
     next_lex |-> {"PARSE", "BADLEX", "NO_MEM"}, check |-> {"NO_MEM"},
     transform |-> {"FATAL", "OTHER", "NO_MEM"}, run |-> {"FATAL", "OTHER", "NO_MEM"},
     collect |-> {"NO_MEM"}]
=============================================================================
