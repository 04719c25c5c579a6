------------------------------ MODULE MCStores ------------------------------
(***************************************************************************)
(* The three stores that share no state, for TLC: the symbols and globals, *)
(* the hash table of a program, the string buffer of the lexer.  A run     *)
(* follows one of them, chosen at the start; the other two stand still.    *)
(***************************************************************************)
EXTENDS Globals, Tables, StringBuffer

VARIABLE store  \* the one that is followed

vars == <<gvars, tvars, svars, store>>

(* Three of the names share a row of the symbol table.                     *)
NameCode(n) == IF n = "b" THEN 4 ELSE 7

(* Two of the keys share a row of two rows, and all share one row.         *)
KeyCode(k) == IF k = "two" THEN 2 ELSE 1

OneOrTwoUnits == {<<"a">>, <<"high", "low">>}

Init ==
    /\ store \in {"globals", "table", "string"}
    /\ GInit /\ TInit /\ SInit
    /\ store # "table" => Cardinality(DOMAIN htab) = MaxRows

Next ==
    /\ UNCHANGED store
    /\ \/ store = "globals" /\ GNext /\ UNCHANGED <<tvars, svars>>
       \/ store = "table" /\ TNext /\ UNCHANGED <<gvars, svars>>
       \/ store = "string" /\ SNext /\ UNCHANGED <<gvars, tvars>>

Spec == Init /\ [][Next]_vars

TypeOK == GTypeOK /\ TTypeOK /\ STypeOK
=============================================================================
