------------------------------ MODULE Bindings ------------------------------
(***************************************************************************)
(* What a table of bindings promises to a program: each name has a value   *)
(* or none, a name keeps its value until it is assigned, and an operation  *)
(* is answered from the binding of the name it was given.                  *)
(***************************************************************************)
CONSTANTS Name, Value, None

VARIABLES
    env,    \* the value of each name, or None
    answer  \* the last operation's name and answer

BInit ==
    /\ env \in [Name -> {None}]
    /\ answer = <<None, None>>

Put(n, v) ==
    /\ answer' = <<n, "done">>
    /\ env' = [env EXCEPT ![n] = v]

Define(n, v) == Put(n, v) /\ env[n] = None
Assign(n, v) == Put(n, v) /\ env[n] # None

Fetch(n) ==
    /\ answer' = <<n, env[n]>>
    /\ UNCHANGED env

Redefine(n) ==
    /\ answer' = <<n, "refused">>
    /\ env[n] # None
    /\ UNCHANGED env

(* A store of globals: define, set! and reference.                         *)
GlobalsNext ==
    \E n \in Name :
        \/ \E v \in Value : Define(n, v) \/ Assign(n, v)
        \/ Fetch(n)
        \/ Redefine(n)

GlobalsSpec == BInit /\ [][GlobalsNext]_<<env, answer>>

(* A table of a program: put and reference.                                *)
TableNext == \E n \in Name : Fetch(n) \/ \E v \in Value : Put(n, v)

TableSpec == BInit /\ [][TableNext]_<<env, answer>>
=============================================================================
