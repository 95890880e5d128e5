----------------------------- MODULE MCCustody -----------------------------
(***************************************************************************)
(* TLC instance of KeyCustody and DatabaseBootstrap.  The two share no     *)
(* state, so a behaviour runs the commands of one of them only: the run    *)
(* explores the two state spaces side by side and not their product.       *)
(***************************************************************************)
EXTENDS KeyCustody, DatabaseBootstrap, TLC

VARIABLE side

vars == <<side, keyVars, dbVars>>

Init == side \in {"keys", "database"} /\ KeyInit /\ DbInit

Next ==
    \/ side = "keys" /\ KeyNext /\ UNCHANGED <<side, dbVars>>
    \/ side = "database" /\ DbNext /\ UNCHANGED <<side, keyVars>>

Spec == Init /\ [][Next]_vars

Alike == Permutations(Key) \cup Permutations(Validator) \cup Permutations(Password)
============================================================================
