--------------------------- MODULE MCLabCapacity ---------------------------
(***************************************************************************)
(* TLC instance of LabCapacity.                                            *)
(***************************************************************************)
EXTENDS LabCapacity, TLC

\* Operators and assignments are alike; so are zones.
Identical == Permutations(Operator) \cup Permutations(Assignment)
                \cup Permutations(Zone)
============================================================================
