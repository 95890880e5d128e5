----------------------------- MODULE MCDelivery ----------------------------
(***************************************************************************)
(* TLC instances of Delivery: two assignments of one validator.            *)
(***************************************************************************)
EXTENDS Delivery, TLC

CONSTANTS a1, a2, v1, pair1, pair2

OneValidator == [a \in Assignment |-> v1]
FirstPair == [v \in Validator |-> pair1]

Alike == Permutations(Assignment)
============================================================================
