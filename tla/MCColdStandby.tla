--------------------------- MODULE MCColdStandby ---------------------------
(***************************************************************************)
(* TLC instances of ColdStandby.                                           *)
(***************************************************************************)
EXTENDS ColdStandby, TLC

CONSTANTS o1, o2, v1, v2, s1, s2, m1, m2, f1, f2

\* Identifiers are timestamps nobody compares: those of one kind are alike.
Identical == Permutations(ManualId) \cup Permutations(FinalId)
                \cup Permutations(Operator) \cup Permutations(Slot)

\* An uneventful history: no command fails, and while one runs nothing is
\* merged and nothing signs.
Uneventful ==
    \A o \in Operator : pc[o] # "idle" =>
        /\ UNCHANGED signed
        /\ record' = record \/ cluster' = "absent"
        /\ ~Die(o)
        /\ pc'[o] # "cleanup"
============================================================================
