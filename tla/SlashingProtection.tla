------------------------- MODULE SlashingProtection -------------------------
(***************************************************************************)
(* What the signer tier promises, without databases and snapshots: it      *)
(* remembers every duty it has signed, refuses those, and neither a pause  *)
(* nor its end makes it forget one.                                        *)
(***************************************************************************)

CONSTANT Duty

VARIABLES
    signed,      \* duties signed so far
    remembered,  \* duties it would refuse
    serving      \* does it answer at all

protectionVars == <<signed, remembered, serving>>

Init == signed = {} /\ remembered = {} /\ serving \in BOOLEAN

Sign(d) ==
    /\ serving
    /\ d \notin remembered
    /\ remembered' = remembered \cup {d}
    /\ signed' = signed \cup {d}
    /\ UNCHANGED serving

PauseOrResume == serving' = ~serving /\ UNCHANGED <<signed, remembered>>

Next == PauseOrResume \/ \E d \in Duty : Sign(d)

Spec == Init /\ [][Next]_protectionVars
============================================================================
