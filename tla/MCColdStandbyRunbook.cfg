\* Two operators who keep to the runbook; any snapshot can be passed as SNAPSHOT_ID.
CONSTANTS
    o1 = o1 o2 = o2 v1 = v1 v2 = v2 s1 = s1 s2 = s2
    m1 = m1 m2 = m2 f1 = f1 f2 = f2
    None = None
    Operator = {o1, o2}
    Assignment = {v1}
    Slot = {s1}
    ManualId = {m1, m2}
    FinalId = {f1, f2}
    SnapshotArg = {m1, m2, f1, f2}
    Runbook = TRUE
SPECIFICATION Spec
SYMMETRY Identical
INVARIANTS RestoreNeverRegresses
PROPERTIES ImplementsProtection
