\* One operator who never sets SNAPSHOT_ID.
CONSTANTS
    o1 = o1 o2 = o2 v1 = v1 v2 = v2 s1 = s1 s2 = s2
    m1 = m1 m2 = m2 f1 = f1 f2 = f2
    None = None
    Operator = {o1}
    Assignment = {v1}
    Slot = {s1}
    ManualId = {m1, m2}
    FinalId = {f1, f2}
    SnapshotArg = {}
    Runbook = FALSE
SPECIFICATION Spec
SYMMETRY Identical
INVARIANTS RestoreNeverRegresses
ACTION_CONSTRAINT Uneventful
