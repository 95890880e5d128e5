\* Two operators sharing the Terraform state, one assignment, two teardowns.
CONSTANTS
    o1 = o1 o2 = o2 v1 = v1 v2 = v2 s1 = s1 s2 = s2
    m1 = m1 m2 = m2 f1 = f1 f2 = f2
    None = None
    Operator = {o1, o2}
    Assignment = {v1}
    Slot = {s1}
    ManualId = {m1}
    FinalId = {f1, f2}
    SnapshotArg = {m1}
    Runbook = FALSE
SPECIFICATION Spec
SYMMETRY Identical
INVARIANTS HistoryRecoverable ConflictNeedsRegression DurableSecretsSurvive
PROPERTIES ProtectedInstanceStays
