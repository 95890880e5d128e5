\* Two operators, two assignments, two zones.
CONSTANTS
    Operator = {o1, o2}
    Assignment = {v1, v2}
    Zone = {za, zb}
    None = None
    MaxCommands = 3
    MaxMerges = 2
SPECIFICATION Spec
SYMMETRY Identical
INVARIANTS OneActiveZone CapacityServesVolumes
PROPERTIES OnlyLateStartsMeetScaling
CHECK_DEADLOCK FALSE
