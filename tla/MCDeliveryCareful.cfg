\* One person who waits for the old client: four merges are two switches.
CONSTANTS
    a1 = a1  a2 = a2  v1 = v1  pair1 = pair1  pair2 = pair2
    None = None
    Assignment = {a1, a2}
    Validator = {v1}
    NodePair = {pair1, pair2}
    ValidatorOf <- OneValidator
    DefaultNodePair <- FirstPair
    Requester = {"human"}
    Proposable = {"active", "stopped"}
    Forgetful = FALSE
    Careful = TRUE
    MaxMerges = 4
SPECIFICATION Spec
SYMMETRY Alike
INVARIANTS OneClientPerValidator
CHECK_DEADLOCK FALSE
