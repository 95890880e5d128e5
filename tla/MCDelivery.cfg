\* The workflow and one person who waits for nothing: requests that overtake each other
\* and what the cluster makes of main.
CONSTANTS
    a1 = a1  a2 = a2  v1 = v1  pair1 = pair1  pair2 = pair2
    None = None
    Assignment = {a1, a2}
    Validator = {v1}
    NodePair = {pair1, pair2}
    ValidatorOf <- OneValidator
    DefaultNodePair <- FirstPair
    Requester = {"workflow", "human"}
    Proposable = {"active", "stopped", "archived"}
    Forgetful = TRUE
    Careful = FALSE
    MaxMerges = 2
SPECIFICATION FairSpec
INVARIANTS TypeOK DesiredStateIsValid ConvergedFleetIsSafe
PROPERTIES WorkflowLeavesSigners DataGoesOnlyByDecision StopIsCarriedOut
CHECK_DEADLOCK FALSE
