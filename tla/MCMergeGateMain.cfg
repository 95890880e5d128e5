\* Two pull requests that must not land together.
CONSTANTS
    Agent = {"j2d3", "5u6r054"}
    Bot = "github-actions[bot]"
    Pr = {1, 2}
    Author <- TwoAgents
    Clash = {{1, 2}}
    Verdict = {"APPROVED"}
    MaxHead = 2
    MaxReview = 2
    ReviewPage = 2
    SharedSecond = FALSE
SPECIFICATION Spec
INVARIANTS OnlyRacesBreakMain
CHECK_DEADLOCK FALSE
