\* One automation pull request: pushes and reviews between the reads.
\* Two reviews on a page stand for thirty.
CONSTANTS
    Agent = {"j2d3", "5u6r054"}
    Bot = "github-actions[bot]"
    Pr = {2}
    Author <- AgentAndBot
    Clash = {{1, 2}}
    Verdict = {"APPROVED", "CHANGES_REQUESTED", "COMMENTED"}
    MaxHead = 3
    MaxReview = 3
    ReviewPage = 2
    SharedSecond = FALSE
SPECIFICATION Spec
INVARIANTS MergedHeadWasReviewed AutomationLandsAlone
PROPERTIES RejectionHonoured
CHECK_DEADLOCK FALSE
