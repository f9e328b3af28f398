SPECIFICATION FairSpec
CONSTANTS
    SteeringMode = "one-at-a-time"
    FollowUpMode = "one-at-a-time"
    Submissions <- NoInput
    Requests = {"prompt", "abort"}
    DrivePolicies <- PromptAndResume
    MaxOps = 1
    MaxSubmitted = 1
    MaxCrashes = 1
    MaxQueued = 0
    Outcomes = {"calls", "deferred", "overflow"}
    PollOutcomes = {"deferred"}
    HookActions = {}
    EffectWrites = {}
    MaxAttempts = 2
    MaxTurns = 2
    MaxCalls = 2
    CompactionEnabled = TRUE
    ToolExecution = "parallel"
    Replays = {"never"}
    SummaryOutcomes = {"transient"}
CHECK_DEADLOCK FALSE
PROPERTY CancelledSettles
PROPERTY PassReturns
