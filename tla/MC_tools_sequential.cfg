SPECIFICATION Spec
CONSTANTS
    SteeringMode = "one-at-a-time"
    FollowUpMode = "one-at-a-time"
    Submissions <- OneSteer
    Requests = {"prompt", "abort"}
    DrivePolicies <- PromptOnly
    MaxOps = 1
    MaxSubmitted = 1
    MaxCrashes = 1
    MaxQueued = 0
    Outcomes = {"calls"}
    PollOutcomes = {}
    HookActions = {}
    EffectWrites = {}
    MaxAttempts = 2
    MaxTurns = 2
    MaxCalls = 2
    CompactionEnabled = FALSE
    ToolExecution = "sequential"
    Replays = {"never", "safe"}
    SummaryOutcomes = {}
CHECK_DEADLOCK FALSE
PROPERTY SequentialOrder
INVARIANT ResultsInSourceOrder
