SPECIFICATION Spec
CONSTANTS
    SteeringMode = "one-at-a-time"
    FollowUpMode = "one-at-a-time"
    Submissions <- NoInput
    Requests = {"prompt", "abort"}
    DrivePolicies <- PromptAndHost
    MaxOps = 1
    MaxSubmitted = 1
    MaxCrashes = 1
    MaxQueued = 0
    Outcomes = {"transient"}
    PollOutcomes = {}
    HookActions = {}
    EffectWrites = {}
    MaxAttempts = 2
    MaxTurns = 2
    MaxCalls = 1
    CompactionEnabled = FALSE
    ToolExecution = "parallel"
    Replays = {"never"}
    SummaryOutcomes = {}
CHECK_DEADLOCK FALSE
INVARIANT ObserversArePeers
