SPECIFICATION Spec
CONSTANTS
    SteeringMode = "one-at-a-time"
    FollowUpMode = "one-at-a-time"
    Submissions <- NoInput
    Requests = {"prompt", "abort"}
    DrivePolicies <- PollingCallers
    MaxOps = 1
    MaxSubmitted = 1
    MaxCrashes = 2
    MaxQueued = 0
    Outcomes = {"deferred", "bad_handle", "transient"}
    PollOutcomes = {"calls", "transient", "deferred", "bad_handle"}
    HookActions = {}
    EffectWrites = {"frames"}
    MaxAttempts = 2
    MaxTurns = 4
    MaxCalls = 1
    CompactionEnabled = FALSE
    ToolExecution = "parallel"
    Replays = {"never"}
    SummaryOutcomes = {}
CHECK_DEADLOCK FALSE
INVARIANT TypeOK
INVARIANT OwnedValuesLive
