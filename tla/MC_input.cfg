SPECIFICATION Spec
CONSTANTS
    SteeringMode = "one-at-a-time"
    FollowUpMode = "one-at-a-time"
    Submissions <- AllInput
    Requests = {"prompt", "abort"}
    DrivePolicies <- PromptOnly
    MaxOps = 1
    MaxSubmitted = 2
    MaxCrashes = 1
    MaxQueued = 0
    Outcomes = {}
    PollOutcomes = {}
    HookActions = {"inject", "follow_up"}
    EffectWrites = {}
    MaxAttempts = 2
    MaxTurns = 2
    MaxCalls = 1
    CompactionEnabled = FALSE
    ToolExecution = "parallel"
    Replays = {"never"}
    SummaryOutcomes = {}
CHECK_DEADLOCK FALSE
INVARIANT QueueConservation
INVARIANT PendingPayloads
PROPERTY CompletedRunTookInput
