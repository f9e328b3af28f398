SPECIFICATION Spec
CONSTANTS
    SteeringMode = "one-at-a-time"
    FollowUpMode = "one-at-a-time"
    Submissions <- ThresholdInput
    Requests = {"prompt"}
    DrivePolicies <- PromptOnly
    MaxOps = 1
    MaxSubmitted = 2
    MaxCrashes = 0
    MaxQueued = 0
    Outcomes = {}
    PollOutcomes = {}
    HookActions = {"decline", "follow_up"}
    EffectWrites = {}
    MaxAttempts = 2
    MaxTurns = 2
    MaxCalls = 1
    CompactionEnabled = TRUE
    ToolExecution = "parallel"
    Replays = {"never"}
    SummaryOutcomes = {}
CHECK_DEADLOCK FALSE
INVARIANT QueueConservation
INVARIANT NoCompactionLoop
