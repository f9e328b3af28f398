SPECIFICATION Spec
CONSTANTS
    SteeringMode = "one-at-a-time"
    FollowUpMode = "one-at-a-time"
    Submissions <- NoInput
    Requests = {"prompt", "abort"}
    DrivePolicies <- PromptAndHost
    MaxOps = 1
    MaxSubmitted = 1
    MaxCrashes = 1
    MaxQueued = 0
    Outcomes = {"stop", "no_calls", "transient", "fatal", "overflow"}
    PollOutcomes = {}
    HookActions = {"decline", "supply"}
    EffectWrites = {}
    MaxAttempts = 2
    MaxTurns = 4
    MaxCalls = 1
    CompactionEnabled = TRUE
    ToolExecution = "parallel"
    Replays = {"never"}
    SummaryOutcomes = {"transient", "fatal"}
CHECK_DEADLOCK FALSE
INVARIANT AttemptsBounded
INVARIANT NoCompactionLoop
INVARIANT Restorable
PROPERTY ImplementsLifecycle
