SPECIFICATION Spec
CONSTANTS
    SteeringMode = "one-at-a-time"
    FollowUpMode = "one-at-a-time"
    Submissions <- OneWrite
    Requests = {"prompt", "compaction", "navigation", "summarized_navigation", "idle_callback"}
    DrivePolicies <- PromptOnly
    MaxOps = 2
    MaxSubmitted = 1
    MaxCrashes = 1
    MaxQueued = 1
    Outcomes = {}
    PollOutcomes = {}
    HookActions = {"supply"}
    EffectWrites = {}
    MaxAttempts = 2
    MaxTurns = 1
    MaxCalls = 1
    CompactionEnabled = FALSE
    ToolExecution = "parallel"
    Replays = {"never"}
    SummaryOutcomes = {}
CHECK_DEADLOCK FALSE
INVARIANT ForksOnlyByNavigation
INVARIANT SummaryCoversBranch
PROPERTY IdleCallbackUndisturbed
