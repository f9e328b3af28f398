SPECIFICATION Spec
CONSTANTS
    SteeringMode = "one-at-a-time"
    FollowUpMode = "one-at-a-time"
    Submissions <- NoInput
    Requests = {"prompt", "abort"}
    DrivePolicies <- PromptOnly
    MaxOps = 1
    MaxSubmitted = 1
    MaxCrashes = 1
    MaxQueued = 0
    Outcomes = {"calls", "truncated_calls"}
    PollOutcomes = {}
    HookActions = {"block", "terminate"}
    EffectWrites = {"output", "memo"}
    MaxAttempts = 2
    MaxTurns = 2
    MaxCalls = 2
    CompactionEnabled = FALSE
    ToolExecution = "parallel"
    Replays = {"never", "safe"}
    SummaryOutcomes = {}
CHECK_DEADLOCK FALSE
INVARIANT Tree
INVARIANT ResultsInSourceOrder
INVARIANT NeverReplayed
INVARIANT OwnedValuesLive
PROPERTY BatchAnswered
PROPERTY NoEffectAfterAbort
INVARIANT ForksOnlyByNavigation
INVARIANT PendingPayloads
INVARIANT Restorable
