---------------------------- MODULE MCAgentLane ----------------------------
(***************************************************************************)
(* Instances of AgentLane for TLC: the input callers may queue in a run    *)
(* and the callers that drive it.                                          *)
(***************************************************************************)
EXTENDS AgentLane

Input(kind, type) == [kind |-> kind, type |-> type]

NoInput == {}
ThresholdInput == {Input("steer", "message"), Input("followUp", "message"), Input("write", "custom")}
AllInput == SubmissionKinds
OneWrite == {Input("write", "message")}
OneSteer == {Input("steer", "message")}

Caller(wait, poll, convenience) ==
    [waitForRetry |-> wait, pollDeferred |-> poll, convenience |-> convenience]
Prompt == Caller(TRUE, FALSE, TRUE)
Resume == Caller(TRUE, TRUE, TRUE)
Host(wait, poll) == Caller(wait, poll, FALSE)

PromptOnly == {Prompt}
ResumeOnly == {Resume}
PromptAndResume == {Prompt, Resume}
PollingCallers == {Prompt, Resume, Host(FALSE, TRUE)}
PromptAndHost == {Prompt, Host(FALSE, FALSE)}
=============================================================================
