--------------------------- MODULE LifecycleProofs ---------------------------
(***************************************************************************)
(* The lane implements the lifecycle of its operations.  A step of a drive *)
(* either carries the operation over, with its identity and its control,   *)
(* or ends it with one result; acceptance and requestAbort are the only    *)
(* other steps that touch it.                                              *)
(***************************************************************************)
EXTENDS StructuralTypes

-----------------------------------------------------------------------------
(* What a step of a drive does to the operation *)

Drawn == nextId' \in Nat /\ nextId <= nextId'
Carried == /\ op'.id = op.id /\ op'.control = op.control /\ op'.at # "none"
           /\ results' = results
Ended == \E status \in Statuses, tipId \in Nat :
            /\ op' = NoOp
            /\ results' = results \cup {[op |-> op.id, kind |-> op.intent, status |-> status,
                                             from |-> op.source, tip |-> tipId]}
            /\ status = "aborted" <=> op.control = "cancel_requested"

\* A pass that is at work has an operation to work on.
LEMMA AtWork ==
    ASSUME TypeInv, drive.pc \notin Resting
    PROVE  /\ op.at # "none" /\ op \in Operation /\ op.id \in Nat /\ op.control \in Controls
           /\ nextId \in Nat /\ tip \in Nat /\ op.resp \in Nat /\ op.target \in Nat
BY OpFields DEF TypeInv, PassOK

\* A step that leaves the operation, the results and the counter alone carries the operation on.
LEMMA Unchanged ==
    ASSUME TypeInv, drive.pc \notin Resting, UNCHANGED <<op, results, nextId>>
    PROVE  Drawn /\ Carried
BY AtWork DEF Drawn, Carried

\* A step inside the pass, with no commit, carries the operation on.
LEMMA LocalShape ==
    ASSUME TypeInv, drive.pc \notin Resting, NEW next, Local(next)
    PROVE  Drawn /\ Carried
<1>1. UNCHANGED <<op, results, nextId>>
    BY DEF Local, operation, tree
<1> QED
    BY <1>1, Unchanged

\* A commit of the pass that keeps id and control carries the operation on.
LEMMA AdvanceShape ==
    ASSUME TypeInv, NEW next, Advance(next), next.id = op.id, next.control = op.control, next.at # "none"
    PROVE  Carried
BY DEF Carried, Advance, outcome

\* A finish decision (settleOperation) ends the operation with one result.
LEMMA EndedShape ==
    ASSUME TypeInv, NEW status \in Statuses, NEW tipId \in Nat, Finish(status, tipId),
           status = "aborted" <=> op.control = "cancel_requested"
    PROVE  Ended
BY DEF Ended, Finish

\* The leaves that a commit may move to keep the scope of the operation.
LEMMA ScopeKept ==
    ASSUME TypeInv, NEW o \in {op, Answered}
    PROVE  Scope(o) \in Operation /\ Scope(o).id = op.id /\ Scope(o).control = op.control
BY OpFields, AnsweredType, ScopeType

\* Entering a checkpoint carries the operation on.
LEMMA CheckpointShape ==
    ASSUME TypeInv, NEW o \in {op, Answered}, NEW cont, NEW flag, NEW trigger,
           Advance(Checkpoint(o, cont, flag, trigger))
    PROVE  Carried
BY Zenon, ScopeKept, AdvanceShape DEF Operation, Checkpoint

\* Entering the state after an assistant boundary carries the operation on.
LEMMA AssistantReadyShape ==
    ASSUME TypeInv, NEW trigger, NEW flag, NEW attempt, Advance(AssistantReady(op, trigger, flag, attempt))
    PROVE  Carried
BY Zenon, ScopeKept, AdvanceShape DEF Operation, AssistantReady

\* Starting a structural task inside a run carries the operation on.
LEMMA SummaryDecidingShape ==
    ASSUME TypeInv, NEW o \in {op, Answered}, NEW task, NEW reason, NEW cont, NEW flag, NEW trigger,
           Advance(SummaryDeciding(o, task, reason, cont, flag, trigger))
    PROVE  Carried
BY Zenon, ScopeKept, AdvanceShape DEF Operation, SummaryDeciding

\* Steps of a run that commit nothing about the operation.
LEMMA RunLocalShape ==
    ASSUME TypeInv,
           \/ BeforeDrive \/ FindCancelled \/ ReadPrompt \/ PrepareGeneration \/ PreparePoll
           \/ SourceFault \/ RequestRefused \/ Frame \/ RecoverAssistant \/ RetryWait \/ TimerEnds
           \/ ReconcileRequest
           \/ \E threshold \in BOOLEAN : RunCheckpoint(threshold)
           \/ \E id : AdmitRequest(id)
           \/ \E result, possible : RequestReturns(result, possible)
    PROVE  Drawn /\ Carried
<1>1. drive.pc \notin Resting
    BY Zenon DEF BeforeDrive, FindCancelled, ReadPrompt, PrepareGeneration, PreparePoll, SourceFault,
       RequestRefused, Frame, RecoverAssistant, RetryWait, TimerEnds, ReconcileRequest, RunCheckpoint,
       AdmitRequest, RequestReturns, Command, ContinuePoints, Resting
<1>2. CASE SourceFault \/ Frame \/ \E id : AdmitRequest(id)
    <2>1. UNCHANGED <<op, results, nextId>>
        BY <1>2 DEF SourceFault, Frame, AdmitRequest, tree, operation, outcome
    <2> QED
        BY SMTT(30), <1>1, <2>1, Unchanged
<1>3. CASE \E next : Local(next)
    BY <1>1, <1>3, LocalShape
<1> QED
    BY Zenon, <1>2, <1>3 DEF BeforeDrive, FindCancelled, ReadPrompt, PrepareGeneration, PreparePoll,
       RequestRefused, RecoverAssistant, RetryWait, TimerEnds, ReconcileRequest, RunCheckpoint,
       RequestReturns

\* startRun carries the operation on.
LEMMA StartRunShape ==
    ASSUME TypeInv, NEW inject \in BOOLEAN, StartRun(inject)
    PROVE  Drawn /\ Carried
<1>1. drive.pc \notin Resting /\ nextId' = IF inject THEN nextId + 1 ELSE nextId
    BY DEF StartRun, Command, Resting
<1>2. PICK trigger : Advance(Checkpoint(op, "need_assistant", FALSE, trigger))
    BY Zenon DEF StartRun
<1>3. Drawn
    BY <1>1, AtWork DEF Drawn
<1> QED
    BY Zenon, <1>2, <1>3, CheckpointShape

\* planBoundaryInbox carries the operation on.
LEMMA PlanBoundaryShape ==
    ASSUME TypeInv, PlanBoundary
    PROVE  Drawn /\ Carried
<1>1. drive.pc \notin Resting
    BY DEF PlanBoundary, Command, Resting
<1>2. CASE \E next : Local(next)
    BY <1>1, <1>2, LocalShape
<1>3. CASE \E trigger, flag : Advance(AssistantReady(op, trigger, flag, 1)) /\ nextId' = nextId
    <2>1. PICK trigger, flag : Advance(AssistantReady(op, trigger, flag, 1)) /\ nextId' = nextId
        BY <1>3
    <2> QED
        BY SMTT(30), <1>1, <2>1, AtWork, AssistantReadyShape DEF Drawn
<1>4. CASE /\ Advance(SummaryDeciding(op, nextId, "threshold", op.cont, op.flag, op.trigger))
           /\ nextId' = nextId + 1
    <2>1. Drawn
        BY <1>1, <1>4, AtWork DEF Drawn
    <2> QED
        BY <1>4, <2>1, SummaryDecidingShape
<1> QED
    BY Zenon, <1>2, <1>3, <1>4 DEF PlanBoundary

\* finishRunBoundary carries the operation on or ends it.
LEMMA FinishBoundaryShape ==
    ASSUME TypeInv, NEW hookFollowUp \in BOOLEAN, FinishBoundary(hookFollowUp)
    PROVE  Drawn /\ (Carried \/ Ended)
<1> DEFINE selected == BoundaryInbox(TRUE)
           end == TipAfter(selected, tip)
<1>1. drive.pc \notin Resting /\ op.control = "running"
    BY DEF FinishBoundary, Command, Resting, Running
<1>2. end \in Nat
    BY Zenon, SelectedQueued, QueuedIds DEF TypeInv
<1>3. Drawn
    <2>1. nextId' = nextId \/ nextId' = nextId + 1
        BY Zenon DEF FinishBoundary
    <2> QED
        BY <1>1, <2>1, AtWork DEF Drawn
<1>4. \/ \E trigger : Advance(AssistantReady(op, trigger, FALSE, 1))
      \/ Finish("completed", end)
    BY Zenon DEF FinishBoundary
<1> HIDE DEF end
<1>5. CASE \E trigger : Advance(AssistantReady(op, trigger, FALSE, 1))
    BY Zenon, <1>3, <1>5, AssistantReadyShape
<1>6. CASE Finish("completed", end)
    BY SMTT(30), <1>1, <1>2, <1>3, <1>6, EndedShape DEF Statuses
<1> QED
    BY Zenon, <1>3, <1>4, <1>5, <1>6

\* The failures and the aborted terminal of a run end it.
LEMMA RunEndShape ==
    ASSUME TypeInv, ConfigurationFailure \/ AbortedTerminal
    PROVE  Drawn /\ Ended
<1>1. drive.pc \notin Resting /\ nextId' = nextId
    BY DEF ConfigurationFailure, AbortedTerminal, Command, Resting, tree
<1>2. \/ op.control = "running" /\ Finish("failed", tip)
      \/ op.control # "running" /\ Finish("aborted", tip)
    BY DEF ConfigurationFailure, AbortedTerminal, Running
<1>3. op.control \in {"running", "cancel_requested"} /\ {"failed", "aborted"} \subseteq Statuses
    BY OpFields DEF Controls, Statuses
<1> QED
    BY SMTT(30), <1>1, <1>2, <1>3, AtWork, EndedShape DEF Drawn

\* Publishing an intent carries the operation on.
LEMMA IntentShape ==
    ASSUME TypeInv, GenerationIntent \/ PollIntent \/ RetryCommit
    PROVE  Drawn /\ Carried
<1>1. drive.pc \notin Resting /\ (nextId' = nextId + 2 \/ nextId' = nextId)
    BY DEF GenerationIntent, PollIntent, RetryCommit, Command, Resting, tree
<1>2. op'.id = op.id /\ op'.control = op.control /\ op'.at # "none" /\ results' = results
    BY ZenonT(60), OpFields DEF GenerationIntent, PollIntent, RetryCommit, Advance, outcome, Operation
<1> QED
    BY SMTT(30), <1>1, <1>2, AtWork DEF Drawn, Carried

\* publishResponse carries the operation on or ends it.
LEMMA SettleResponseShape ==
    ASSUME TypeInv, SettleResponse
    PROVE  Drawn /\ (Carried \/ Ended)
<1>1. drive.pc \notin Resting /\ op.resp \in Nat /\ nextId \in Nat
    BY Zenon, OpFields DEF SettleResponse, Command, Resting
<1>2. Drawn
    <2>1. nextId' = nextId \/ nextId' = nextId + 1 \/ \E n \in 1 .. MaxCalls : nextId' = nextId + n
        BY ZenonT(60) DEF SettleResponse, SettleFailed
    <2> QED
        BY SMTT(30), <1>1, <2>1 DEF Drawn
<1>3. \/ Running /\ Finish("failed", op.resp)
      \/ Advance(Checkpoint(Answered, "may_finish", TRUE, op.resp))
      \/ Advance(SummaryDeciding(Answered, nextId, "overflow", "need_assistant", TRUE, op.trigger))
      \/ Advance([Scope(Answered) EXCEPT !.at = "deferred.suspended", !.src = op.resp, !.poll = op.poll])
      \/ Advance([AssistantReady(Answered, op.trigger, op.flag, op.attempt + 1)
                      EXCEPT !.at = "assistant.retry_wait"])
      \/ \E n \in 1 .. MaxCalls :
            Advance([Scope(Answered) EXCEPT !.at = "tools", !.calls = PlannedCalls(n),
                                            !.flag = (drive.arg = "truncated_calls")])
    BY Zenon DEF SettleResponse, SettleNext, SettleFailed
<1>4. CASE Running /\ Finish("failed", op.resp)
    BY SMTT(30), <1>1, <1>2, <1>4, EndedShape DEF Running, Statuses
<1>5. CASE Advance(Checkpoint(Answered, "may_finish", TRUE, op.resp))
    BY Zenon, <1>2, <1>5, CheckpointShape
<1>6. CASE Advance(SummaryDeciding(Answered, nextId, "overflow", "need_assistant", TRUE, op.trigger))
    BY Zenon, <1>2, <1>6, SummaryDecidingShape
<1>7. Scope(Answered) \in Operation /\ Scope(Answered).id = op.id /\ Scope(Answered).control = op.control
    BY ScopeKept
<1>8. CASE Advance([Scope(Answered) EXCEPT !.at = "deferred.suspended", !.src = op.resp, !.poll = op.poll])
    BY Zenon, <1>2, <1>7, <1>8, AdvanceShape DEF Operation
<1>9. CASE Advance([AssistantReady(Answered, op.trigger, op.flag, op.attempt + 1)
                      EXCEPT !.at = "assistant.retry_wait"])
    BY Zenon, <1>2, <1>7, <1>9, AdvanceShape DEF Operation, AssistantReady
<1>10. CASE \E n \in 1 .. MaxCalls :
            Advance([Scope(Answered) EXCEPT !.at = "tools", !.calls = PlannedCalls(n),
                                            !.flag = (drive.arg = "truncated_calls")])
    BY ZenonT(60), <1>2, <1>7, <1>10, AdvanceShape DEF Operation
<1> QED
    BY Zenon, <1>3, <1>4, <1>5, <1>6, <1>8, <1>9, <1>10

\* Every step of a run carries its operation on or ends it.
LEMMA RunShape ==
    ASSUME TypeInv, RunStep
    PROVE  Drawn /\ (Carried \/ Ended)
BY SMTT(30), RunLocalShape, StartRunShape, PlanBoundaryShape, FinishBoundaryShape, RunEndShape, IntentShape,
   SettleResponseShape DEF RunStep

\* Placing tool results carries the operation on.
LEMMA PlaceResultsShape ==
    ASSUME TypeInv, drive.pc \notin Resting, PlaceResults
    PROVE  Drawn /\ Carried
<1>1. Drawn
    BY AtWork DEF PlaceResults, Drawn
<1>2. \/ \E cont, trigger : Advance(Checkpoint(op, cont, FALSE, trigger))
      \/ \E calls : Advance([op EXCEPT !.calls = calls])
    BY Zenon DEF PlaceResults
<1>3. CASE \E cont, trigger : Advance(Checkpoint(op, cont, FALSE, trigger))
    BY Zenon, <1>1, <1>3, CheckpointShape
<1>4. CASE \E calls : Advance([op EXCEPT !.calls = calls])
    BY SMTT(30), <1>1, <1>4, AtWork, AdvanceShape DEF Operation
<1> QED
    BY Zenon, <1>2, <1>3, <1>4

\* Replacing a call of the batch carries the operation on.
LEMMA CallShape ==
    ASSUME TypeInv, drive.pc \notin Resting, NEW i, NEW call, Advance([op EXCEPT !.calls[i] = call])
    PROVE  Carried
BY Zenon, AtWork, AdvanceShape DEF Operation

\* Every step of a tool batch carries the operation on.
LEMMA ToolShape ==
    ASSUME TypeInv, ToolStep
    PROVE  Drawn /\ Carried
<1>1. drive.pc \notin Resting
    BY ZenonT(60), WithTasks DEF ToolStep, FindReady, PlaceReady, SettleUnstarted, RunTools,
       ToolsDone, Command, Resting
<1>2. CASE UNCHANGED <<op, results, nextId>>
    BY SMTT(30), <1>1, <1>2, Unchanged
<1>3. CASE PlaceResults
    BY <1>1, <1>3, PlaceResultsShape
<1>4. CASE nextId' = nextId /\ \E i, call : Advance([op EXCEPT !.calls[i] = call])
    <2>1. PICK i, call : Advance([op EXCEPT !.calls[i] = call])
        BY Zenon, <1>4
    <2>2. Carried
        BY SMTT(30), <1>1, <2>1, CallShape
    <2> QED
        BY SMTT(30), <1>1, <1>4, <2>2, AtWork DEF Drawn
<1>5. CASE FindReady \/ RunTools \/ ToolsDone
    <2>1. UNCHANGED <<operation, tree>>
        BY <1>5 DEF FindReady, RunTools, ToolsDone, Local
    <2> QED
        BY <1>2, <2>1 DEF operation, tree
<1>6. CASE SettleUnstarted \/ \E i \in DOMAIN tasks, terminate \in BOOLEAN : PublishOutcome(i, terminate)
    <2>1. PICK i, terminate : StageOutcome(i, terminate)
        BY Zenon, <1>6 DEF SettleUnstarted, PublishOutcome
    <2> QED
        BY Zenon, <1>4, <2>1 DEF StageOutcome, tree
<1>7. CASE PlaceReady \/ \E i \in DOMAIN tasks : CommitPlacement(i)
    BY SMTT(30), <1>3, <1>7 DEF PlaceReady, CommitPlacement
<1>8. ASSUME NEW i \in DOMAIN tasks,
             \/ StartPlanned(i) \/ (\E tool \in Replays : StartRecovered(i, tool)) \/ AdmitTool(i)
             \/ ToolReturns(i) \/ ReadPlacement(i) \/ \E what : ToolWrites(i, what)
      PROVE  Drawn /\ Carried
    BY SMTT(30), <1>2, <1>8 DEF StartPlanned, StartRecovered, AdmitTool, ToolReturns, ReadPlacement, ToolWrites,
       OnlyTasks, operation, tree, outcome
<1>9. ASSUME NEW i \in DOMAIN tasks, NEW replay \in Replays, ToolIntent(i, replay)
      PROVE  Drawn /\ Carried
    <2>1. nextId' = nextId
        BY <1>9 DEF ToolIntent, tree
    <2>2. \/ Advance([op EXCEPT !.calls[i] = [@ EXCEPT !.status = "effect_pending", !.replay = replay]])
          \/ UNCHANGED <<op, results>>
        BY <1>9 DEF ToolIntent, operation, outcome
    <2>3. CASE Advance([op EXCEPT !.calls[i] = [@ EXCEPT !.status = "effect_pending", !.replay = replay]])
        <3> DEFINE call == [op.calls[i] EXCEPT !.status = "effect_pending", !.replay = replay]
        <3>1. Advance([op EXCEPT !.calls[i] = call])
            BY <2>3
        <3> HIDE DEF call
        <3> QED
            BY Zenon, <1>4, <2>1, <3>1
    <2> QED
        BY SMTT(30), <1>2, <2>1, <2>2, <2>3
<1> QED
    BY SMTT(30), <1>5, <1>6, <1>7, <1>8, <1>9 DEF ToolStep

\* publishStructuralOutcome carries the operation on or ends it.
LEMMA PublishSummaryShape ==
    ASSUME TypeInv, drive.pc \notin Resting, Running,
           NEW kind \in {"summary", "declined", "failed"}, NEW id \in Nat, PublishSummary(kind, id)
    PROVE  Carried \/ Ended
<1>1. CASE FailRun(kind)
    BY SMTT(30), <1>1, AtWork, EndedShape DEF FailRun, Running, Statuses
<1>2. CASE FinishStructural(kind, id)
    <2> DEFINE status == IF kind = "summary" THEN "completed" ELSE kind
               end == IF kind = "summary" THEN id ELSE tip
    <2>1. Finish(status, end)
        BY <1>2 DEF FinishStructural
    <2>2. status \in Statuses /\ status # "aborted" /\ end \in Nat
        BY AtWork DEF Statuses
    <2> HIDE DEF status, end
    <2> QED
        BY SMTT(30), <2>1, <2>2, EndedShape DEF Running
<1>3. CASE ResumeRun(kind, id)
    <2>1. \/ UNCHANGED <<op, results>>
          \/ \E trigger, flag : Advance(AssistantReady(op, trigger, flag, 1))
          \/ Advance(Checkpoint(op, op.cont, op.flag, op.trigger))
        BY Zenon, <1>3 DEF ResumeRun, operation
    <2> QED
        BY SMTT(30), <2>1, AtWork, AssistantReadyShape, CheckpointShape DEF Carried
<1> QED
    BY SMTT(30), <1>1, <1>2, <1>3 DEF PublishSummary

\* Every step of a structural task carries the operation on or ends it.
LEMMA StructuralShape ==
    ASSUME TypeInv, StructuralStep
    PROVE  Drawn /\ (Carried \/ Ended)
<1>1. CASE ReadPreparation
    BY <1>1, LocalShape DEF ReadPreparation, Command, Resting
<1>2. CASE Decline \/ SupplySummary \/ SummaryModelMissing
    <2>1. drive.pc \notin Resting /\ Running
        BY <1>2 DEF Decline, SupplySummary, SummaryModelMissing, Command, Resting
    <2>2. nextId' = nextId \/ nextId' = nextId + 2
        BY <1>2 DEF Decline, SupplySummary, SummaryModelMissing
    <2>3. \/ PublishSummary("declined", 0) \/ PublishSummary("failed", 0)
          \/ PublishSummary("summary", nextId)
        BY <1>2 DEF Decline, SupplySummary, SummaryModelMissing
    <2>4. Drawn
        BY SMTT(30), <2>1, <2>2, AtWork DEF Drawn
    <2> QED
        BY SMTT(30), <2>1, <2>3, <2>4, AtWork, PublishSummaryShape
<1>3. CASE DecideGenerate \/ NestedIntent \/ (\E empty \in BOOLEAN : AttemptIntent(empty))
           \/ (\E another \in BOOLEAN : NestedOutcome(another)) \/ (RetryLater /\ drive.pc \notin Resting)
    <2>1. drive.pc \notin Resting
        BY <1>3 DEF DecideGenerate, NestedIntent, AttemptIntent, NestedOutcome, Command, Resting
    <2>2. nextId' = nextId \/ nextId' = nextId + 1
        BY <1>3 DEF DecideGenerate, NestedIntent, AttemptIntent, NestedOutcome, RetryLater, tree
    <2>3. op'.id = op.id /\ op'.control = op.control /\ op'.at # "none" /\ results' = results
        BY ZenonT(60), <1>3, <2>1, AtWork DEF DecideGenerate, NestedIntent, AttemptIntent,
           NestedOutcome, RetryLater,
           Advance, Operation, outcome
    <2> QED
        BY SMTT(30), <2>1, <2>2, <2>3, AtWork DEF Drawn, Carried
<1>4. CASE AttemptResult \/ RecoverSummary
    <2>1. drive.pc \notin Resting /\ Running
        BY <1>4 DEF AttemptResult, RecoverSummary, Command, Resting
    <2>2. \/ RetryLater
          \/ nextId' = nextId /\ (PublishSummary("failed", 0) \/ PublishSummary("summary", op.resp))
        BY <1>4 DEF AttemptResult, RecoverSummary
    <2>3. CASE RetryLater
        BY SMTT(30), <1>3, <2>1, <2>3
    <2>4. CASE nextId' = nextId /\ (PublishSummary("failed", 0) \/ PublishSummary("summary", op.resp))
        BY SMTT(30), <2>1, <2>4, AtWork, PublishSummaryShape DEF Drawn
    <2> QED
        BY <2>2, <2>3, <2>4
<1>5. CASE CommitNavigation
    <2>1. drive.pc \notin Resting /\ Running /\ nextId' = nextId /\ Finish("completed", op.target)
        BY <1>5 DEF CommitNavigation, Command, Resting
    <2> QED
        BY SMTT(30), <2>1, AtWork, EndedShape DEF Drawn, Running, Statuses
<1>6. CASE AdmitRequest(op.src)
    BY <1>6, RunLocalShape
<1>7. ASSUME NEW result, RequestReturns(result, SummaryOutcomes)
      PROVE  Drawn /\ Carried
    BY <1>7, RunLocalShape
<1> QED
    BY SMTT(30), <1>1, <1>2, <1>3, <1>4, <1>5, <1>6, <1>7 DEF StructuralStep

\* Every step of a drive carries the operation over or ends it with one result, which
\* is "aborted" exactly when the operation had been cancelled.
LEMMA DriveShape ==
    ASSUME TypeInv, DriveStep
    PROVE  Drawn /\ (Carried \/ Ended)
BY SMTT(30), RunShape, ToolShape, StructuralShape DEF DriveStep

\* A pass at rest takes no step.
LEMMA DriveAtWork ==
    ASSUME TypeInv, DriveStep
    PROVE  drive.pc \notin Resting
<1>1. CASE RunStep
    BY ZenonT(60), <1>1 DEF RunStep, BeforeDrive, FindCancelled, ReadPrompt, StartRun,
       RunCheckpoint, PlanBoundary,
       FinishBoundary, ConfigurationFailure, PrepareGeneration, PreparePoll, SourceFault, GenerationIntent,
       PollIntent, AdmitRequest, RequestRefused, Frame, RequestReturns, RecoverAssistant, SettleResponse,
       RetryWait, TimerEnds, RetryCommit, ReconcileRequest, AbortedTerminal, Command, ContinuePoints, Resting
<1>2. CASE ToolStep
    BY ZenonT(60), <1>2, WithTasks DEF ToolStep, FindReady, PlaceReady, SettleUnstarted, RunTools,
       ToolsDone, Command,
       Resting
<1>3. CASE StructuralStep
    BY SMTT(30), <1>3 DEF StructuralStep, ReadPreparation, Decline, SupplySummary, DecideGenerate,
       SummaryModelMissing, AttemptIntent, NestedIntent, AdmitRequest, RequestReturns, NestedOutcome,
       AttemptResult, RecoverSummary, CommitNavigation, Command, Resting
<1> QED
    BY SMTT(30), <1>1, <1>2, <1>3 DEF DriveStep

-----------------------------------------------------------------------------
(* The invariant *)

\* No result belongs to the open operation, no two results belong to one operation, and
\* an idle lane holds nothing of the operation before, a cancellation least of all.
OneResult ==
    /\ \A r \in results : r.op # op.id
    /\ \A r, q \in results : r.op = q.op => r = q
    /\ Idle => op = NoOp

\* The strengthening that makes it inductive: operations take their ids from nextId, so
\* the next operation has no result yet.
LifeInv ==
    /\ OneResult
    /\ nextId > 0 /\ op.id < nextId
    /\ op.at # "none" => op.id # 0
    /\ \A r \in results : r.op # 0 /\ r.op < nextId

\* A created session has no operation and no result.
LEMMA LifeInvInit == Init => LifeInv
BY DEF Init, LifeInv, OneResult, NoOp

\* Callers' steps that leave the operation alone.
LEMMA CallerKeeps ==
    ASSUME TypeInv, LifeInv, op' = op \/ op' = [op EXCEPT !.control = "cancel_requested"],
           op' # op => op.at # "none",
           results' = results, nextId' = nextId \/ nextId' = nextId + 1
    PROVE  LifeInv'
<1>1. op'.id = op.id /\ op'.at = op.at /\ op.id \in Nat /\ nextId \in Nat
    BY SMTT(30), OpFields DEF Operation
<1>2. \A r \in results : r.op \in Nat
    BY DEF TypeInv, OpOK, Result
<1> QED
    BY SMTT(30), <1>1, <1>2 DEF LifeInv, OneResult, Idle

\* Acceptance opens an operation with a new id.
LEMMA AcceptShape ==
    ASSUME TypeInv, LifeInv,
           \/ \E prompt \in BOOLEAN : AcceptRun(prompt)
           \/ AcceptCompaction
           \/ AcceptNavigation
           \/ AcceptSummarizedNavigation
    PROVE  /\ op = NoOp /\ op'.id = nextId /\ op'.control = "running" /\ op'.at # "none"
           /\ results' = results /\ (nextId' = nextId + 1 \/ nextId' = nextId + 2)
<1>1. op = NoOp /\ results' = results /\ (nextId' = nextId + 1 \/ nextId' = nextId + 2)
    BY ZenonT(60) DEF AcceptRun, AcceptCompaction, AcceptNavigation, AcceptSummarizedNavigation,
       CanAccept, CanNavigate, LifeInv, OneResult, outcome
<1>2. ASSUME NEW intent \in Intents, NEW at \in LeavesOrNone \ {"none"},
             \/ op' = Accepted(intent, at)
             \/ \E task, reason, boundary :
                   op' = [Accepted(intent, at) EXCEPT !.task = task, !.reason = reason, !.boundary = boundary]
             \/ \E target : op' = [Accepted(intent, at) EXCEPT !.target = target]
             \/ \E task, boundary, target :
                   op' = [Accepted(intent, at) EXCEPT !.task = task, !.boundary = boundary, !.target = target]
      PROVE  op'.id = nextId /\ op'.control = "running" /\ op'.at # "none"
    <2>1. /\ Accepted(intent, at) \in Operation /\ Accepted(intent, at).id = nextId
          /\ Accepted(intent, at).at = at /\ Accepted(intent, at).control = "running"
        BY AcceptedType
    <2> QED
        BY ZenonT(60), <1>2, <2>1 DEF Operation
<1>3. /\ {"run", "compaction", "navigation"} \subseteq Intents
      /\ {"starting", "summary.deciding", "navigation.ready_to_commit"} \subseteq LeavesOrNone \ {"none"}
    BY Names
<1>4. op'.id = nextId /\ op'.control = "running" /\ op'.at # "none"
    <2>1. CASE \E prompt \in BOOLEAN : AcceptRun(prompt)
        BY ZenonT(60), <1>2, <1>3, <2>1 DEF AcceptRun
    <2>2. CASE AcceptCompaction
        <3>1. \E task, reason, boundary :
                 op' = [Accepted("compaction", "summary.deciding") EXCEPT
                            !.task = task, !.reason = reason, !.boundary = boundary]
            BY ZenonT(60), <2>2 DEF AcceptCompaction
        <3> QED
            BY ZenonT(60), <1>2, <1>3, <3>1
    <2>3. CASE AcceptNavigation
        BY ZenonT(60), <1>2, <1>3, <2>3 DEF AcceptNavigation
    <2>4. CASE AcceptSummarizedNavigation
        <3>1. \E task, boundary, target :
                 op' = [Accepted("navigation", "summary.deciding") EXCEPT
                            !.task = task, !.boundary = boundary, !.target = target]
            BY Zenon, <2>4 DEF AcceptSummarizedNavigation
        <3> QED
            BY ZenonT(60), <1>2, <1>3, <3>1
    <2> QED
        BY SMTT(30), <2>1, <2>2, <2>3, <2>4
<1> QED
    BY SMTT(30), <1>1, <1>4

\* Every step of the lane keeps the invariant that relates the operation, the results and the ids.
LEMMA LifeInvStep ==
    ASSUME TypeInv, LifeInv, [Next]_vars
    PROVE  LifeInv'
<1>1. /\ op.id \in Nat /\ nextId \in Nat /\ \A r \in results : r.op \in Nat
    BY OpFields DEF TypeInv, OpOK, Result
<1>2. CASE DriveStep
    <2>1. Drawn
        BY SMTT(30), <1>2, DriveShape
    <2>2. CASE Carried
        BY SMTT(30), <1>1, <1>2, <2>1, <2>2, DriveAtWork, AtWork
           DEF Drawn, Carried, LifeInv, OneResult, Idle
    <2>3. CASE Ended
        <3>1. PICK new : op' = NoOp /\ new.op = op.id /\ results' = results \cup {new}
            BY Zenon, <2>3 DEF Ended
        <3>2. NoOp.id = 0 /\ NoOp.at = "none"
            BY DEF NoOp
        <3>3. op.id # 0 /\ \A r \in results : r.op # 0 /\ r.op # op.id
            BY SMTT(30), <1>2, DriveAtWork, AtWork DEF LifeInv, OneResult
        <3>4. OneResult'
            BY SMTT(30), <3>1, <3>2, <3>3 DEF LifeInv, OneResult
        <3>5. \A r \in results' : r.op # 0 /\ r.op < nextId'
            BY SMTT(30), <1>1, <2>1, <3>1, <3>3 DEF Drawn, LifeInv
        <3>6. nextId' > 0 /\ 0 < nextId'
            BY SMTT(30), <1>1, <2>1 DEF Drawn, LifeInv
        <3> QED
            BY SMTT(30), <3>1, <3>2, <3>4, <3>5, <3>6 DEF LifeInv
    <2> QED
        BY SMTT(30), <1>2, <2>2, <2>3, DriveShape
<1>3. CASE \/ \E prompt \in BOOLEAN : AcceptRun(prompt)
           \/ AcceptCompaction
           \/ AcceptNavigation
           \/ AcceptSummarizedNavigation
    <2>1. /\ op'.id = nextId /\ op'.at # "none"
          /\ results' = results /\ (nextId' = nextId + 1 \/ nextId' = nextId + 2)
        BY <1>3, AcceptShape
    <2> QED
        BY SMTT(30), <1>1, <2>1 DEF LifeInv, OneResult, Idle
<1>4. CASE AbortCommit
    <2>1. /\ op' = op \/ op' = [op EXCEPT !.control = "cancel_requested"]
          /\ op' # op => op.id = abortReq.op /\ abortReq.op # 0
          /\ results' = results /\ nextId' = nextId
        BY SMTT(30), <1>4 DEF AbortCommit, outcome, tree
    <2>2. op.id # 0 => op.at # "none"
        BY DEF LifeInv, OneResult, Idle, NoOp
    <2> QED
        BY <2>1, <2>2, CallerKeeps
<1>5. CASE \/ \E s \in Submissions : Enqueue(s) \/ AppendIdle(s)
           \/ \E x \in inbox : CancelQueued(x)
           \/ \E policy \in DrivePolicies : DriveClaim(policy) \/ DriveJoin(policy)
           \/ \E target \in Ids(entries) \cup Ids(inbox) \cup {Root}, summarize \in BOOLEAN :
                RequestNavigation(target, summarize)
           \/ NavigationRetries \/ NavigationRefused
           \/ AbortBegin \/ RunWhenIdle \/ IdleBlocked \/ IdleCallbackReturns
           \/ DriveReturns \/ Crash \/ Restore \/ UNCHANGED vars
    <2>1. op' = op /\ results' = results /\ (nextId' = nextId \/ nextId' = nextId + 1)
        BY Zenon, <1>5 DEF Enqueue, AppendIdle, CancelQueued, DriveClaim, DriveJoin, AbortBegin,
           RequestNavigation, NavigationRetries, NavigationRefused, RunWhenIdle, IdleBlocked,
           IdleCallbackReturns, DriveReturns, Crash, Restore, vars, operation, tree
    <2> QED
        BY SMTT(30), <2>1, CallerKeeps
<1> QED
    BY SMTT(30), <1>2, <1>3, <1>4, <1>5 DEF Next, CallerStep

\* The inductive invariant holds in every reachable state (acceptRun, settleOperation).
THEOREM LifeInvariant == Spec => []LifeInv
<1>1. TypeInv /\ LifeInv /\ [Next]_vars => LifeInv'
    BY SMTT(30), LifeInvStep
<1> QED
    BY <1>1, LifeInvInit, TypeInvariant, PTL DEF Spec

\* In every reachable state no result belongs to the open operation, an operation has at
\* most one result and an idle lane is uncancelled: whatever passes, aborts and process
\* losses do, settleOperation records an operation once and clears it for good.
THEOREM AtMostOneResult == Spec => []OneResult
<1>1. LifeInv => OneResult
    BY SMTT(30) DEF LifeInv
<1> QED
    BY <1>1, LifeInvariant, PTL

-----------------------------------------------------------------------------
(* The refinement *)

\* The initial state of the lane is one of the abstract lifecycle.
LEMMA LifecycleStart == Init => Life!LifecycleInit
BY DEF Init, NoOp, Life!LifecycleInit

\* Every step of the lane is a step of the abstract lifecycle or leaves it unchanged.
LEMMA LifecycleStep ==
    ASSUME TypeInv, LifeInv, [Next]_vars
    PROVE  [Life!LifecycleNext]_(Life!lifecycleVars)
<1> DEFINE settled == {[op |-> r.op, status |-> r.status] : r \in results}
           cancelled == op.control = "cancel_requested"
<1>1. /\ op.id \in Nat /\ nextId \in Nat /\ \A r \in results : r.op \in Nat
    BY OpFields DEF TypeInv, OpOK, Result
<1>2. CASE UNCHANGED <<op, results>>
    BY <1>2 DEF Life!lifecycleVars
<1>3. CASE DriveStep
    <2>1. op.id # 0 /\ op.control \in Controls
        BY SMTT(30), <1>3, DriveAtWork, AtWork DEF LifeInv
    <2>2. CASE Carried
        BY <2>2 DEF Carried, Life!lifecycleVars
    <2>3. CASE Ended
        <3>1. PICK status \in Statuses, tipId \in Nat :
                 /\ op' = NoOp
                 /\ results' = results \cup {[op |-> op.id, kind |-> op.intent, status |-> status,
                                                  from |-> op.source, tip |-> tipId]}
                 /\ status = "aborted" <=> op.control = "cancel_requested"
            BY <2>3 DEF Ended
        <3>2. settled' = settled \cup {[op |-> op.id, status |-> status]}
            <4> DEFINE new == [op |-> op.id, kind |-> op.intent, status |-> status,
                               from |-> op.source, tip |-> tipId]
            <4>1. results' = results \cup {new} /\ new.op = op.id /\ new.status = status
                BY SMTT(30), <3>1
            <4> HIDE DEF new
            <4>2. settled' = {[op |-> r.op, status |-> r.status] : r \in results \cup {new}}
                BY SMTT(30), <4>1
            <4>3. [op |-> new.op, status |-> new.status] = [op |-> op.id, status |-> status]
                BY SMTT(30), <4>1
            <4> QED
                BY <4>2, <4>3, ZenonT(60)
        <3>3. op'.id = 0 /\ op'.control = "running"
            BY SMTT(30), <3>1 DEF NoOp
        <3>4. Life!Settle(status)
            BY SMTT(30), <2>1, <3>1, <3>2, <3>3 DEF Life!Settle
        <3> QED
            BY <3>4 DEF Life!LifecycleNext, Statuses
    <2> QED
        BY SMTT(30), <1>3, <2>2, <2>3, DriveShape
<1>4. CASE \/ \E prompt \in BOOLEAN : AcceptRun(prompt)
           \/ AcceptCompaction
           \/ AcceptNavigation
           \/ AcceptSummarizedNavigation
    <2>1. op = NoOp /\ op'.id = nextId /\ op'.control = "running" /\ results' = results
        BY SMTT(30), <1>4, AcceptShape
    <2>2. op.id = 0 /\ op.control = "running" /\ nextId \in Nat \ {0}
        BY SMTT(30), <1>1, <2>1 DEF LifeInv, NoOp
    <2>3. \A r \in settled : r.op \in Nat /\ r.op < nextId
        BY SMTT(30), <1>1 DEF LifeInv
    <2>4. Life!Accept
        BY SMTT(30), <2>1, <2>2, <2>3 DEF Life!Accept
    <2> QED
        BY <2>4 DEF Life!LifecycleNext
<1>5. CASE AbortCommit /\ op' # op
    <2>1. /\ op' = [op EXCEPT !.control = "cancel_requested"] /\ op.control = "running"
          /\ op.id = abortReq.op /\ abortReq.op # 0 /\ results' = results
        BY <1>5 DEF AbortCommit, outcome
    <2>2. op'.id = op.id /\ op'.control = "cancel_requested"
        BY <2>1, OpFields DEF Operation
    <2>3. Life!Cancel
        BY SMTT(30), <2>1, <2>2 DEF Life!Cancel
    <2> QED
        BY <2>3 DEF Life!LifecycleNext
<1>6. CASE \/ \E s \in Submissions : Enqueue(s) \/ AppendIdle(s)
           \/ \E x \in inbox : CancelQueued(x)
           \/ \E policy \in DrivePolicies : DriveClaim(policy) \/ DriveJoin(policy)
           \/ \E target \in Ids(entries) \cup Ids(inbox) \cup {Root}, summarize \in BOOLEAN :
                RequestNavigation(target, summarize)
           \/ NavigationRetries \/ NavigationRefused
           \/ AbortBegin \/ RunWhenIdle \/ IdleBlocked \/ IdleCallbackReturns
           \/ DriveReturns \/ Crash \/ Restore \/ UNCHANGED vars
    BY ZenonT(60), <1>2, <1>6 DEF Enqueue, AppendIdle, CancelQueued, DriveClaim, DriveJoin,
       AbortBegin, RequestNavigation, NavigationRetries, NavigationRefused, RunWhenIdle, IdleBlocked,
       IdleCallbackReturns, DriveReturns, Crash, Restore, vars, operation
<1>7. CASE AbortCommit /\ op' = op
    BY <1>2, <1>7 DEF AbortCommit, outcome
<1> QED
    BY SMTT(30), <1>3, <1>4, <1>5, <1>6, <1>7 DEF Next, CallerStep

\* A lane has at most one open operation; it is cancelled at most once, and settles
\* exactly once, for good, with "aborted" exactly when it was cancelled before.  No
\* interleaving of callers, passes, tools and process losses does anything else to
\* an operation (accept, requestOperationAbort, settleOperation).
THEOREM LaneImplementsLifecycle == Spec => ImplementsLifecycle
<1>1. TypeInv /\ LifeInv /\ [Next]_vars => [Life!LifecycleNext]_(Life!lifecycleVars)
    BY LifecycleStep
<1> QED
    BY <1>1, LifecycleStart, TypeInvariant, LifeInvariant, PTL
       DEF Spec, ImplementsLifecycle, Life!LifecycleSpec
=============================================================================
