------------------------------ MODULE DriveRun ------------------------------
(***************************************************************************)
(* The drive loop and the procedures of a run operation: start, checkpoint *)
(* boundaries, assistant generation, deferred polls, retry waits, recovery *)
(* of orphaned requests and cancellation (runtime/drive.ts and             *)
(* runtime/drive/*.ts).                                                    *)
(*                                                                         *)
(* drive.pc is where the pass is.  Between two commands a pass awaits a    *)
(* hook, a provider or a timer; those awaits are program points, and any   *)
(* caller step may happen there.  Reads that only feed a hook or a request *)
(* are part of the step that issues it.                                    *)
(***************************************************************************)
EXTENDS Lane

CONSTANTS
    Outcomes,          \* how a provider request may end
    PollOutcomes,      \* how a deferred poll may end
    HookActions,       \* what hooks may ask for
    EffectWrites,      \* what a running effect may write
    MaxAttempts,       \* retryPolicy.maxRetries + 1
    MaxTurns,          \* bound on responses before providers and hooks only stop
    MaxCalls,          \* bound on the tool calls of a response
    CompactionEnabled  \* settings.compaction.enabled

ProviderOutcomes == {"stop", "calls", "truncated_calls", "no_calls", "transient",
                     "fatal", "overflow", "deferred", "bad_handle"}

ASSUME RunAssumption ==
    /\ HookActions \subseteq {"inject", "follow_up", "block", "terminate", "decline", "supply"}
    /\ EffectWrites \subseteq {"frames", "output", "memo"}
    /\ Outcomes \subseteq ProviderOutcomes /\ PollOutcomes \subseteq ProviderOutcomes
    /\ MaxAttempts \in Nat \ {0} /\ MaxTurns \in Nat /\ MaxCalls \in Nat \ {0}
    /\ CompactionEnabled \in BOOLEAN

Running == op.control = "running"
EffectPending == {"assistant.effect_pending", "deferred.effect_pending"}

\* The drive's own steps that change no durable state.
Local(next) ==
    /\ drive' = next
    /\ UNCHANGED <<tree, queue, operation, phase, tasks, idleOwner, line, history>>
At(pc) == [drive EXCEPT !.pc = pc, !.arg = "none", !.plan = {}]
Goto(pc) == drive' = At(pc) /\ UNCHANGED <<phase, tasks, idleOwner, line>>

\* beginAbort and signalAbort of the pass's own gate.
Signalled(d) == [d EXCEPT !.gate = "aborting", !.signalled = TRUE]

\* A command of the loop: the pass is at `pc` and its job has the line.
Command(pc) == drive.pc = pc /\ DriveTurn(0)

-----------------------------------------------------------------------------
(* Commit shapes *)

\* operationCleanupWrites: the operation-owned addresses the terminal commit of
\* the operation deletes, and the staged tool results it drops.
Cleanup == {a \in owned :
               \/ a.what \in {"args", "memo", "preparation", "output"}
               \/ a.what = "frames" /\ op.at \in EffectPending /\ a.key = op.resp}
Staged == {op.calls[i].id : i \in {j \in DOMAIN op.calls : op.calls[j].status = "outcome_ready"}}

\* The terminal commit: one result record, lane idle, owned state deleted.
Finish(status, tipId) ==
    /\ results' = results \cup {[op |-> op.id, kind |-> op.intent, status |-> status,
                                     from |-> op.source, tip |-> tipId]}
    /\ last' = op.id
    /\ op' = NoOp
    /\ owned' = owned \ Cleanup
    /\ Goto("settled")
    /\ UNCHANGED history

Advance(next) ==
    /\ op' = next
    /\ UNCHANGED <<outcome, history>>

Checkpoint(o, cont, flag, trigger) ==
    [Scope(o) EXCEPT !.at = "checkpoint", !.cont = cont, !.flag = flag, !.trigger = trigger]
AssistantReady(o, trigger, overflowRecoveryUsed, nextAttempt) ==
    [Scope(o) EXCEPT !.at = "assistant.ready", !.trigger = trigger,
                     !.flag = overflowRecoveryUsed, !.attempt = nextAttempt]
\* Faulty variant: the boundary of a standalone compaction.
SummaryDecidingFinishes(o, task, reason, cont, flag, trigger) ==
    [Scope(o) EXCEPT !.at = "summary.deciding", !.task = task, !.reason = reason,
                     !.boundary = "finish"]

SummaryDeciding(o, task, reason, cont, flag, trigger) ==
    [Scope(o) EXCEPT !.at = "summary.deciding", !.task = task, !.reason = reason,
                     !.boundary = "resume_checkpoint", !.cont = cont, !.flag = flag,
                     !.trigger = trigger]

-----------------------------------------------------------------------------
(* The loop *)

\* before_drive, run once per pass unless the operation is already cancelled.  A gate
\* that is closed refuses the hook, and the pass waits for the durable cancellation.
BeforeDrive ==
    /\ phase = "open" /\ drive.pc = "claimed"
    /\ drive.gate = "open" \/ ~Running
    /\ Local(At("loop")) /\ UNCHANGED abortReq

\* continueOperation: an ordinary command that finds the operation cancelled
\* does nothing and the loop turns to reconciliation.  A hook the gate refuses
\* ends the same way, once the cancellation is durable.
ContinuePoints == {"start", "plan", "finish", "intent", "wake", "decide", "attempt", "result"}
FindCancelled ==
    /\ drive.pc \in ContinuePoints /\ DriveTurn(0)
    /\ ~Running
    /\ Local(At("loop"))

-----------------------------------------------------------------------------
(* startRun *)

ReadPrompt ==
    /\ Command("loop") /\ op.at = "starting" /\ Running
    /\ Local(At("start"))

\* before_run returns, with or without a message to inject, and the run starts.
StartRun(inject) ==
    LET injected == IF inject THEN {[id |-> nextId, type |-> "message"]} ELSE {}
    IN  /\ Command("start") /\ Running
        /\ inject => "inject" \in HookActions
        /\ Place({}, injected)
        /\ Advance(Checkpoint(op, "need_assistant", FALSE, TipAfter(injected, tip)))
        /\ nextId' = IF inject THEN nextId + 1 ELSE nextId
        /\ Goto("loop")
        /\ UNCHANGED <<usage, owned>>

-----------------------------------------------------------------------------
(* Boundaries: runCheckpoint and finishRunBoundary *)

\* Faulty variant: a selected write that does not project holds back followUps.
BoundaryInboxWriteHidesFollowUp(followUpWhenNoTrigger) ==
    LET selected == OfKind("write") \cup ByMode(OfKind("steer"), SteeringMode)
    IN  IF followUpWhenNoTrigger /\ selected = {}
        THEN ByMode(OfKind("followUp"), FollowUpMode)
        ELSE selected

\* planBoundaryInbox: all writes, steers by mode and, when nothing selected
\* projects and the run may end here, followUps by mode.
BoundaryInbox(followUpWhenNoTrigger) ==
    LET selected == OfKind("write") \cup ByMode(OfKind("steer"), SteeringMode)
    IN  IF followUpWhenNoTrigger /\ \A x \in selected : x.type = "custom"
        THEN selected \cup ByMode(OfKind("followUp"), FollowUpMode)
        ELSE selected
Projecting(S) == {x \in S : x.type # "custom"}

\* Faulty variant: an older trigger is compacted again.
MayCompactAgain == CompactionEnabled

\* Faulty variant: only a compaction directly under the trigger counts.
MayCompactUnlessAdjacent ==
    /\ CompactionEnabled
    /\ ~\E c \in entries : /\ c.type = "compaction"
                           /\ c.id \in Ancestors(tip)
                           /\ c.parent = op.trigger

\* prepareCompactionThreshold: only input newer than the newest compaction of the
\* branch can call for another.
MayCompact ==
    /\ CompactionEnabled
    /\ ~\E c \in entries : /\ c.type = "compaction"
                           /\ c.id \in Ancestors(tip)
                           /\ op.trigger \in Ancestors(c.id)

\* The token count is read in a command of its own, before the boundary is planned.
RunCheckpoint(threshold) ==
    /\ Command("loop") /\ op.at = "checkpoint" /\ Running
    /\ threshold => MayCompact
    /\ Local([At("plan") EXCEPT !.arg = IF threshold THEN "threshold" ELSE "below"])

PlanBoundary ==
    LET below == drive.arg = "below"
        selected == BoundaryInbox(below /\ op.cont = "may_finish")
        shown == Projecting(selected)
    IN  /\ Command("plan") /\ Running
        /\ \/ /\ shown # {}
              /\ Place(selected, {})
              /\ Advance(AssistantReady(op, Latest(shown).id, FALSE, 1))
              /\ Goto("loop")
              /\ UNCHANGED <<usage, nextId, owned>>
           \/ /\ shown = {} /\ ~below
              /\ Place(selected, {})
              /\ Advance(SummaryDeciding(op, nextId, "threshold", op.cont, op.flag, op.trigger))
              /\ owned' = owned \cup {[what |-> "preparation", key |-> nextId]}
              /\ nextId' = nextId + 1
              /\ Goto("loop")
              /\ UNCHANGED usage
           \/ /\ shown = {} /\ below /\ op.cont = "need_assistant"
              /\ Place(selected, {})
              /\ Advance(AssistantReady(op, op.trigger, op.flag, 1))
              /\ Goto("loop")
              /\ UNCHANGED <<usage, nextId, owned>>
           \/ /\ shown = {} /\ below /\ op.cont = "may_finish"
              /\ Local([At("finish") EXCEPT !.plan = Ids(selected)])

\* finishRunBoundary: before_run_end has returned, and the boundary is planned
\* again.  The hook's follow-up counts only if it saw the same plan.
FinishBoundary(hookFollowUp) ==
    LET selected == BoundaryInbox(TRUE)
        shown == Projecting(selected)
        followUp == hookFollowUp /\ Ids(selected) = drive.plan
    IN  /\ Command("finish") /\ Running
        /\ hookFollowUp => "follow_up" \in HookActions /\ Cardinality(usage) < MaxTurns
        /\ \/ /\ shown # {}
              /\ Place(selected, {})
              /\ Advance(AssistantReady(op, Latest(shown).id, FALSE, 1))
              /\ Goto("loop")
              /\ UNCHANGED <<usage, nextId, owned>>
           \/ /\ shown = {} /\ followUp
              /\ Place(selected, {[id |-> nextId, type |-> "message"]})
              /\ Advance(AssistantReady(op, nextId, FALSE, 1))
              /\ nextId' = nextId + 1
              /\ Goto("loop")
              /\ UNCHANGED <<usage, owned>>
           \/ /\ shown = {} /\ ~followUp
              /\ Place(selected, {})
              /\ Finish("completed", TipAfter(selected, tip))
              /\ UNCHANGED <<usage, nextId>>

-----------------------------------------------------------------------------
(* Requests: generation and deferred polls *)

\* readDeferredSourceHandle
SourceReadable == \E e \in entries : e.id = op.src /\ e.type = "deferred"

\* The model or a configured tool is missing from this process.
ConfigurationFailure ==
    /\ Command("loop") /\ Running
    /\ \/ op.at = "assistant.ready"
       \/ /\ op.at \in {"deferred.suspended", "deferred.effect_pending"}
          /\ SourceReadable /\ drive.permits > 0
    /\ Finish("failed", tip)
    /\ pending' = pending \ Staged
    /\ UNCHANGED <<tree, inbox>>

PrepareGeneration ==
    /\ Command("loop") /\ op.at = "assistant.ready" /\ Running
    /\ Local(At("intent"))

\* Faulty variant: every pass polls.
PreparePollWithoutPermit ==
    /\ Command("loop") /\ op.at \in {"deferred.suspended", "deferred.effect_pending"} /\ Running
    /\ SourceReadable
    /\ Local(At("intent"))

PreparePoll ==
    /\ Command("loop") /\ op.at \in {"deferred.suspended", "deferred.effect_pending"} /\ Running
    /\ SourceReadable
    /\ Local(At(IF drive.permits = 0 THEN "suspended" ELSE "intent"))

SourceFault ==
    /\ Command("loop") /\ op.at \in {"deferred.suspended", "deferred.effect_pending"}
    /\ ~SourceReadable
    /\ phase' = "faulted" /\ drive' = NoDrive
    /\ UNCHANGED <<tree, queue, operation, tasks, idleOwner, line, history>>

\* Reserve the response and usage ids before anything is sent.
GenerationIntent ==
    /\ Command("intent") /\ op.at = "assistant.ready" /\ Running
    /\ Advance([op EXCEPT !.at = "assistant.effect_pending", !.resp = nextId])
    /\ nextId' = nextId + 2
    /\ Goto("admit")
    /\ UNCHANGED <<entries, tip, usage, queue, owned>>

\* Faulty variant: frames of the abandoned poll are kept.
PollIntentKeepsFrames ==
    /\ Command("intent") /\ op.at \in {"deferred.suspended", "deferred.effect_pending"} /\ Running
    /\ Advance([op EXCEPT !.at = "deferred.effect_pending", !.resp = nextId,
                    !.poll = IF op.at = "deferred.suspended" THEN @ + 1 ELSE @])
    /\ nextId' = nextId + 2
    /\ drive' = [At("admit") EXCEPT !.permits = @ - 1]
    /\ UNCHANGED <<entries, tip, usage, queue, owned, phase, tasks, idleOwner, line>>

PollIntent ==
    /\ Command("intent") /\ op.at \in {"deferred.suspended", "deferred.effect_pending"} /\ Running
    /\ Advance([op EXCEPT !.at = "deferred.effect_pending", !.resp = nextId,
                    !.poll = IF op.at = "deferred.suspended" THEN @ + 1 ELSE @])
    /\ owned' = owned \ {[what |-> "frames", key |-> op.resp]}
    /\ nextId' = nextId + 2
    /\ drive' = [At("admit") EXCEPT !.permits = @ - 1]
    /\ UNCHANGED <<entries, tip, usage, queue, phase, tasks, idleOwner, line>>

\* History of started effects.
Start(id, replay) ==
    /\ ran' = ran \cup {id}
    /\ reran' = reran \cup {[id |-> i, replay |-> replay] : i \in {id} \cap ran}
    /\ UNCHANGED <<submitted, drained, withdrawn, crashes>>

\* Faulty variant: the request is not admitted through the gate.
AdmitRequestUngated(id) ==
    /\ phase = "open" /\ drive.pc = "admit"
    /\ Start(id, "never")
    /\ drive' = At("effect")
    /\ UNCHANGED <<tree, queue, operation, phase, tasks, abortReq, idleOwner, line>>

\* gate.admit: the request starts while the gate is open; otherwise the pass
\* waits until the cancellation is durable.
AdmitRequest(id) ==
    /\ phase = "open" /\ drive.pc = "admit"
    /\ drive.gate = "open"
    /\ Start(id, "never")
    /\ drive' = At("effect")
    /\ UNCHANGED <<tree, queue, operation, phase, tasks, abortReq, idleOwner, line>>

\* Faulty variant: the refused pass is released only while the abort is pending.
RequestRefusedEarly ==
    /\ phase = "open" /\ drive.pc = "admit"
    /\ drive.gate = "aborting" /\ abortReq.op # 0
    /\ Local(At("loop")) /\ UNCHANGED abortReq

RequestRefused ==
    /\ phase = "open" /\ drive.pc = "admit"
    /\ drive.gate = "aborting" /\ abortReq.op = 0
    /\ Local(At("loop")) /\ UNCHANGED abortReq

\* A streamed frame is appended while the request runs; settlement waits for the
\* last one.
Frame ==
    /\ "frames" \in EffectWrites
    /\ phase = "open" /\ drive.pc = "effect" /\ op.at \in EffectPending
    /\ owned' = owned \cup {[what |-> "frames", key |-> op.resp]}
    /\ UNCHANGED <<tree, queue, op, outcome, process, line, history>>

\* A provider reports "aborted" only once its signal has fired.
RequestReturns(result, possible) ==
    /\ phase = "open" /\ drive.pc = "effect"
    /\ \/ result \in possible /\ Cardinality(usage) < MaxTurns
       \/ result = "stop"
       \/ result = "aborted" /\ drive.signalled
    /\ Local([At("settle") EXCEPT !.arg = result]) /\ UNCHANGED abortReq

\* recoverAssistantGeneration: the pass finds a request nobody is waiting for.
RecoverAssistant ==
    /\ Command("loop") /\ op.at = "assistant.effect_pending" /\ Running
    /\ Local([At("settle") EXCEPT !.arg = "recovered"])

-----------------------------------------------------------------------------
(* publishResponse *)

Response(type) ==
    /\ entries' = entries \cup {[id |-> op.resp, type |-> type, parent |-> tip]}
    /\ tip' = op.resp
    /\ usage' = usage \cup {op.resp + 1}
    /\ inbox' = inbox
Answered == [op EXCEPT !.latest = op.resp]

SettleNext(type, next, extra) ==
    /\ Response(type)
    /\ Advance(next)
    /\ owned' = (owned \ {[what |-> "frames", key |-> op.resp]}) \cup extra
    /\ Goto("loop")
    /\ UNCHANGED pending

SettleFailed ==
    /\ Response("assistant")
    /\ Finish("failed", op.resp)
    /\ pending' = pending \ Staged
    /\ UNCHANGED nextId

FromAssistant == op.at = "assistant.effect_pending"

\* Faulty variant: a lost attempt does not count.
RetryableAfterLoss ==
    /\ FromAssistant
    /\ drive.arg = "recovered" \/ (drive.arg = "transient" /\ op.attempt < MaxAttempts)

Retryable ==
    /\ FromAssistant
    /\ drive.arg \in {"recovered", "transient"}
    /\ op.attempt < MaxAttempts

\* Faulty variant: the result ids are drawn one too far.
PlannedCallsShifted(n) == [i \in 1 .. n |-> [status |-> "planned", id |-> nextId + i,
                                             replay |-> "never", terminate |-> FALSE]]

\* Planned calls with their reserved result ids.  flag: the response was cut off
\* by its output limit.
PlannedCalls(n) == [i \in 1 .. n |-> [status |-> "planned", id |-> nextId + i - 1,
                                      replay |-> "never", terminate |-> FALSE]]

SettleResponse ==
    /\ Command("settle") /\ op.at \in EffectPending
    /\ \/ /\ ~Running
          /\ SettleNext("assistant", Checkpoint(Answered, "may_finish", TRUE, op.resp), {})
          /\ UNCHANGED nextId
       \/ /\ Running /\ drive.arg = "overflow" /\ FromAssistant /\ ~op.flag
          /\ SettleNext("assistant",
                        SummaryDeciding(Answered, nextId, "overflow", "need_assistant", TRUE, op.trigger),
                        {[what |-> "preparation", key |-> nextId]})
          /\ nextId' = nextId + 1
       \/ /\ Running
          /\ drive.arg = "deferred" \/ (drive.arg = "bad_handle" /\ ~FromAssistant)
          /\ SettleNext(IF drive.arg = "deferred" THEN "deferred" ELSE "assistant",
                        [Scope(Answered) EXCEPT !.at = "deferred.suspended", !.src = op.resp,
                                                !.poll = op.poll], {})
          /\ UNCHANGED nextId
       \/ /\ Running /\ Retryable
          /\ SettleNext("assistant",
                        [AssistantReady(Answered, op.trigger, op.flag, op.attempt + 1)
                             EXCEPT !.at = "assistant.retry_wait"], {})
          /\ UNCHANGED nextId
       \/ /\ Running /\ drive.arg \in {"calls", "truncated_calls"}
          /\ \E n \in 1 .. MaxCalls :
               /\ SettleNext("tool_use",
                             [Scope(Answered) EXCEPT !.at = "tools", !.calls = PlannedCalls(n),
                                                     !.flag = (drive.arg = "truncated_calls")], {})
               /\ nextId' = nextId + n
       \/ /\ Running /\ drive.arg = "stop"
          /\ SettleNext("assistant", Checkpoint(Answered, "may_finish", TRUE, op.resp), {})
          /\ UNCHANGED nextId
       \/ /\ Running
          /\ \/ drive.arg \in {"fatal", "no_calls", "overflow"}
             \/ drive.arg = "bad_handle" /\ FromAssistant
             \/ drive.arg \in {"recovered", "transient"} /\ ~Retryable
          /\ SettleFailed

-----------------------------------------------------------------------------
(* Retry waits *)

RetryWait ==
    /\ phase = "open" /\ drive.pc = "loop"
    /\ op.at \in RetryWaits /\ Running
    /\ \/ Local(At("wake"))                                  \* due
       \/ ~drive.wait /\ Local(At("retry"))
       \/ drive.wait /\ drive.gate = "open" /\ Local(At("timer"))
    /\ UNCHANGED abortReq

\* The timer reaches notBefore, or the gate's signal wakes it.
TimerEnds ==
    /\ phase = "open" /\ drive.pc = "timer"
    /\ Local(At("wake")) /\ UNCHANGED abortReq

RetryCommit ==
    /\ Command("wake") /\ Running
    /\ Advance([op EXCEPT !.at = IF @ = "assistant.retry_wait" THEN "assistant.ready"
                                                             ELSE "summary.ready"])
    /\ Goto("loop")
    /\ UNCHANGED <<tree, queue, owned>>

-----------------------------------------------------------------------------
(* reconcileOperation *)

\* An admitted request whose outcome is unknown settles as aborted; a deferred one
\* is cancelled at the provider first, best effort.
ReconcileRequest ==
    /\ Command("loop") /\ op.at \in EffectPending /\ ~Running
    /\ op.at = "deferred.effect_pending" => SourceReadable
    /\ Local(Signalled([At("settle") EXCEPT !.arg = "recovered"]))

\* Faulty variant: an open tool batch is abandoned.
AbortedTerminalInBatch ==
    /\ Command("loop") /\ op.at \notin EffectPending /\ ~Running
    /\ op.at = "deferred.suspended" => SourceReadable
    /\ Finish("aborted", tip)
    /\ pending' = pending \ Staged
    /\ UNCHANGED <<tree, inbox>>

AbortedTerminal ==
    /\ Command("loop") /\ op.at \notin EffectPending \cup {"tools"} /\ ~Running
    /\ op.at = "deferred.suspended" => SourceReadable
    /\ Finish("aborted", tip)
    /\ pending' = pending \ Staged
    /\ UNCHANGED <<tree, inbox>>

RunStep ==
    \/ BeforeDrive \/ FindCancelled
    \/ ReadPrompt
    \/ \E inject \in BOOLEAN : StartRun(inject)
    \/ \E threshold \in BOOLEAN : RunCheckpoint(threshold)
    \/ PlanBoundary
    \/ \E followUp \in BOOLEAN : FinishBoundary(followUp)
    \/ ConfigurationFailure
    \/ PrepareGeneration \/ PreparePoll \/ SourceFault
    \/ GenerationIntent \/ PollIntent
    \/ op.at \in EffectPending /\ AdmitRequest(op.resp)
    \/ RequestRefused \/ Frame
    \/ \E result \in ProviderOutcomes \cup {"aborted"} :
         \/ FromAssistant /\ RequestReturns(result, Outcomes)
         \/ op.at = "deferred.effect_pending" /\ RequestReturns(result, PollOutcomes)
    \/ RecoverAssistant \/ SettleResponse
    \/ RetryWait \/ TimerEnds \/ RetryCommit
    \/ ReconcileRequest \/ AbortedTerminal
=============================================================================
