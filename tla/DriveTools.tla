----------------------------- MODULE DriveTools -----------------------------
(***************************************************************************)
(* Tool batches (runtime/drive/tools.ts and tool-placement.ts): intent,    *)
(* execution, staging of outcomes and placement of the results in source   *)
(* order, with recovery of calls whose process was lost.                   *)
(*                                                                         *)
(* tasks has one task per call the pass handles now.  A sequential batch   *)
(* has one at a time; a parallel batch starts them one after the other and *)
(* lets them run together.  A task is waiting, at its intent command, at   *)
(* the gate, executing, at its outcome command, or waiting to place or     *)
(* placing what is ready.                                                  *)
(***************************************************************************)
EXTENDS DriveRun

CONSTANTS
    ToolExecution,   \* settings.toolExecution: "sequential" or "parallel"
    Replays          \* replay classes of the tools

ASSUME ToolsAssumption ==
    /\ ToolExecution \in {"sequential", "parallel"}
    /\ Replays \subseteq {"never", "safe"} /\ Replays # {}

Calls == DOMAIN op.calls
Incomplete == {i \in Calls : op.calls[i].status # "completed"}
First == CHOOSE i \in Incomplete : \A j \in Incomplete : i <= j

\* Faulty variant: whatever is staged is placed.
ReadyAnywhere == {i \in Incomplete : op.calls[i].status = "outcome_ready"}

\* The contiguous run of staged outcomes after the completed calls.
ReadyPrefix == {i \in Incomplete : \A j \in Incomplete : j <= i => op.calls[j].status = "outcome_ready"}
ResultIds(S) == {op.calls[i].id : i \in S}

TaskAt(i, at) == tasks' = [tasks EXCEPT ![i].at = at]
Staging(i, result) == tasks' = [tasks EXCEPT ![i] = [at |-> "settle", result |-> result]]
OnlyTasks == UNCHANGED <<tree, queue, operation, phase, drive, idleOwner, line>>

-----------------------------------------------------------------------------
(* Placement *)

\* Faulty variant: a placement also takes the steering input.
ResultItemsAndSteer ==
    {[id |-> id, type |-> "result"] : id \in drive.plan}
        \cup {[id |-> x.id, type |-> x.type] : x \in OfKind("steer")}

ResultItems == {[id |-> id, type |-> "result"] : id \in drive.plan}

\* Faulty variant: results are inserted under the response that called the tools.
ResultEntriesUnderResponse == Chained(ResultItems, op.latest)

ResultEntries == Chained(ResultItems, tip)

\* readPlacement names what is ready; commitPlacement inserts exactly that, even
\* if more outcomes were staged in between.
PlaceResults ==
    LET placed == {i \in Calls : op.calls[i].id \in drive.plan}
        calls == [i \in Calls |-> IF i \in placed THEN [op.calls[i] EXCEPT !.status = "completed"]
                                                  ELSE op.calls[i]]
        answered == TipAfter(ResultItems, tip)
        allTerminate == \A i \in Calls : calls[i].terminate
    IN  /\ entries' = entries \cup ResultEntries
        /\ tip' = answered
        /\ pending' = pending \ drive.plan
        /\ IF \A i \in Calls : calls[i].status = "completed"
           THEN /\ Advance(Checkpoint(op, IF allTerminate THEN "may_finish" ELSE "need_assistant",
                                      FALSE, answered))
                /\ owned' = {a \in owned : a.what # "args"}
           ELSE /\ Advance([op EXCEPT !.calls = calls])
                /\ UNCHANGED owned
        /\ UNCHANGED <<inbox, usage, nextId, phase, idleOwner, line>>

\* runTools places what an earlier pass left ready before it starts anything.
FindReady ==
    /\ Command("loop") /\ op.at = "tools"
    /\ ReadyPrefix # {}
    /\ LET next == [At("place") EXCEPT !.plan = ResultIds(ReadyPrefix)]
       IN  Local(IF Running THEN next ELSE Signalled(next))

PlaceReady ==
    /\ Command("place")
    /\ PlaceResults
    /\ drive' = At("loop")
    /\ UNCHANGED tasks

\* A parallel batch chains its materializations, so one places at a time.
ReadPlacement(i) ==
    /\ DriveTurn(i) /\ tasks[i].at = "place"
    /\ \A j \in DOMAIN tasks : tasks[j].at # "placing"
    /\ IF op.at = "tools" /\ ReadyPrefix # {}
       THEN /\ TaskAt(i, "placing")
            /\ drive' = [drive EXCEPT !.plan = ResultIds(ReadyPrefix)]
       ELSE /\ TaskAt(i, "done")
            /\ UNCHANGED drive
    /\ UNCHANGED <<tree, queue, operation, phase, idleOwner, line, history>>

CommitPlacement(i) ==
    /\ DriveTurn(i) /\ tasks[i].at = "placing"
    /\ PlaceResults
    /\ TaskAt(i, "done")
    /\ drive' = [drive EXCEPT !.plan = {}]

-----------------------------------------------------------------------------
(* Outcomes *)

\* Faulty variant: memos outlive their call.
StageOutcomeKeepsMemos(i, terminate) ==
    LET call == op.calls[i]
    IN  /\ Advance([op EXCEPT !.calls[i] = [call EXCEPT !.status = "outcome_ready",
                                                       !.terminate = terminate /\ Running]])
        /\ pending' = pending \cup {call.id}
        /\ owned' = owned \ {[what |-> "output", key |-> call.id]}
        /\ UNCHANGED <<tree, inbox, phase, idleOwner, line>>

\* Faulty variant: the result is staged without its payload.
StageOutcomeWithoutPayload(i, terminate) ==
    LET call == op.calls[i]
    IN  /\ Advance([op EXCEPT !.calls[i] = [call EXCEPT !.status = "outcome_ready",
                                                       !.terminate = terminate /\ Running]])
        /\ owned' = {a \in owned : ~(a.what \in {"output", "memo"} /\ a.key = call.id)}
        /\ UNCHANGED <<tree, inbox, pending, phase, idleOwner, line>>

\* Faulty variant: the values of all calls are dropped, not those of this one.
StageOutcomeDropsArgs(i, terminate) ==
    LET call == op.calls[i]
    IN  /\ Advance([op EXCEPT !.calls[i] = [call EXCEPT !.status = "outcome_ready",
                                                       !.terminate = terminate /\ Running]])
        /\ pending' = pending \cup {call.id}
        /\ owned' = {a \in owned : a.what \notin {"output", "memo", "args"}}
        /\ UNCHANGED <<tree, inbox, phase, idleOwner, line>>

\* publishToolOutcome: stage the result and drop the call's scratch values.
StageOutcome(i, terminate) ==
    LET call == op.calls[i]
    IN  /\ Advance([op EXCEPT !.calls[i] = [call EXCEPT !.status = "outcome_ready",
                                                       !.terminate = terminate /\ Running]])
        /\ pending' = pending \cup {call.id}
        /\ owned' = {a \in owned : ~(a.what \in {"output", "memo"} /\ a.key = call.id)}
        /\ UNCHANGED <<tree, inbox, phase, idleOwner, line>>

\* Cancelled batch: no call is started; a planned one is answered as aborted and
\* one whose effect may have happened as interrupted.
SettleUnstarted ==
    /\ Command("loop") /\ op.at = "tools" /\ ~Running
    /\ ReadyPrefix = {}
    /\ StageOutcome(First, FALSE)
    /\ drive' = Signalled(At("loop"))
    /\ UNCHANGED tasks

PublishOutcome(i, terminate) ==
    /\ DriveTurn(i) /\ tasks[i].at = "settle"
    /\ terminate => tasks[i].result = "finished" /\ "terminate" \in HookActions
    /\ StageOutcome(i, terminate)
    /\ TaskAt(i, "place")
    /\ UNCHANGED drive

-----------------------------------------------------------------------------
(* Invocations *)

\* Faulty variant: a sequential batch starts like a parallel one.
RunToolsTogether ==
    LET open == {i \in Incomplete : op.calls[i].status # "outcome_ready"}
    IN  /\ Command("loop") /\ op.at = "tools" /\ Running
        /\ ReadyPrefix = {}
        /\ tasks' = [i \in open |-> [at |-> "waiting", result |-> "none"]]
        /\ drive' = At("tools")
        /\ UNCHANGED <<tree, queue, operation, phase, idleOwner, line, history>>

RunTools ==
    LET open == {i \in Incomplete : op.calls[i].status # "outcome_ready"}
        handled == IF ToolExecution = "sequential" THEN {First} ELSE open
    IN  /\ Command("loop") /\ op.at = "tools" /\ Running
        /\ ReadyPrefix = {}
        /\ tasks' = [i \in handled |-> [at |-> "waiting", result |-> "none"]]
        /\ drive' = At("tools")
        /\ UNCHANGED <<tree, queue, operation, phase, idleOwner, line, history>>

\* Faulty variant: a call waits for itself to be started.
MayStartAfterItself(i) ==
    /\ phase = "open"
    /\ tasks[i].at = "waiting"
    /\ \A j \in DOMAIN tasks : j <= i => tasks[j].at \notin {"waiting", "intent"}

\* Calls start in source order, each after the one before has published its
\* intent or its refusal.
MayStart(i) ==
    /\ phase = "open"
    /\ tasks[i].at = "waiting"
    /\ \A j \in DOMAIN tasks : j < i => tasks[j].at \notin {"waiting", "intent"}

\* startToolInvocation: a call that is truncated, unknown, invalid or blocked is
\* answered at once; before_tool of another runs and then its intent is committed.
StartPlanned(i) ==
    /\ MayStart(i) /\ op.calls[i].status = "planned"
    /\ \/ ~op.flag /\ TaskAt(i, "intent")
       \/ op.flag /\ Staging(i, "truncated")
       \/ ~op.flag /\ "block" \in HookActions /\ Staging(i, "finished")
    /\ OnlyTasks /\ UNCHANGED <<abortReq, history>>

\* Faulty variant: only the tool of this process is asked.
StartRecoveredByTool(i, tool) ==
    /\ MayStart(i) /\ op.calls[i].status = "effect_pending"
    /\ IF Running /\ tool = "safe" THEN TaskAt(i, "intent") ELSE Staging(i, "interrupted")
    /\ OnlyTasks /\ UNCHANGED <<abortReq, history>>

\* recoverToolInvocation: the effect may have happened.  It runs again only if the
\* call and the tool of this process both are replay: "safe".
StartRecovered(i, tool) ==
    /\ MayStart(i) /\ op.calls[i].status = "effect_pending"
    /\ IF Running /\ op.calls[i].replay = "safe" /\ tool = "safe"
       THEN TaskAt(i, "intent")
       ELSE Staging(i, "interrupted")
    /\ OnlyTasks /\ UNCHANGED <<abortReq, history>>

\* publishToolIntent, or clearReplayCheckpoint of a recovered call.
ToolIntent(i, replay) ==
    /\ DriveTurn(i) /\ tasks[i].at = "intent"
    /\ \/ /\ op.calls[i].status = "planned" /\ Running
          /\ Advance([op EXCEPT !.calls[i] = [@ EXCEPT !.status = "effect_pending", !.replay = replay]])
          /\ owned' = owned \cup {[what |-> "args", key |-> op.calls[i].id]}
          /\ TaskAt(i, "admit")
       \/ /\ op.calls[i].status = "planned" /\ ~Running
          /\ Staging(i, "aborted")
          /\ UNCHANGED <<operation, history>>
       \/ /\ op.calls[i].status = "effect_pending"
          /\ owned' = owned \ {[what |-> "output", key |-> op.calls[i].id]}
          /\ TaskAt(i, "admit")
          /\ UNCHANGED <<op, outcome, history>>
    /\ UNCHANGED <<tree, queue, phase, drive, idleOwner, line>>

\* gate.admit of execute.
AdmitTool(i) ==
    /\ phase = "open" /\ tasks[i].at = "admit"
    /\ \/ /\ drive.gate = "open"
          /\ Start(op.calls[i].id, op.calls[i].replay)
          /\ TaskAt(i, "execute")
       \/ /\ drive.gate = "aborting" /\ abortReq.op = 0
          /\ Staging(i, "aborted")
          /\ UNCHANGED history
    /\ OnlyTasks /\ UNCHANGED abortReq

\* Checkpointed output and memos.  A write a tool did not await may still be
\* queued when the tool returns; the call must still be effect_pending.
ToolWrites(i, what) ==
    /\ phase = "open"
    /\ tasks[i].at = "execute" \/ (what = "memo" /\ tasks[i].at = "settle" /\ tasks[i].result = "finished")
    /\ op.calls[i].status = "effect_pending"
    /\ owned' = owned \cup {[what |-> what, key |-> op.calls[i].id]}
    /\ UNCHANGED <<tree, queue, op, outcome, process, line, history>>

ToolReturns(i) ==
    /\ phase = "open" /\ tasks[i].at = "execute"
    /\ Staging(i, "finished")
    /\ OnlyTasks /\ UNCHANGED <<abortReq, history>>

ToolsDone ==
    /\ phase = "open" /\ drive.pc = "tools"
    /\ \A i \in DOMAIN tasks : tasks[i].at = "done"
    /\ tasks' = <<>>
    /\ drive' = At("loop")
    /\ UNCHANGED <<tree, queue, operation, phase, abortReq, idleOwner, line, history>>

ToolStep ==
    \/ FindReady \/ PlaceReady \/ SettleUnstarted \/ RunTools \/ ToolsDone
    \/ \E i \in DOMAIN tasks :
         \/ StartPlanned(i)
         \/ \E tool \in Replays : StartRecovered(i, tool)
         \/ \E replay \in Replays : ToolIntent(i, replay)
         \/ AdmitTool(i) \/ ToolReturns(i)
         \/ \E what \in EffectWrites \ {"frames"} : ToolWrites(i, what)
         \/ \E terminate \in BOOLEAN : PublishOutcome(i, terminate)
         \/ ReadPlacement(i) \/ CommitPlacement(i)
=============================================================================
