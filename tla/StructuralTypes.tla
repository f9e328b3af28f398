--------------------------- MODULE StructuralTypes ---------------------------
(***************************************************************************)
(* Type correctness of the lane, last part: tool invocations, compaction   *)
(* and navigation, and the theorem.                                        *)
(***************************************************************************)
EXTENDS ToolTypes

-----------------------------------------------------------------------------
(* Invocations *)

\* The calls a pass may still start.
LEMMA OpenCalls ==
    ASSUME TypeInv, ReadyPrefix = {}, op.at = "tools"
    PROVE  /\ First \in Incomplete /\ op.calls[First].status # "outcome_ready"
           /\ \A i \in Incomplete : op.calls[i].status # "outcome_ready" =>
                i \in Calls /\ i \in Nat /\ op.calls[i].status \in {"planned", "effect_pending"}
<1>1. Incomplete # {}
    BY DEF TypeInv, OpOK
<1>2. First \in Incomplete /\ \A j \in Incomplete : First <= j
    BY <1>1, FirstIncomplete
<1>3. Incomplete \subseteq Nat /\ Incomplete \subseteq Calls
    BY OpFields DEF Incomplete, Calls
<1>4. \A j \in Incomplete : j <= First => j = First
    BY <1>2, <1>3
<1>5. op.calls[First].status # "outcome_ready"
    BY <1>2, <1>4 DEF ReadyPrefix
<1>6. \A i \in Incomplete : op.calls[i].status \in CallStatuses \ {"completed"}
    BY <1>3, CallType DEF Call, Incomplete
<1> QED
    BY <1>2, <1>3, <1>5, <1>6 DEF CallStatuses

\* Entering a batch, sequential or parallel, preserves the type invariant.
LEMMA RunToolsTyped ==
    ASSUME TypeInv, RunTools
    PROVE  TypeInv'
<1> DEFINE open == {i \in Incomplete : op.calls[i].status # "outcome_ready"}
           handled == IF ToolExecution = "sequential" THEN {First} ELSE open
<1>1. /\ drive.pc = "loop" /\ abortReq' \in Request /\ op.at = "tools" /\ ReadyPrefix = {}
      /\ tasks' = [i \in handled |-> [at |-> "waiting", result |-> "none"]]
      /\ drive' = At("tools")
      /\ UNCHANGED <<tree, queue, operation, phase, idleOwner, line, history>>
    BY CommandType DEF RunTools
<1>2. \A i \in handled : i \in Calls /\ i \in Nat /\ op.calls[i].status \in {"planned", "effect_pending"}
    BY <1>1, OpenCalls
<1> HIDE DEF handled
<1>3. DOMAIN tasks' = handled /\ \A i \in handled : tasks'[i] = [at |-> "waiting", result |-> "none"]
    BY <1>1
<1>4. [at |-> "waiting", result |-> "none"] \in Task
    BY DEF Task, TaskPoints, TaskResults
<1>5. /\ drive' \in Pass /\ drive'.op = drive.op /\ drive'.plan = {} /\ drive'.pc = "tools"
    BY <1>1, AtType DEF TypeInv, PassOK, Points
<1>6. DOMAIN tasks' \subseteq Nat /\ tasks' \in [DOMAIN tasks' -> Task]
    BY SMTT(30), <1>1, <1>2, <1>3, <1>4
<1>7. PassOK'
    BY SMTT(30), <1>1, <1>5, <1>6 DEF TypeInv, PassOK, operation, Resting
<1>8. BatchOK'
    BY <1>1, <1>2, <1>3 DEF BatchOK, Calls, operation
<1>9. OwnerOK' /\ HistoryOK'
    BY <1>1 DEF TypeInv, OwnerOK, line, navigation, HistoryOK, history
<1> QED
    BY SMTT(30), <1>1, <1>7, <1>8, <1>9, ProcessTyped

\* Leaving a batch preserves the type invariant.
LEMMA ToolsDoneTyped ==
    ASSUME TypeInv, ToolsDone
    PROVE  TypeInv'
<1>1. /\ drive.pc = "tools" /\ tasks' = <<>> /\ drive' = At("loop")
      /\ UNCHANGED <<tree, queue, operation, phase, abortReq, idleOwner, line, history>>
    BY DEF ToolsDone
<1>2. DOMAIN tasks' = {} /\ tasks' \in [DOMAIN tasks' -> Task] /\ DOMAIN tasks' \subseteq Nat
    BY <1>1, NoTasksType
<1>3. /\ drive' \in Pass /\ drive'.op = drive.op /\ drive'.plan = {} /\ drive'.pc = "loop"
    BY <1>1, AtType DEF TypeInv, PassOK, Points
<1>4. PassOK'
    BY SMTT(30), <1>1, <1>2, <1>3 DEF TypeInv, PassOK, operation, Resting
<1>5. BatchOK'
    BY <1>2 DEF BatchOK
<1>6. OwnerOK' /\ HistoryOK'
    BY SMTT(30), <1>1 DEF TypeInv, OwnerOK, line, navigation, HistoryOK, history
<1> QED
    BY SMTT(30), <1>1, <1>4, <1>5, <1>6, ProcessTyped

\* Steps of a task that change nothing durable.
LEMMA TaskStepsTyped ==
    ASSUME TypeInv, NEW i \in DOMAIN tasks,
           StartPlanned(i) \/ (\E tool \in Replays : StartRecovered(i, tool)) \/ AdmitTool(i) \/ ToolReturns(i)
    PROVE  TypeInv'
<1>1. {"intent", "execute", "settle"} \subseteq TaskPoints \ {"placing"} /\ Unstaged \subseteq TaskPoints
    BY DEF TaskPoints, Unstaged
<1>2. {"truncated", "finished", "interrupted", "aborted"} \subseteq TaskResults
    BY SMTT(30) DEF TaskResults
<1>3. tasks[i].at \in Unstaged
    BY DEF StartPlanned, StartRecovered, AdmitTool, ToolReturns, MayStart, Unstaged, TaskPoints
<1>4. HistoryOK'
    <2>1. CASE AdmitTool(i) /\ Start(op.calls[i].id, op.calls[i].replay)
        BY SMTT(30), <1>3, <2>1, UnstagedCall, CallType, StartedType
    <2>2. CASE UNCHANGED history
        BY SMTT(30), <2>2 DEF TypeInv, HistoryOK, history
    <2> QED
        BY <2>1, <2>2 DEF StartPlanned, StartRecovered, AdmitTool, ToolReturns
<1>5. OnlyTasks /\ abortReq' = abortReq
    BY DEF StartPlanned, StartRecovered, AdmitTool, ToolReturns
<1>6. Moved(i, "intent") \/ Moved(i, "execute") \/ Moved(i, "settle")
    <2>1. \/ TaskAt(i, "intent") \/ TaskAt(i, "execute")
          \/ Staging(i, "truncated") \/ Staging(i, "finished")
          \/ Staging(i, "interrupted") \/ Staging(i, "aborted")
        BY DEF StartPlanned, StartRecovered, AdmitTool, ToolReturns
    <2> QED
        BY SMTT(30), <1>1, <1>2, <2>1, TaskAtType, StagingType
<1>7. abortReq' \in Request
    BY <1>5 DEF TypeInv, PassOK
<1> QED
    BY SMTT(30), <1>1, <1>3, <1>4, <1>5, <1>6, <1>7, TaskTyped DEF OnlyTasks

\* publishToolIntent preserves the type invariant.
LEMMA ToolIntentTyped ==
    ASSUME TypeInv, NEW i \in DOMAIN tasks, NEW replay \in Replays, ToolIntent(i, replay)
    PROVE  TypeInv'
<1>1. /\ abortReq' \in Request /\ tasks[i].at = "intent"
      /\ UNCHANGED <<tree, queue, phase, drive, idleOwner, line>>
    BY TurnType DEF ToolIntent
<1>2. tasks[i].at \in Unstaged /\ i \in Calls
    BY <1>1, UnstagedCall DEF Unstaged, TaskPoints
<1>3. {"admit", "settle"} \subseteq TaskPoints \ {"placing"} /\ "aborted" \in TaskResults
    BY DEF TaskPoints, TaskResults
<1>4. TreeOK' /\ OwnerOK' /\ UNCHANGED <<nextId, phase, drive>>
    BY SMTT(30), <1>1 DEF TypeInv, TreeOK, OwnerOK, line, navigation, tree, queue
<1>5. CASE /\ Advance([op EXCEPT !.calls[i] = [@ EXCEPT !.status = "effect_pending", !.replay = replay]])
           /\ owned' = owned \cup {[what |-> "args", key |-> op.calls[i].id]}
           /\ TaskAt(i, "admit")
    <2> DEFINE call == [op.calls[i] EXCEPT !.status = "effect_pending", !.replay = replay]
    <2>1. replay \in ReplayClasses
        BY ToolsAssumption DEF ReplayClasses
    <2>2. call \in Call /\ call.id = op.calls[i].id /\ call.status = "effect_pending"
        BY Zenon, <1>2, <2>1, CallType DEF Call, CallStatuses
    <2>3. Advance([op EXCEPT !.calls[i] = call])
        BY <1>5
    <2> HIDE DEF call
    <2>4. owned' \subseteq Address
        BY <1>2, <1>5, CallType, OpFields DEF Address, OwnedKinds
    <2>5. /\ OpOK' /\ HistoryOK' /\ op'.id = op.id /\ op'.at = op.at /\ Calls' = Calls
          /\ op'.calls[i] = call /\ \A j \in Calls : j # i => op'.calls[j] = op.calls[j]
        BY SMTT(30), <1>2, <1>4, <2>2, <2>3, <2>4, CallChanged
    <2>6. Moved(i, "admit")
        BY SMTT(30), <1>3, <1>5, TaskAtType
    <2>7. op'.calls[i].id = op.calls[i].id /\ op'.calls[i].status \in {"planned", "effect_pending"}
        BY SMTT(30), <2>2, <2>5
    <2> QED
        BY SMTT(30), <1>1, <1>2, <1>3, <1>4, <2>5, <2>6, <2>7, TaskCallTyped
<1>6. CASE Staging(i, "aborted") /\ UNCHANGED <<operation, history>>
    <2>1. HistoryOK' /\ Moved(i, "settle")
        BY SMTT(30), <1>3, <1>6, StagingType DEF TypeInv, HistoryOK, history
    <2> QED
        BY SMTT(30), <1>1, <1>2, <1>3, <1>6, <2>1, TaskTyped
<1>7. CASE /\ owned' = owned \ {[what |-> "output", key |-> op.calls[i].id]}
           /\ TaskAt(i, "admit") /\ UNCHANGED <<op, outcome, history>>
    <2>1. Moved(i, "admit") /\ Calls' = Calls /\ op' = op
        BY SMTT(30), <1>3, <1>7, TaskAtType DEF Calls
    <2>2. OpOK' /\ HistoryOK'
        <3>1. owned \subseteq Address /\ owned' \subseteq owned
            BY SMTT(30), <1>7 DEF TypeInv, OpOK
        <3>2. UNCHANGED <<op, results, last, nextId>>
            BY SMTT(30), <1>4, <1>7 DEF outcome
        <3>3. OpOK'
            BY SMTT(30), <3>1, <3>2 DEF TypeInv, OpOK, Calls, Incomplete
        <3>4. HistoryOK'
            BY Zenon, <1>7 DEF TypeInv, HistoryOK, history
        <3> QED
            BY Zenon, <3>3, <3>4
    <2>3. op'.calls[i].status \in {"planned", "effect_pending"}
        BY <1>2, <2>1, UnstagedCall
    <2> QED
        BY SMTT(30), <1>1, <1>2, <1>3, <1>4, <2>1, <2>2, <2>3, TaskCallTyped
<1> QED
    BY <1>5, <1>6, <1>7 DEF ToolIntent

\* The memos and the progress a running tool stores preserve the type invariant.
LEMMA ToolWritesTyped ==
    ASSUME TypeInv, NEW i \in DOMAIN tasks, NEW what \in EffectWrites \ {"frames"}, ToolWrites(i, what)
    PROVE  TypeInv'
<1>1. /\ owned' = owned \cup {[what |-> what, key |-> op.calls[i].id]}
      /\ UNCHANGED <<tree, queue, op, outcome, process, line, history>>
    BY DEF ToolWrites
<1>2. i \in Calls
    BY UnstagedCall DEF ToolWrites, Unstaged, TaskPoints
<1>3. what \in OwnedKinds
    BY RunAssumption DEF OwnedKinds
<1>4. owned' \subseteq Address
    BY SMTT(30), <1>1, <1>2, <1>3, CallType, OpFields DEF Address
<1> QED
    BY ZenonT(60), <1>1, <1>4, OwnedTyped

\* Every step of a tool batch keeps the types.
LEMMA ToolStepTyped ==
    ASSUME TypeInv, ToolStep
    PROVE  TypeInv'
BY SMTT(30), FindReadyTyped, PlaceReadyTyped, SettleUnstartedTyped, RunToolsTyped, ToolsDoneTyped,
   TaskStepsTyped, ToolIntentTyped, ToolWritesTyped, PublishOutcomeTyped, ReadPlacementTyped,
   CommitPlacementTyped DEF ToolStep

-----------------------------------------------------------------------------
(* publishStructuralOutcome *)

\* The entry a summary is stored as is typed.
LEMMA SummaryEntryType ==
    ASSUME TypeInv, NEW id \in Nat
    PROVE  SummaryEntry(id) \in Entry
<1>1. {"branch_summary", "compaction"} \subseteq EntryTypes
    BY Names
<1> QED
    BY <1>1, OpFields DEF SummaryEntry, Entry

\* A compaction inside a run that gives control back to it preserves the type invariant.
LEMMA ResumeRunTyped ==
    ASSUME TypeInv, NEW kind, NEW id \in Nat, ResumeRun(kind, id),
           drive.pc \notin Resting \cup {"tools"}, abortReq' \in Request,
           nextId' \in Nat, nextId <= nextId', usage' \subseteq Nat,
           kind = "declined" => UNCHANGED <<usage, nextId>>
    PROVE  TypeInv'
<1> DEFINE head == IF kind = "summary" THEN {SummaryEntry(id)} ELSE {}
           from == IF kind = "summary" THEN id ELSE tip
           declinedEnd == kind = "declined" /\ op.cont = "may_finish"
           selected == BoundaryInbox(declinedEnd)
           shown == Projecting(selected)
<1>1. selected \subseteq inbox /\ shown \subseteq inbox
    BY SelectedQueued DEF TypeInv, Projecting
<1>2. head \subseteq Entry /\ from \in Nat
    BY SummaryEntryType, OpFields
<1>3. \/ /\ kind = "declined"
         /\ drive' = [At("finish") EXCEPT !.plan = Ids(selected)]
         /\ UNCHANGED <<entries, tip, queue, operation, phase, tasks, idleOwner, line, history>>
      \/ /\ PlaceUnder(from, head, selected, {})
         /\ \/ shown # {} /\ Advance(AssistantReady(op, Latest(shown).id, FALSE, 1))
            \/ Advance(AssistantReady(op, op.trigger, op.flag, 1))
            \/ Advance(Checkpoint(op, op.cont, op.flag, op.trigger))
         /\ Goto("loop") /\ UNCHANGED owned
    BY Zenon DEF ResumeRun
<1> HIDE DEF head, from, declinedEnd, selected, shown
<1>4. CASE /\ kind = "declined"
           /\ drive' = [At("finish") EXCEPT !.plan = Ids(selected)]
           /\ UNCHANGED <<entries, tip, queue, operation, phase, tasks, idleOwner, line, history>>
    <2>1. Ids(selected) \in SUBSET Nat /\ \A i \in Ids(selected) : i < nextId
        BY SMTT(30), <1>1, QueuedIds
    <2>2. /\ At("finish") \in Pass /\ At("finish").pc = "finish" /\ At("finish").op = drive.op
        BY AtType DEF TypeInv, PassOK, Points, CommandPoints
    <2> DEFINE next == [At("finish") EXCEPT !.plan = Ids(selected)]
    <2>3. /\ next \in Pass /\ next.pc = "finish" /\ next.op = drive.op /\ next.plan = Ids(selected)
        BY <2>1, <2>2 DEF Pass
    <2>4. Local(next)
        BY <1>4 DEF Local, tree
    <2> HIDE DEF next
    <2> QED
        BY SMTT(30), <2>1, <2>3, <2>4, LocalTyped
<1>5. CASE /\ PlaceUnder(from, head, selected, {})
           /\ \/ shown # {} /\ Advance(AssistantReady(op, Latest(shown).id, FALSE, 1))
              \/ Advance(AssistantReady(op, op.trigger, op.flag, 1))
              \/ Advance(Checkpoint(op, op.cont, op.flag, op.trigger))
           /\ Goto("loop") /\ UNCHANGED owned
    <2>1. TreeOK' /\ owned' \subseteq Address
        BY SMTT(30), <1>1, <1>2, <1>5, PlacedTree, OpFields
    <2>2. CASE shown # {} /\ Advance(AssistantReady(op, Latest(shown).id, FALSE, 1))
        <3>1. Latest(shown).id \in Nat /\ FALSE \in BOOLEAN
            BY SMTT(30), <1>1, <2>2, QueuedIds
        <3> QED
            BY ZenonT(60), <1>5, <2>1, <2>2, <3>1, ToAssistantTyped
    <2>3. CASE Advance(AssistantReady(op, op.trigger, op.flag, 1))
        BY SMTT(30), <1>5, <2>1, <2>3, OpFields, ToAssistantTyped
    <2>4. CASE Advance(Checkpoint(op, op.cont, op.flag, op.trigger))
        <3> DEFINE next == Checkpoint(op, op.cont, op.flag, op.trigger)
        <3>0. op \in Operation /\ op.cont \in Continuations /\ op.flag \in BOOLEAN /\ op.trigger \in Nat
            BY OpFields
        <3>1. /\ next \in Operation /\ next.id = op.id /\ next.calls = <<>> /\ next.at = "checkpoint"
            BY <3>0, CheckpointType
        <3>2. Advance(next) /\ "loop" \in Points
            BY <2>4 DEF Points
        <3> HIDE DEF next
        <3> QED
            BY SMTT(30), <1>5, <2>1, <3>1, <3>2, AdvanceGotoTyped
    <2> QED
        BY Zenon, <1>5, <2>2, <2>3, <2>4
<1> QED
    BY Zenon, <1>3, <1>4, <1>5

\* publishStructuralOutcome preserves the type invariant.
LEMMA PublishSummaryTyped ==
    ASSUME TypeInv, NEW kind \in {"summary", "declined", "failed"}, NEW id \in Nat,
           PublishSummary(kind, id),
           drive.pc \notin Resting \cup {"tools"}, abortReq' \in Request,
           nextId' \in Nat, nextId <= nextId', usage' \subseteq Nat,
           kind = "declined" => UNCHANGED <<usage, nextId>>
    PROVE  TypeInv'
<1>1. CASE ResumeRun(kind, id)
    BY <1>1, ResumeRunTyped
<1>2. CASE FailRun(kind)
    <2>1. Finish("failed", tip) /\ UNCHANGED <<entries, tip, queue>>
        BY <1>2 DEF FailRun
    <2>2. TreeOK' /\ tip \in Nat /\ "failed" \in Statuses /\ drive.pc # "tools"
        BY <2>1 DEF TypeInv, TreeOK, queue, Statuses
    <2> QED
        BY SMTT(30), <2>1, <2>2, FinishTyped
<1>3. CASE FinishStructural(kind, id)
    <2> DEFINE done == kind = "summary"
               end == IF done THEN id ELSE tip
               status == IF done THEN "completed" ELSE kind
    <2>1. /\ entries' = entries \cup (IF done THEN {SummaryEntry(id)} ELSE {})
          /\ tip' = end /\ Finish(status, end) /\ UNCHANGED queue
        BY SMTT(30), <1>3 DEF FinishStructural
    <2>2. end \in Nat /\ status \in Statuses
        BY OpFields DEF Statuses
    <2>3. entries' \subseteq Entry
        BY SMTT(30), <2>1, SummaryEntryType DEF TypeInv, TreeOK
    <2> HIDE DEF end, status
    <2>4. TreeOK' /\ drive.pc # "tools"
        BY SMTT(30), <2>1, <2>2, <2>3 DEF TypeInv, TreeOK, queue
    <2> QED
        BY SMTT(30), <2>1, <2>2, <2>4, FinishTyped
<1> QED
    BY <1>1, <1>2, <1>3 DEF PublishSummary

-----------------------------------------------------------------------------
(* Decision and attempts *)

\* The ways a decision hook ends a structural task preserve the type invariant.
LEMMA DecisionTyped ==
    ASSUME TypeInv, Decline \/ SupplySummary \/ SummaryModelMissing
    PROVE  TypeInv'
<1>1. drive.pc \notin Resting \cup {"tools"} /\ abortReq' \in Request
    BY CommandType DEF Decline, SupplySummary, SummaryModelMissing, Resting
<1>2. nextId \in Nat /\ nextId <= nextId /\ 0 \in Nat /\ usage \subseteq Nat
    BY DEF TypeInv, TreeOK
<1>3. CASE Decline
    <2>1. PublishSummary("declined", 0) /\ usage' = usage /\ nextId' = nextId
        BY <1>3 DEF Decline
    <2>2. nextId' \in Nat /\ nextId <= nextId' /\ usage' \subseteq Nat
        BY <1>2, <2>1
    <2> QED
        BY Zenon, <1>1, <1>2, <2>1, <2>2, PublishSummaryTyped
<1>4. CASE SummaryModelMissing
    <2>1. PublishSummary("failed", 0) /\ usage' = usage /\ nextId' = nextId
        BY <1>4 DEF SummaryModelMissing
    <2>2. nextId' \in Nat /\ nextId <= nextId' /\ usage' \subseteq Nat
        BY <1>2, <2>1
    <2> QED
        BY ZenonT(60), <1>1, <1>2, <2>1, <2>2, PublishSummaryTyped
<1>5. CASE SupplySummary
    <2>1. PublishSummary("summary", nextId) /\ nextId' \in Nat /\ nextId <= nextId' /\ usage' \subseteq Nat
        BY <1>2, <1>5 DEF SupplySummary
    <2> QED
        BY SMTT(30), <1>1, <1>2, <2>1, PublishSummaryTyped
<1> QED
    BY <1>3, <1>4, <1>5

\* readStructuralPreparation preserves the type invariant.
LEMMA ReadPreparationTyped ==
    ASSUME TypeInv, ReadPreparation
    PROVE  TypeInv'
<1>1. PICK pc \in {"decide", "attempt"} : Local(At(pc))
    BY DEF ReadPreparation
<1>2. drive.pc = "loop" /\ abortReq' \in Request /\ pc \in Points /\ pc # "intent"
    BY CommandType DEF ReadPreparation, Points, CommandPoints
<1> QED
    BY <1>1, <1>2, LocalAtTyped DEF Resting

\* publishStructuralReady preserves the type invariant.
LEMMA DecideGenerateTyped ==
    ASSUME TypeInv, DecideGenerate
    PROVE  TypeInv'
<1> DEFINE next == [op EXCEPT !.at = "summary.ready", !.resp = nextId, !.attempt = 1]
<1>1. /\ drive.pc = "decide" /\ abortReq' \in Request /\ Advance(next) /\ nextId' = nextId + 1
      /\ Goto("loop") /\ UNCHANGED <<entries, tip, usage, queue, owned>>
    BY CommandType DEF DecideGenerate
<1>2. "summary.ready" \in LeavesOrNone
    BY Names
<1>3. next \in Operation /\ next.id = op.id /\ next.calls = op.calls /\ next.at = "summary.ready"
    BY Zenon, <1>2, OpFields DEF Operation
<1>4. TreeOK' /\ nextId <= nextId' /\ owned' \subseteq Address /\ "loop" \in Points
    BY SMTT(30), <1>1, OpFields DEF TypeInv, TreeOK, queue, Points
<1> HIDE DEF next
<1> QED
    BY SMTT(30), <1>1, <1>3, <1>4, AdvanceGotoTyped DEF Resting

\* publishAttemptIntent preserves the type invariant.
LEMMA AttemptIntentTyped ==
    ASSUME TypeInv, NEW empty \in BOOLEAN, AttemptIntent(empty)
    PROVE  TypeInv'
<1> DEFINE next == [op EXCEPT !.at = "summary.effect_pending", !.poll = 0, !.src = 0]
           pc == IF empty THEN "result" ELSE "intent"
           note == IF empty THEN "stop" ELSE "none"
<1>1. /\ drive.pc = "attempt" /\ abortReq' \in Request /\ Advance(next)
      /\ drive' = [At(pc) EXCEPT !.arg = note]
      /\ UNCHANGED <<tree, queue, owned, phase, tasks, idleOwner, line>>
    BY CommandType DEF AttemptIntent
<1>2. /\ "summary.effect_pending" \in LeavesOrNone /\ "summary.effect_pending" \notin DeferredLeaves
      /\ pc \in Points /\ note \in Notes
    BY Names DEF Points, CommandPoints, DeferredLeaves, Notes, ProviderOutcomes
<1>3. /\ next \in Operation /\ next.id = op.id /\ next.calls = op.calls
      /\ next.at = "summary.effect_pending"
    BY Zenon, <1>2, OpFields DEF Operation
<1>4. TreeOK' /\ nextId <= nextId' /\ owned' \subseteq Address
    BY SMTT(30), <1>1, OpFields DEF TypeInv, TreeOK, tree, queue
<1> HIDE DEF next, pc, note
<1>5. At(pc) \in Pass /\ At(pc).pc = pc /\ At(pc).plan = {} /\ At(pc).op = drive.op
    BY <1>2, AtType DEF TypeInv, PassOK
<1>6. drive' \in Pass /\ drive'.op = drive.op /\ drive'.plan = {}
    BY SMTT(30), <1>1, <1>2, <1>5 DEF Pass
<1> QED
    BY <1>1, <1>2, <1>3, <1>4, <1>6, AdvanceTyped DEF Resting

\* publishNestedRequestIntent preserves the type invariant.
LEMMA NestedIntentTyped ==
    ASSUME TypeInv, NestedIntent
    PROVE  TypeInv'
<1> DEFINE next == [op EXCEPT !.poll = @ + 1, !.src = nextId]
<1>1. /\ drive.pc = "intent" /\ abortReq' \in Request /\ Advance(next) /\ nextId' = nextId + 1
      /\ Goto("admit") /\ UNCHANGED <<entries, tip, usage, queue, owned>>
      /\ op.at = "summary.effect_pending"
    BY CommandType DEF NestedIntent, SummaryPending
<1>2. op.poll + 1 \in Nat /\ nextId \in Nat
    BY OpFields
<1>3. next \in Operation /\ next.id = op.id /\ next.calls = op.calls /\ next.at = "summary.effect_pending"
    BY Zenon, <1>1, <1>2, OpFields DEF Operation
<1>4. TreeOK' /\ nextId <= nextId' /\ owned' \subseteq Address /\ "admit" \in Points
    BY <1>1, OpFields DEF TypeInv, TreeOK, queue, Points
<1> HIDE DEF next
<1> QED
    BY <1>1, <1>3, <1>4, AdvanceGotoTyped DEF Resting

\* publishNestedRequestOutcome preserves the type invariant.
LEMMA NestedOutcomeTyped ==
    ASSUME TypeInv, NEW another \in BOOLEAN, NestedOutcome(another)
    PROVE  TypeInv'
<1> DEFINE next == [op EXCEPT !.src = 0]
<1>1. /\ drive.pc = "settle" /\ abortReq' \in Request /\ Advance(next)
      /\ usage' = usage \cup {op.src}
      /\ drive' = IF another THEN At("intent") ELSE [At("result") EXCEPT !.arg = drive.arg]
      /\ UNCHANGED <<entries, tip, nextId, queue, owned, phase, tasks, idleOwner, line>>
      /\ op.at = "summary.effect_pending"
    BY CommandType DEF NestedOutcome, SummaryPending
<1>2. next \in Operation /\ next.id = op.id /\ next.calls = op.calls /\ next.at = "summary.effect_pending"
    BY Zenon, <1>1, OpFields DEF Operation
<1>3. TreeOK' /\ nextId <= nextId' /\ owned' \subseteq Address
    BY SMTT(30), <1>1, OpFields DEF TypeInv, TreeOK, queue
<1> HIDE DEF next
<1>4. {"intent", "result"} \subseteq Points /\ drive.arg \in Notes /\ drive \in Pass
    BY DEF Points, CommandPoints, TypeInv, PassOK, Pass
<1>5. /\ At("intent") \in Pass /\ At("intent").plan = {} /\ At("intent").op = drive.op
      /\ At("result") \in Pass /\ At("result").plan = {} /\ At("result").op = drive.op
    BY <1>4, AtType
<1>6. drive' \in Pass /\ drive'.op = drive.op /\ drive'.plan = {}
    BY <1>1, <1>4, <1>5 DEF Pass
<1> QED
    BY SMTT(30), <1>1, <1>2, <1>3, <1>6, AdvanceTyped DEF Resting, DeferredLeaves

\* A failed attempt that will be retried preserves the type invariant.
LEMMA RetryLaterTyped ==
    ASSUME TypeInv, RetryLater, drive.pc \notin Resting \cup {"tools"}, abortReq' \in Request
    PROVE  TypeInv'
<1> DEFINE next == [op EXCEPT !.at = "summary.retry_wait", !.attempt = @ + 1, !.poll = 0, !.src = 0]
<1>1. Advance(next) /\ Goto("loop") /\ UNCHANGED <<tree, queue, owned>>
    BY DEF RetryLater
<1>2. "summary.retry_wait" \in LeavesOrNone /\ op.attempt + 1 \in Nat
    BY Names, OpFields
<1>3. next \in Operation /\ next.id = op.id /\ next.calls = op.calls /\ next.at = "summary.retry_wait"
    BY Zenon, <1>2, OpFields DEF Operation
<1>4. TreeOK' /\ nextId <= nextId' /\ owned' \subseteq Address /\ "loop" \in Points
    BY <1>1, OpFields DEF TypeInv, TreeOK, tree, queue, Points
<1> HIDE DEF next
<1> QED
    BY <1>1, <1>3, <1>4, AdvanceGotoTyped

\* The last result of an attempt, and its recovery, preserve the type invariant.
LEMMA AttemptEndsTyped ==
    ASSUME TypeInv, AttemptResult \/ RecoverSummary
    PROVE  TypeInv'
<1>1. drive.pc \notin Resting \cup {"tools"} /\ abortReq' \in Request
    BY CommandType DEF AttemptResult, RecoverSummary, Resting
<1>2. nextId \in Nat /\ 0 \in Nat /\ usage \subseteq Nat /\ op.resp \in Nat
    BY OpFields DEF TypeInv, TreeOK
<1>3. CASE RetryLater
    BY <1>1, <1>3, RetryLaterTyped
<1>4. ASSUME UNCHANGED <<usage, nextId>>
      PROVE  nextId' \in Nat /\ nextId <= nextId' /\ usage' \subseteq Nat
    BY <1>2, <1>4
<1>5. CASE PublishSummary("summary", op.resp) /\ UNCHANGED <<usage, nextId>>
    BY Zenon, <1>1, <1>2, <1>4, <1>5, PublishSummaryTyped
<1>6. CASE PublishSummary("failed", 0) /\ UNCHANGED <<usage, nextId>>
    BY Zenon, <1>1, <1>2, <1>4, <1>6, PublishSummaryTyped
<1> QED
    BY <1>3, <1>5, <1>6 DEF AttemptResult, RecoverSummary

\* commitNavigation preserves the type invariant.
LEMMA CommitNavigationTyped ==
    ASSUME TypeInv, CommitNavigation
    PROVE  TypeInv'
<1>1. /\ drive.pc = "loop" /\ abortReq' \in Request /\ tip' = op.target
      /\ Finish("completed", op.target) /\ UNCHANGED <<entries, usage, nextId, queue>>
    BY CommandType DEF CommitNavigation
<1>2. op.target \in Nat /\ "completed" \in Statuses
    BY OpFields DEF Statuses
<1>3. TreeOK'
    BY SMTT(30), <1>1, <1>2 DEF TypeInv, TreeOK, queue
<1> QED
    BY SMTT(30), <1>1, <1>2, <1>3, FinishTyped

\* Every step of a compaction or a navigation keeps the types.
LEMMA StructuralStepTyped ==
    ASSUME TypeInv, StructuralStep
    PROVE  TypeInv'
<1>1. op.src \in Nat /\ SummaryOutcomes \in SUBSET ProviderOutcomes
    BY OpFields, StructuralAssumption DEF ProviderOutcomes
<1>2. {"stop", "transient", "fatal", "aborted"} \subseteq ProviderOutcomes \cup {"aborted"}
    BY DEF ProviderOutcomes
<1> QED
    BY SMTT(30), <1>1, <1>2, DecisionTyped, ReadPreparationTyped, DecideGenerateTyped, AttemptIntentTyped,
       NestedIntentTyped, AdmitRequestTyped, RunNotesTyped, NestedOutcomeTyped, AttemptEndsTyped,
       CommitNavigationTyped DEF StructuralStep

-----------------------------------------------------------------------------

\* Every step of the lane keeps the inductive invariant, and so do stutters.
LEMMA NextTyped ==
    ASSUME TypeInv, [Next]_vars
    PROVE  TypeInv'
<1>1. CASE UNCHANGED vars
    <2>1. UNCHANGED <<tree, queue, op, outcome, process, line, history>> /\ owned' = owned
        BY <1>1 DEF vars, operation, outcome
    <2>2. owned' \subseteq Address
        BY <2>1, OpFields
    <2> QED
        BY <2>1, <2>2, OwnedTyped
<1> QED
    BY SMTT(30), <1>1, CallerStepTyped, RunStepTyped, ToolStepTyped, StructuralStepTyped DEF Next, DriveStep

\* The inductive invariant of the types holds in every state of every execution:
\* ids of batches and plans were drawn, a pass that is not at rest belongs to the
\* open operation, and what a placement plan names is staged.
THEOREM TypeInvariant == Spec => []TypeInv
BY InitTyped, NextTyped, PTL DEF Spec

\* Whatever the callers, the hooks, the provider and the tools do and however
\* often the process is lost, the durable and the process-local state keep the
\* shape their declarations give them.
THEOREM TypeCorrect == Spec => []TypeOK
BY TypeInvariant, TypeInvTypes, PTL
=============================================================================
