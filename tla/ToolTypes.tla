------------------------------ MODULE ToolTypes ------------------------------
(***************************************************************************)
(* Type correctness of the lane, third part: responses, and the placement  *)
(* and the calls of tool batches.                                          *)
(***************************************************************************)
EXTENDS DriveTypes

-----------------------------------------------------------------------------
(* Responses *)

\* The state a stored response leads to is typed, its planned calls included.
LEMMA AnsweredType ==
    ASSUME TypeInv
    PROVE  Answered \in Operation /\ Answered.id = op.id /\ Answered.control = op.control
BY Zenon, OpFields DEF Answered, Operation

\* The response calls tools: a batch of planned calls with fresh result ids.
LEMMA PlannedTyped ==
    ASSUME TypeInv, NEW n \in 1 .. MaxCalls, NEW flag \in BOOLEAN,
           SettleNext("tool_use",
                      [Scope(Answered) EXCEPT !.at = "tools", !.calls = PlannedCalls(n), !.flag = flag], {}),
           nextId' = nextId + n, drive.pc = "settle", abortReq' \in Request
    PROVE  TypeInv'
<1> DEFINE calls == PlannedCalls(n)
           next == [Scope(Answered) EXCEPT !.at = "tools", !.calls = calls, !.flag = flag]
<1>1. n \in Nat /\ n >= 1 /\ nextId \in Nat
    BY RunAssumption, OpFields
<1>2. /\ calls \in Seq(Call) /\ DOMAIN calls = 1 .. n
      /\ \A i \in 1 .. n : calls[i].id = nextId + i - 1 /\ calls[i].status = "planned"
    <2>1. ASSUME NEW i \in 1 .. n
          PROVE  [status |-> "planned", id |-> nextId + i - 1, replay |-> "never",
                  terminate |-> FALSE] \in Call
        BY <1>1 DEF Call, CallStatuses, ReplayClasses
    <2> QED
        BY <1>1, <2>1 DEF PlannedCalls
<1>3. /\ next \in Operation /\ next.id = op.id /\ next.at = "tools" /\ next.calls = calls
    <2>1. /\ Scope(Answered) \in Operation /\ Scope(Answered).id = op.id
          /\ "tools" \in LeavesOrNone
        BY AnsweredType, ScopeType, Names
    <2> HIDE DEF calls
    <2> QED
        BY Zenon, <1>2, <2>1 DEF Operation
<1>4. /\ Response("tool_use") /\ Advance(next) /\ Goto("loop") /\ pending' = pending
      /\ owned' \subseteq owned
    BY DEF SettleNext
<1>5. TreeOK'
    BY <1>1, <1>4, Names, ResponseType
<1>6. op' = next /\ UNCHANGED <<outcome, history>> /\ UNCHANGED <<phase, tasks, idleOwner, line>>
    BY <1>4 DEF Advance, Goto
<1> HIDE DEF next, calls
<1>7. OpOK'
    <2>1. \A i \in Calls' : op'.calls[i].id \in Nat /\ op'.calls[i].id < nextId'
        BY <1>1, <1>2, <1>3, <1>6 DEF Calls
    <2>2. \A i, j \in Calls' : op'.calls[i].id = op'.calls[j].id => i = j
        <3>1. \A i, j \in 1 .. n : nextId + i - 1 = nextId + j - 1 => i = j
            BY <1>1
        <3>2. op'.calls = calls /\ Calls' = 1 .. n
            BY <1>2, <1>3, <1>6 DEF Calls
        <3> QED
            BY <1>2, <3>1, <3>2
    <2>3. 1 \in Incomplete'
        BY <1>1, <1>2, <1>3, <1>6 DEF Calls, Incomplete
    <2> QED
        BY SMTT(30), <1>3, <1>4, <1>6, <2>1, <2>2, <2>3 DEF TypeInv, OpOK, outcome
<1>8. DOMAIN tasks = {}
    BY NoTasks
<1>9. drive' \in Pass /\ drive'.pc = "loop" /\ drive'.plan = {} /\ drive'.op = drive.op
    BY <1>4, AtType DEF Goto, TypeInv, PassOK, Points
<1>10. PassOK'
    BY SMTT(30), <1>3, <1>6, <1>8, <1>9 DEF TypeInv, PassOK, Resting
<1>11. BatchOK' /\ OwnerOK' /\ HistoryOK'
    BY SMTT(30), <1>6, <1>8 DEF TypeInv, BatchOK, OwnerOK, line, navigation, HistoryOK, history
<1> QED
    BY <1>5, <1>7, <1>10, <1>11 DEF TypeInv

\* publishResponse preserves the type invariant.
LEMMA SettleResponseTyped ==
    ASSUME TypeInv, SettleResponse
    PROVE  TypeInv'
<1>1. drive.pc = "settle" /\ abortReq' \in Request
    BY Zenon, CommandType DEF SettleResponse
<1>2. /\ Answered \in Operation /\ Answered.id = op.id
      /\ op.resp \in Nat /\ op.trigger \in Nat /\ op.poll \in Nat /\ op.flag \in BOOLEAN
      /\ op.attempt + 1 \in Nat /\ nextId \in Nat
    BY AnsweredType, OpFields
<1>3. /\ "assistant" \in EntryTypes /\ "deferred" \in EntryTypes
      /\ "need_assistant" \in Continuations /\ "may_finish" \in Continuations
      /\ "overflow" \in Reasons /\ "deferred.suspended" \in LeavesOrNone
      /\ "assistant.retry_wait" \in LeavesOrNone
      /\ TRUE \in BOOLEAN /\ {} \subseteq Address
    BY SMTT(30), Names
<1> DEFINE checkpoint == Checkpoint(Answered, "may_finish", TRUE, op.resp)
           summary == SummaryDeciding(Answered, nextId, "overflow", "need_assistant", TRUE, op.trigger)
           type == IF drive.arg = "deferred" THEN "deferred" ELSE "assistant"
           suspended == [Scope(Answered) EXCEPT !.at = "deferred.suspended", !.src = op.resp,
                                                !.poll = op.poll]
           ready == AssistantReady(Answered, op.trigger, op.flag, op.attempt + 1)
           waiting == [ready EXCEPT !.at = "assistant.retry_wait"]
           cut == drive.arg = "truncated_calls"
<1>4. \/ SettleNext("assistant", checkpoint, {}) /\ nextId' = nextId
      \/ /\ SettleNext("assistant", summary, {[what |-> "preparation", key |-> nextId]})
         /\ nextId' = nextId + 1
      \/ SettleNext(type, suspended, {}) /\ nextId' = nextId
      \/ SettleNext("assistant", waiting, {}) /\ nextId' = nextId
      \/ \E n \in 1 .. MaxCalls :
           /\ SettleNext("tool_use", [Scope(Answered) EXCEPT !.at = "tools", !.calls = PlannedCalls(n),
                                                             !.flag = cut], {})
           /\ nextId' = nextId + n
      \/ SettleFailed
    BY Zenon DEF SettleResponse
<1>5. cut \in BOOLEAN /\ type \in EntryTypes
    BY <1>3
<1>6. /\ checkpoint \in Operation /\ checkpoint.id = op.id /\ checkpoint.calls = <<>>
      /\ checkpoint.at = "checkpoint"
    BY ZenonT(60), <1>2, <1>3, CheckpointType
<1>7. /\ summary \in Operation /\ summary.id = op.id /\ summary.calls = <<>>
      /\ summary.at = "summary.deciding"
    <2>1. /\ Scope(Answered) \in Operation /\ Scope(Answered).id = op.id
          /\ Scope(Answered).calls = <<>>
          /\ "summary.deciding" \in LeavesOrNone /\ "resume_checkpoint" \in Boundaries
        BY <1>2, ScopeType, Names
    <2> QED
        BY Zenon, <1>2, <1>3, <2>1 DEF Operation, SummaryDeciding
<1>8. /\ suspended \in Operation /\ suspended.id = op.id /\ suspended.calls = <<>>
      /\ suspended.at = "deferred.suspended"
    <2>1. /\ Scope(Answered) \in Operation /\ Scope(Answered).id = op.id
          /\ Scope(Answered).calls = <<>>
        BY <1>2, ScopeType
    <2> QED
        BY Zenon, <1>2, <1>3, <2>1 DEF Operation
<1>9. /\ waiting \in Operation /\ waiting.id = op.id /\ waiting.calls = <<>>
      /\ waiting.at = "assistant.retry_wait"
    <2>1. ready \in Operation /\ ready.id = op.id /\ ready.calls = <<>>
        <3>1. /\ Scope(Answered) \in Operation /\ Scope(Answered).id = op.id
              /\ Scope(Answered).calls = <<>> /\ "assistant.ready" \in LeavesOrNone
            BY <1>2, ScopeType, Names
        <3> QED
            BY ZenonT(60), <1>2, <3>1 DEF Operation, AssistantReady
    <2> HIDE DEF ready
    <2> QED
        BY SMTT(30), <1>3, <2>1 DEF Operation
<1> HIDE DEF checkpoint, summary, type, suspended, ready, waiting, cut
<1>10. CASE SettleNext("assistant", checkpoint, {}) /\ nextId' = nextId
    BY SMTT(30), <1>1, <1>2, <1>3, <1>6, <1>10, SettleNextTyped
<1>11. CASE /\ SettleNext("assistant", summary, {[what |-> "preparation", key |-> nextId]})
            /\ nextId' = nextId + 1
    <2>1. {[what |-> "preparation", key |-> nextId]} \subseteq Address
        BY <1>2 DEF Address, OwnedKinds
    <2>2. nextId' \in Nat /\ nextId <= nextId'
        BY <1>2, <1>11
    <2> QED
        BY SMTT(30), <1>1, <1>3, <1>7, <1>11, <2>1, <2>2, SettleNextTyped
<1>12. CASE SettleNext(type, suspended, {}) /\ nextId' = nextId
    BY SMTT(30), <1>1, <1>2, <1>3, <1>5, <1>8, <1>12, SettleNextTyped
<1>13. CASE SettleNext("assistant", waiting, {}) /\ nextId' = nextId
    BY SMTT(30), <1>1, <1>2, <1>3, <1>9, <1>13, SettleNextTyped
<1>14. CASE \E n \in 1 .. MaxCalls :
              /\ SettleNext("tool_use", [Scope(Answered) EXCEPT !.at = "tools",
                                            !.calls = PlannedCalls(n), !.flag = cut], {})
              /\ nextId' = nextId + n
    BY ZenonT(60), <1>1, <1>5, <1>14, PlannedTyped
<1>15. CASE SettleFailed
    <2>1. /\ Response("assistant") /\ Finish("failed", op.resp) /\ pending' \subseteq pending
          /\ nextId' = nextId
        BY <1>15 DEF SettleFailed
    <2>2. TreeOK' /\ "failed" \in Statuses
        BY SMTT(30), <1>2, <1>3, <2>1, ResponseType DEF Statuses
    <2> QED
        BY SMTT(30), <1>1, <1>2, <2>1, <2>2, FinishTyped
<1> QED
    BY ZenonT(60), <1>4, <1>10, <1>11, <1>12, <1>13, <1>14, <1>15

\* Every step of a run keeps the types.
LEMMA RunStepTyped ==
    ASSUME TypeInv, RunStep
    PROVE  TypeInv'
<1>1. op.resp \in Nat /\ Outcomes \in SUBSET ProviderOutcomes /\ PollOutcomes \in SUBSET ProviderOutcomes
    BY OpFields, RunAssumption
<1> QED
    BY SMTT(30), <1>1, RunMovesTyped, PreparePollTyped, RunNotesTyped, StartRunTyped, PlanBoundaryTyped,
       FinishBoundaryTyped, EndedTyped, SourceFaultTyped, GenerationIntentTyped, PollIntentTyped,
       AdmitRequestTyped, FrameTyped, RetryCommitTyped, SettleResponseTyped DEF RunStep

-----------------------------------------------------------------------------
(* Tool batches *)

\* Task i is at another point; the others are where they were.
Moved(i, at) ==
    /\ DOMAIN tasks' = DOMAIN tasks
    /\ tasks' \in [DOMAIN tasks' -> Task]
    /\ tasks'[i].at = at
    /\ \A j \in DOMAIN tasks : j # i => tasks'[j] = tasks[j]

\* Moving a tool task to another point leaves the tasks typed.
LEMMA TaskAtType ==
    ASSUME TypeInv, NEW i \in DOMAIN tasks, NEW at \in TaskPoints, TaskAt(i, at)
    PROVE  Moved(i, at)
<1>1. tasks \in [DOMAIN tasks -> Task]
    BY DEF TypeInv, PassOK
<1>2. [tasks[i] EXCEPT !.at = at] \in Task /\ [tasks[i] EXCEPT !.at = at].at = at
    BY <1>1 DEF Task
<1>3. tasks' = [tasks EXCEPT ![i] = [tasks[i] EXCEPT !.at = at]]
    BY DEF TaskAt
<1> QED
    BY Zenon, <1>1, <1>2, <1>3 DEF Moved

\* The staged outcome of a call is a typed value owned by the operation.
LEMMA StagingType ==
    ASSUME TypeInv, NEW i \in DOMAIN tasks, NEW result \in TaskResults, Staging(i, result)
    PROVE  Moved(i, "settle")
<1>1. tasks \in [DOMAIN tasks -> Task]
    BY DEF TypeInv, PassOK
<1>2. [at |-> "settle", result |-> result] \in Task
    BY DEF Task, TaskPoints
<1> QED
    BY <1>1, <1>2 DEF Moved, Staging

\* The points of a task before its outcome is staged.
Unstaged == TaskPoints \ {"place", "placing", "done"}

\* A task that moves while its call stays as it is.
LEMMA TaskTyped ==
    ASSUME TypeInv, NEW i \in DOMAIN tasks, NEW at \in TaskPoints \ {"placing"}, Moved(i, at),
           at \in Unstaged => tasks[i].at \in Unstaged,
           UNCHANGED <<tree, queue, operation, phase, drive, idleOwner, line>>,
           abortReq' \in Request, HistoryOK'
    PROVE  TypeInv'
<1>1. PassOK'
    BY DEF TypeInv, PassOK, Moved, tree, operation
<1>2. BatchOK'
    BY DEF TypeInv, BatchOK, Moved, Unstaged, Calls, operation
<1>3. OwnerOK'
    BY DEF TypeInv, OwnerOK, line, navigation
<1> QED
    BY SMTT(30), <1>1, <1>2, <1>3, ProcessTyped

-----------------------------------------------------------------------------
(* Placement *)

\* Placing staged outcomes (commitPlacement) yields typed entries chained to the tip.
LEMMA PlacedResults ==
    ASSUME TypeInv, op.at # "none", PlaceResults
    PROVE  /\ TreeOK' /\ OpOK' /\ HistoryOK' /\ OwnerOK'
           /\ op'.id = op.id /\ op'.at \in {op.at, "checkpoint"}
           /\ UNCHANGED <<nextId, phase, idleOwner, line>>
           /\ \A j \in Calls : op.calls[j].id \notin drive.plan /\ op.calls[j].status # "completed"
                  => j \in Calls' /\ op'.calls[j] = op.calls[j]
<1> DEFINE placed == {i \in Calls : op.calls[i].id \in drive.plan}
           calls == [i \in Calls |-> IF i \in placed THEN [op.calls[i] EXCEPT !.status = "completed"]
                                                     ELSE op.calls[i]]
           items == {[id |-> id, type |-> "result"] : id \in drive.plan}
           answered == TipAfter(items, tip)
           allTerminate == \A i \in Calls : calls[i].terminate
           cont == IF allTerminate THEN "may_finish" ELSE "need_assistant"
           checkpoint == Checkpoint(op, cont, FALSE, answered)
           batch == [op EXCEPT !.calls = calls]
<1>1. /\ entries' = entries \cup Chained(items, tip) /\ tip' = answered
      /\ pending' = pending \ drive.plan
      /\ UNCHANGED <<inbox, usage, nextId, phase, idleOwner, line>>
      /\ \/ /\ \A i \in Calls : calls[i].status = "completed"
            /\ Advance(checkpoint) /\ owned' \subseteq owned
         \/ /\ ~\A i \in Calls : calls[i].status = "completed"
            /\ Advance(batch) /\ owned' = owned
    BY Zenon DEF PlaceResults, ResultItems, ResultEntries
<1>2. cont \in Continuations
    BY Names
<1>3. /\ calls \in Seq(Call) /\ DOMAIN calls = Calls
      /\ \A i \in Calls : /\ calls[i].id = op.calls[i].id
                          /\ i \notin placed => calls[i] = op.calls[i]
    <2>1. op.calls \in Seq(Call)
        BY OpFields
    <2>2. \A i \in Calls : op.calls[i] \in Call
        BY <2>1 DEF Calls
    <2>3. \A i \in Calls : /\ [op.calls[i] EXCEPT !.status = "completed"] \in Call
                           /\ [op.calls[i] EXCEPT !.status = "completed"].id = op.calls[i].id
        BY <2>2 DEF Call, CallStatuses
    <2>4. calls \in [Calls -> Call] /\ Calls = 1 .. Len(op.calls) /\ Len(op.calls) \in Nat
        BY <2>1, <2>2, <2>3 DEF Calls
    <2>5. calls \in Seq(Call)
        BY <2>4
    <2> QED
        BY <2>3, <2>4, <2>5
<1>4. \A x \in items : x.id \in Nat /\ x.id < nextId /\ x.type \in EntryTypes
    BY Names DEF TypeInv, PassOK
<1> HIDE DEF calls, items, cont, allTerminate
<1>5. Chained(items, tip) \subseteq Entry /\ answered \in Nat
    BY Zenon, <1>4, OpFields, ChainedType
<1>6. TreeOK'
    BY <1>1, <1>5 DEF TypeInv, TreeOK
<1>7. CASE /\ \A i \in Calls : calls[i].status = "completed"
           /\ Advance(checkpoint) /\ owned' \subseteq owned
    <2>1. /\ checkpoint \in Operation /\ checkpoint.id = op.id /\ checkpoint.calls = <<>>
          /\ checkpoint.at = "checkpoint"
        BY ZenonT(60), <1>2, <1>5, OpFields, CheckpointType
    <2>2. op' = checkpoint /\ UNCHANGED <<outcome, history>>
        BY <1>7 DEF Advance
    <2> HIDE DEF checkpoint, answered
    <2>3. OpOK'
        BY <1>7, <2>1, <2>2 DEF TypeInv, OpOK, Calls, outcome
    <2>4. HistoryOK' /\ OwnerOK'
        BY <1>1, <2>2 DEF TypeInv, HistoryOK, OwnerOK, line, navigation, history
    <2>5. \A j \in Calls : op.calls[j].id \in drive.plan \/ op.calls[j].status = "completed"
        BY SMTT(30), <1>3, <1>7
    <2> QED
        BY SMTT(30), <1>1, <1>6, <2>1, <2>2, <2>3, <2>4, <2>5
<1>8. CASE /\ ~\A i \in Calls : calls[i].status = "completed"
           /\ Advance(batch) /\ owned' = owned
    <2>1. batch \in Operation /\ batch.id = op.id /\ batch.calls = calls /\ batch.at = op.at
        BY Zenon, <1>3, OpFields DEF Operation
    <2>2. op' = batch /\ UNCHANGED <<outcome, history>>
        BY <1>8 DEF Advance
    <2> HIDE DEF batch
    <2>3. Calls' = Calls /\ op'.calls = calls
        BY <1>3, <2>1, <2>2 DEF Calls
    <2>4. Incomplete' # {}
        BY SMTT(30), <1>8, <2>3 DEF Incomplete
    <2>5. OpOK'
        BY SMTT(30), <1>1, <1>3, <1>8, <2>1, <2>2, <2>3, <2>4 DEF TypeInv, OpOK, outcome
    <2>6. HistoryOK' /\ OwnerOK'
        BY SMTT(30), <1>1, <2>2 DEF TypeInv, HistoryOK, OwnerOK, line, navigation, history
    <2> QED
        BY <1>1, <1>3, <1>6, <2>1, <2>2, <2>3, <2>5, <2>6
<1> QED
    BY Zenon, <1>1, <1>7, <1>8

\* What is named for placement has drawn ids, and its calls are staged.
LEMMA ReadyPrefixType ==
    ASSUME TypeInv
    PROVE  /\ ResultIds(ReadyPrefix) \in SUBSET Nat
           /\ \A id \in ResultIds(ReadyPrefix) : id \in Nat /\ id < nextId
           /\ \A j \in Calls : op.calls[j].id \in ResultIds(ReadyPrefix) =>
                  op.calls[j].status = "outcome_ready"
<1>1. \A i \in ReadyPrefix : i \in Calls /\ op.calls[i].status = "outcome_ready"
    <2>1. Calls \subseteq Nat
        BY SMTT(30), OpFields DEF Calls
    <2> QED
        BY <2>1 DEF ReadyPrefix, Incomplete
<1> QED
    BY <1>1 DEF ResultIds, TypeInv, OpOK

\* materializeReady, finding the prefix to place, preserves the type invariant.
LEMMA FindReadyTyped ==
    ASSUME TypeInv, FindReady
    PROVE  TypeInv'
<1> DEFINE plan == ResultIds(ReadyPrefix)
           next == [At("place") EXCEPT !.plan = plan]
           moved == IF Running THEN next ELSE Signalled(next)
<1>1. drive.pc = "loop" /\ abortReq' \in Request /\ Local(moved)
    BY CommandType DEF FindReady
<1>2. plan \in SUBSET Nat /\ \A id \in plan : id \in Nat /\ id < nextId
    BY ReadyPrefixType
<1>3. At("place") \in Pass /\ At("place").pc = "place" /\ At("place").op = drive.op
    BY AtType DEF TypeInv, PassOK, Points, CommandPoints
<1> HIDE DEF plan
<1>4. next \in Pass /\ next.pc = "place" /\ next.op = drive.op /\ next.plan = plan
    BY <1>2, <1>3 DEF Pass
<1> HIDE DEF next
<1>5. moved \in Pass /\ moved.pc = "place" /\ moved.op = drive.op /\ moved.plan = plan
    <2>1. "aborting" \in Gates
        BY Names
    <2> QED
        BY Zenon, <1>4, <2>1 DEF Pass, Signalled
<1> HIDE DEF moved
<1> QED
    BY Zenon, <1>1, <1>2, <1>5, LocalTyped DEF Resting

\* materializeReady, placing that prefix, preserves the type invariant.
LEMMA PlaceReadyTyped ==
    ASSUME TypeInv, PlaceReady
    PROVE  TypeInv'
<1>1. drive.pc = "place" /\ abortReq' \in Request /\ PlaceResults /\ drive' = At("loop")
      /\ tasks' = tasks
    BY CommandType DEF PlaceReady
<1>2. op.at # "none" /\ drive.op = op.id /\ DOMAIN tasks = {}
    BY Zenon, <1>1 DEF TypeInv, PassOK, Resting
<1>3. drive' \in Pass /\ drive'.pc = "loop" /\ drive'.plan = {} /\ drive'.op = drive.op
    BY <1>1, AtType DEF TypeInv, PassOK, Points
<1>4. /\ TreeOK' /\ OpOK' /\ HistoryOK' /\ OwnerOK' /\ phase' = phase
      /\ op'.id = op.id /\ op'.at \in {op.at, "checkpoint"}
    BY <1>1, <1>2, PlacedResults
<1>5. PassOK'
    BY SMTT(30), <1>1, <1>2, <1>3, <1>4 DEF TypeInv, PassOK
<1>6. BatchOK'
    BY <1>1, <1>2 DEF BatchOK
<1> QED
    BY <1>4, <1>5, <1>6 DEF TypeInv

\* While there are tasks the pass belongs to the open operation.
LEMMA WithTasks ==
    ASSUME TypeInv, NEW i \in DOMAIN tasks
    PROVE  /\ drive.pc = "tools" /\ drive.op = op.id /\ op.at # "none" /\ i \in Nat
           /\ drive \in Pass /\ tasks \in [DOMAIN tasks -> Task]
BY DEF TypeInv, PassOK, Resting

\* readPlacement preserves the type invariant.
LEMMA ReadPlacementTyped ==
    ASSUME TypeInv, NEW i \in DOMAIN tasks, ReadPlacement(i)
    PROVE  TypeInv'
<1>1. /\ abortReq' \in Request /\ tasks[i].at = "place"
      /\ \A j \in DOMAIN tasks : tasks[j].at # "placing"
      /\ UNCHANGED <<tree, queue, operation, phase, idleOwner, line, history>>
    BY TurnType DEF ReadPlacement
<1>2. HistoryOK' /\ OwnerOK'
    BY <1>1 DEF TypeInv, HistoryOK, OwnerOK, line, navigation, history
<1>3. CASE TaskAt(i, "placing") /\ drive' = [drive EXCEPT !.plan = ResultIds(ReadyPrefix)]
    <2>1. Moved(i, "placing")
        BY <1>3, TaskAtType DEF TaskPoints
    <2>2. /\ drive' \in Pass /\ drive'.pc = drive.pc /\ drive'.op = drive.op
          /\ drive'.plan = ResultIds(ReadyPrefix) /\ drive'.permits = drive.permits
        BY SMTT(30), <1>3, WithTasks, ReadyPrefixType DEF Pass
    <2>3. PassOK'
        BY SMTT(30), <1>1, <2>1, <2>2, ReadyPrefixType DEF TypeInv, PassOK, Moved, tree, operation
    <2>4. BatchOK'
        BY SMTT(30), <1>1, <2>1, <2>2, ReadyPrefixType DEF TypeInv, BatchOK, Moved, Calls, operation
    <2> QED
        BY <1>1, <1>2, <2>3, <2>4, ProcessTyped
<1>4. CASE TaskAt(i, "done") /\ drive' = drive
    <2>1. Moved(i, "done")
        BY SMTT(30), <1>4, TaskAtType DEF TaskPoints
    <2> QED
        BY <1>1, <1>2, <1>4, <2>1, TaskTyped DEF Unstaged, TaskPoints
<1> QED
    BY <1>3, <1>4 DEF ReadPlacement

\* commitPlacement preserves the type invariant.
LEMMA CommitPlacementTyped ==
    ASSUME TypeInv, NEW i \in DOMAIN tasks, CommitPlacement(i)
    PROVE  TypeInv'
<1>1. /\ abortReq' \in Request /\ tasks[i].at = "placing" /\ PlaceResults
      /\ TaskAt(i, "done") /\ drive' = [drive EXCEPT !.plan = {}]
    BY TurnType DEF CommitPlacement
<1>2. Moved(i, "done")
    BY <1>1, TaskAtType DEF TaskPoints
<1>3. /\ drive' \in Pass /\ drive'.pc = drive.pc /\ drive'.op = drive.op /\ drive'.plan = {}
      /\ drive.pc = "tools" /\ drive.op = op.id /\ op.at # "none"
    BY <1>1, WithTasks DEF Pass
<1>4. /\ TreeOK' /\ OpOK' /\ HistoryOK' /\ OwnerOK' /\ phase' = phase
      /\ op'.id = op.id /\ op'.at \in {op.at, "checkpoint"}
      /\ \A j \in Calls : op.calls[j].id \notin drive.plan /\ op.calls[j].status # "completed"
             => j \in Calls' /\ op'.calls[j] = op.calls[j]
    BY SMTT(30), <1>1, <1>3, PlacedResults
<1>5. PassOK'
    BY SMTT(30), <1>1, <1>2, <1>3, <1>4 DEF TypeInv, PassOK, Moved
<1>6. BatchOK'
    <2>1. \A j \in Calls : op.calls[j].id \in drive.plan =>
              op.calls[j].status \in {"outcome_ready", "completed"}
        BY SMTT(30), <1>1 DEF TypeInv, BatchOK
    <2>2. ASSUME NEW j \in DOMAIN tasks', tasks'[j].at \notin {"place", "placing", "done"}
          PROVE  j \in Calls' /\ op'.calls[j].status \in {"planned", "effect_pending"}
        <3>1. j # i /\ j \in DOMAIN tasks /\ tasks'[j] = tasks[j]
            BY <1>2, <2>2 DEF Moved
        <3>2. j \in Calls /\ op.calls[j].status \in {"planned", "effect_pending"}
            BY <2>2, <3>1 DEF TypeInv, BatchOK
        <3> QED
            BY <1>4, <2>1, <3>2
    <2> QED
        BY <1>3, <2>2 DEF BatchOK
<1> QED
    BY <1>4, <1>5, <1>6 DEF TypeInv

-----------------------------------------------------------------------------
(* Outcomes *)

\* One call of the batch changes, and keeps its result id.
LEMMA CallChanged ==
    ASSUME TypeInv, NEW i \in Calls, NEW call \in Call, call.id = op.calls[i].id,
           call.status # "completed", Advance([op EXCEPT !.calls[i] = call]),
           owned' \subseteq Address, nextId' = nextId
    PROVE  /\ OpOK' /\ HistoryOK' /\ op'.id = op.id /\ op'.at = op.at /\ Calls' = Calls
           /\ op'.calls[i] = call /\ \A j \in Calls : j # i => op'.calls[j] = op.calls[j]
<1> DEFINE calls == [op.calls EXCEPT ![i] = call]
           next == [op EXCEPT !.calls = calls]
<1>1. op' = next /\ UNCHANGED <<outcome, history>>
    BY DEF Advance
<1>2. /\ calls \in Seq(Call) /\ DOMAIN calls = Calls
      /\ calls[i] = call /\ \A j \in Calls : j # i => calls[j] = op.calls[j]
    BY SMTT(30), OpFields DEF Calls
<1> HIDE DEF calls
<1>3. next \in Operation /\ next.id = op.id /\ next.at = op.at /\ next.calls = calls
    BY Zenon, <1>2, OpFields DEF Operation
<1> HIDE DEF next
<1>4. Calls' = Calls /\ op'.calls = calls
    BY <1>1, <1>2, <1>3 DEF Calls
<1>5. i \in Incomplete'
    BY <1>2, <1>4 DEF Incomplete
<1>6. \A j \in Calls : calls[j].id = op.calls[j].id
    BY <1>2
<1>7. OpOK'
    BY SMTT(30), <1>1, <1>3, <1>4, <1>5, <1>6 DEF TypeInv, OpOK, outcome
<1>8. HistoryOK'
    BY <1>1 DEF TypeInv, HistoryOK, history
<1> QED
    BY <1>1, <1>2, <1>3, <1>4, <1>7, <1>8

\* A call whose fields are replaced by typed ones is typed (replaceCall).
LEMMA CallType ==
    ASSUME TypeInv, NEW i \in Calls
    PROVE  op.calls[i] \in Call /\ op.calls[i].id \in Nat /\ op.calls[i].replay \in ReplayClasses
<1>1. op.calls \in Seq(Call)
    BY OpFields
<1>2. op.calls[i] \in Call
    BY <1>1 DEF Calls
<1> QED
    BY <1>2 DEF Call

\* Recording the outcome of a call (publishToolOutcome) keeps the operation typed.
LEMMA StagedOutcome ==
    ASSUME TypeInv, NEW i \in Calls, NEW terminate \in BOOLEAN, StageOutcome(i, terminate)
    PROVE  /\ TreeOK' /\ OpOK' /\ HistoryOK' /\ OwnerOK'
           /\ op'.id = op.id /\ op'.at = op.at /\ Calls' = Calls
           /\ op'.calls[i].status = "outcome_ready" /\ op'.calls[i].id = op.calls[i].id
           /\ \A j \in Calls : j # i => op'.calls[j] = op.calls[j]
           /\ UNCHANGED <<nextId, phase>>
<1> DEFINE ends == terminate /\ Running
           call == [op.calls[i] EXCEPT !.status = "outcome_ready", !.terminate = ends]
<1>1. /\ Advance([op EXCEPT !.calls[i] = call]) /\ pending' = pending \cup {op.calls[i].id}
      /\ owned' \subseteq owned /\ UNCHANGED <<tree, inbox, phase, idleOwner, line>>
    BY DEF StageOutcome
<1>2. ends \in BOOLEAN
    OBVIOUS
<1> HIDE DEF ends
<1>3. call \in Call /\ call.id = op.calls[i].id /\ call.status = "outcome_ready"
    BY Zenon, <1>2, CallType DEF Call, CallStatuses
<1> HIDE DEF call
<1>4. TreeOK' /\ OwnerOK' /\ nextId' = nextId /\ owned' \subseteq Address
    BY <1>1, CallType DEF TypeInv, TreeOK, OwnerOK, line, navigation, OpOK, tree
<1> QED
    BY <1>1, <1>3, <1>4, CallChanged

\* A batch with incomplete calls has a first one, and it is a call of the batch.
LEMMA FirstIncomplete ==
    ASSUME TypeInv, Incomplete # {}
    PROVE  First \in Incomplete /\ \A j \in Incomplete : First <= j
<1>1. Incomplete \subseteq Nat
    BY OpFields DEF Incomplete, Calls
<1> QED
    BY Zenon, <1>1, LeastExists DEF First

\* Settling a call that cancellation kept from starting preserves the type invariant.
LEMMA SettleUnstartedTyped ==
    ASSUME TypeInv, SettleUnstarted
    PROVE  TypeInv'
<1>1. /\ drive.pc = "loop" /\ abortReq' \in Request /\ op.at = "tools"
      /\ StageOutcome(First, FALSE) /\ drive' = Signalled(At("loop")) /\ tasks' = tasks
    BY Zenon, CommandType DEF SettleUnstarted
<1>2. First \in Calls /\ FALSE \in BOOLEAN
    BY <1>1, FirstIncomplete DEF TypeInv, OpOK, Incomplete
<1>3. /\ TreeOK' /\ OpOK' /\ HistoryOK' /\ OwnerOK' /\ phase' = phase
      /\ op'.id = op.id /\ op'.at = op.at
    BY Zenon, <1>1, <1>2, StagedOutcome
<1>4. drive' \in Pass /\ drive'.pc = "loop" /\ drive'.plan = {} /\ drive'.op = drive.op
    <2>1. /\ At("loop") \in Pass /\ At("loop").pc = "loop" /\ At("loop").plan = {}
          /\ At("loop").op = drive.op /\ "aborting" \in Gates
        BY AtType, Names DEF TypeInv, PassOK, Points
    <2> QED
        BY Zenon, <1>1, <2>1 DEF Pass, Signalled
<1>5. DOMAIN tasks = {}
    BY <1>1, NoTasks
<1>6. PassOK'
    BY SMTT(30), <1>1, <1>3, <1>4, <1>5 DEF TypeInv, PassOK, Resting
<1>7. BatchOK'
    BY <1>1, <1>5 DEF BatchOK
<1> QED
    BY <1>3, <1>6, <1>7 DEF TypeInv

\* A task whose call is not staged yet has a call of the batch.
LEMMA UnstagedCall ==
    ASSUME TypeInv, NEW i \in DOMAIN tasks, tasks[i].at \in Unstaged
    PROVE  i \in Calls /\ op.calls[i].status \in {"planned", "effect_pending"}
BY DEF TypeInv, BatchOK, Unstaged

\* A task moves and its call, which was not staged, changes.
LEMMA TaskCallTyped ==
    ASSUME TypeInv, NEW i \in DOMAIN tasks, tasks[i].at \in Unstaged,
           TreeOK', OpOK', HistoryOK', OwnerOK', op'.id = op.id, op'.at = op.at, Calls' = Calls,
           \A j \in Calls : j # i => op'.calls[j] = op.calls[j],
           op'.calls[i].id = op.calls[i].id,
           NEW at \in TaskPoints \ {"placing"}, Moved(i, at),
           at \in Unstaged => op'.calls[i].status \in {"planned", "effect_pending"},
           UNCHANGED <<nextId, phase, drive>>, abortReq' \in Request
    PROVE  TypeInv'
<1>1. PassOK'
    BY SMTT(30), WithTasks DEF TypeInv, PassOK, Moved
<1>2. BatchOK'
    <2>1. ASSUME NEW j \in DOMAIN tasks', tasks'[j].at \notin {"place", "placing", "done"}
          PROVE  j \in Calls' /\ op'.calls[j].status \in {"planned", "effect_pending"}
        <3>1. CASE j = i
            BY SMTT(30), <2>1, <3>1, UnstagedCall DEF Moved, Unstaged
        <3>2. CASE j # i
            BY SMTT(30), <2>1, <3>2 DEF Moved, TypeInv, BatchOK
        <3> QED
            BY <3>1, <3>2
    <2>2. ASSUME NEW j \in DOMAIN tasks', tasks'[j].at = "placing",
                 NEW k \in Calls', op'.calls[k].id \in drive'.plan
          PROVE  op'.calls[k].status \in {"outcome_ready", "completed"}
        <3>1. j # i /\ j \in DOMAIN tasks /\ tasks[j].at = "placing"
            BY <2>2 DEF Moved
        <3>2. op.calls[k].id \in drive.plan /\ k \in Calls
            BY SMTT(30), <2>2
        <3>3. op.calls[k].status \in {"outcome_ready", "completed"}
            BY SMTT(30), <3>1, <3>2 DEF TypeInv, BatchOK
        <3>4. k # i
            BY SMTT(30), <3>3, UnstagedCall
        <3> QED
            BY SMTT(30), <3>2, <3>3, <3>4
    <2> QED
        BY SMTT(30), <2>1, <2>2 DEF BatchOK
<1> QED
    BY SMTT(30), <1>1, <1>2 DEF TypeInv

\* publishToolOutcome preserves the type invariant.
LEMMA PublishOutcomeTyped ==
    ASSUME TypeInv, NEW i \in DOMAIN tasks, NEW terminate \in BOOLEAN, PublishOutcome(i, terminate)
    PROVE  TypeInv'
<1>1. /\ abortReq' \in Request /\ tasks[i].at = "settle" /\ StageOutcome(i, terminate)
      /\ TaskAt(i, "place") /\ drive' = drive
    BY TurnType DEF PublishOutcome
<1>2. tasks[i].at \in Unstaged /\ i \in Calls
    BY <1>1, UnstagedCall DEF Unstaged, TaskPoints
<1>3. /\ "place" \in TaskPoints \ {"placing"} /\ "place" \notin Unstaged /\ Moved(i, "place")
    BY SMTT(30), <1>1, TaskAtType DEF Unstaged, TaskPoints
<1>4. op'.calls[i].id = op.calls[i].id
    BY <1>1, <1>2, StagedOutcome
<1> QED
    BY SMTT(30), <1>1, <1>2, <1>3, <1>4, StagedOutcome, TaskCallTyped
=============================================================================
