------------------------------ MODULE DriveTypes ------------------------------
(***************************************************************************)
(* Type correctness of the lane, second part: the shapes of the steps of a *)
(* drive, and the steps of a run up to its responses.                      *)
(***************************************************************************)
EXTENDS LaneTypes

-----------------------------------------------------------------------------
(* The shapes of a drive's steps *)

\* When it is the turn of the pass, its operation is the current one.
LEMMA TurnType ==
    ASSUME TypeInv, NEW i, DriveTurn(i)
    PROVE  abortReq' \in Request /\ phase = "open"
BY DEF DriveTurn, TypeInv, PassOK, Request

\* Outside a tool batch no tool task is alive.
LEMMA NoTasks ==
    ASSUME TypeInv, drive.pc # "tools"
    PROVE  DOMAIN tasks = {}
BY Zenon DEF TypeInv, PassOK

\* A pass that moves without a commit.
LEMMA LocalTyped ==
    ASSUME TypeInv, NEW next \in Pass, Local(next), abortReq' \in Request,
           drive.pc \notin Resting \cup {"tools"},
           next.op = drive.op, \A id \in next.plan : id \in Nat /\ id < nextId,
           next.pc = "intent" /\ op.at \in DeferredLeaves => next.permits > 0
    PROVE  TypeInv'
<1>1. drive' = next /\ UNCHANGED <<tree, queue, operation, phase, tasks, idleOwner, line, history>>
    BY DEF Local
<1>2. DOMAIN tasks = {}
    BY NoTasks
<1>3. PassOK'
    BY SMTT(30), <1>1, <1>2 DEF TypeInv, PassOK, tree, operation
<1>4. BatchOK' /\ OwnerOK' /\ HistoryOK'
    BY Zenon, <1>1, <1>2 DEF TypeInv, BatchOK, OwnerOK, line, navigation, HistoryOK, history
<1> QED
    BY <1>1, <1>3, <1>4, ProcessTyped

\* A step of the pass that only moves its program point preserves the type invariant.
LEMMA LocalAtTyped ==
    ASSUME TypeInv, NEW pc \in Points, Local(At(pc)), abortReq' \in Request,
           drive.pc \notin Resting \cup {"tools"},
           pc = "intent" /\ op.at \in DeferredLeaves => drive.permits > 0
    PROVE  TypeInv'
<1>1. /\ At(pc) \in Pass /\ At(pc).pc = pc /\ At(pc).plan = {} /\ At(pc).op = drive.op
      /\ At(pc).permits = drive.permits
    BY AtType DEF TypeInv, PassOK
<1> QED
    BY <1>1, LocalTyped

\* A commit that keeps the operation open, outside a tool batch.
LEMMA AdvanceTyped ==
    ASSUME TypeInv, NEW next \in Operation, Advance(next),
           next.id = op.id, next.at \notin {"none", "tools"},
           next.calls = <<>> \/ next.calls = op.calls,
           TreeOK', nextId <= nextId', owned' \subseteq Address,
           drive.pc \notin Resting \cup {"tools"}, abortReq' \in Request,
           drive' \in Pass, drive'.op = drive.op, drive'.plan = {},
           drive'.pc # "intent" \/ next.at \notin DeferredLeaves,
           UNCHANGED <<phase, tasks, idleOwner, line>>
    PROVE  TypeInv'
<1>1. op' = next /\ UNCHANGED <<outcome, history>>
    BY SMTT(30) DEF Advance
<1>2. DOMAIN tasks = {}
    BY SMTT(30), NoTasks
<1>3. OpOK'
    <2>1. nextId \in Nat /\ nextId' \in Nat
        BY Zenon DEF TypeInv, TreeOK
    <2>2. CASE next.calls = <<>>
        BY SMTT(30), <1>1, <2>2 DEF TypeInv, OpOK, outcome, Calls
    <2>3. CASE next.calls = op.calls
        BY <1>1, <2>1, <2>3 DEF TypeInv, OpOK, outcome, Calls
    <2> QED
        BY SMTT(30), <2>2, <2>3
<1>4. PassOK'
    BY SMTT(30), <1>1, <1>2 DEF TypeInv, PassOK
<1>5. BatchOK' /\ OwnerOK' /\ HistoryOK'
    BY SMTT(30), <1>1, <1>2 DEF TypeInv, BatchOK, OwnerOK, line, navigation, HistoryOK, history
<1> QED
    BY <1>3, <1>4, <1>5 DEF TypeInv

\* A commit of the pass that writes a typed operation state preserves the type invariant.
LEMMA AdvanceGotoTyped ==
    ASSUME TypeInv, NEW next \in Operation, Advance(next),
           next.id = op.id, next.at \notin {"none", "tools"},
           next.calls = <<>> \/ next.calls = op.calls,
           TreeOK', nextId <= nextId', owned' \subseteq Address,
           drive.pc \notin Resting \cup {"tools"}, abortReq' \in Request,
           NEW pc \in Points, Goto(pc), pc # "intent"
    PROVE  TypeInv'
<1>1. /\ drive' \in Pass /\ drive'.op = drive.op /\ drive'.plan = {} /\ drive'.pc = pc
      /\ UNCHANGED <<phase, tasks, idleOwner, line>>
    BY AtType DEF Goto, TypeInv, PassOK
<1> QED
    BY Zenon, <1>1, AdvanceTyped

\* The terminal commit.
LEMMA FinishTyped ==
    ASSUME TypeInv, NEW status \in Statuses, NEW tipId \in Nat, Finish(status, tipId),
           TreeOK', drive.pc # "tools", abortReq' \in Request
    PROVE  TypeInv'
<1>1. /\ op' = NoOp /\ owned' \subseteq owned /\ last' = op.id
      /\ results' = results \cup {[op |-> op.id, kind |-> op.intent, status |-> status,
                                     from |-> op.source, tip |-> tipId]}
      /\ drive' = At("settled") /\ UNCHANGED <<phase, tasks, idleOwner, line, history>>
    BY DEF Finish, Goto
<1>2. DOMAIN tasks = {}
    BY NoTasks
<1>3. /\ drive' \in Pass /\ drive'.pc = "settled" /\ drive'.plan = {}
    BY SMTT(30), <1>1, AtType DEF TypeInv, PassOK, Points
<1>4. op.id \in Nat /\ op.intent \in Intents /\ op.source \in Nat
    BY ZenonT(60) DEF TypeInv, OpOK, Operation
<1>5. results' \subseteq Result
    <2>1. results \subseteq Result
        BY Zenon DEF TypeInv, OpOK
    <2>2. [op |-> op.id, kind |-> op.intent, status |-> status, from |-> op.source, tip |-> tipId] \in Result
        BY <1>4 DEF Result
    <2> QED
        BY Zenon, <1>1, <2>1, <2>2
<1>6. OpOK'
    BY SMTT(30), <1>1, <1>4, <1>5, NoOpType DEF TypeInv, OpOK, Calls
<1>7. PassOK'
    BY <1>1, <1>2, <1>3 DEF TypeInv, PassOK, Resting
<1>8. BatchOK' /\ OwnerOK' /\ HistoryOK'
    BY Zenon, <1>1, <1>2 DEF TypeInv, BatchOK, OwnerOK, line, navigation, HistoryOK, history
<1> QED
    BY <1>6, <1>7, <1>8 DEF TypeInv

-----------------------------------------------------------------------------
(* Runs *)

\* A command of the loop has its turn at a point where the pass is at work.
LEMMA CommandType ==
    ASSUME TypeInv, NEW pc, Command(pc)
    PROVE  drive.pc = pc /\ abortReq' \in Request /\ phase = "open"
BY TurnType DEF Command

\* Steps of a run that only move the pass.
LEMMA RunMovesTyped ==
    ASSUME TypeInv,
           \/ BeforeDrive \/ FindCancelled \/ ReadPrompt \/ PrepareGeneration
           \/ RequestRefused \/ TimerEnds \/ RetryWait
    PROVE  TypeInv'
<1>1. PICK pc \in Points : /\ Local(At(pc)) /\ abortReq' \in Request
                           /\ drive.pc \notin Resting \cup {"tools"}
                           /\ pc = "intent" => op.at \notin DeferredLeaves
    <2>1. abortReq \in Request
        BY DEF TypeInv, PassOK
    <2>2. CASE BeforeDrive
        BY <2>1, <2>2 DEF BeforeDrive, Points, Resting
    <2>3. CASE FindCancelled
        BY <2>3, TurnType DEF FindCancelled, ContinuePoints, Points, Resting
    <2>4. CASE ReadPrompt
        BY <2>4, CommandType DEF ReadPrompt, Points, CommandPoints, Resting
    <2>5. CASE PrepareGeneration
        BY <2>5, CommandType DEF PrepareGeneration, Points, CommandPoints, Resting, DeferredLeaves
    <2>6. CASE RequestRefused
        BY <2>1, <2>6 DEF RequestRefused, Points, Resting
    <2>7. CASE TimerEnds
        BY <2>1, <2>7 DEF TimerEnds, Points, CommandPoints, Resting
    <2>8. CASE RetryWait
        BY <2>1, <2>8 DEF RetryWait, Points, CommandPoints, Resting
    <2> QED
        BY SMTT(30), <2>2, <2>3, <2>4, <2>5, <2>6, <2>7, <2>8
<1> QED
    BY <1>1, LocalAtTyped

\* prepareDeferredPoll consumes a permit and preserves the type invariant.
LEMMA PreparePollTyped ==
    ASSUME TypeInv, PreparePoll
    PROVE  TypeInv'
<1> DEFINE pc == IF drive.permits = 0 THEN "suspended" ELSE "intent"
<1>1. /\ Local(At(pc)) /\ abortReq' \in Request /\ drive.pc = "loop"
    BY CommandType DEF PreparePoll
<1>2. pc \in Points /\ (pc = "intent" => drive.permits > 0)
    BY DEF Points, CommandPoints, TypeInv, PassOK, Pass
<1> HIDE DEF pc
<1> QED
    BY <1>1, <1>2, LocalAtTyped DEF Resting

\* Steps of a run that move the pass and leave it a note.
LEMMA NotedTyped ==
    ASSUME TypeInv, NEW pc \in Points \ {"intent"}, NEW note \in Notes, abortReq' \in Request,
           NEW next, \/ next = [At(pc) EXCEPT !.arg = note]
                     \/ next = Signalled([At(pc) EXCEPT !.arg = note]),
           Local(next),
           drive.pc \notin Resting \cup {"tools"}
    PROVE  TypeInv'
<1>1. At(pc) \in Pass /\ At(pc).pc = pc /\ At(pc).plan = {} /\ At(pc).op = drive.op
    BY AtType DEF TypeInv, PassOK
<1>2. next \in Pass /\ next.pc = pc /\ next.plan = {} /\ next.op = drive.op
    <2>1. "aborting" \in Gates /\ TRUE \in BOOLEAN
        BY Names
    <2> QED
        BY ZenonT(60), <1>1, <2>1 DEF Pass, Signalled
<1> QED
    BY <1>2, LocalTyped

\* The local steps of a run (hooks, preparations, refusals) preserve the type invariant.
LEMMA RunNotesTyped ==
    ASSUME TypeInv,
           \/ \E threshold \in BOOLEAN : RunCheckpoint(threshold)
           \/ \E result \in ProviderOutcomes \cup {"aborted"}, possible \in SUBSET ProviderOutcomes :
                RequestReturns(result, possible)
           \/ RecoverAssistant \/ ReconcileRequest
    PROVE  TypeInv'
<1>1. "plan" \in Points \ {"intent"} /\ "settle" \in Points \ {"intent"}
    BY DEF Points, CommandPoints
<1>2. ASSUME NEW threshold \in BOOLEAN, RunCheckpoint(threshold) PROVE TypeInv'
    <2> DEFINE note == IF threshold THEN "threshold" ELSE "below"
    <2>1. note \in Notes
        BY Names
    <2>2. Local([At("plan") EXCEPT !.arg = note]) /\ abortReq' \in Request /\ drive.pc = "loop"
        BY <1>2, CommandType DEF RunCheckpoint
    <2> HIDE DEF note
    <2> QED
        BY <1>1, <2>1, <2>2, NotedTyped DEF Resting
<1>3. ASSUME NEW result \in ProviderOutcomes \cup {"aborted"}, NEW possible,
             RequestReturns(result, possible)
      PROVE  TypeInv'
    <2>1. result \in Notes
        BY Names
    <2>2. /\ Local([At("settle") EXCEPT !.arg = result]) /\ abortReq' \in Request
          /\ drive.pc = "effect"
        BY <1>3 DEF RequestReturns, TypeInv, PassOK
    <2> QED
        BY <1>1, <2>1, <2>2, NotedTyped DEF Resting
<1>4. CASE RecoverAssistant
    <2>1. /\ Local([At("settle") EXCEPT !.arg = "recovered"]) /\ abortReq' \in Request
          /\ drive.pc = "loop" /\ "recovered" \in Notes
        BY <1>4, CommandType, Names DEF RecoverAssistant
    <2> QED
        BY <1>1, <2>1, NotedTyped DEF Resting
<1>5. CASE ReconcileRequest
    <2>1. /\ Local(Signalled([At("settle") EXCEPT !.arg = "recovered"])) /\ abortReq' \in Request
          /\ drive.pc = "loop" /\ "recovered" \in Notes
        BY <1>5, CommandType, Names DEF ReconcileRequest
    <2> QED
        BY <1>1, <2>1, NotedTyped DEF Resting
<1> QED
    BY <1>2, <1>3, <1>4, <1>5

\* A placement that also draws ids leaves a well formed tree and queue.
LEMMA PlacedTree ==
    ASSUME TypeInv, NEW from \in Nat, NEW head, head \subseteq Entry,
           NEW chosen, chosen \subseteq inbox, NEW fresh, PlaceUnder(from, head, chosen, fresh),
           \A x \in fresh : x.id \in Nat /\ x.id < nextId' /\ x.type \in EntryTypes,
           nextId' \in Nat, nextId <= nextId', usage' \subseteq Nat
    PROVE  TreeOK'
<1>1. /\ entries' \subseteq Entry /\ tip' \in Nat
      /\ inbox' \subseteq inbox /\ pending' \subseteq pending
    BY PlaceUnderType DEF TypeInv
<1> QED
    BY <1>1 DEF TypeInv, TreeOK

\* After a placement the tip is an entry, and what was the tip still is one.
LEMMA PlacedAtTip ==
    ASSUME TypeInv, NEW chosen, chosen \subseteq inbox, Place(chosen, {}),
           nextId' \in Nat, nextId <= nextId', usage' = usage
    PROVE  TreeOK'
<1>1. tip \in Nat /\ usage' \subseteq Nat /\ {} \subseteq Entry /\ PlaceUnder(tip, {}, chosen, {})
    BY DEF TypeInv, TreeOK, Place
<1> QED
    BY <1>1, PlacedTree

\* The newest of some queued items has a drawn id, and so has the tip after them.
LEMMA QueuedIds ==
    ASSUME TypeInv, NEW S, S \subseteq inbox
    PROVE  /\ S # {} => Latest(S).id \in Nat
           /\ TipAfter(S, tip) \in Nat
           /\ Ids(S) \subseteq Nat /\ \A id \in Ids(S) : id < nextId
<1>1. /\ nextId \in Nat /\ tip \in Nat
      /\ \A x \in S : x.id \in Nat /\ x.id < nextId /\ x.type \in EntryTypes
    BY Names DEF TypeInv, TreeOK, Item
<1>2. S # {} => Latest(S).id \in Nat
    BY <1>1, LatestIn
<1>3. TipAfter(S, tip) \in Nat
    BY Zenon, <1>1, ChainedType
<1> QED
    BY <1>1, <1>2, <1>3 DEF Ids

\* startRun preserves the type invariant.
LEMMA StartRunTyped ==
    ASSUME TypeInv, NEW inject \in BOOLEAN, StartRun(inject)
    PROVE  TypeInv'
<1> DEFINE injected == IF inject THEN {[id |-> nextId, type |-> "message"]} ELSE {}
           trigger == TipAfter(injected, tip)
<1>1. /\ Place({}, injected) /\ Advance(Checkpoint(op, "need_assistant", FALSE, trigger))
      /\ Goto("loop") /\ UNCHANGED <<usage, owned>>
      /\ nextId' = IF inject THEN nextId + 1 ELSE nextId
    BY Zenon DEF StartRun
<1>2. drive.pc = "start" /\ abortReq' \in Request
    BY CommandType DEF StartRun
<1>3. nextId \in Nat /\ nextId' \in Nat /\ nextId <= nextId' /\ tip \in Nat /\ usage' \subseteq Nat
    BY <1>1 DEF TypeInv, TreeOK
<1>4. \A x \in injected : x.id \in Nat /\ x.id < nextId' /\ x.type \in EntryTypes
    BY <1>1, <1>3, Names
<1> HIDE DEF injected
<1>5. TreeOK'
    <2>1. PlaceUnder(tip, {}, {}, injected) /\ {} \subseteq Entry /\ {} \subseteq inbox
        BY <1>1 DEF Place
    <2> QED
        BY <1>3, <1>4, <2>1, PlacedTree
<1>6. trigger \in Nat
    BY Zenon, <1>3, <1>4, ChainedType
<1> DEFINE next == Checkpoint(op, "need_assistant", FALSE, trigger)
<1>7. next \in Operation /\ next.id = op.id /\ next.calls = <<>> /\ next.at = "checkpoint"
    <2>1. op \in Operation /\ "need_assistant" \in Continuations /\ FALSE \in BOOLEAN
        BY Names DEF TypeInv, OpOK
    <2> QED
        BY Zenon, <1>6, <2>1, CheckpointType
<1>8. owned' \subseteq Address /\ "loop" \in Points
    BY <1>1 DEF TypeInv, OpOK, Points
<1> HIDE DEF next, trigger
<1> QED
    <2>1. Advance(next)
        BY Zenon, <1>1 DEF next
    <2> QED
        BY SMTT(30), <1>1, <1>2, <1>3, <1>5, <1>7, <1>8, <2>1, AdvanceGotoTyped DEF Resting

\* Commits that lead to another generation.
LEMMA ToAssistantTyped ==
    ASSUME TypeInv, TreeOK', nextId <= nextId', owned' \subseteq Address,
           drive.pc \notin Resting \cup {"tools"}, abortReq' \in Request,
           NEW trigger \in Nat, NEW flag \in BOOLEAN,
           Advance(AssistantReady(op, trigger, flag, 1)), Goto("loop")
    PROVE  TypeInv'
<1> DEFINE next == AssistantReady(op, trigger, flag, 1)
<1>1. /\ next \in Operation /\ next.id = op.id /\ next.calls = <<>> /\ next.at = "assistant.ready"
    BY AssistantReadyType DEF TypeInv, OpOK
<1>2. "loop" \in Points /\ Advance(next)
    BY DEF Points
<1> HIDE DEF next
<1> QED
    BY <1>1, <1>2, AdvanceGotoTyped

\* Commits that lead to a compaction.
LEMMA ToSummaryTyped ==
    ASSUME TypeInv, TreeOK', nextId <= nextId', owned' \subseteq Address,
           drive.pc \notin Resting \cup {"tools"}, abortReq' \in Request,
           NEW task \in Nat, NEW reason \in Reasons, NEW cont \in Continuations,
           NEW flag \in BOOLEAN, NEW trigger \in Nat,
           Advance(SummaryDeciding(op, task, reason, cont, flag, trigger)), Goto("loop")
    PROVE  TypeInv'
<1> DEFINE next == SummaryDeciding(op, task, reason, cont, flag, trigger)
<1>1. /\ next \in Operation /\ next.id = op.id /\ next.calls = <<>> /\ next.at = "summary.deciding"
    BY SummaryDecidingType DEF TypeInv, OpOK
<1>2. "loop" \in Points /\ Advance(next)
    BY DEF Points
<1> HIDE DEF next
<1> QED
    BY SMTT(30), <1>1, <1>2, AdvanceGotoTyped

\* The fields of the current operation are in their types.
LEMMA OpFields ==
    ASSUME TypeInv
    PROVE  /\ op.id \in Nat /\ op.resp \in Nat /\ op.src \in Nat /\ op.trigger \in Nat
           /\ op.attempt \in Nat /\ op.poll \in Nat /\ op.target \in Nat /\ op.task \in Nat
           /\ op.cont \in Continuations /\ op.flag \in BOOLEAN /\ op \in Operation
           /\ op.calls \in Seq(Call) /\ op.control \in Controls /\ owned \subseteq Address
           /\ nextId \in Nat /\ tip \in Nat
BY DEF TypeInv, OpOK, TreeOK, Operation

\* planBoundaryInbox preserves the type invariant.
LEMMA PlanBoundaryTyped ==
    ASSUME TypeInv, PlanBoundary
    PROVE  TypeInv'
<1> DEFINE below == drive.arg = "below"
           selected == BoundaryInbox(below /\ op.cont = "may_finish")
           shown == Projecting(selected)
<1>1. drive.pc = "plan" /\ abortReq' \in Request
    BY CommandType DEF PlanBoundary
<1>2. selected \subseteq inbox /\ shown \subseteq inbox
    BY SelectedQueued DEF TypeInv, Projecting
<1>3. \/ /\ shown # {}
         /\ Place(selected, {})
         /\ Advance(AssistantReady(op, Latest(shown).id, FALSE, 1))
         /\ Goto("loop")
         /\ UNCHANGED <<usage, nextId, owned>>
      \/ /\ Place(selected, {})
         /\ Advance(SummaryDeciding(op, nextId, "threshold", op.cont, op.flag, op.trigger))
         /\ owned' = owned \cup {[what |-> "preparation", key |-> nextId]}
         /\ nextId' = nextId + 1
         /\ Goto("loop")
         /\ UNCHANGED usage
      \/ /\ Place(selected, {})
         /\ Advance(AssistantReady(op, op.trigger, op.flag, 1))
         /\ Goto("loop")
         /\ UNCHANGED <<usage, nextId, owned>>
      \/ Local([At("finish") EXCEPT !.plan = Ids(selected)])
    BY Zenon DEF PlanBoundary
<1> HIDE DEF below, selected, shown
<1>4. CASE /\ shown # {}
           /\ Place(selected, {})
           /\ Advance(AssistantReady(op, Latest(shown).id, FALSE, 1))
           /\ Goto("loop")
           /\ UNCHANGED <<usage, nextId, owned>>
    <2>1. Latest(shown).id \in Nat /\ FALSE \in BOOLEAN /\ nextId' \in Nat /\ nextId <= nextId'
        BY <1>2, <1>4, QueuedIds, OpFields
    <2>2. TreeOK' /\ owned' \subseteq Address
        BY SMTT(30), <1>2, <1>4, <2>1, PlacedAtTip, OpFields
    <2> QED
        BY Zenon, <1>1, <1>4, <2>1, <2>2, ToAssistantTyped DEF Resting
<1>5. CASE /\ Place(selected, {})
           /\ Advance(SummaryDeciding(op, nextId, "threshold", op.cont, op.flag, op.trigger))
           /\ owned' = owned \cup {[what |-> "preparation", key |-> nextId]}
           /\ nextId' = nextId + 1
           /\ Goto("loop")
           /\ UNCHANGED usage
    <2>1. nextId' \in Nat /\ nextId <= nextId' /\ "loop" \in Points
        BY SMTT(30), <1>5, OpFields DEF Points
    <2>2. TreeOK'
        BY <1>2, <1>5, <2>1, PlacedAtTip
    <2>3. owned' \subseteq Address
        BY <1>5, OpFields DEF Address, OwnedKinds
    <2>4. /\ nextId \in Nat /\ op.cont \in Continuations /\ op.flag \in BOOLEAN
          /\ op.trigger \in Nat /\ "threshold" \in Reasons
        BY OpFields, Names
    <2> QED
        BY SMTT(30), <1>1, <1>5, <2>1, <2>2, <2>3, <2>4, ToSummaryTyped DEF Resting
<1>6. CASE /\ Place(selected, {})
           /\ Advance(AssistantReady(op, op.trigger, op.flag, 1))
           /\ Goto("loop")
           /\ UNCHANGED <<usage, nextId, owned>>
    <2>1. nextId' \in Nat /\ nextId <= nextId' /\ op.trigger \in Nat /\ op.flag \in BOOLEAN
        BY <1>6, OpFields
    <2>2. TreeOK' /\ owned' \subseteq Address
        BY SMTT(30), <1>2, <1>6, <2>1, PlacedAtTip, OpFields
    <2> QED
        BY SMTT(30), <1>1, <1>6, <2>1, <2>2, ToAssistantTyped DEF Resting
<1>7. CASE Local([At("finish") EXCEPT !.plan = Ids(selected)])
    <2>1. Ids(selected) \in SUBSET Nat /\ \A id \in Ids(selected) : id < nextId
        BY SMTT(30), <1>2, QueuedIds
    <2>2. /\ At("finish") \in Pass /\ At("finish").pc = "finish" /\ At("finish").op = drive.op
        BY AtType DEF TypeInv, PassOK, Points, CommandPoints
    <2> DEFINE next == [At("finish") EXCEPT !.plan = Ids(selected)]
    <2>3. /\ next \in Pass /\ next.pc = "finish" /\ next.op = drive.op /\ next.plan = Ids(selected)
        BY <2>1, <2>2 DEF Pass
    <2>4. Local(next)
        BY <1>7
    <2> HIDE DEF next
    <2> QED
        BY SMTT(30), <1>1, <2>1, <2>3, <2>4, LocalTyped DEF Resting
<1> QED
    BY Zenon, <1>3, <1>4, <1>5, <1>6, <1>7

\* finishRunBoundary preserves the type invariant.
LEMMA FinishBoundaryTyped ==
    ASSUME TypeInv, NEW hookFollowUp \in BOOLEAN, FinishBoundary(hookFollowUp)
    PROVE  TypeInv'
<1> DEFINE selected == BoundaryInbox(TRUE)
           shown == Projecting(selected)
           message == [id |-> nextId, type |-> "message"]
<1>1. drive.pc = "finish" /\ abortReq' \in Request
    BY CommandType DEF FinishBoundary
<1>2. selected \subseteq inbox /\ shown \subseteq inbox
    BY Zenon, SelectedQueued DEF TypeInv, Projecting
<1>3. \/ /\ shown # {}
         /\ Place(selected, {})
         /\ Advance(AssistantReady(op, Latest(shown).id, FALSE, 1))
         /\ Goto("loop")
         /\ UNCHANGED <<usage, nextId, owned>>
      \/ /\ Place(selected, {message})
         /\ Advance(AssistantReady(op, nextId, FALSE, 1))
         /\ nextId' = nextId + 1
         /\ Goto("loop")
         /\ UNCHANGED <<usage, owned>>
      \/ /\ Place(selected, {})
         /\ Finish("completed", TipAfter(selected, tip))
         /\ UNCHANGED <<usage, nextId>>
    BY Zenon DEF FinishBoundary
<1>4. /\ message.id = nextId /\ message.type = "message"
    OBVIOUS
<1> HIDE DEF selected, shown, message
<1>5. CASE /\ shown # {}
           /\ Place(selected, {})
           /\ Advance(AssistantReady(op, Latest(shown).id, FALSE, 1))
           /\ Goto("loop")
           /\ UNCHANGED <<usage, nextId, owned>>
    <2>1. Latest(shown).id \in Nat /\ FALSE \in BOOLEAN /\ nextId' \in Nat /\ nextId <= nextId'
        BY <1>2, <1>5, QueuedIds, OpFields
    <2>2. TreeOK' /\ owned' \subseteq Address
        BY <1>2, <1>5, <2>1, PlacedAtTip, OpFields
    <2> QED
        BY Zenon, <1>1, <1>5, <2>1, <2>2, ToAssistantTyped DEF Resting
<1>6. CASE /\ Place(selected, {message})
           /\ Advance(AssistantReady(op, nextId, FALSE, 1))
           /\ nextId' = nextId + 1
           /\ Goto("loop")
           /\ UNCHANGED <<usage, owned>>
    <2>1. nextId' \in Nat /\ nextId <= nextId' /\ nextId \in Nat /\ FALSE \in BOOLEAN
        BY SMTT(30), <1>6, OpFields
    <2>2. \A x \in {message} : x.id \in Nat /\ x.id < nextId' /\ x.type \in EntryTypes
        BY <1>4, <1>6, <2>1, Names
    <2>3. /\ PlaceUnder(tip, {}, selected, {message}) /\ {} \subseteq Entry
          /\ tip \in Nat /\ usage' \subseteq Nat
        BY <1>6 DEF Place, TypeInv, TreeOK
    <2>4. TreeOK' /\ owned' \subseteq Address
        BY SMTT(30), <1>2, <1>6, <2>1, <2>2, <2>3, PlacedTree, OpFields
    <2> QED
        BY Zenon, <1>1, <1>6, <2>1, <2>4, ToAssistantTyped DEF Resting
<1>7. CASE /\ Place(selected, {})
           /\ Finish("completed", TipAfter(selected, tip))
           /\ UNCHANGED <<usage, nextId>>
    <2>1. nextId' \in Nat /\ nextId <= nextId' /\ TipAfter(selected, tip) \in Nat
        BY <1>2, <1>7, QueuedIds, OpFields
    <2>2. TreeOK' /\ "completed" \in Statuses
        BY <1>2, <1>7, <2>1, PlacedAtTip DEF Statuses
    <2> QED
        BY SMTT(30), <1>1, <1>7, <2>1, <2>2, FinishTyped
<1> QED
    BY Zenon, <1>3, <1>5, <1>6, <1>7

\* A terminal commit that drops the staged results.
LEMMA EndedTyped ==
    ASSUME TypeInv, ConfigurationFailure \/ AbortedTerminal
    PROVE  TypeInv'
<1>1. drive.pc = "loop" /\ abortReq' \in Request
    BY CommandType DEF ConfigurationFailure, AbortedTerminal
<1>2. /\ Finish("failed", tip) \/ Finish("aborted", tip)
      /\ pending' = pending \ Staged /\ UNCHANGED <<tree, inbox>>
    BY DEF ConfigurationFailure, AbortedTerminal
<1>3. TreeOK' /\ tip \in Nat /\ {"failed", "aborted"} \subseteq Statuses
    BY Zenon, <1>2 DEF TypeInv, TreeOK, tree, Statuses
<1> QED
    BY <1>1, <1>2, <1>3, FinishTyped

\* An unreadable deferred source faults the harness and preserves the type invariant.
LEMMA SourceFaultTyped ==
    ASSUME TypeInv, SourceFault
    PROVE  TypeInv'
<1>1. /\ drive.pc = "loop" /\ abortReq' \in Request /\ drive' = NoDrive /\ phase' = "faulted"
      /\ UNCHANGED <<tree, queue, operation, tasks, idleOwner, line, history>>
    BY CommandType DEF SourceFault
<1>2. DOMAIN tasks' = {} /\ tasks' \in [DOMAIN tasks' -> Task]
    BY <1>1, NoTasks DEF TypeInv, PassOK
<1>3. OwnerOK' /\ HistoryOK'
    BY <1>1 DEF TypeInv, OwnerOK, line, navigation, HistoryOK, history
<1> QED
    BY <1>1, <1>2, <1>3, NoPassTyped

\* publishGenerationIntent preserves the type invariant.
LEMMA GenerationIntentTyped ==
    ASSUME TypeInv, GenerationIntent
    PROVE  TypeInv'
<1> DEFINE next == [op EXCEPT !.at = "assistant.effect_pending", !.resp = nextId]
<1>1. /\ drive.pc = "intent" /\ abortReq' \in Request
      /\ Advance(next) /\ Goto("admit") /\ nextId' = nextId + 2
      /\ UNCHANGED <<entries, tip, usage, queue, owned>>
    BY CommandType DEF GenerationIntent
<1>2. /\ next \in Operation /\ next.id = op.id /\ next.calls = op.calls
      /\ next.at = "assistant.effect_pending"
    <2>1. "assistant.effect_pending" \in LeavesOrNone /\ nextId \in Nat /\ op \in Operation
        BY Names, OpFields
    <2> QED
        BY Zenon, <2>1 DEF Operation
<1>3. TreeOK' /\ nextId <= nextId' /\ owned' \subseteq Address /\ "admit" \in Points
    BY <1>1 DEF TypeInv, TreeOK, OpOK, queue, Points
<1> HIDE DEF next
<1> QED
    BY <1>1, <1>2, <1>3, AdvanceGotoTyped DEF Resting

\* publishPollIntent preserves the type invariant.
LEMMA PollIntentTyped ==
    ASSUME TypeInv, PollIntent
    PROVE  TypeInv'
<1> DEFINE poll == IF op.at = "deferred.suspended" THEN op.poll + 1 ELSE op.poll
           next == [op EXCEPT !.at = "deferred.effect_pending", !.resp = nextId, !.poll = poll]
<1>1. /\ drive.pc = "intent" /\ abortReq' \in Request /\ op.at \in DeferredLeaves
      /\ Advance(next) /\ nextId' = nextId + 2
      /\ owned' \subseteq owned
      /\ drive' = [At("admit") EXCEPT !.permits = At("admit").permits - 1]
      /\ UNCHANGED <<entries, tip, usage, queue, phase, tasks, idleOwner, line>>
    BY CommandType DEF PollIntent, DeferredLeaves
<1>2. /\ next \in Operation /\ next.id = op.id /\ next.calls = op.calls
      /\ next.at = "deferred.effect_pending"
    <2>1. /\ "deferred.effect_pending" \in LeavesOrNone /\ nextId \in Nat /\ op \in Operation
          /\ poll \in Nat
        BY Names, OpFields
    <2> HIDE DEF poll
    <2> QED
        BY Zenon, <2>1 DEF Operation
<1>3. TreeOK' /\ nextId <= nextId' /\ owned' \subseteq Address
    BY <1>1 DEF TypeInv, TreeOK, OpOK, queue
<1>4. drive' \in Pass /\ drive'.op = drive.op /\ drive'.plan = {} /\ drive'.pc = "admit"
    <2>1. /\ At("admit") \in Pass /\ At("admit").op = drive.op /\ At("admit").plan = {}
          /\ At("admit").pc = "admit" /\ At("admit").permits = drive.permits
        BY AtType DEF TypeInv, PassOK, Points
    <2>2. At("admit").permits - 1 \in Nat
        <3>1. drive.permits \in Nat /\ drive.permits > 0
            BY <1>1 DEF TypeInv, PassOK, Pass
        <3> QED
            BY <2>1, <3>1
    <2> QED
        BY <1>1, <2>1, <2>2 DEF Pass
<1> HIDE DEF next
<1> QED
    BY <1>1, <1>2, <1>3, <1>4, AdvanceTyped DEF Resting

\* Counting a started effect leaves the history typed.
LEMMA StartedType ==
    ASSUME TypeInv, NEW id \in Nat, NEW replay \in ReplayClasses, Start(id, replay)
    PROVE  HistoryOK'
BY DEF Start, TypeInv, HistoryOK, Rerun

\* Starting a provider request through the gate preserves the type invariant.
LEMMA AdmitRequestTyped ==
    ASSUME TypeInv, NEW id \in Nat, AdmitRequest(id)
    PROVE  TypeInv'
<1>1. /\ drive.pc = "admit" /\ Start(id, "never") /\ drive' = At("effect")
      /\ UNCHANGED <<tree, queue, operation, phase, tasks, abortReq, idleOwner, line>>
    BY DEF AdmitRequest
<1>2. DOMAIN tasks = {}
    BY <1>1, NoTasks
<1>3. drive' \in Pass /\ drive'.op = drive.op /\ drive'.plan = {} /\ drive'.pc = "effect"
    BY SMTT(30), <1>1, AtType DEF TypeInv, PassOK, Points
<1>4. PassOK'
    BY SMTT(30), <1>1, <1>2, <1>3 DEF TypeInv, PassOK, operation, Resting
<1>5. BatchOK' /\ OwnerOK'
    BY <1>1, <1>2 DEF TypeInv, BatchOK, OwnerOK, line, navigation
<1>6. HistoryOK'
    BY <1>1, StartedType DEF ReplayClasses
<1> QED
    BY <1>1, <1>4, <1>5, <1>6, ProcessTyped

\* A write of a running effect.
LEMMA OwnedTyped ==
    ASSUME TypeInv, owned' \subseteq Address, UNCHANGED <<tree, queue, op, outcome, process, line, history>>
    PROVE  TypeInv'
<1>1. TreeOK' /\ OwnerOK' /\ HistoryOK'
    BY DEF TypeInv, TreeOK, OwnerOK, line, navigation, HistoryOK, tree, queue, process, history
<1>2. OpOK'
    BY DEF TypeInv, OpOK, Calls, Incomplete, tree, outcome
<1>3. PassOK'
    BY DEF TypeInv, PassOK, tree, process
<1>4. BatchOK'
    BY DEF TypeInv, BatchOK, Calls, process
<1> QED
    BY SMTT(30), <1>1, <1>2, <1>3, <1>4 DEF TypeInv

\* Storing a progress frame of a response preserves the type invariant.
LEMMA FrameTyped ==
    ASSUME TypeInv, Frame
    PROVE  TypeInv'
<1>1. owned' \subseteq Address
    BY OpFields DEF Frame, Address, OwnedKinds
<1> QED
    BY <1>1, OwnedTyped DEF Frame

\* Leaving a retry wait preserves the type invariant.
LEMMA RetryCommitTyped ==
    ASSUME TypeInv, RetryCommit
    PROVE  TypeInv'
<1> DEFINE at == IF op.at = "assistant.retry_wait" THEN "assistant.ready" ELSE "summary.ready"
           next == [op EXCEPT !.at = at]
<1>1. /\ drive.pc = "wake" /\ abortReq' \in Request
      /\ Advance(next) /\ Goto("loop") /\ UNCHANGED <<tree, queue, owned>>
    BY CommandType DEF RetryCommit
<1>2. at \in LeavesOrNone /\ at \notin {"none", "tools"}
    BY Names
<1> HIDE DEF at
<1>3. next \in Operation /\ next.id = op.id /\ next.calls = op.calls /\ next.at = at
    BY Zenon, <1>2, OpFields DEF Operation
<1>4. TreeOK' /\ nextId <= nextId' /\ owned' \subseteq Address /\ "loop" \in Points
    BY <1>1 DEF TypeInv, TreeOK, OpOK, tree, queue, Points
<1> HIDE DEF next
<1> QED
    BY <1>1, <1>2, <1>3, <1>4, AdvanceGotoTyped DEF Resting

\* The entry a response is stored as is typed.
LEMMA ResponseType ==
    ASSUME TypeInv, NEW type \in EntryTypes, Response(type), pending' \subseteq pending,
           nextId' \in Nat, nextId <= nextId'
    PROVE  TreeOK'
<1>1. op.resp \in Nat /\ op.resp + 1 \in Nat /\ tip \in Nat
    BY OpFields
<1>2. [id |-> op.resp, type |-> type, parent |-> tip] \in Entry
    BY <1>1 DEF Entry
<1>3. /\ entries' \subseteq Entry /\ tip' \in Nat /\ usage' \subseteq Nat /\ inbox' = inbox
    BY Zenon, <1>1, <1>2 DEF Response, TypeInv, TreeOK
<1> QED
    BY <1>3 DEF TypeInv, TreeOK

\* A response that continues the run (publishResponse) preserves the type invariant.
LEMMA SettleNextTyped ==
    ASSUME TypeInv, NEW type \in EntryTypes, NEW next \in Operation, NEW extra, extra \subseteq Address,
           SettleNext(type, next, extra),
           next.id = op.id, next.at \notin {"none", "tools"}, next.calls = <<>>,
           nextId' \in Nat, nextId <= nextId', drive.pc = "settle", abortReq' \in Request
    PROVE  TypeInv'
<1>1. /\ Response(type) /\ Advance(next) /\ Goto("loop") /\ pending' = pending
      /\ owned' \subseteq owned \cup extra
    BY SMTT(30) DEF SettleNext
<1>2. TreeOK'
    BY SMTT(30), <1>1, ResponseType
<1>3. owned' \subseteq Address /\ "loop" \in Points
    BY <1>1, OpFields DEF Points
<1> QED
    BY SMTT(30), <1>1, <1>2, <1>3, AdvanceGotoTyped DEF Resting
=============================================================================
