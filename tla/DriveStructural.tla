--------------------------- MODULE DriveStructural ---------------------------
(***************************************************************************)
(* Compaction and navigation (runtime/drive/structural.ts): the decision   *)
(* hook, numbered summary attempts made of one or two nested requests, the *)
(* outcome at each kind of boundary, and unsummarized navigation.          *)
(***************************************************************************)
EXTENDS DriveTools

CONSTANT SummaryOutcomes   \* how a nested summary request may end

ASSUME StructuralAssumption == SummaryOutcomes \subseteq {"stop", "transient", "fatal"}

MaxNested == 2             \* history summary and turn prefix summary

\* readStructuralPreparation
Prepared == [what |-> "preparation", key |-> op.task] \in owned

-----------------------------------------------------------------------------
(* publishStructuralOutcome *)

\* The entry a successful summary inserts: a compaction at the tip, or a branch
\* summary under the navigation target.
SummaryEntry(id) ==
    IF op.boundary = "commit_navigation"
    THEN [id |-> id, type |-> "branch_summary", parent |-> op.target]
    ELSE [id |-> id, type |-> "compaction", parent |-> tip]

\* A run resumes after its compaction, or after a declined threshold compaction:
\* the boundary is planned on top of the new entry.
ResumeRun(kind, id) ==
    LET head == IF kind = "summary" THEN {SummaryEntry(id)} ELSE {}
        from == IF kind = "summary" THEN id ELSE tip
        declinedEnd == kind = "declined" /\ op.cont = "may_finish"
        selected == BoundaryInbox(declinedEnd)
        shown == Projecting(selected)
    IN  /\ op.boundary = "resume_checkpoint"
        /\ kind = "summary" \/ (kind = "declined" /\ op.reason = "threshold")
        /\ \/ /\ declinedEnd /\ shown = {}
              /\ drive' = [At("finish") EXCEPT !.plan = Ids(selected)]
              /\ UNCHANGED <<entries, tip, queue, operation, phase, tasks, idleOwner, line, history>>
           \/ /\ shown # {}
              /\ PlaceUnder(from, head, selected, {})
              /\ Advance(AssistantReady(op, Latest(shown).id, FALSE, 1))
              /\ Goto("loop") /\ UNCHANGED owned
           \/ /\ shown = {} /\ op.cont = "need_assistant"
              /\ PlaceUnder(from, head, selected, {})
              /\ Advance(AssistantReady(op, op.trigger, op.flag, 1))
              /\ Goto("loop") /\ UNCHANGED owned
           \/ /\ shown = {} /\ op.cont = "may_finish" /\ kind = "summary"
              /\ PlaceUnder(from, head, selected, {})
              /\ Advance(Checkpoint(op, op.cont, op.flag, op.trigger))
              /\ Goto("loop") /\ UNCHANGED owned

\* A run whose overflow compaction was declined or whose compaction failed.
FailRun(kind) ==
    /\ op.boundary = "resume_checkpoint"
    /\ kind = "failed" \/ (kind = "declined" /\ op.reason = "overflow")
    /\ Finish("failed", tip)
    /\ UNCHANGED <<entries, tip, queue>>

\* A compaction or navigation operation ends with its summary.
FinishStructural(kind, id) ==
    LET done == kind = "summary"
    IN  /\ op.boundary \in {"finish", "commit_navigation"}
        /\ entries' = entries \cup (IF done THEN {SummaryEntry(id)} ELSE {})
        /\ tip' = IF done THEN id ELSE tip
        /\ Finish(IF done THEN "completed" ELSE kind, IF done THEN id ELSE tip)
        /\ UNCHANGED queue

PublishSummary(kind, id) == ResumeRun(kind, id) \/ FailRun(kind) \/ FinishStructural(kind, id)

-----------------------------------------------------------------------------
(* Decision *)

ReadPreparation ==
    /\ Command("loop") /\ Running
    /\ op.at \in {"summary.deciding", "summary.ready"}
    /\ Prepared
    /\ Local(At(IF op.at = "summary.deciding" THEN "decide" ELSE "attempt"))

\* Faulty variant: the decision is settled whether or not it was cancelled.
DeclineAfterCancel ==
    /\ Command("decide") /\ "decline" \in HookActions
    /\ PublishSummary("declined", 0)
    /\ UNCHANGED <<usage, nextId>>

\* before_compaction or before_navigation declines, supplies the summary (perhaps with a
\* usage row) or leaves it to generation.
Decline ==
    /\ Command("decide") /\ Running /\ "decline" \in HookActions
    /\ PublishSummary("declined", 0)
    /\ UNCHANGED <<usage, nextId>>

SupplySummary ==
    /\ Command("decide") /\ Running /\ "supply" \in HookActions
    /\ PublishSummary("summary", nextId)
    /\ usage' \in {usage, usage \cup {nextId + 1}}
    /\ nextId' = nextId + 2

DecideGenerate ==
    /\ Command("decide") /\ Running
    /\ Advance([op EXCEPT !.at = "summary.ready", !.resp = nextId, !.attempt = 1])
    /\ nextId' = nextId + 1
    /\ Goto("loop")
    /\ UNCHANGED <<entries, tip, usage, queue, owned>>

-----------------------------------------------------------------------------
(* Attempts *)

SummaryModelMissing ==
    /\ Command("attempt") /\ Running
    /\ PublishSummary("failed", 0)
    /\ UNCHANGED <<usage, nextId>>

\* An abandoned branch without messages is summarized without a request.
AttemptIntent(empty) ==
    /\ Command("attempt") /\ Running
    /\ empty => op.boundary = "commit_navigation"
    /\ Advance([op EXCEPT !.at = "summary.effect_pending", !.poll = 0, !.src = 0])
    /\ drive' = [At(IF empty THEN "result" ELSE "intent") EXCEPT !.arg = IF empty THEN "stop" ELSE "none"]
    /\ UNCHANGED <<tree, queue, owned, phase, tasks, idleOwner, line>>

SummaryPending == op.at = "summary.effect_pending"

NestedIntent ==
    /\ Command("intent") /\ SummaryPending /\ Running
    /\ Advance([op EXCEPT !.poll = @ + 1, !.src = nextId])
    /\ nextId' = nextId + 1
    /\ Goto("admit")
    /\ UNCHANGED <<entries, tip, usage, queue, owned>>

\* The usage row is written even if the operation was cancelled meanwhile.
NestedOutcome(another) ==
    /\ Command("settle") /\ SummaryPending
    /\ another => /\ drive.arg = "stop"
                  /\ op.poll < MaxNested /\ op.boundary # "commit_navigation"
    /\ usage' = usage \cup {op.src}
    /\ Advance([op EXCEPT !.src = 0])
    /\ drive' = IF another THEN At("intent") ELSE [At("result") EXCEPT !.arg = drive.arg]
    /\ UNCHANGED <<entries, tip, nextId, queue, owned, phase, tasks, idleOwner, line>>

RetryLater ==
    /\ Advance([op EXCEPT !.at = "summary.retry_wait", !.attempt = @ + 1, !.poll = 0, !.src = 0])
    /\ Goto("loop")
    /\ UNCHANGED <<tree, queue, owned>>

AttemptResult ==
    /\ Command("result") /\ Running
    /\ \/ /\ drive.arg = "stop"
          /\ PublishSummary("summary", op.resp)
          /\ UNCHANGED <<usage, nextId>>
       \/ /\ drive.arg = "transient" /\ op.attempt < MaxAttempts
          /\ RetryLater
       \/ /\ drive.arg = "fatal" \/ (drive.arg = "transient" /\ op.attempt >= MaxAttempts)
          /\ PublishSummary("failed", 0)
          /\ UNCHANGED <<usage, nextId>>

\* recoverStructuralGeneration: an attempt whose process was lost is a failed one.
RecoverSummary ==
    /\ Command("loop") /\ SummaryPending /\ Running
    /\ \/ /\ op.attempt >= MaxAttempts
          /\ PublishSummary("failed", 0)
          /\ UNCHANGED <<usage, nextId>>
       \/ /\ op.attempt < MaxAttempts
          /\ RetryLater

-----------------------------------------------------------------------------

CommitNavigation ==
    /\ Command("loop") /\ op.at = "navigation.ready_to_commit" /\ Running
    /\ tip' = op.target
    /\ Finish("completed", op.target)
    /\ UNCHANGED <<entries, usage, nextId, queue>>

StructuralStep ==
    \/ ReadPreparation \/ Decline \/ SupplySummary \/ DecideGenerate
    \/ SummaryModelMissing
    \/ \E empty \in BOOLEAN : AttemptIntent(empty)
    \/ NestedIntent
    \/ SummaryPending /\ AdmitRequest(op.src)
    \/ \E result \in {"stop", "transient", "fatal", "aborted"} :
         SummaryPending /\ RequestReturns(result, SummaryOutcomes)
    \/ \E another \in BOOLEAN : NestedOutcome(another)
    \/ AttemptResult \/ RecoverSummary
    \/ CommitNavigation
=============================================================================
