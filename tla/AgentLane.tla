------------------------------ MODULE AgentLane ------------------------------
(***************************************************************************)
(* The complete lane: callers, the drive pass with its tool tasks, process *)
(* loss and attachment; and what the lane promises.                        *)
(***************************************************************************)
EXTENDS DriveStructural

DriveStep == RunStep \/ ToolStep \/ StructuralStep
Next == CallerStep \/ DriveStep

Spec == Init /\ [][Next]_vars

\* The process makes progress, a lost process is attached again and the host
\* keeps driving an open operation.  Requests, tools and timers end: a gate's
\* signal, a request timeout or the timer itself sees to it.
Fairness ==
    /\ WF_vars(DriveStep) /\ WF_vars(DriveReturns) /\ WF_vars(AbortCommit)
    /\ WF_vars(\E policy \in DrivePolicies : DriveClaim(policy))
    /\ WF_vars(Restore) /\ WF_vars(IdleCallbackReturns)
FairSpec == Spec /\ Fairness

-----------------------------------------------------------------------------
(* Types *)

Points == {"none", "claimed", "loop", "admit", "effect", "timer", "tools",
           "settled", "suspended", "retry"} \cup CommandPoints
EntryTypes == {"message", "custom", "assistant", "tool_use", "deferred", "result",
               "compaction", "branch_summary"}
ItemTypes == {"message", "custom"}
ItemKinds == {"steer", "followUp", "nextRun", "write"}
CallStatuses == {"planned", "effect_pending", "outcome_ready", "completed"}
ReplayClasses == {"never", "safe"}
Intents == {"none", "run", "compaction", "navigation"}
LeavesOrNone == Leaves \cup {"none"}
Controls == {"running", "cancel_requested"}
Continuations == {"none", "need_assistant", "may_finish"}
Reasons == {"none", "manual", "threshold", "overflow"}
Boundaries == {"none", "finish", "resume_checkpoint", "commit_navigation"}
Statuses == {"completed", "failed", "declined", "aborted"}
OwnedKinds == {"preparation", "args", "memo", "output", "frames"}
Gates == {"open", "aborting"}
Notes == ProviderOutcomes \cup {"none", "aborted", "recovered", "below", "threshold"}
TaskPoints == {"waiting", "intent", "admit", "execute", "settle", "place", "placing", "done"}
TaskResults == {"none", "finished", "truncated", "interrupted", "aborted"}

Entry == [id : Nat, type : EntryTypes, parent : Nat]
Item == [id : Nat, kind : ItemKinds, type : ItemTypes]
Call == [status : CallStatuses, id : Nat, replay : ReplayClasses, terminate : BOOLEAN]
Operation == [id : Nat, intent : Intents, source : Nat, at : LeavesOrNone, control : Controls,
              latest : Nat, cont : Continuations, flag : BOOLEAN, trigger : Nat,
              attempt : Nat, resp : Nat, poll : Nat, src : Nat, calls : Seq(Call),
              task : Nat, reason : Reasons, boundary : Boundaries, target : Nat]
Address == [what : OwnedKinds, key : Nat]
Result == [op : Nat, kind : Intents, status : Statuses, from : Nat, tip : Nat]
Pass == [op : Nat, pc : Points, gate : Gates, signalled : BOOLEAN, wait : BOOLEAN,
         permits : Nat, joined : BOOLEAN, arg : Notes, plan : SUBSET Nat]
Task == [at : TaskPoints, result : TaskResults]
Request == [op : Nat, captured : BOOLEAN, ahead : SUBSET Nat]
Rerun == [id : Nat, replay : ReplayClasses]
Navigation == [open : BOOLEAN, target : Nat, summarize : BOOLEAN, from : Nat,
               prepared : BOOLEAN, branch : SUBSET Nat]

\* Every variable has the shape the durable types and the process-local records of
\* the runtime give it.
TypeOK ==
    /\ entries \subseteq Entry /\ tip \in Nat /\ usage \subseteq Nat /\ nextId \in Nat
    /\ inbox \subseteq Item /\ pending \subseteq Nat
    /\ op \in Operation
    /\ owned \subseteq Address
    /\ results \subseteq Result /\ last \in Nat
    /\ phase \in {"open", "faulted", "down"}
    /\ drive \in Pass
    /\ DOMAIN tasks \subseteq Nat /\ tasks \in [DOMAIN tasks -> Task]
    /\ abortReq \in Request
    /\ idleOwner \in BOOLEAN
    /\ queued \in Nat /\ nav \in Navigation /\ abandoned \subseteq Nat
    /\ submitted \subseteq Nat /\ drained \subseteq Nat /\ withdrawn \subseteq Nat
    /\ ran \subseteq Nat /\ reran \subseteq Rerun
    /\ crashes \in Nat

-----------------------------------------------------------------------------
(* Queued input *)

\* Every item a caller queued or appended is in exactly one place: still queued,
\* in the conversation, returned by an abort, or withdrawn.  No boundary, abort,
\* cancelQueued or crash loses one or delivers one twice (planBoundaryInbox,
\* requestOperationAbort, cancelQueued).
QueueConservation ==
    /\ submitted = Ids(inbox) \cup (submitted \cap Ids(entries)) \cup drained \cup withdrawn
    /\ Ids(inbox) \cap Ids(entries) = {}
    /\ drained \cap (Ids(inbox) \cup Ids(entries)) = {}
    /\ withdrawn \cap (Ids(inbox) \cup Ids(entries) \cup drained) = {}

\* The pendingEntry payloads are exactly those of the queued items and of the
\* staged tool results: no reader misses one, and none is left behind when its
\* item or its operation is gone.
PendingPayloads == pending = Ids(inbox) \cup Staged

\* A run that completes leaves no input for it behind, however input arrives
\* while before_run_end runs (finishRunBoundary).
CompletedRunTookInput ==
    [][\A r \in results' \ results :
         r.kind = "run" /\ r.status = "completed" => \A x \in inbox' : x.kind = "nextRun"]_vars

-----------------------------------------------------------------------------
(* The conversation *)

\* Entry ids are written once, every parent is in the tree, and so is the tip.
Tree ==
    /\ \A e, f \in entries : e.id = f.id => e = f
    /\ \A e \in entries : e.parent \in Ids(entries) \cup {Root}
    /\ tip \in Ids(entries) \cup {Root}

\* Two entries share a parent only if a navigation moved the branch there: whatever
\* boundaries, appends, tool results placed by several tasks and passes after a process
\* loss insert, each commit continues the branch where the commit before it ended
\* (planBoundaryInbox, commitPlacement, publishResponse, publishStructuralOutcome).
ForksOnlyByNavigation ==
    \A e, f \in entries :
        e.parent = f.parent /\ e # f =>
            \E r \in results : /\ r.kind = "navigation" /\ r.status = "completed"
                               /\ r.tip = e.parent \/ r.tip \in {e.id, f.id}

\* A branch summary is made of exactly the entries that the navigation leaves behind,
\* although they were collected off the line, before the request could know whether an
\* append or another operation moves the tip first (acceptNavigation).
SummaryCoversBranch ==
    op.boundary = "commit_navigation" => abandoned = BranchLeft(tip, op.target)

\* A tool result follows the response that called the tool or the result of the
\* call before it; queued input never lands inside a batch (commitPlacement).
ResultsInSourceOrder ==
    \A e \in entries : e.type = "result" =>
        \E f \in entries : /\ f.id = e.parent
                           /\ f.type = "tool_use" \/ (f.type = "result" /\ f.id + 1 = e.id)

\* A batch is left only when every call has its result in the conversation, also
\* when the operation is cancelled or the process was lost in the middle.
BatchAnswered ==
    [][op.at = "tools" /\ op'.at # "tools" =>
         \A i \in DOMAIN op.calls : op.calls[i].id \in Ids(entries')]_vars

\* A sequential batch starts a tool only when the results of all earlier calls
\* are in the conversation (runSequential).
SequentialOrder ==
    [][\A i, j \in DOMAIN op.calls :
         ToolExecution = "sequential" /\ j < i /\ op.calls[i].id \in ran' \ ran
             => op.calls[j].id \in Ids(entries)]_vars

-----------------------------------------------------------------------------
(* Effects *)

\* No provider request is sent twice under one reserved response, and no tool
\* that is not replay: "safe" in its stored call is executed twice, whatever
\* is lost and recovered (recoverToolInvocation, recoverAssistantGeneration).
NeverReplayed == \A r \in reran : r.replay = "safe"

\* Once an abort was requested, no request or tool starts (createGate,
\* requestOperationAbort, continueOperation).
NoEffectAfterAbort ==
    [][ran' # ran \/ reran' # reran => Running /\ abortReq.op = 0]_vars

\* A generation or a summary is attempted at most retryPolicy.maxRetries + 1 times,
\* lost attempts included.
AttemptsBounded == op.attempt <= MaxAttempts

CompactionsSince(trigger) ==
    {c \in entries : c.type = "compaction" /\ c.id \in Ancestors(tip) /\ trigger \in Ancestors(c.id)}

\* The same input is compacted at most once because of the threshold and at most
\* once more because of an overflow, so a run cannot compact forever
\* (prepareCompactionThreshold, overflowRecoveryUsed).
NoCompactionLoop ==
    op.boundary = "resume_checkpoint" =>
        Cardinality(CompactionsSince(op.trigger)) <= IF op.reason = "overflow" THEN 1 ELSE 0

-----------------------------------------------------------------------------
(* Operations *)

\* What a later process needs is there: the leaf fits the intent
\* (restoreLaneState), a summary has its preparation and a started call its
\* arguments.
Restorable ==
    /\ StateMatchesIntent
    /\ op.boundary # "none" => Prepared
    /\ \A i \in DOMAIN op.calls : op.calls[i].status = "effect_pending" =>
         [what |-> "args", key |-> op.calls[i].id] \in owned

\* An operation-owned value lives no longer than what it belongs to: frames with
\* their request, output and memos with their running call, arguments with their
\* batch, preparations with the operation.  A write that was queued when its
\* request or tool ended does not bring one back.
OwnedValuesLive ==
    \A a \in owned :
        CASE a.what = "frames" -> op.at \in EffectPending /\ op.resp = a.key
          [] a.what \in {"output", "memo"} ->
                \E i \in DOMAIN op.calls : op.calls[i].id = a.key /\ op.calls[i].status = "effect_pending"
          [] a.what = "args" -> op.at = "tools"
          [] a.what = "preparation" -> ~Idle

\* A runWhenIdle callback has the lane for itself from its claim to its return: commands
\* that had seen no owner and were queued behind the claim change nothing and install no
\* pass until it has returned (command, runWhenIdle).
IdleCallbackUndisturbed ==
    [][idleOwner => UNCHANGED <<tree, queue, operation, abandoned, drive, tasks>>]_vars

Life == INSTANCE Lifecycle WITH
    current <- op.id,
    cancelled <- op.control = "cancel_requested",
    settled <- {[op |-> r.op, status |-> r.status] : r \in results}

\* The lane implements the lifecycle: one open operation, one permanent result,
\* "aborted" exactly after a durable cancellation.
ImplementsLifecycle == Life!LifecycleSpec

-----------------------------------------------------------------------------
(* Progress *)

\* A cancelled operation settles, wherever it was cancelled.  Invalid deferred handles
\* are excluded: an operation suspended on one faults every pass and cannot settle
\* (DeferredSourceReadable below).
CancelledSettles == op.control = "cancel_requested" ~> Idle

\* Every pass returns to its callers, once providers stop asking for more.
PassReturns == drive.pc # "none" ~> drive.pc = "none"

-----------------------------------------------------------------------------
(* What documents say and the code does not do *)

\* harness.md: requestAbort wakes a retry timer after the durable cancellation.
RetryTimerWoken == drive.pc = "timer" /\ ~Running => drive.signalled

\* harness.md: the callers of drive are observation peers of one pass.
ObserversArePeers == phase # "faulted"

\* harness.md: an invalid deferred handle is a terminal failure, so a suspended
\* operation always has a handle to poll or to cancel.
DeferredSourceReadable == op.at \in {"deferred.suspended", "deferred.effect_pending"} => SourceReadable
=============================================================================
