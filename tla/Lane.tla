-------------------------------- MODULE Lane --------------------------------
(***************************************************************************)
(* One AgentLane of the durable harness (runtime/lane.ts): its durable     *)
(* state, the Session mutation line its commands run on, and the commands  *)
(* callers issue.  The drive procedures that advance an accepted operation *)
(* are in the modules that extend this one.                                *)
(*                                                                         *)
(* A command is a read-decide-commit job that runs alone on the Session's  *)
(* FIFO mutation line, so each one is a single action.  The lane's         *)
(* in-memory projection is replaced in the job that commits it; it equals  *)
(* the durable values whenever the process is alive and is not a second    *)
(* set of variables.  Ids come from one session-wide generator.  The model *)
(* draws an id in the step that first writes it, so the admission order of *)
(* the inbox is the order of its ids.                                      *)
(***************************************************************************)
EXTENDS Integers, FiniteSets, Sequences

CONSTANTS
    SteeringMode, FollowUpMode,  \* QueueMode: "all" or "one-at-a-time"
    Submissions,                 \* what callers queue or append: kind/type pairs
    Requests,                    \* what callers may ask for
    DrivePolicies,               \* the callers of drive and the options they pass
    MaxOps,                      \* bound on accepted operations
    MaxSubmitted,                \* bound on queued or appended items
    MaxCrashes,                  \* bound on process losses
    MaxQueued                    \* bound on caller commands on the line behind an idle claim

Modes == {"all", "one-at-a-time"}
SubmissionKinds ==
    [kind : {"steer", "followUp", "nextRun"}, type : {"message"}]
        \cup [kind : {"write"}, type : {"message", "custom"}]

\* DriveOptions, and whether the caller is a convenience method, which counts on the
\* retry waits of the pass having been waited out.
Policy == [waitForRetry : BOOLEAN, pollDeferred : BOOLEAN, convenience : BOOLEAN]

ASSUME LaneAssumption ==
    /\ SteeringMode \in Modes
    /\ FollowUpMode \in Modes
    /\ Submissions \subseteq SubmissionKinds
    /\ Requests \subseteq {"prompt", "compaction", "navigation", "summarized_navigation",
                      "idle_callback", "abort"}
    /\ DrivePolicies \subseteq Policy
    /\ MaxOps \in Nat /\ MaxSubmitted \in Nat /\ MaxCrashes \in Nat /\ MaxQueued \in Nat

VARIABLES
    \* durable: the conversation tree and the usage ledger
    entries,    \* set of [id, type, parent]
    tip,        \* the branch tip, an entry id or Root
    usage,      \* ids of usage rows
    nextId,     \* session.idGenerator
    \* durable: lane.state's inbox and the pendingEntry payloads
    inbox,      \* set of [id, kind, type], in id order
    pending,    \* ids that have a pendingEntry value
    \* durable: the operation
    op,         \* operation meta and state, NoOp when the lane is idle
    owned,      \* operation-owned values and lists: set of [what, key]
    results,    \* phi.result records: set of [op, kind, status, from, tip]
    last,       \* lastOperationId
    abandoned,  \* ids of the entries the stored branch preparation was made from
    \* process-local
    phase,      \* "open", "faulted" or "down"
    drive,      \* the activeDrive and where its pass is
    tasks,      \* the tool calls a pass has started: index -> task
    abortReq,   \* a requestAbort whose command has not run yet
    idleOwner,  \* a runWhenIdle callback holds the lane
    queued,     \* caller commands on the line that saw no idle owner when they took their place
    nav,        \* a navigation request whose command has not run yet
    \* history, read by properties and bounds only
    submitted,  \* ids callers queued or appended
    drained,    \* ids whose messages requestAbort returned to its caller
    withdrawn,  \* ids removed by cancelQueued
    ran,        \* ids of the provider requests and tool calls that started
    reran,      \* [id, replay] of those that started again
    crashes

tree == <<entries, tip, usage, nextId>>
queue == <<inbox, pending>>
outcome == <<results, last>>
operation == <<op, owned, results, last>>
process == <<phase, drive, tasks, abortReq, idleOwner>>
navigation == <<nav, abandoned>>
line == <<queued, navigation>>
history == <<submitted, drained, withdrawn, ran, reran, crashes>>
vars == <<tree, queue, operation, process, line, history>>

-----------------------------------------------------------------------------
(* Shapes *)

Root == 0

\* The thirteen leaves of OperationState and the fields they use.  A field the
\* current leaf does not have keeps its value in NoOp.
Leaves == {"starting", "checkpoint", "assistant.ready", "assistant.effect_pending",
           "assistant.retry_wait", "tools", "deferred.suspended",
           "deferred.effect_pending", "summary.deciding", "summary.ready",
           "summary.effect_pending", "summary.retry_wait",
           "navigation.ready_to_commit"}

NoOp == [id |-> 0, intent |-> "none", source |-> Root, at |-> "none",
         control |-> "running", latest |-> 0,
         cont |-> "none",      \* continuation.kind
         flag |-> FALSE,       \* overflowRecoveryUsed or includeFinalAssistant
         trigger |-> 0,        \* triggerEntryId
         attempt |-> 0,        \* attempt or nextAttempt
         resp |-> 0,           \* responseEntryId, or resultEntryId of a summary
         poll |-> 0,           \* deferred poll number, or requests of a summary
         src |-> 0,            \* deferred sourceEntryId, or usageId of a summary's request
         calls |-> <<>>,       \* ToolBatch.calls
         task |-> 0, reason |-> "none", boundary |-> "none", target |-> Root]

\* operationScopeOf: what every leaf carries over from the one before.
Scope(o) == [NoOp EXCEPT !.id = o.id, !.intent = o.intent, !.source = o.source,
                         !.control = o.control, !.latest = o.latest]

Idle == op.at = "none"

NoDrive == [op |-> 0, pc |-> "none", gate |-> "open", signalled |-> FALSE,
            wait |-> FALSE, permits |-> 0, joined |-> FALSE,
            arg |-> "none", plan |-> {}]

NoAbort == [op |-> 0, captured |-> FALSE, ahead |-> {}]

NoNavigation == [open |-> FALSE, target |-> Root, summarize |-> FALSE, from |-> Root,
                 prepared |-> FALSE, branch |-> {}]

Ids(S) == {x.id : x \in S}
Latest(S) == CHOOSE x \in S : \A y \in S : y.id <= x.id
Oldest(S) == CHOOSE x \in S : \A y \in S : x.id <= y.id

\* chainEntries: the items of S as entries, in id order, the first under `from`.
ParentIn(x, S, from) == LET before == {y \in S : y.id < x.id}
                        IN  IF before = {} THEN from ELSE Latest(before).id
\* Faulty variant: every item under the old tip.
UnchainedItems(S, from) == {[id |-> x.id, type |-> x.type, parent |-> from] : x \in S}

Chained(S, from) == {[id |-> x.id, type |-> x.type, parent |-> ParentIn(x, S, from)] : x \in S}
TipAfter(S, from) == IF S = {} THEN from ELSE Latest(S).id

OfKind(kind) == {x \in inbox : x.kind = kind}
ByMode(S, mode) == IF mode = "all" \/ S = {} THEN S ELSE {Oldest(S)}

\* Faulty variant: placed items stay queued.
PlaceUnderKeepsQueued(from, head, chosen, fresh) ==
    LET S == {[id |-> x.id, type |-> x.type] : x \in chosen} \cup fresh
    IN  /\ entries' = entries \cup head \cup Chained(S, from)
        /\ tip' = TipAfter(S, from)
        /\ inbox' = inbox
        /\ pending' = pending \ Ids(chosen)

\* Faulty variant: a summary is inserted and the chosen items are lost.
PlaceUnderHeadOnly(from, head, chosen, fresh) ==
    LET S == {[id |-> x.id, type |-> x.type] : x \in chosen} \cup fresh
    IN  /\ entries' = entries \cup (IF head = {} THEN Chained(S, from) ELSE head)
        /\ tip' = IF head = {} THEN TipAfter(S, from) ELSE from
        /\ inbox' = inbox \ chosen
        /\ pending' = pending \ Ids(chosen)

\* Insert `head`, entries with their parents, and then under `from` the chosen
\* inbox items and `fresh`, new entries.  The payloads of the chosen items move
\* from pendingEntry to the tree.
PlaceUnder(from, head, chosen, fresh) ==
    LET S == {[id |-> x.id, type |-> x.type] : x \in chosen} \cup fresh
    IN  /\ entries' = entries \cup head \cup Chained(S, from)
        /\ tip' = TipAfter(S, from)
        /\ inbox' = inbox \ chosen
        /\ pending' = pending \ Ids(chosen)
Place(chosen, fresh) == PlaceUnder(tip, {}, chosen, fresh)

-----------------------------------------------------------------------------
(* The mutation line *)

\* Faulty variant: a command that saw no owner before it was queued runs.
CallerTurnCheckedOffLine ==
    /\ phase = "open"
    /\ idleOwner => queued > 0
    /\ queued' = IF idleOwner THEN queued - 1 ELSE queued

\* The job of a caller's command.  command() waits off the line until no idle callback
\* owns the lane; on the line the job looks again.
CallerTurn ==
    /\ phase = "open"
    /\ ~idleOwner
    /\ UNCHANGED queued

\* "idle_blocked": a command queued behind the claim goes back to wait off the line.
IdleBlocked ==
    /\ phase = "open" /\ idleOwner
    /\ queued > 0
    /\ queued' = queued - 1
    /\ UNCHANGED <<tree, queue, operation, process, navigation, history>>

\* Commands of the drive (issuer 0) and of its tool tasks (issuer = call index)
\* queue in FIFO order with requestAbort's command: while that one waits, only
\* commands queued ahead of it may run.
DriveTurn(issuer) ==
    /\ phase = "open"
    /\ abortReq.op # 0 => issuer \in abortReq.ahead
    /\ abortReq' = [abortReq EXCEPT !.ahead = @ \ {issuer}]

-----------------------------------------------------------------------------
(* Acceptance *)

CanAccept(request) ==
    /\ CallerTurn
    /\ request \in Requests
    /\ Idle                                  \* else LaneBusy
    /\ Cardinality(results) < MaxOps

Accepted(intent, at) ==
    [NoOp EXCEPT !.id = nextId, !.intent = intent, !.source = tip, !.at = at]

selectAcceptedInbox ==
    OfKind("write") \cup OfKind("nextRun")
        \cup ByMode(OfKind("steer"), SteeringMode)
        \cup ByMode(OfKind("followUp"), FollowUpMode)

\* A prompt of one message, or the empty prompt of a continuation run, which
\* needs captured conversation (InvalidMessage otherwise).
AcceptRun(prompt) ==
    LET captured == selectAcceptedInbox
        fresh == IF prompt THEN {[id |-> nextId + 1, type |-> "message"]} ELSE {}
    IN  /\ CanAccept("prompt")
        /\ prompt \/ \E x \in captured : x.kind # "write"
        /\ Ids(captured) \subseteq pending   \* else a SessionInvariantError
        /\ Place(captured, fresh)
        /\ op' = Accepted("run", "starting")
        /\ nextId' = nextId + 2
        /\ UNCHANGED <<usage, owned, outcome, process, navigation, history>>

AcceptCompaction ==
    /\ CanAccept("compaction")
    /\ tip # Root                            \* else NothingToCompact
    /\ op' = [Accepted("compaction", "summary.deciding") EXCEPT
                  !.task = nextId + 1, !.reason = "manual", !.boundary = "finish"]
    /\ owned' = owned \cup {[what |-> "preparation", key |-> nextId + 1]}
    /\ nextId' = nextId + 2
    /\ UNCHANGED <<entries, tip, usage, queue, outcome, process, navigation, history>>

\* scanBranch walks the branch from an entry to the root: e and its ancestors.
Ancestors(e) ==
    LET Parents(S) == {x.parent : x \in {y \in entries : y.id \in S}}
        up[n \in 0 .. Cardinality(entries)] ==
            IF n = 0 THEN {e} ELSE LET near == up[n - 1] IN near \cup Parents(near)
    IN  up[Cardinality(entries)]

\* The old path down to the common ancestor: what moving from `from` to `to` leaves.
BranchLeft(from, to) == {x \in Ids(entries) : x \in Ancestors(from) \ Ancestors(to)}

\* acceptNavigation, off the line: note the tip and, for a summary, prepare the branch
\* that is to be left.  A target that is not in the tree has no preparation.
Observe(target, summarize) ==
    LET prepared == summarize /\ tip # Root /\ target \in Ids(entries)
    IN  nav' = [open |-> TRUE, target |-> target, summarize |-> summarize, from |-> tip,
                prepared |-> prepared,
                branch |-> IF prepared THEN BranchLeft(tip, target) ELSE {}]

\* One navigation request at a time is on its way to the line.
RequestNavigation(target, summarize) ==
    /\ phase = "open"
    /\ ~nav.open
    /\ (IF summarize THEN "summarized_navigation" ELSE "navigation") \in Requests
    /\ Cardinality(results) < MaxOps
    /\ Observe(target, summarize)
    /\ UNCHANGED <<tree, queue, operation, process, queued, abandoned, history>>

\* LaneBusy comes first; a tip that moved sends the request back to observe again.
NavigationRetries ==
    /\ CallerTurn
    /\ nav.open /\ Idle /\ tip # nav.from
    /\ Observe(nav.target, nav.summarize)
    /\ UNCHANGED <<tree, queue, operation, process, abandoned, history>>

\* InvalidNavigation for the tip itself and for a summary from or to the root, and
\* UnknownTarget.
ValidNavigation ==
    /\ nav.target # tip
    /\ nav.summarize => tip # Root /\ nav.target # Root
    /\ nav.target \in Ids(entries) \cup {Root}

NavigationRefused ==
    /\ CallerTurn
    /\ nav.open
    /\ ~Idle \/ (tip = nav.from /\ ~ValidNavigation)
    /\ nav' = NoNavigation
    /\ UNCHANGED <<tree, queue, operation, process, abandoned, history>>

\* Faulty variant: the observed tip is not compared.
CanNavigateFromAnywhere(summarize) ==
    /\ CallerTurn /\ Idle
    /\ nav.open /\ nav.summarize = summarize
    /\ ValidNavigation
    /\ Cardinality(results) < MaxOps
    /\ nav' = NoNavigation

CanNavigate(summarize) ==
    /\ CallerTurn /\ Idle
    /\ nav.open /\ nav.summarize = summarize
    /\ tip = nav.from
    /\ ValidNavigation
    /\ Cardinality(results) < MaxOps
    /\ nav' = NoNavigation

AcceptNavigation ==
    /\ CanNavigate(FALSE)
    /\ op' = [Accepted("navigation", "navigation.ready_to_commit") EXCEPT !.target = nav.target]
    /\ nextId' = nextId + 1
    /\ UNCHANGED <<entries, tip, usage, queue, owned, outcome, process, abandoned, history>>

AcceptSummarizedNavigation ==
    /\ CanNavigate(TRUE)
    /\ nav.prepared                          \* else a SessionInvariantError
    /\ op' = [Accepted("navigation", "summary.deciding") EXCEPT
                  !.task = nextId + 1, !.boundary = "commit_navigation", !.target = nav.target]
    /\ owned' = owned \cup {[what |-> "preparation", key |-> nextId + 1]}
    /\ abandoned' = nav.branch
    /\ nextId' = nextId + 2
    /\ UNCHANGED <<entries, tip, usage, queue, outcome, process, history>>

-----------------------------------------------------------------------------
(* Queued input and idle appends *)

CanSubmit(s) ==
    /\ CallerTurn
    /\ s \in Submissions
    /\ Cardinality(submitted) < MaxSubmitted

\* enqueue, and append while an operation is open.
Enqueue(s) ==
    /\ CanSubmit(s)
    /\ s.kind = "write" => ~Idle
    /\ inbox' = inbox \cup {[id |-> nextId, kind |-> s.kind, type |-> s.type]}
    /\ pending' = pending \cup {nextId}
    /\ submitted' = submitted \cup {nextId}
    /\ nextId' = nextId + 1
    /\ UNCHANGED <<entries, tip, usage, operation, process, navigation,
                   drained, withdrawn, ran, reran, crashes>>

\* append on an idle lane: queued writes first, then the new entry.
AppendIdle(s) ==
    /\ CanSubmit(s)
    /\ s.kind = "write" /\ Idle
    /\ Place(OfKind("write"), {[id |-> nextId, type |-> s.type]})
    /\ submitted' = submitted \cup {nextId}
    /\ nextId' = nextId + 1
    /\ UNCHANGED <<usage, operation, process, navigation,
                   drained, withdrawn, ran, reran, crashes>>

\* Faulty variant: the payload stays behind.
CancelQueuedKeepsPayload(x) ==
    /\ CallerTurn
    /\ x \in inbox
    /\ inbox' = inbox \ {x}
    /\ withdrawn' = withdrawn \cup {x.id}
    /\ UNCHANGED <<pending, tree, operation, process, navigation,
                   submitted, drained, ran, reran, crashes>>

CancelQueued(x) ==
    /\ CallerTurn
    /\ x \in inbox
    /\ inbox' = inbox \ {x}
    /\ pending' = pending \ {x.id}
    /\ withdrawn' = withdrawn \cup {x.id}
    /\ UNCHANGED <<tree, operation, process, navigation,
                   submitted, drained, ran, reran, crashes>>

-----------------------------------------------------------------------------
(* Drive passes *)

\* drive: install the one pass of the lane.  A pass of an earlier operation that
\* has not finished unwinding occupies the lane; the caller waits for it.
DriveClaim(policy) ==
    /\ CallerTurn
    /\ ~Idle
    /\ drive.pc = "none"
    /\ drive' = [NoDrive EXCEPT !.op = op.id, !.pc = "claimed",
                     !.wait = policy.waitForRetry,
                     !.permits = IF policy.pollDeferred THEN 1 ELSE 0,
                     !.joined = policy.convenience]
    /\ UNCHANGED <<tree, queue, operation, phase, tasks, abortReq, idleOwner, navigation, history>>

\* A later caller for the same operation observes the installed pass and its policy.
DriveJoin(policy) ==
    /\ CallerTurn
    /\ policy.convenience
    /\ ~Idle
    /\ drive.op = op.id /\ ~drive.joined
    /\ drive' = [drive EXCEPT !.joined = TRUE]
    /\ UNCHANGED <<tree, queue, operation, phase, tasks, abortReq, idleOwner, navigation, history>>

\* The pass has returned: activeDrive is cleared and its completion settles.  A
\* convenience method that is handed an unwaited retry faults the harness.
DriveReturns ==
    /\ phase = "open"
    /\ drive.pc \in {"settled", "suspended", "retry"}
    /\ phase' = IF drive.pc = "retry" /\ drive.joined THEN "faulted" ELSE "open"
    /\ drive' = NoDrive
    /\ abortReq' = [abortReq EXCEPT !.captured = FALSE]
    /\ UNCHANGED <<tree, queue, operation, tasks, idleOwner, line, history>>

-----------------------------------------------------------------------------
(* Cancellation *)

\* Program points of a pass and of its tool tasks at which a command may already
\* be queued (a hook that runs there may also still be running).  The first thing
\* the loop does is issue one, except at a retry wait.
CommandPoints == {"start", "plan", "finish", "intent", "settle", "wake", "decide",
                  "attempt", "result", "place"}
CommandTasks == {"intent", "settle", "place", "placing"}
RetryWaits == {"assistant.retry_wait", "summary.retry_wait"}
Outstanding ==
    {i \in {0} : \/ drive.pc \in CommandPoints
                 \/ drive.pc = "loop" /\ op.at \notin RetryWaits}
        \cup {i \in DOMAIN tasks : tasks[i].at \in CommandTasks}

\* Tool placements are chained: only the one under way, or else one of those
\* waiting, can have issued its command.
Placers == {i \in DOMAIN tasks : tasks[i].at = "placing"}
Waiters == {i \in DOMAIN tasks : tasks[i].at = "place"}
MayBeAhead(ahead) ==
    IF Placers = {} THEN \A i, j \in ahead \cap Waiters : i = j ELSE ahead \cap Waiters = {}

\* requestAbort, up to the queueing of its command: the matching live pass stops
\* admitting effects at once.  Commands the pass has queued by now are ahead.  A
\* repeated request matters only to a pass that was not signalled.
AbortBegin ==
    /\ phase = "open"
    /\ "abort" \in Requests
    /\ ~Idle
    /\ abortReq.op = 0
    /\ op.control = "running" \/ (drive.op = op.id /\ ~drive.signalled)
    /\ LET live == drive.op = op.id
       IN  \E ahead \in SUBSET Outstanding :
             /\ MayBeAhead(ahead)
             /\ abortReq' = [op |-> op.id, captured |-> live, ahead |-> ahead]
             /\ drive' = IF live THEN [drive EXCEPT !.gate = "aborting"] ELSE drive
    /\ UNCHANGED <<tree, queue, operation, phase, tasks, idleOwner, line, history>>

\* The abort command: drop steer and followUp (their messages return to the
\* caller), mark the operation cancelled and signal the captured pass.  A repeat
\* only signals; an operation that settled meanwhile is a mismatch.
AbortCommit ==
    LET dropped == OfKind("steer") \cup OfKind("followUp")
    IN  /\ phase = "open" /\ ~idleOwner
        /\ abortReq.op # 0
        /\ abortReq.ahead = {}
        /\ abortReq' = NoAbort
        /\ IF op.id = abortReq.op /\ op.control = "running"
           THEN /\ op' = [op EXCEPT !.control = "cancel_requested"]
                /\ inbox' = inbox \ dropped
                /\ pending' = pending \ Ids(dropped)
                /\ drained' = drained \cup Ids(dropped)
           ELSE UNCHANGED <<op, inbox, pending, drained>>
        /\ drive' = [drive EXCEPT !.signalled = @ \/ (abortReq.captured /\ op.id = abortReq.op)]
        /\ UNCHANGED <<tree, owned, outcome, phase, tasks, idleOwner, line,
                       submitted, withdrawn, ran, reran, crashes>>

-----------------------------------------------------------------------------
(* Idle callbacks, process loss and attachment *)

\* The claim is a command too.  Others may be on the line behind it by then; those that
\* come later see the owner and wait.
RunWhenIdle ==
    /\ phase = "open" /\ ~idleOwner
    /\ "idle_callback" \in Requests
    /\ Idle /\ drive.pc = "none"
    /\ idleOwner' = TRUE
    /\ queued' \in 0 .. MaxQueued
    /\ UNCHANGED <<tree, queue, operation, phase, drive, tasks, abortReq, navigation, history>>

IdleCallbackReturns ==
    /\ phase = "open"
    /\ idleOwner
    /\ idleOwner' = FALSE /\ queued' = 0
    /\ UNCHANGED <<tree, queue, operation, phase, drive, tasks, abortReq, navigation, history>>

\* The process is lost: only the durable state is left.
Crash ==
    /\ phase = "open"
    /\ crashes < MaxCrashes
    /\ crashes' = crashes + 1
    /\ phase' = "down"
    /\ drive' = NoDrive /\ tasks' = <<>> /\ abortReq' = NoAbort /\ idleOwner' = FALSE
    /\ queued' = 0 /\ nav' = NoNavigation
    /\ UNCHANGED <<tree, queue, operation, abandoned, submitted, drained, withdrawn, ran, reran>>

\* stateMatchesIntent: the leaves each kind of operation may be at.
StateMatchesIntent ==
    LET summary == op.at \in {"summary.deciding", "summary.ready", "summary.effect_pending",
                              "summary.retry_wait"}
    IN  CASE op.intent = "compaction" -> summary /\ op.boundary = "finish"
          [] op.intent = "navigation" ->
                op.at = "navigation.ready_to_commit" \/ (summary /\ op.boundary = "commit_navigation")
          [] op.intent = "run" ->
                /\ op.at # "navigation.ready_to_commit"
                /\ summary => op.boundary = "resume_checkpoint"
          [] OTHER -> Idle

\* restoreSession: attach to the durable state; no work starts.
Restore ==
    /\ phase \in {"down", "faulted"}
    /\ StateMatchesIntent                    \* else a SessionInvariantError
    /\ phase' = "open"
    /\ drive' = NoDrive /\ tasks' = <<>> /\ abortReq' = NoAbort /\ idleOwner' = FALSE
    /\ queued' = 0 /\ nav' = NoNavigation
    /\ UNCHANGED <<tree, queue, operation, abandoned, history>>

Init ==
    /\ entries = {} /\ tip = Root /\ usage = {} /\ nextId = 1
    /\ inbox = {} /\ pending = {}
    /\ op = NoOp /\ owned = {} /\ results = {} /\ last = 0
    /\ phase = "open" /\ drive = NoDrive /\ tasks = <<>> /\ abortReq = NoAbort
    /\ idleOwner = FALSE /\ queued = 0 /\ nav = NoNavigation /\ abandoned = {}
    /\ submitted = {} /\ drained = {} /\ withdrawn = {} /\ ran = {} /\ reran = {}
    /\ crashes = 0

CallerStep ==
    \/ \E prompt \in BOOLEAN : AcceptRun(prompt)
    \/ AcceptCompaction
    \/ \E target \in Ids(entries) \cup Ids(inbox) \cup {Root}, summarize \in BOOLEAN :
         RequestNavigation(target, summarize)
    \/ NavigationRetries \/ NavigationRefused
    \/ AcceptNavigation \/ AcceptSummarizedNavigation
    \/ \E s \in Submissions : Enqueue(s) \/ AppendIdle(s)
    \/ \E x \in inbox : CancelQueued(x)
    \/ \E policy \in DrivePolicies : DriveClaim(policy) \/ DriveJoin(policy)
    \/ AbortBegin \/ AbortCommit
    \/ RunWhenIdle \/ IdleBlocked \/ IdleCallbackReturns
    \/ DriveReturns
    \/ Crash \/ Restore
=============================================================================
