------------------------------ MODULE LaneTypes ------------------------------
(***************************************************************************)
(* Type correctness of the lane, first part: the inductive invariant, the  *)
(* types of the operators and the steps of callers.                        *)
(***************************************************************************)
EXTENDS AgentLane, WellFoundedInduction, TLAPS

-----------------------------------------------------------------------------
(* Least and greatest ids *)

\* A nonempty set of numbers has a least element.
LEMMA LeastExists ==
    ASSUME NEW S, S \subseteq Nat, S # {}
    PROVE  \E m \in S : \A y \in S : m <= y
<1>1. \E m \in S : \A y \in S : ~(<<y, m>> \in OpToRel(<, Nat))
    BY Zenon, NatLessThanWellFounded, WFMin
<1>2. PICK m \in S : \A y \in S : ~(<<y, m>> \in OpToRel(<, Nat))
    BY Zenon, <1>1
<1>3. ASSUME NEW y \in S PROVE ~(y < m)
    <2>1. y \in Nat /\ m \in Nat
        OBVIOUS
    <2>2. ~(<<y, m>> \in OpToRel(<, Nat))
        BY Zenon, <1>2
    <2> QED
        BY <2>1, <2>2, Zenon DEF OpToRel
<1>4. \A y \in S : m <= y
    BY <1>3
<1> QED
    BY <1>4

\* A bounded nonempty set of numbers has a greatest element.
LEMMA GreatestExists ==
    ASSUME NEW S, S \subseteq Nat, S # {}, NEW n \in Nat, \A x \in S : x < n
    PROVE  \E m \in S : \A y \in S : y <= m
<1> DEFINE T == {n - x : x \in S}
<1>1. T \subseteq Nat
    OBVIOUS
<1>2. T # {}
    <2>1. PICK x \in S : TRUE
        BY Zenon
    <2>2. n - x \in T
        BY <2>1
    <2> QED
        BY <2>2
<1>3. PICK t \in T : \A y \in T : t <= y
    BY Zenon, <1>1, <1>2, LeastExists
<1>4. PICK m \in S : t = n - m
    BY <1>3
<1>5. ASSUME NEW y \in S PROVE y <= m
    BY <1>3, <1>4
<1> QED
    BY <1>5

\* Latest picks an element of a nonempty bounded set of items.
LEMMA LatestIn ==
    ASSUME NEW S, S # {}, NEW n \in Nat, \A x \in S : x.id \in Nat /\ x.id < n
    PROVE  Latest(S) \in S /\ \A y \in S : y.id <= Latest(S).id
<1> DEFINE I == {x.id : x \in S}
<1>1. I \subseteq Nat /\ I # {} /\ \A i \in I : i < n
    OBVIOUS
<1>2. PICK m \in I : \A y \in I : y <= m
    BY Zenon, <1>1, GreatestExists
<1>3. \E x \in S : \A y \in S : y.id <= x.id
    BY <1>2
<1> QED
    BY <1>3 DEF Latest

\* Oldest picks an element of a nonempty set of items.
LEMMA OldestIn ==
    ASSUME NEW S, S # {}, \A x \in S : x.id \in Nat
    PROVE  Oldest(S) \in S
<1> DEFINE I == {x.id : x \in S}
<1>1. I \subseteq Nat /\ I # {}
    OBVIOUS
<1>2. PICK m \in I : \A y \in I : m <= y
    BY Zenon, <1>1, LeastExists
<1>3. \E x \in S : \A y \in S : x.id <= y.id
    BY <1>2
<1> QED
    BY <1>3 DEF Oldest

-----------------------------------------------------------------------------
(* The inductive invariant of the types *)

\* The tree and the queue; a queued item has an id that was drawn.
TreeOK ==
    /\ entries \subseteq Entry /\ tip \in Nat /\ usage \subseteq Nat /\ nextId \in Nat
    /\ inbox \subseteq Item /\ pending \subseteq Nat
    /\ \A x \in inbox : x.id \in Nat /\ x.id < nextId

\* The operation.  Result ids of a batch were drawn, each for one call, and a batch
\* is left when its last call completes.
OpOK ==
    /\ op \in Operation
    /\ owned \subseteq Address /\ results \subseteq Result /\ last \in Nat
    /\ \A i \in Calls : op.calls[i].id \in Nat /\ op.calls[i].id < nextId
    /\ \A i, j \in Calls : op.calls[i].id = op.calls[j].id => i = j
    /\ op.at = "tools" => Incomplete # {}

\* Points at which a pass has no more to do with its operation.
Resting == {"none", "settled", "suspended", "retry"}
DeferredLeaves == {"deferred.suspended", "deferred.effect_pending"}

\* The pass belongs to the open operation until it rests, has tasks only while it
\* runs tools, and is on its way to a poll only with a permit.
PassOK ==
    /\ phase \in {"open", "faulted", "down"}
    /\ drive \in Pass
    /\ abortReq \in Request
    /\ DOMAIN tasks \subseteq Nat /\ tasks \in [DOMAIN tasks -> Task]
    /\ \A id \in drive.plan : id \in Nat /\ id < nextId
    /\ drive.pc \notin Resting => drive.op = op.id /\ op.at # "none"
    /\ DOMAIN tasks # {} => drive.pc = "tools"
    /\ drive.pc = "intent" /\ op.at \in DeferredLeaves => drive.permits > 0

\* A task that has not staged its outcome has a call of the batch, not yet staged;
\* what is being placed is staged.
BatchOK ==
    \A i \in DOMAIN tasks :
        /\ tasks[i].at \notin {"place", "placing", "done"} =>
              i \in Calls /\ op.calls[i].status \in {"planned", "effect_pending"}
        /\ tasks[i].at = "placing" =>
              \A j \in Calls : op.calls[j].id \in drive.plan =>
                  op.calls[j].status \in {"outcome_ready", "completed"}

HistoryOK ==
    /\ submitted \subseteq Nat /\ drained \subseteq Nat /\ withdrawn \subseteq Nat
    /\ ran \subseteq Nat /\ reran \subseteq Rerun
    /\ crashes \in Nat

\* Who holds the lane, who is queued behind them, and the navigation request on its way.
OwnerOK ==
    /\ idleOwner \in BOOLEAN /\ queued \in Nat
    /\ nav \in Navigation /\ abandoned \subseteq Nat

TypeInv == TreeOK /\ OpOK /\ PassOK /\ BatchOK /\ HistoryOK /\ OwnerOK

\* The inductive invariant contains the type invariant.
LEMMA TypeInvTypes == TypeInv => TypeOK
BY DEF TypeInv, TypeOK, TreeOK, OpOK, PassOK, HistoryOK, OwnerOK

-----------------------------------------------------------------------------
(* Types of the operators *)

\* Members of the field types, for use with the types unexpanded.
LEMMA Names ==
    /\ Leaves \subseteq LeavesOrNone /\ "none" \in LeavesOrNone
    /\ {"starting", "checkpoint", "assistant.ready", "assistant.effect_pending",
        "assistant.retry_wait", "tools", "deferred.suspended", "deferred.effect_pending",
        "summary.deciding", "summary.ready", "summary.effect_pending",
        "summary.retry_wait", "navigation.ready_to_commit"} \subseteq LeavesOrNone
    /\ {"none", "run", "compaction", "navigation"} \subseteq Intents
    /\ {"running", "cancel_requested"} \subseteq Controls
    /\ {"none", "need_assistant", "may_finish"} \subseteq Continuations
    /\ {"none", "manual", "threshold", "overflow"} \subseteq Reasons
    /\ {"none", "finish", "resume_checkpoint", "commit_navigation"} \subseteq Boundaries
    /\ {"open", "aborting"} \subseteq Gates
    /\ ProviderOutcomes \subseteq Notes
    /\ {"none", "aborted", "recovered", "below", "threshold"} \subseteq Notes
    /\ ItemTypes \subseteq EntryTypes
    /\ {"message", "assistant", "tool_use", "deferred", "result", "compaction",
        "branch_summary"} \subseteq EntryTypes
BY DEF ItemTypes, EntryTypes, Leaves, LeavesOrNone, Intents, Controls, Continuations, Reasons,
   Boundaries, Gates, Notes

\* The absence of an operation (currentOperationId null) is a typed value.
LEMMA NoOpType ==
    /\ NoOp \in Operation
    /\ NoOp.id = 0 /\ NoOp.at = "none" /\ NoOp.control = "running" /\ NoOp.calls = <<>>
<1>1. /\ "none" \in Intents /\ "none" \in LeavesOrNone /\ "running" \in Controls
      /\ "none" \in Continuations /\ "none" \in Reasons /\ "none" \in Boundaries
      /\ <<>> \in Seq(Call)
    BY Names
<1> QED
    BY <1>1 DEF NoOp, Operation, Root

\* Keeping only the scope fields of an operation state leaves it typed.
LEMMA ScopeType ==
    ASSUME NEW o \in Operation
    PROVE  /\ Scope(o) \in Operation
           /\ Scope(o).id = o.id /\ Scope(o).control = o.control /\ Scope(o).calls = <<>>
BY Zenon, NoOpType DEF Scope, Operation

\* The state a checkpoint is entered with (run.checkpoint) is typed.
LEMMA CheckpointType ==
    ASSUME NEW o \in Operation, NEW cont \in Continuations,
           NEW flag \in BOOLEAN, NEW trigger \in Nat
    PROVE  LET next == Checkpoint(o, cont, flag, trigger)
           IN  /\ next \in Operation /\ next.id = o.id /\ next.control = o.control
               /\ next.calls = <<>> /\ next.at = "checkpoint"
<1>1. "checkpoint" \in LeavesOrNone
    BY Names
<1> QED
    BY Zenon, <1>1, ScopeType DEF Checkpoint, Operation

\* The state that follows an assistant boundary (assistant.ready) is typed.
LEMMA AssistantReadyType ==
    ASSUME NEW o \in Operation, NEW trigger \in Nat, NEW flag \in BOOLEAN, NEW attempt \in Nat
    PROVE  LET next == AssistantReady(o, trigger, flag, attempt)
           IN  /\ next \in Operation /\ next.id = o.id /\ next.control = o.control
               /\ next.calls = <<>> /\ next.at = "assistant.ready"
<1>1. "assistant.ready" \in LeavesOrNone
    BY Names
<1> QED
    BY ZenonT(60), <1>1, ScopeType DEF AssistantReady, Operation

\* The state a structural task starts in (summary.deciding) is typed.
LEMMA SummaryDecidingType ==
    ASSUME NEW o \in Operation, NEW task \in Nat, NEW reason \in Reasons,
           NEW cont \in Continuations, NEW flag \in BOOLEAN, NEW trigger \in Nat
    PROVE  LET next == SummaryDeciding(o, task, reason, cont, flag, trigger)
           IN  /\ next \in Operation /\ next.id = o.id /\ next.control = o.control
               /\ next.calls = <<>> /\ next.at = "summary.deciding"
<1>1. "summary.deciding" \in LeavesOrNone /\ "resume_checkpoint" \in Boundaries
    BY Names
<1> QED
    BY ZenonT(60), <1>1, ScopeType DEF SummaryDeciding, Operation

\* A lane without an installed Drive has a typed pass.
LEMMA NoDriveType ==
    NoDrive \in Pass /\ NoDrive.pc = "none" /\ NoDrive.plan = {} /\ NoDrive.gate = "open"
BY DEF NoDrive, Pass, Points, Gates, Notes

\* No running tool is a typed set of tasks.
LEMMA NoTasksType == DOMAIN <<>> = {} /\ <<>> \in [DOMAIN <<>> -> Task]
OBVIOUS

\* No request for an abort in flight is a typed request.
LEMMA NoNavigationType == NoNavigation \in Navigation
BY DEF NoNavigation, Navigation, Root

LEMMA NoAbortType == NoAbort \in Request /\ NoAbort.op = 0 /\ NoAbort.ahead = {}
BY DEF NoAbort, Request

\* Moving the pass to another program point leaves it typed.
LEMMA AtType ==
    ASSUME drive \in Pass, NEW pc \in Points
    PROVE  /\ At(pc) \in Pass /\ At(pc).pc = pc /\ At(pc).plan = {} /\ At(pc).op = drive.op
           /\ At(pc).permits = drive.permits /\ At(pc).gate = drive.gate
           /\ At(pc).signalled = drive.signalled
<1>1. "none" \in Notes
    BY Names
<1> QED
    BY Zenon, <1>1 DEF At, Pass

\* A selection by mode is part of what it selects from.
LEMMA ByModeSubset ==
    ASSUME NEW S, \A x \in S : x.id \in Nat, NEW mode
    PROVE  ByMode(S, mode) \subseteq S
BY OldestIn DEF ByMode

\* What acceptance and the boundaries select is queued.
LEMMA SelectedQueued ==
    ASSUME TreeOK
    PROVE  /\ selectAcceptedInbox \subseteq inbox
           /\ \A end : BoundaryInbox(end) \subseteq inbox
<1>1. \A kind : OfKind(kind) \subseteq inbox /\ \A x \in OfKind(kind) : x.id \in Nat
    BY DEF TreeOK, OfKind, Item
<1>2. /\ ByMode(OfKind("steer"), SteeringMode) \subseteq inbox
      /\ ByMode(OfKind("followUp"), FollowUpMode) \subseteq inbox
    BY <1>1, ByModeSubset
<1> QED
    BY <1>1, <1>2 DEF selectAcceptedInbox, BoundaryInbox

\* Items chained under an entry are entries, and the tip moves to one of them.
LEMMA ChainedType ==
    ASSUME NEW S, NEW n \in Nat, NEW from \in Nat,
           \A x \in S : x.id \in Nat /\ x.id < n /\ x.type \in EntryTypes
    PROVE  Chained(S, from) \subseteq Entry /\ TipAfter(S, from) \in Nat
<1>1. ASSUME NEW x \in S PROVE ParentIn(x, S, from) \in Nat
    <2> DEFINE before == {y \in S : y.id < x.id}
    <2>1. CASE before = {}
        BY <2>1 DEF ParentIn
    <2>2. CASE before # {}
        <3>1. Latest(before) \in before
            BY <2>2, LatestIn
        <3> QED
            BY <2>2, <3>1 DEF ParentIn
    <2> QED
        BY <2>1, <2>2
<1>2. Chained(S, from) \subseteq Entry
    BY <1>1 DEF Chained, Entry
<1>3. TipAfter(S, from) \in Nat
    <2>1. CASE S # {}
        <3>1. Latest(S) \in S
            BY <2>1, LatestIn
        <3> QED
            BY <2>1, <3>1 DEF TipAfter
    <2> QED
        BY <2>1 DEF TipAfter
<1> QED
    BY <1>2, <1>3

\* Placing queued items and new entries keeps the tree and the queue well formed.
LEMMA PlaceUnderType ==
    ASSUME TreeOK, NEW from \in Nat, NEW head, head \subseteq Entry,
           NEW chosen, chosen \subseteq inbox, NEW fresh, NEW n \in Nat, nextId <= n,
           \A x \in fresh : x.id \in Nat /\ x.id < n /\ x.type \in EntryTypes,
           PlaceUnder(from, head, chosen, fresh)
    PROVE  /\ entries' \subseteq Entry /\ tip' \in Nat
           /\ inbox' \subseteq inbox /\ pending' \subseteq pending
<1> DEFINE S == {[id |-> x.id, type |-> x.type] : x \in chosen} \cup fresh
<1>1. \A x \in chosen : x.id \in Nat /\ x.id < n /\ x.type \in EntryTypes
    BY Names DEF TreeOK, Item
<1>2. \A x \in S : x.id \in Nat /\ x.id < n /\ x.type \in EntryTypes
    BY <1>1
<1>3. Chained(S, from) \subseteq Entry /\ TipAfter(S, from) \in Nat
    <2> HIDE DEF S
    <2> QED
        BY ZenonT(60), <1>2, ChainedType
<1> QED
    BY <1>3 DEF PlaceUnder, TreeOK

\* Placing inbox items and fresh entries on the branch (inbox placement writes) keeps the tree,
\* the queue and the counters typed.
LEMMA PlaceType ==
    ASSUME TreeOK, NEW chosen, chosen \subseteq inbox, NEW fresh, NEW n \in Nat, nextId <= n,
           \A x \in fresh : x.id \in Nat /\ x.id < n /\ x.type \in EntryTypes,
           Place(chosen, fresh)
    PROVE  /\ entries' \subseteq Entry /\ tip' \in Nat
           /\ inbox' \subseteq inbox /\ pending' \subseteq pending
<1>1. tip \in Nat /\ {} \subseteq Entry /\ PlaceUnder(tip, {}, chosen, fresh)
    BY DEF TreeOK, Place
<1> QED
    BY <1>1, PlaceUnderType

-----------------------------------------------------------------------------
(* Callers *)

\* A created session satisfies the type invariant (createAgentHarness).
LEMMA InitTyped == Init => TypeInv
<1> SUFFICES ASSUME Init PROVE TypeInv
    OBVIOUS
<1>1. TreeOK
    BY DEF Init, TreeOK, Root
<1>2. OpOK
    BY NoOpType DEF Init, OpOK, Calls
<1>3. PassOK
    BY NoDriveType, NoAbortType, NoTasksType DEF Init, PassOK, Resting
<1>4. BatchOK /\ HistoryOK
    BY Zenon, NoTasksType DEF Init, BatchOK, HistoryOK
<1>5. OwnerOK
    BY ZenonT(60), NoNavigationType DEF Init, OwnerOK
<1> QED
    BY <1>1, <1>2, <1>3, <1>4, <1>5 DEF TypeInv

\* The command of a caller leaves the holder of the lane and its place on the line alone.
LEMMA CallerOwner ==
    ASSUME TypeInv, CallerTurn, UNCHANGED process, nav' \in Navigation, abandoned' \subseteq Nat
    PROVE  OwnerOK'
BY Zenon DEF TypeInv, OwnerOK, CallerTurn, process

LEMMA QuietCallerOwner ==
    ASSUME TypeInv, CallerTurn, UNCHANGED <<process, navigation>>
    PROVE  OwnerOK'
BY Zenon, CallerOwner DEF TypeInv, OwnerOK, navigation

\* A caller that changes the operation finds the lane idle, so no pass is at work.
LEMMA AcceptedTyped ==
    ASSUME TypeInv, Idle, op' \in Operation, op'.calls = <<>>, op'.at # "tools",
           nextId' \in Nat, nextId <= nextId', owned' \subseteq Address,
           UNCHANGED <<outcome, process, history>>
    PROVE  OpOK' /\ PassOK' /\ BatchOK' /\ HistoryOK'
<1>1. drive.pc \in Resting /\ DOMAIN tasks = {}
    BY Zenon DEF TypeInv, PassOK, Idle, Resting
<1>2. OpOK'
    BY DEF TypeInv, OpOK, Calls, outcome
<1>3. PassOK'
    BY <1>1 DEF TypeInv, PassOK, TreeOK, process, Resting
<1>4. BatchOK' /\ HistoryOK'
    BY <1>1 DEF TypeInv, BatchOK, HistoryOK, process, history
<1> QED
    BY <1>2, <1>3, <1>4

\* The operation an acceptance writes is typed.
LEMMA AcceptedType ==
    ASSUME TypeInv, NEW intent \in Intents, NEW at \in LeavesOrNone
    PROVE  /\ Accepted(intent, at) \in Operation /\ Accepted(intent, at).id = nextId
           /\ Accepted(intent, at).at = at /\ Accepted(intent, at).calls = <<>>
           /\ Accepted(intent, at).control = "running"
BY Zenon, NoOpType DEF Accepted, Operation, TypeInv, TreeOK

\* acceptRun preserves the type invariant.
LEMMA AcceptRunTyped ==
    ASSUME TypeInv, NEW prompt \in BOOLEAN, AcceptRun(prompt)
    PROVE  TypeInv'
<1> DEFINE fresh == IF prompt THEN {[id |-> nextId + 1, type |-> "message"]} ELSE {}
<1>1. \A x \in fresh : x.id \in Nat /\ x.id < nextId + 2 /\ x.type \in EntryTypes
    BY Names DEF TypeInv, TreeOK
<1>2. Place(selectAcceptedInbox, fresh) /\ nextId' = nextId + 2 /\ usage' = usage
    BY DEF AcceptRun
<1> HIDE DEF fresh
<1>3. /\ entries' \subseteq Entry /\ tip' \in Nat
      /\ inbox' \subseteq inbox /\ pending' \subseteq pending
    <2>1. TreeOK /\ selectAcceptedInbox \subseteq inbox
        BY SelectedQueued DEF TypeInv
    <2>2. nextId + 2 \in Nat /\ nextId <= nextId + 2
        BY <2>1 DEF TreeOK
    <2> QED
        BY Zenon, <1>1, <1>2, <2>1, <2>2, PlaceType
<1>4. TreeOK'
    BY <1>2, <1>3 DEF TypeInv, TreeOK
<1>5. /\ op' \in Operation /\ op'.calls = <<>> /\ op'.at = "starting"
      /\ UNCHANGED <<owned, outcome, process, navigation, history>> /\ CallerTurn /\ Idle
    BY AcceptedType, Names DEF AcceptRun, CanAccept
<1>6. OwnerOK'
    BY <1>5, QuietCallerOwner
<1> QED
    BY <1>2, <1>4, <1>5, <1>6, AcceptedTyped DEF TypeInv, TreeOK, OpOK

\* acceptCompaction preserves the type invariant.
LEMMA AcceptCompactionTyped ==
    ASSUME TypeInv, AcceptCompaction
    PROVE  TypeInv'
<1>1. /\ CallerTurn /\ Idle /\ nextId' = nextId + 2
      /\ UNCHANGED <<entries, tip, usage, queue, outcome, process, navigation, history>>
      /\ owned' = owned \cup {[what |-> "preparation", key |-> nextId + 1]}
    BY Zenon DEF AcceptCompaction, CanAccept
<1>2. TreeOK' /\ OwnerOK'
    BY <1>1, QuietCallerOwner DEF TypeInv, TreeOK, queue
<1>3. op' \in Operation /\ op'.calls = <<>> /\ op'.at = "summary.deciding"
    <2>1. "summary.deciding" \in LeavesOrNone /\ nextId + 1 \in Nat
        BY Names DEF TypeInv, TreeOK
    <2>2. "manual" \in Reasons /\ "finish" \in Boundaries /\ "compaction" \in Intents
        BY Names
    <2> DEFINE a == Accepted("compaction", "summary.deciding")
    <2>8. a \in Operation /\ a.calls = <<>> /\ a.at = "summary.deciding"
        BY <2>1, <2>2, AcceptedType
    <2>9. op' = [a EXCEPT !.task = nextId + 1, !.reason = "manual", !.boundary = "finish"]
        BY DEF AcceptCompaction
    <2> HIDE DEF a
    <2> QED
        BY Zenon, <2>1, <2>2, <2>8, <2>9 DEF Operation
<1>4. owned' \subseteq Address /\ nextId' \in Nat /\ nextId <= nextId'
    BY <1>1 DEF TypeInv, TreeOK, OpOK, Address, OwnedKinds
<1> QED
    BY SMTT(30), <1>1, <1>2, <1>3, <1>4, AcceptedTyped DEF TypeInv

\* The command of a navigation request forgets it; its target is typed.
LEMMA CanNavigateOwner ==
    ASSUME TypeInv, NEW summarize \in BOOLEAN, CanNavigate(summarize), UNCHANGED process,
           abandoned' \in {abandoned, nav.branch}
    PROVE  OwnerOK' /\ Idle /\ nav.target \in Nat
<1>1. CallerTurn /\ Idle /\ nav' \in Navigation
    BY NoNavigationType DEF CanNavigate
<1>2. nav.target \in Nat /\ abandoned' \subseteq Nat
    BY DEF TypeInv, OwnerOK, Navigation
<1> QED
    BY <1>1, <1>2, CallerOwner

\* The summarized form of acceptNavigation preserves the type invariant.
LEMMA AcceptSummarizedNavigationTyped ==
    ASSUME TypeInv, AcceptSummarizedNavigation
    PROVE  TypeInv'
<1>1. /\ nextId' = nextId + 2
      /\ UNCHANGED <<entries, tip, usage, queue, outcome, process, history>>
      /\ owned' = owned \cup {[what |-> "preparation", key |-> nextId + 1]}
    BY Zenon DEF AcceptSummarizedNavigation
<1>2. OwnerOK' /\ Idle /\ nav.target \in Nat
    BY ZenonT(60), <1>1, CanNavigateOwner DEF AcceptSummarizedNavigation
<1>3. TreeOK'
    BY <1>1 DEF TypeInv, TreeOK, queue
<1>4. op' \in Operation /\ op'.calls = <<>> /\ op'.at = "summary.deciding"
    <2>1. "summary.deciding" \in LeavesOrNone /\ nextId + 1 \in Nat
        BY Names DEF TypeInv, TreeOK
    <2>2. "commit_navigation" \in Boundaries /\ "navigation" \in Intents
        BY Names
    <2> DEFINE a == Accepted("navigation", "summary.deciding")
    <2>8. a \in Operation /\ a.calls = <<>> /\ a.at = "summary.deciding"
        BY <2>1, <2>2, AcceptedType
    <2>9. op' = [a EXCEPT !.task = nextId + 1, !.boundary = "commit_navigation",
                            !.target = nav.target]
        BY Zenon DEF AcceptSummarizedNavigation
    <2> HIDE DEF a
    <2> QED
        BY ZenonT(60), <1>2, <2>1, <2>2, <2>8, <2>9 DEF Operation
<1>5. owned' \subseteq Address /\ nextId' \in Nat /\ nextId <= nextId'
    BY <1>1 DEF TypeInv, TreeOK, OpOK, Address, OwnedKinds
<1> QED
    BY SMTT(30), <1>1, <1>2, <1>3, <1>4, <1>5, AcceptedTyped DEF TypeInv

\* acceptNavigation without a summary preserves the type invariant.
LEMMA AcceptNavigationTyped ==
    ASSUME TypeInv, AcceptNavigation
    PROVE  TypeInv'
<1>1. /\ nextId' = nextId + 1
      /\ UNCHANGED <<entries, tip, usage, queue, owned, outcome, process, abandoned, history>>
    BY DEF AcceptNavigation
<1>2. OwnerOK' /\ Idle /\ nav.target \in Nat
    BY ZenonT(60), <1>1, CanNavigateOwner DEF AcceptNavigation
<1>3. TreeOK'
    BY <1>1 DEF TypeInv, TreeOK, queue
<1>4. op' \in Operation /\ op'.calls = <<>> /\ op'.at = "navigation.ready_to_commit"
    <2>1. "navigation.ready_to_commit" \in LeavesOrNone /\ "navigation" \in Intents
        BY Names
    <2> DEFINE a == Accepted("navigation", "navigation.ready_to_commit")
    <2>8. a \in Operation /\ a.calls = <<>> /\ a.at = "navigation.ready_to_commit"
        BY <2>1, AcceptedType
    <2>9. op' = [a EXCEPT !.target = nav.target]
        BY DEF AcceptNavigation
    <2> HIDE DEF a
    <2> QED
        BY SMTT(30), <1>2, <2>8, <2>9 DEF Operation
<1>5. owned' \subseteq Address /\ nextId' \in Nat /\ nextId <= nextId'
    BY <1>1 DEF TypeInv, TreeOK, OpOK
<1> QED
    BY <1>1, <1>2, <1>3, <1>4, <1>5, AcceptedTyped DEF TypeInv

\* A step that leaves the operation and the process alone, but for drawing ids.
LEMMA QuietTyped ==
    ASSUME TypeInv, nextId' \in Nat, nextId <= nextId', UNCHANGED <<operation, process>>
    PROVE  OpOK' /\ PassOK' /\ BatchOK'
<1>1. OpOK'
    BY DEF TypeInv, TreeOK, OpOK, Calls, Incomplete, operation
<1>2. PassOK'
    BY DEF TypeInv, TreeOK, PassOK, operation, process
<1>3. BatchOK'
    BY DEF TypeInv, BatchOK, Calls, operation, process
<1> QED
    BY SMTT(30), <1>1, <1>2, <1>3

\* A submitted item is typed and its id is fresh.
LEMMA SubmissionType ==
    ASSUME NEW s \in Submissions
    PROVE  s.kind \in ItemKinds /\ s.type \in ItemTypes
BY SMTT(30), LaneAssumption DEF SubmissionKinds, ItemKinds, ItemTypes

\* enqueue preserves the type invariant.
LEMMA EnqueueTyped ==
    ASSUME TypeInv, NEW s \in Submissions, Enqueue(s)
    PROVE  TypeInv'
<1>1. TreeOK'
    BY SubmissionType DEF Enqueue, TypeInv, TreeOK, Item
<1>2. HistoryOK'
    BY DEF Enqueue, TypeInv, TreeOK, HistoryOK
<1>3. OwnerOK'
    BY QuietCallerOwner DEF Enqueue, CanSubmit
<1> QED
    BY SMTT(30), <1>1, <1>2, <1>3, QuietTyped DEF TypeInv, TreeOK, Enqueue

\* append on an idle lane preserves the type invariant.
LEMMA AppendIdleTyped ==
    ASSUME TypeInv, NEW s \in Submissions, AppendIdle(s)
    PROVE  TypeInv'
<1> DEFINE fresh == {[id |-> nextId, type |-> s.type]}
<1>1. \A x \in fresh : x.id \in Nat /\ x.id < nextId + 1 /\ x.type \in EntryTypes
    BY Names, SubmissionType DEF TypeInv, TreeOK
<1>2. Place(OfKind("write"), fresh) /\ nextId' = nextId + 1 /\ usage' = usage
    BY DEF AppendIdle
<1> HIDE DEF fresh
<1>3. /\ entries' \subseteq Entry /\ tip' \in Nat
      /\ inbox' \subseteq inbox /\ pending' \subseteq pending
    <2>1. TreeOK /\ OfKind("write") \subseteq inbox
        BY DEF TypeInv, OfKind
    <2>2. nextId + 1 \in Nat /\ nextId <= nextId + 1
        BY <2>1 DEF TreeOK
    <2> QED
        BY Zenon, <1>1, <1>2, <2>1, <2>2, PlaceType
<1>4. TreeOK'
    BY <1>2, <1>3 DEF TypeInv, TreeOK
<1>5. HistoryOK'
    BY DEF AppendIdle, TypeInv, TreeOK, HistoryOK
<1>6. OwnerOK'
    BY QuietCallerOwner DEF AppendIdle, CanSubmit
<1> QED
    BY SMTT(30), <1>2, <1>4, <1>5, <1>6, QuietTyped DEF TypeInv, TreeOK, AppendIdle

\* cancelQueued preserves the type invariant.
LEMMA CancelQueuedTyped ==
    ASSUME TypeInv, NEW x \in inbox, CancelQueued(x)
    PROVE  TypeInv'
<1>1. TreeOK' /\ HistoryOK'
    BY Zenon DEF CancelQueued, TypeInv, TreeOK, HistoryOK, tree
<1>2. OwnerOK'
    BY QuietCallerOwner DEF CancelQueued
<1> QED
    BY <1>1, <1>2, QuietTyped DEF TypeInv, TreeOK, CancelQueued, tree

\* A step that touches nothing durable.
LEMMA ProcessTyped ==
    ASSUME TypeInv, UNCHANGED <<tree, queue, operation>>, PassOK', BatchOK', OwnerOK', HistoryOK'
    PROVE  TypeInv'
<1>1. TreeOK'
    BY SMTT(30) DEF TypeInv, TreeOK, tree, queue
<1>2. OpOK'
    BY DEF TypeInv, OpOK, tree, operation, Calls, Incomplete
<1> QED
    BY <1>1, <1>2 DEF TypeInv

\* Installing a Drive preserves the type invariant.
LEMMA DriveClaimTyped ==
    ASSUME TypeInv, NEW policy \in DrivePolicies, DriveClaim(policy)
    PROVE  TypeInv'
<1>1. /\ UNCHANGED <<tree, queue, operation, phase, tasks, abortReq, idleOwner, line, history>>
      /\ drive.pc = "none" /\ op.at # "none"
    BY DEF DriveClaim, Idle, CallerTurn, line
<1>2. drive' \in Pass /\ drive'.plan = {} /\ drive'.pc = "claimed" /\ drive'.op = op.id
    <2>1. op.id \in Nat /\ "claimed" \in Points
        BY DEF TypeInv, OpOK, Operation, Points
    <2> DEFINE permits == IF policy.pollDeferred THEN 1 ELSE 0
    <2>2. policy.waitForRetry \in BOOLEAN /\ policy.convenience \in BOOLEAN /\ permits \in Nat
        BY LaneAssumption DEF Policy
    <2>3. drive' = [NoDrive EXCEPT !.op = op.id, !.pc = "claimed", !.wait = policy.waitForRetry,
                                   !.permits = permits, !.joined = policy.convenience]
        BY DEF DriveClaim
    <2> HIDE DEF permits
    <2> QED
        BY Zenon, <2>1, <2>2, <2>3, NoDriveType DEF Pass
<1>3. DOMAIN tasks = {}
    BY Zenon, <1>1 DEF TypeInv, PassOK
<1>4. PassOK'
    BY SMTT(30), <1>1, <1>2, <1>3 DEF TypeInv, PassOK, operation, tree, Resting
<1>5. BatchOK' /\ OwnerOK' /\ HistoryOK'
    BY SMTT(30), <1>1, <1>3 DEF TypeInv, BatchOK, OwnerOK, line, navigation, HistoryOK, history
<1> QED
    BY <1>1, <1>4, <1>5, ProcessTyped

\* The pass changes only in what is not about its place.
LEMMA SamePlaceTyped ==
    ASSUME TypeInv, drive' \in Pass, drive'.pc = drive.pc, drive'.plan = drive.plan,
           drive'.op = drive.op, drive'.permits = drive.permits,
           abortReq' \in Request, phase' \in {"open", "faulted", "down"},
           UNCHANGED <<tree, queue, operation, tasks, history>>, OwnerOK'
    PROVE  TypeInv'
<1>1. PassOK'
    BY SMTT(30) DEF TypeInv, PassOK, operation, tree
<1>2. BatchOK' /\ HistoryOK'
    BY DEF TypeInv, BatchOK, HistoryOK, Calls, operation, history
<1> QED
    BY SMTT(30), <1>1, <1>2, ProcessTyped

\* Observing an installed Drive preserves the type invariant.
LEMMA DriveJoinTyped ==
    ASSUME TypeInv, NEW policy \in DrivePolicies, DriveJoin(policy)
    PROVE  TypeInv'
<1>1. /\ drive' \in Pass /\ drive'.pc = drive.pc /\ drive'.plan = drive.plan
      /\ drive'.op = drive.op /\ drive'.permits = drive.permits
    BY Zenon DEF DriveJoin, TypeInv, PassOK, Pass
<1>2. /\ abortReq' \in Request /\ phase' \in {"open", "faulted", "down"} /\ OwnerOK'
      /\ UNCHANGED <<tree, queue, operation, tasks, history>>
    BY DEF DriveJoin, CallerTurn, TypeInv, PassOK, OwnerOK, navigation
<1> QED
    BY <1>1, <1>2, SamePlaceTyped

\* A pass that is gone, without tasks.
LEMMA NoPassTyped ==
    ASSUME TypeInv, drive' = NoDrive, DOMAIN tasks' = {}, tasks' \in [DOMAIN tasks' -> Task],
           abortReq' \in Request, phase' \in {"open", "faulted", "down"},
           UNCHANGED <<tree, queue, operation>>, OwnerOK', HistoryOK'
    PROVE  TypeInv'
<1>1. PassOK'
    BY NoDriveType DEF PassOK, Resting
<1>2. BatchOK'
    BY DEF BatchOK
<1> QED
    BY <1>1, <1>2, ProcessTyped

\* Removing a Drive whose pass returned preserves the type invariant.
LEMMA DriveReturnsTyped ==
    ASSUME TypeInv, DriveReturns
    PROVE  TypeInv'
<1>1. DOMAIN tasks' = {} /\ tasks' \in [DOMAIN tasks' -> Task]
    BY Zenon DEF DriveReturns, TypeInv, PassOK
<1>2. abortReq' \in Request
    BY Zenon DEF DriveReturns, TypeInv, PassOK, Request
<1>3. /\ drive' = NoDrive /\ phase' \in {"open", "faulted", "down"}
      /\ UNCHANGED <<tree, queue, operation, idleOwner, line, history>>
    BY DEF DriveReturns
<1>4. OwnerOK' /\ HistoryOK'
    BY <1>3 DEF TypeInv, OwnerOK, line, navigation, HistoryOK, history
<1> QED
    BY <1>1, <1>2, <1>3, <1>4, NoPassTyped

\* A crash and a restore forget the process and keep the type invariant.
LEMMA LostTyped ==
    ASSUME TypeInv, Crash \/ Restore
    PROVE  TypeInv'
<1>1. /\ drive' = NoDrive /\ tasks' = <<>> /\ abortReq' = NoAbort /\ idleOwner' = FALSE
      /\ queued' = 0 /\ nav' = NoNavigation
      /\ phase' \in {"open", "faulted", "down"} /\ UNCHANGED <<tree, queue, operation, abandoned>>
    BY DEF Crash, Restore
<1>2. HistoryOK'
    <2>1. CASE Crash
        BY <2>1 DEF Crash, TypeInv, HistoryOK
    <2>2. CASE Restore
        BY <2>2 DEF Restore, TypeInv, HistoryOK, history
    <2> QED
        BY <2>1, <2>2
<1>3. OwnerOK'
    BY ZenonT(60), <1>1, NoNavigationType DEF TypeInv, OwnerOK
<1> QED
    BY SMTT(30), <1>1, <1>2, <1>3, NoTasksType, NoAbortType, NoPassTyped

\* runWhenIdle, both ends, and a command blocked behind it preserve the type invariant.
LEMMA IdleCallbackTyped ==
    ASSUME TypeInv, RunWhenIdle \/ IdleBlocked \/ IdleCallbackReturns
    PROVE  TypeInv'
<1>1. UNCHANGED <<tree, queue, operation, phase, drive, tasks, abortReq, navigation, history>>
    BY Zenon DEF RunWhenIdle, IdleBlocked, IdleCallbackReturns, process
<1>2. idleOwner' \in BOOLEAN
    BY Zenon DEF RunWhenIdle, IdleBlocked, IdleCallbackReturns, process, TypeInv, OwnerOK
<1>3. queued' \in Nat
    <2>1. CASE RunWhenIdle
        BY <2>1, LaneAssumption DEF RunWhenIdle
    <2>2. CASE IdleBlocked
        BY <2>2 DEF IdleBlocked, TypeInv, OwnerOK
    <2>3. CASE IdleCallbackReturns
        BY <2>3 DEF IdleCallbackReturns
    <2> QED
        BY <2>1, <2>2, <2>3
<1>4. OwnerOK'
    BY Zenon, <1>1, <1>2, <1>3 DEF TypeInv, OwnerOK, navigation
<1> QED
    BY <1>1, <1>4, SamePlaceTyped DEF TypeInv, PassOK

\* What a navigation request observes is typed.
LEMMA ObserveType ==
    ASSUME TypeInv, NEW target \in Nat, NEW summarize \in BOOLEAN, Observe(target, summarize)
    PROVE  nav' \in Navigation
<1> DEFINE prepared == summarize /\ tip # Root /\ target \in Ids(entries)
           branch == IF prepared THEN BranchLeft(tip, target) ELSE {}
<1>1. BranchLeft(tip, target) \subseteq Nat
    BY DEF BranchLeft, TypeInv, TreeOK, Ids, Entry
<1>2. branch \subseteq Nat /\ prepared \in BOOLEAN /\ tip \in Nat
    BY <1>1 DEF TypeInv, TreeOK
<1>3. nav' = [open |-> TRUE, target |-> target, summarize |-> summarize, from |-> tip,
              prepared |-> prepared, branch |-> branch]
    BY Zenon DEF Observe
<1> HIDE DEF prepared, branch
<1> QED
    BY <1>2, <1>3 DEF Navigation

\* A navigation request on its way to the line preserves the type invariant.
LEMMA NavigationRequestTyped ==
    ASSUME TypeInv,
           \/ \E target \in Ids(entries) \cup Ids(inbox) \cup {Root}, summarize \in BOOLEAN :
                RequestNavigation(target, summarize)
           \/ NavigationRetries \/ NavigationRefused
    PROVE  TypeInv'
<1>1. UNCHANGED <<tree, queue, operation, process, queued, abandoned, history>>
    BY Zenon DEF RequestNavigation, NavigationRetries, NavigationRefused, CallerTurn
<1>2. nav' \in Navigation
    <2>1. ASSUME NEW target \in Ids(entries) \cup Ids(inbox) \cup {Root}, NEW summarize \in BOOLEAN,
                 RequestNavigation(target, summarize)
          PROVE  nav' \in Navigation
        <3>1. target \in Nat
            BY DEF TypeInv, TreeOK, Ids, Entry, Root
        <3> QED
            BY SMTT(30), <2>1, <3>1, ObserveType DEF RequestNavigation
    <2>2. CASE NavigationRetries
        <3>1. nav.target \in Nat /\ nav.summarize \in BOOLEAN
            BY DEF TypeInv, OwnerOK, Navigation
        <3> QED
            BY <2>2, <3>1, ObserveType DEF NavigationRetries
    <2>3. CASE NavigationRefused
        BY <2>3, NoNavigationType DEF NavigationRefused
    <2> QED
        BY SMTT(30), <2>1, <2>2, <2>3
<1>3. OwnerOK'
    BY SMTT(30), <1>1, <1>2 DEF TypeInv, OwnerOK, process
<1> QED
    BY <1>1, <1>3, SamePlaceTyped DEF TypeInv, PassOK, process

\* The synchronous half of requestOperationAbort preserves the type invariant.
LEMMA AbortBeginTyped ==
    ASSUME TypeInv, AbortBegin
    PROVE  TypeInv'
<1>1. /\ drive' \in Pass /\ drive'.pc = drive.pc /\ drive'.plan = drive.plan
      /\ drive'.op = drive.op /\ drive'.permits = drive.permits
    <2>1. drive' = drive \/ drive' = [drive EXCEPT !.gate = "aborting"]
        BY DEF AbortBegin
    <2>2. drive \in Pass /\ "aborting" \in Gates
        BY Names DEF TypeInv, PassOK
    <2> QED
        BY <2>1, <2>2 DEF Pass
<1>2. abortReq' \in Request
    <2>1. PICK ahead \in SUBSET Outstanding :
              abortReq' = [op |-> op.id, captured |-> drive.op = op.id, ahead |-> ahead]
        BY DEF AbortBegin
    <2>2. ahead \subseteq Nat /\ op.id \in Nat
        BY DEF Outstanding, TypeInv, PassOK, OpOK, Operation
    <2>3. (drive.op = op.id) \in BOOLEAN
        OBVIOUS
    <2> QED
        BY <2>1, <2>2, <2>3, Zenon DEF Request
<1>3. UNCHANGED <<tree, queue, operation, phase, tasks, idleOwner, line, history>>
    BY DEF AbortBegin
<1>4. OwnerOK' /\ phase' \in {"open", "faulted", "down"}
    BY <1>3 DEF TypeInv, OwnerOK, line, navigation, PassOK
<1> QED
    BY <1>1, <1>2, <1>3, <1>4, SamePlaceTyped

\* The command of requestOperationAbort preserves the type invariant.
LEMMA AbortCommitTyped ==
    ASSUME TypeInv, AbortCommit
    PROVE  TypeInv'
<1> DEFINE dropped == OfKind("steer") \cup OfKind("followUp")
<1>1. dropped \subseteq inbox /\ Ids(dropped) \subseteq Nat
    BY DEF TypeInv, TreeOK, OfKind, Ids
<1>2. UNCHANGED <<tree, owned, outcome, phase, tasks, idleOwner, line,
                  submitted, withdrawn, ran, reran, crashes>>
    BY DEF AbortCommit
<1>3. /\ drive' \in Pass /\ drive'.pc = drive.pc /\ drive'.plan = drive.plan
      /\ drive'.op = drive.op /\ drive'.permits = drive.permits
    <2> DEFINE signalled == drive.signalled \/ (abortReq.captured /\ op.id = abortReq.op)
    <2>1. signalled \in BOOLEAN
        OBVIOUS
    <2>2. drive' = [drive EXCEPT !.signalled = signalled]
        BY DEF AbortCommit
    <2> HIDE DEF signalled
    <2> QED
        BY <2>1, <2>2 DEF TypeInv, PassOK, Pass
<1>4. /\ op' \in Operation /\ op'.id = op.id /\ op'.at = op.at /\ op'.calls = op.calls
      /\ inbox' \subseteq inbox /\ pending' \subseteq pending /\ drained' \subseteq Nat
    <2>1. CASE op.id = abortReq.op /\ op.control = "running"
        <3>1. /\ op' = [op EXCEPT !.control = "cancel_requested"]
              /\ inbox' = inbox \ dropped /\ pending' = pending \ Ids(dropped)
              /\ drained' = drained \cup Ids(dropped)
            BY <2>1 DEF AbortCommit
        <3>2. "cancel_requested" \in Controls
            BY Names
        <3>3. op' \in Operation /\ op'.id = op.id /\ op'.at = op.at /\ op'.calls = op.calls
            BY SMTT(30), <3>1, <3>2 DEF TypeInv, OpOK, Operation
        <3> QED
            BY <1>1, <3>1, <3>3 DEF TypeInv, HistoryOK
    <2>2. CASE ~(op.id = abortReq.op /\ op.control = "running")
        <3>1. UNCHANGED <<op, inbox, pending, drained>>
            BY <2>2 DEF AbortCommit
        <3> QED
            BY <3>1 DEF TypeInv, OpOK, HistoryOK
    <2> QED
        BY <2>1, <2>2
<1>5. TreeOK'
    BY <1>2, <1>4 DEF TypeInv, TreeOK, tree
<1>6. OpOK'
    BY ZenonT(60), <1>2, <1>4 DEF TypeInv, OpOK, tree, outcome, Calls, Incomplete
<1>7. PassOK'
    <2>1. abortReq' \in Request
        BY SMTT(30), NoAbortType DEF AbortCommit
    <2> QED
        BY <1>2, <1>3, <1>4, <2>1 DEF TypeInv, PassOK, tree
<1>8. BatchOK' /\ HistoryOK' /\ OwnerOK'
    BY ZenonT(60), <1>2, <1>3, <1>4 DEF TypeInv, BatchOK, HistoryOK, OwnerOK, line, navigation, Calls
<1> QED
    BY SMTT(30), <1>5, <1>6, <1>7, <1>8 DEF TypeInv

\* Every step of a caller keeps the types.
LEMMA CallerStepTyped ==
    ASSUME TypeInv, CallerStep
    PROVE  TypeInv'
BY SMTT(30), AcceptRunTyped, AcceptCompactionTyped, AcceptNavigationTyped,
   AcceptSummarizedNavigationTyped, NavigationRequestTyped, EnqueueTyped, AppendIdleTyped,
   CancelQueuedTyped, DriveClaimTyped, DriveJoinTyped, AbortBeginTyped, AbortCommitTyped,
   IdleCallbackTyped, DriveReturnsTyped, LostTyped DEF CallerStep
=============================================================================
