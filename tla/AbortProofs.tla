----------------------------- MODULE AbortProofs -----------------------------
(***************************************************************************)
(* After requestAbort no effect starts.  The process-local gate and the    *)
(* durable cancellation close at different times: requestAbort closes the  *)
(* gate of the pass it finds, its command makes the cancellation durable   *)
(* later, and a pass claimed in between has an open gate.                  *)
(***************************************************************************)
EXTENDS LifecycleProofs

\* Points a pass with an open gate may be at while its operation is being
\* cancelled or is cancelled: none of them starts an effect.
Ungated == Resting \cup {"claimed", "loop", "timer", "wake"}

\* Only a pass that requestAbort captured has commands ahead of the abort, and each
\* of them is still to run.
AheadOK ==
    /\ abortReq.ahead # {} => drive.gate = "aborting"
    /\ 0 \in abortReq.ahead => \/ drive.pc \in CommandPoints
                               \/ drive.pc = "loop" /\ op.at \notin RetryWaits
    /\ \A i \in abortReq.ahead \ {0} : i \in DOMAIN tasks /\ tasks[i].at \in CommandTasks
    /\ 0 \notin DOMAIN tasks

GateOK == drive.gate = "open" /\ (abortReq.op # 0 \/ ~Running) => drive.pc \in Ungated

GateInv == AheadOK /\ GateOK

\* A created session has no pass and no abort in flight.
LEMMA GateInvInit == Init => GateInv
BY DEF Init, GateInv, AheadOK, GateOK, NoAbort, NoDrive, NoOp, Running, Ungated, Resting

\* Points of a pass at which it has nothing queued and is outside its loop.
LEMMA NothingAhead ==
    ASSUME TypeInv, GateInv, drive.pc \notin CommandPoints \cup {"loop"}
    PROVE  /\ 0 \notin abortReq.ahead
           /\ drive.pc # "tools" => abortReq.ahead = {}
<1>1. 0 \notin abortReq.ahead
    BY DEF GateInv, AheadOK
<1>2. drive.pc # "tools" => abortReq.ahead \ {0} = {}
    BY NoTasks DEF GateInv, AheadOK
<1> QED
    BY <1>1, <1>2

-----------------------------------------------------------------------------
(* Steps of the pass *)

\* A command of the pass leaves the gate as it is or closes it, and goes on to an
\* effect only if it found the operation running.
LEMMA CommandGated ==
    ASSUME TypeInv, GateInv, DriveTurn(0), tasks' = tasks,
           \/ drive'.gate = "aborting"
           \/ drive'.gate = drive.gate /\ (drive'.pc \in Ungated \/ op'.control = "running")
    PROVE  GateInv'
<1>1. /\ abortReq'.op = abortReq.op /\ abortReq'.ahead = abortReq.ahead \ {0}
      /\ abortReq.op # 0 => 0 \in abortReq.ahead
    BY DEF DriveTurn, TypeInv, PassOK, Request
<1>2. AheadOK'
    BY <1>1 DEF GateInv, AheadOK
<1>3. GateOK'
    BY <1>1 DEF GateInv, AheadOK, GateOK, Running
<1> QED
    BY <1>2, <1>3 DEF GateInv

\* A step of the pass off the mutation line.
LEMMA QuietGated ==
    ASSUME TypeInv, GateInv, UNCHANGED <<op, tasks, abortReq>>, drive'.gate = drive.gate,
           drive.pc \notin Ungated \/ drive'.pc \in Ungated,
           drive.pc \notin CommandPoints, drive.pc = "loop" => op.at \in RetryWaits
    PROVE  GateInv'
<1>1. 0 \notin abortReq.ahead
    BY DEF GateInv, AheadOK
<1>2. AheadOK'
    BY <1>1 DEF GateInv, AheadOK
<1>3. GateOK'
    BY DEF GateInv, GateOK, Running
<1> QED
    BY <1>2, <1>3 DEF GateInv

\* A step of a tool task.
LEMMA TaskGated ==
    ASSUME TypeInv, GateInv, NEW i \in DOMAIN tasks, NEW at, Moved(i, at),
           DriveTurn(i) \/ (abortReq' = abortReq /\ tasks[i].at \notin CommandTasks),
           drive'.gate = drive.gate, drive'.pc = drive.pc, op'.control = op.control
    PROVE  GateInv'
<1>1. drive.pc = "tools" /\ i # 0
    BY WithTasks DEF GateInv, AheadOK
<1>2. /\ abortReq'.op = abortReq.op /\ abortReq'.ahead \subseteq abortReq.ahead \ {i}
    BY <1>1 DEF DriveTurn, TypeInv, PassOK, Request, GateInv, AheadOK
<1>3. 0 \notin abortReq.ahead
    BY <1>1, NothingAhead DEF CommandPoints
<1>4. AheadOK'
    BY <1>2, <1>3 DEF GateInv, AheadOK, Moved
<1>5. GateOK'
    BY <1>2 DEF GateInv, GateOK, Running
<1> QED
    BY <1>4, <1>5 DEF GateInv

\* A pass that is gone, or was just claimed.
LEMMA FreshGated ==
    ASSUME abortReq'.ahead = {}, 0 \notin DOMAIN tasks', drive'.pc \in Ungated
    PROVE  GateInv'
BY DEF GateInv, AheadOK, GateOK

\* The pass is typed.
LEMMA PassType ==
    ASSUME TypeInv
    PROVE  drive \in Pass
BY DEF TypeInv, PassOK

\* The points a pass moves to keep its gate.
LEMMA GateAt ==
    ASSUME TypeInv, NEW pc
    PROVE  /\ At(pc).gate = drive.gate /\ At(pc).pc = pc
           /\ \A x : /\ [At(pc) EXCEPT !.arg = x].gate = drive.gate /\ [At(pc) EXCEPT !.arg = x].pc = pc
                     /\ [At(pc) EXCEPT !.plan = x].gate = drive.gate
                     /\ [At(pc) EXCEPT !.permits = x].gate = drive.gate
                     /\ Signalled([At(pc) EXCEPT !.arg = x]).gate = "aborting"
           /\ Signalled(At(pc)).gate = "aborting"
BY PassType DEF At, Signalled, Pass

\* A command that found the operation running and goes on.
LEMMA RunningGated ==
    ASSUME TypeInv, GateInv, DriveStep, DriveTurn(0), Running, tasks' = tasks, drive'.gate = drive.gate
    PROVE  GateInv'
<1>1. op'.control = "running"
    BY DriveShape DEF Running, Carried, Ended, NoOp
<1> QED
    BY <1>1, CommandGated

\* A command after which the pass is back in its loop or at the end.
LEMMA BackGated ==
    ASSUME TypeInv, GateInv, DriveTurn(0), tasks' = tasks,
           drive' = At("loop") \/ drive' = At("settled")
    PROVE  GateInv'
<1>1. drive'.gate = drive.gate /\ drive'.pc \in Ungated
    BY GateAt DEF Ungated, Resting
<1> QED
    BY <1>1, CommandGated

\* The commands of a run keep the gate invariant (continueOperation).
LEMMA RunCommandsGated ==
    ASSUME TypeInv, GateInv,
           \/ FindCancelled \/ (\E inject \in BOOLEAN : StartRun(inject))
           \/ (\E followUp \in BOOLEAN : FinishBoundary(followUp))
           \/ ConfigurationFailure \/ SettleResponse \/ RetryCommit \/ AbortedTerminal
    PROVE  GateInv'
<1>1. DriveTurn(0)
    BY ZenonT(60) DEF FindCancelled, StartRun, FinishBoundary, ConfigurationFailure,
       SettleResponse, RetryCommit,
       AbortedTerminal, Command
<1>2. tasks' = tasks /\ (drive' = At("loop") \/ drive' = At("settled"))
    BY Zenon DEF FindCancelled, StartRun, FinishBoundary, ConfigurationFailure, SettleResponse, SettleNext,
       SettleFailed, RetryCommit, AbortedTerminal, Finish, Goto, Local
<1> QED
    BY SMTT(30), <1>1, <1>2, BackGated

\* The preparations of a run, which read the control last, keep the gate invariant.
LEMMA RunPreparesGated ==
    ASSUME TypeInv, GateInv, RunStep,
           \/ ReadPrompt \/ (\E threshold \in BOOLEAN : RunCheckpoint(threshold)) \/ PlanBoundary
           \/ PrepareGeneration \/ PreparePoll \/ GenerationIntent \/ PollIntent \/ RecoverAssistant
    PROVE  GateInv'
<1>1. DriveTurn(0) /\ Running
    BY ZenonT(60) DEF ReadPrompt, RunCheckpoint, PlanBoundary, PrepareGeneration, PreparePoll,
       GenerationIntent,
       PollIntent, RecoverAssistant, Command
<1>2. /\ tasks' = tasks
      /\ \E pc, x : \/ drive' = At(pc) \/ drive' = [At(pc) EXCEPT !.arg = x]
                    \/ drive' = [At(pc) EXCEPT !.plan = x] \/ drive' = [At(pc) EXCEPT !.permits = x]
    <2>1. CASE ReadPrompt \/ PrepareGeneration \/ PreparePoll \/ GenerationIntent
        BY <2>1 DEF ReadPrompt, PrepareGeneration, PreparePoll, GenerationIntent, Goto, Local
    <2>2. CASE RecoverAssistant \/ \E threshold \in BOOLEAN : RunCheckpoint(threshold)
        BY <2>2 DEF RecoverAssistant, RunCheckpoint, Local
    <2>3. CASE PlanBoundary
        BY Zenon, <2>3 DEF PlanBoundary, Goto, Local
    <2>4. CASE PollIntent
        BY Zenon, <2>4 DEF PollIntent
    <2> QED
        BY SMTT(30), <2>1, <2>2, <2>3, <2>4
<1>3. drive'.gate = drive.gate
    <2>1. PICK pc, x : \/ drive' = At(pc) \/ drive' = [At(pc) EXCEPT !.arg = x]
                       \/ drive' = [At(pc) EXCEPT !.plan = x] \/ drive' = [At(pc) EXCEPT !.permits = x]
        BY <1>2
    <2>2. At(pc).gate = drive.gate /\ [At(pc) EXCEPT !.arg = x].gate = drive.gate
        BY GateAt
    <2>3. [At(pc) EXCEPT !.plan = x].gate = drive.gate /\ [At(pc) EXCEPT !.permits = x].gate = drive.gate
        BY GateAt
    <2> QED
        BY Zenon, <2>1, <2>2, <2>3
<1> QED
    BY SMTT(30), <1>1, <1>2, <1>3, RunningGated DEF DriveStep

\* The steps of a run between two commands keep the gate invariant.
LEMMA RunQuietGated ==
    ASSUME TypeInv, GateInv,
           \/ BeforeDrive \/ RequestRefused \/ Frame \/ RetryWait \/ TimerEnds
           \/ (\E id : AdmitRequest(id)) \/ \E result, possible : RequestReturns(result, possible)
    PROVE  GateInv'
<1>1. UNCHANGED <<op, tasks, abortReq>>
    BY DEF BeforeDrive, RequestRefused, Frame, RetryWait, TimerEnds, AdmitRequest, RequestReturns, Local,
       operation, process
<1>2. drive.pc \notin CommandPoints /\ (drive.pc = "loop" => op.at \in RetryWaits)
    BY ZenonT(60) DEF BeforeDrive, RequestRefused, Frame, RetryWait, TimerEnds, AdmitRequest,
       RequestReturns,
       CommandPoints
<1>3. drive'.gate = drive.gate /\ (drive.pc \notin Ungated \/ drive'.pc \in Ungated)
    <2>1. CASE Frame
        BY SMTT(30), <2>1 DEF Frame, process
    <2>2. CASE BeforeDrive \/ RequestRefused \/ RetryWait \/ TimerEnds
        BY <2>2, GateAt DEF BeforeDrive, RequestRefused, RetryWait, TimerEnds, Local, Ungated, Resting
    <2>3. CASE \E id : AdmitRequest(id)
        BY <2>3, GateAt DEF AdmitRequest, Ungated, Resting
    <2>4. CASE \E result, possible : RequestReturns(result, possible)
        BY SMTT(30), <2>4, GateAt DEF RequestReturns, Local, Ungated, Resting
    <2> QED
        BY <2>1, <2>2, <2>3, <2>4
<1> QED
    BY SMTT(30), <1>1, <1>2, <1>3, QuietGated

\* Every step of a run keeps the gate invariant.
LEMMA RunGated ==
    ASSUME TypeInv, GateInv, RunStep
    PROVE  GateInv'
<1>1. CASE ReconcileRequest
    BY SMTT(30), <1>1, GateAt, CommandGated DEF ReconcileRequest, Command, Local
<1>2. CASE SourceFault
    <2>1. drive.pc = "loop" /\ DriveTurn(0) /\ drive' = NoDrive /\ tasks' = tasks
        BY <1>2 DEF SourceFault, Command
    <2>2. DOMAIN tasks = {} /\ abortReq'.ahead = abortReq.ahead \ {0}
        BY <2>1, NoTasks DEF DriveTurn, TypeInv, PassOK, Request
    <2>3. abortReq'.ahead = {}
        BY <2>2 DEF GateInv, AheadOK
    <2> QED
        BY <2>1, <2>2, <2>3, FreshGated DEF NoDrive, Ungated, Resting
<1>3. CASE \E result : \E possible : RequestReturns(result, possible)
    BY SMTT(30), <1>3, RunQuietGated
<1> QED
    BY SMTT(30), <1>1, <1>2, <1>3, RunCommandsGated, RunPreparesGated, RunQuietGated DEF RunStep

-----------------------------------------------------------------------------
(* Tools, compaction and navigation *)

\* Every step of a tool task keeps the gate invariant.
LEMMA ToolTasksGated ==
    ASSUME TypeInv, GateInv, ToolStep, NEW i \in DOMAIN tasks,
           \/ StartPlanned(i) \/ (\E tool \in Replays : StartRecovered(i, tool))
           \/ (\E replay \in Replays : ToolIntent(i, replay)) \/ AdmitTool(i) \/ ToolReturns(i)
           \/ (\E terminate \in BOOLEAN : PublishOutcome(i, terminate))
           \/ ReadPlacement(i) \/ CommitPlacement(i)
    PROVE  GateInv'
<1>1. op'.control = op.control
    BY SMTT(30), ToolShape DEF Carried
<1>2. drive'.gate = drive.gate /\ drive'.pc = drive.pc
    <2>1. drive \in Pass
        BY DEF TypeInv, PassOK
    <2> QED
        BY ZenonT(60), <2>1 DEF StartPlanned, StartRecovered, ToolIntent, AdmitTool, ToolReturns,
           PublishOutcome,
           ReadPlacement, CommitPlacement, OnlyTasks, Pass
<1>3. \E at : Moved(i, at)
    <2>1. \/ \E at \in TaskPoints : TaskAt(i, at)
          \/ \E result \in TaskResults : Staging(i, result)
        <3>1. CASE StartPlanned(i) \/ (\E tool \in Replays : StartRecovered(i, tool))
            BY SMTT(30), <3>1 DEF StartPlanned, StartRecovered, TaskPoints, TaskResults
        <3>2. CASE \E replay \in Replays : ToolIntent(i, replay)
            BY ZenonT(60), <3>2 DEF ToolIntent, TaskPoints, TaskResults
        <3>3. CASE AdmitTool(i) \/ ToolReturns(i)
            BY <3>3 DEF AdmitTool, ToolReturns, TaskPoints, TaskResults
        <3>4. CASE \/ (\E terminate \in BOOLEAN : PublishOutcome(i, terminate))
                   \/ ReadPlacement(i) \/ CommitPlacement(i)
            BY SMTT(30), <3>4 DEF PublishOutcome, ReadPlacement, CommitPlacement, TaskPoints
        <3> QED
            BY SMTT(30), <3>1, <3>2, <3>3, <3>4
    <2> QED
        BY SMTT(30), <2>1, TaskAtType, StagingType
<1>4. DriveTurn(i) \/ (abortReq' = abortReq /\ tasks[i].at \notin CommandTasks)
    BY Zenon DEF StartPlanned, StartRecovered, ToolIntent, AdmitTool, ToolReturns, PublishOutcome,
       ReadPlacement,
       CommitPlacement, MayStart, CommandTasks
<1> QED
    BY SMTT(30), <1>1, <1>2, <1>3, <1>4, TaskGated

\* Every step of a tool batch keeps the gate invariant.
LEMMA ToolGated ==
    ASSUME TypeInv, GateInv, ToolStep
    PROVE  GateInv'
<1>1. CASE FindReady
    <2> DEFINE next == [At("place") EXCEPT !.plan = ResultIds(ReadyPrefix)]
    <2>1. DriveTurn(0) /\ tasks' = tasks /\ drive' = IF Running THEN next ELSE Signalled(next)
        BY <1>1 DEF FindReady, Command, Local
    <2>2. next.gate = drive.gate /\ Signalled(next).gate = "aborting"
        BY PassType DEF At, Signalled, Pass
    <2> HIDE DEF next
    <2>3. CASE Running
        BY SMTT(30), <2>1, <2>2, <2>3, RunningGated DEF DriveStep
    <2>4. CASE ~Running
        BY SMTT(30), <2>1, <2>2, <2>4, CommandGated
    <2> QED
        BY <2>3, <2>4
<1>2. CASE PlaceReady
    BY <1>2, BackGated DEF PlaceReady, Command
<1>3. CASE SettleUnstarted
    BY SMTT(30), <1>3, GateAt, CommandGated DEF SettleUnstarted, Command
<1>4. CASE RunTools
    <2>1. /\ drive.pc = "loop" /\ DriveTurn(0) /\ Running /\ op' = op
          /\ drive' = At("tools") /\ DOMAIN tasks' \subseteq Calls \cup {First}
          /\ op.at = "tools" /\ ReadyPrefix = {}
        BY <1>4 DEF RunTools, Command, operation, Incomplete
    <2>2. 0 \notin DOMAIN tasks'
        BY SMTT(30), <2>1, OpenCalls, OpFields DEF Calls, Incomplete
    <2>3. DOMAIN tasks = {} /\ abortReq'.ahead = abortReq.ahead \ {0} /\ abortReq'.op = abortReq.op
        BY SMTT(30), <2>1, NoTasks DEF DriveTurn, TypeInv, PassOK, Request
    <2>4. abortReq'.ahead = {} /\ drive'.gate = drive.gate
        BY <2>1, <2>3, GateAt DEF GateInv, AheadOK
    <2>5. drive.gate = "open" => abortReq.op = 0
        BY <2>1 DEF DriveTurn, GateInv, AheadOK
    <2> QED
        BY SMTT(30), <2>1, <2>2, <2>3, <2>4, <2>5 DEF GateInv, AheadOK, GateOK, Running
<1>5. CASE ToolsDone
    <2>1. /\ drive.pc = "tools" /\ \A i \in DOMAIN tasks : tasks[i].at = "done"
          /\ tasks' = <<>> /\ drive' = At("loop") /\ abortReq' = abortReq
        BY SMTT(30), <1>5 DEF ToolsDone
    <2>2. abortReq.ahead = {}
        BY SMTT(30), <2>1, NothingAhead DEF GateInv, AheadOK, CommandPoints, CommandTasks
    <2> QED
        BY SMTT(30), <2>1, <2>2, GateAt, FreshGated DEF Ungated, Resting
<1>6. ASSUME NEW i \in DOMAIN tasks, NEW what, ToolWrites(i, what)
      PROVE  GateInv'
    BY <1>6 DEF ToolWrites, process, GateInv, AheadOK, GateOK, Running
<1> QED
    BY SMTT(30), <1>1, <1>2, <1>3, <1>4, <1>5, <1>6, ToolTasksGated DEF ToolStep

\* Every step of a structural task keeps the gate invariant.
LEMMA StructuralGated ==
    ASSUME TypeInv, GateInv, StructuralStep
    PROVE  GateInv'
<1>1. CASE \/ ReadPreparation \/ Decline \/ SupplySummary \/ DecideGenerate \/ SummaryModelMissing
           \/ (\E empty \in BOOLEAN : AttemptIntent(empty)) \/ NestedIntent
           \/ AttemptResult \/ RecoverSummary \/ CommitNavigation
    <2>1. DriveTurn(0) /\ Running
        BY SMTT(30), <1>1 DEF ReadPreparation, Decline, SupplySummary, DecideGenerate, SummaryModelMissing,
           AttemptIntent, NestedIntent, AttemptResult, RecoverSummary, CommitNavigation, Command
    <2>2. ASSUME NEW kind, NEW id, PublishSummary(kind, id)
          PROVE  tasks' = tasks /\ drive'.gate = drive.gate
        <3>1. /\ tasks' = tasks
              /\ \/ drive' = At("loop") \/ drive' = At("settled")
                 \/ \E x : drive' = [At("finish") EXCEPT !.plan = x]
            BY Zenon, <2>2 DEF PublishSummary, ResumeRun, FailRun, FinishStructural, Finish, Goto
        <3> QED
            BY ZenonT(60), <3>1, PassType DEF At, Pass
    <2>3. tasks' = tasks /\ drive'.gate = drive.gate
        <3>1. CASE Decline \/ SupplySummary \/ SummaryModelMissing \/ AttemptResult \/ RecoverSummary
            BY SMTT(30), <2>2, <3>1, GateAt DEF Decline, SupplySummary, SummaryModelMissing, AttemptResult,
               RecoverSummary, RetryLater, Goto
        <3>2. CASE ReadPreparation \/ DecideGenerate \/ NestedIntent \/ CommitNavigation
            BY SMTT(30), <3>2, GateAt DEF ReadPreparation, DecideGenerate, NestedIntent, CommitNavigation, Finish,
               Goto, Local
        <3>3. CASE \E empty \in BOOLEAN : AttemptIntent(empty)
            <4>1. PICK pc, x : tasks' = tasks /\ drive' = [At(pc) EXCEPT !.arg = x]
                BY Zenon, <3>3 DEF AttemptIntent
            <4> QED
                BY <4>1, GateAt
        <3> QED
            BY SMTT(30), <1>1, <3>1, <3>2, <3>3
    <2> QED
        BY SMTT(30), <2>1, <2>3, RunningGated DEF DriveStep
<1>2. ASSUME NEW another \in BOOLEAN, NestedOutcome(another)
      PROVE  GateInv'
    <2>1. /\ DriveTurn(0) /\ tasks' = tasks /\ drive.pc = "settle"
          /\ drive' = At("intent") \/ drive' = [At("result") EXCEPT !.arg = drive.arg]
        BY <1>2 DEF NestedOutcome, Command
    <2>2. drive'.gate = drive.gate
        BY ZenonT(60), <2>1, PassType DEF At, Pass
    <2>3. Running \/ drive.gate # "open"
        BY <2>1 DEF GateInv, GateOK, Ungated, Resting
    <2>4. CASE Running
        BY SMTT(30), <1>2, <2>1, <2>2, <2>4, RunningGated DEF DriveStep, StructuralStep
    <2>5. CASE drive.gate # "open"
        <3>1. drive.gate = "aborting"
            BY <2>5 DEF TypeInv, PassOK, Pass, Gates
        <3> QED
            BY SMTT(30), <2>1, <2>2, <3>1, CommandGated
    <2> QED
        BY SMTT(30), <2>3, <2>4, <2>5
<1>3. CASE AdmitRequest(op.src)
    BY <1>3, RunQuietGated
<1>4. ASSUME NEW result, RequestReturns(result, SummaryOutcomes)
      PROVE  GateInv'
    BY <1>4, RunQuietGated
<1> QED
    BY SMTT(30), <1>1, <1>2, <1>3, <1>4 DEF StructuralStep

-----------------------------------------------------------------------------
(* Callers *)

\* Closing the gate before the command is queued establishes the gate invariant
\* for the abort in flight (requestOperationAbort, Drive.beginAbort).
LEMMA AbortBeginGated ==
    ASSUME TypeInv, GateInv, AbortBegin
    PROVE  GateInv'
<1> DEFINE live == drive.op = op.id
<1>1. PICK ahead \in SUBSET Outstanding :
         /\ abortReq' = [op |-> op.id, captured |-> live, ahead |-> ahead]
         /\ drive' = IF live THEN [drive EXCEPT !.gate = "aborting"] ELSE drive
    BY DEF AbortBegin
<1>2. UNCHANGED <<op, tasks>> /\ abortReq'.ahead = ahead
    BY <1>1 DEF AbortBegin, operation
<1>3. ~live => drive.pc \in Resting /\ DOMAIN tasks = {}
    BY Zenon DEF TypeInv, PassOK, Resting
<1>4. /\ \A i \in ahead \ {0} : i \in DOMAIN tasks /\ tasks[i].at \in CommandTasks
      /\ 0 \in ahead => \/ drive.pc \in CommandPoints
                        \/ drive.pc = "loop" /\ op.at \notin RetryWaits
    BY Zenon DEF Outstanding, GateInv, AheadOK
<1>5. CASE live
    <2>1. drive'.gate = "aborting" /\ drive'.pc = drive.pc
        BY SMTT(30), <1>1, <1>5, PassType DEF Pass
    <2> QED
        BY SMTT(30), <1>2, <1>4, <2>1 DEF GateInv, AheadOK, GateOK
<1>6. CASE ~live
    <2>1. ahead = {}
        BY <1>3, <1>4, <1>6 DEF Resting, CommandPoints
    <2> QED
        BY SMTT(30), <1>1, <1>2, <1>3, <1>6, <2>1, FreshGated DEF Ungated
<1> QED
    BY <1>5, <1>6

\* Making the cancellation durable keeps the gate invariant (requestOperationAbort).
LEMMA AbortCommitGated ==
    ASSUME TypeInv, GateInv, AbortCommit
    PROVE  GateInv'
<1>1. /\ abortReq' = NoAbort /\ abortReq.op # 0 /\ tasks' = tasks
      /\ op' = op \/ op' = [op EXCEPT !.control = "cancel_requested"]
      /\ drive' = [drive EXCEPT !.signalled = @ \/ (abortReq.captured /\ op.id = abortReq.op)]
    BY DEF AbortCommit
<1>2. drive'.gate = drive.gate /\ drive'.pc = drive.pc
    BY <1>1, PassType DEF Pass
<1>3. abortReq'.ahead = {} /\ abortReq'.op = 0
    BY <1>1 DEF NoAbort
<1> QED
    BY <1>1, <1>2, <1>3 DEF GateInv, AheadOK, GateOK

\* Every call on the lane keeps the gate invariant.
LEMMA CallerGated ==
    ASSUME TypeInv, LifeInv, GateInv, CallerStep
    PROVE  GateInv'
<1>1. CASE \/ \E prompt \in BOOLEAN : AcceptRun(prompt)
           \/ AcceptCompaction
           \/ AcceptNavigation
           \/ AcceptSummarizedNavigation
    <2>1. op.at = "none" /\ UNCHANGED process /\ op'.control = "running" /\ op.control = "running"
        <3>1. op = NoOp /\ op'.control = "running"
            BY SMTT(30), <1>1, AcceptShape
        <3>2. op.at = "none" /\ op.control = "running"
            BY SMTT(30), <3>1 DEF NoOp
        <3>3. UNCHANGED process
            BY Zenon, <1>1 DEF AcceptRun, AcceptCompaction, AcceptNavigation, AcceptSummarizedNavigation
        <3> QED
            BY SMTT(30), <3>1, <3>2, <3>3
    <2>2. drive.pc \in Resting
        BY <2>1 DEF TypeInv, PassOK
    <2>3. 0 \notin abortReq.ahead
        BY SMTT(30), <2>2, NothingAhead DEF CommandPoints, Resting
    <2> QED
        BY <2>1, <2>3 DEF process, GateInv, AheadOK, GateOK, Running
<1>2. CASE \/ \E s \in Submissions : Enqueue(s) \/ AppendIdle(s)
           \/ \E x \in inbox : CancelQueued(x)
           \/ \E target \in Ids(entries) \cup Ids(inbox) \cup {Root}, summarize \in BOOLEAN :
                RequestNavigation(target, summarize)
           \/ NavigationRetries \/ NavigationRefused
           \/ RunWhenIdle \/ IdleBlocked \/ IdleCallbackReturns
    <2>1. UNCHANGED <<op, drive, tasks, abortReq>>
        BY ZenonT(60), <1>2 DEF Enqueue, AppendIdle, CancelQueued, RequestNavigation,
           NavigationRetries, NavigationRefused, RunWhenIdle, IdleBlocked, IdleCallbackReturns,
           operation, process
    <2> QED
        BY SMTT(30), <2>1 DEF GateInv, AheadOK, GateOK, Running
<1>3. CASE \E policy \in DrivePolicies : DriveJoin(policy)
    <2>1. UNCHANGED <<op, tasks, abortReq>> /\ drive' = [drive EXCEPT !.joined = TRUE]
        BY <1>3 DEF DriveJoin, operation
    <2>2. drive'.gate = drive.gate /\ drive'.pc = drive.pc
        BY SMTT(30), <2>1, PassType DEF Pass
    <2> QED
        BY <2>1, <2>2 DEF GateInv, AheadOK, GateOK, Running
<1>4. CASE (\E policy \in DrivePolicies : DriveClaim(policy)) \/ DriveReturns
    <2>1. drive.pc \in Resting /\ tasks' = tasks
        BY Zenon, <1>4 DEF DriveClaim, DriveReturns, Resting
    <2>2. abortReq.ahead = {} /\ 0 \notin DOMAIN tasks
        BY SMTT(30), <2>1, NothingAhead DEF CommandPoints, Resting, GateInv, AheadOK
    <2>3. abortReq'.ahead = abortReq.ahead
        BY Zenon, <1>4 DEF DriveClaim, DriveReturns, TypeInv, PassOK, Request
    <2>4. drive'.pc \in {"claimed", "none"}
        <3>1. CASE DriveReturns
            BY <3>1 DEF DriveReturns, NoDrive
        <3>2. ASSUME NEW policy \in DrivePolicies, DriveClaim(policy)
              PROVE  drive'.pc = "claimed"
            <4> DEFINE permits == IF policy.pollDeferred THEN 1 ELSE 0
            <4>1. drive' = [NoDrive EXCEPT !.op = op.id, !.pc = "claimed",
                                !.wait = policy.waitForRetry, !.permits = permits,
                                !.joined = policy.convenience]
                BY <3>2 DEF DriveClaim
            <4> HIDE DEF permits
            <4> QED
                BY <4>1 DEF NoDrive
        <3> QED
            BY SMTT(30), <1>4, <3>1, <3>2
    <2> QED
        BY SMTT(30), <2>1, <2>2, <2>3, <2>4, FreshGated DEF Ungated, Resting
<1>5. CASE Crash \/ Restore
    <2>1. drive' = NoDrive /\ tasks' = <<>> /\ abortReq' = NoAbort
        BY <1>5 DEF Crash, Restore
    <2> QED
        BY SMTT(30), <2>1, FreshGated DEF NoDrive, NoAbort, Ungated, Resting
<1> QED
    BY SMTT(30), <1>1, <1>2, <1>3, <1>4, <1>5, AbortBeginGated, AbortCommitGated DEF CallerStep

\* Every step of the lane keeps the gate invariant.
LEMMA GateInvStep ==
    ASSUME TypeInv, LifeInv, GateInv, [Next]_vars
    PROVE  GateInv'
<1>1. CASE UNCHANGED vars
    BY <1>1 DEF vars, operation, process, GateInv, AheadOK, GateOK, Running
<1> QED
    BY SMTT(30), <1>1, CallerGated, RunGated, ToolGated, StructuralGated DEF Next, DriveStep

-----------------------------------------------------------------------------

\* A pass whose gate is open while its operation is cancelled, or about to be, is at
\* no point from which an effect starts (requestOperationAbort, createGate).
THEOREM GateInvariant == Spec => []GateInv
<1>1. TypeInv /\ LifeInv /\ GateInv /\ [Next]_vars => GateInv'
    BY GateInvStep
<1> QED
    BY <1>1, GateInvInit, TypeInvariant, LifeInvariant, PTL DEF Spec

\* Only the gate starts effects.
LEMMA EffectsGated ==
    ASSUME TypeInv, GateInv, [Next]_vars, ran' # ran \/ reran' # reran
    PROVE  Running /\ abortReq.op = 0
<1>1. drive.gate = "open" /\ drive.pc \in {"admit", "tools"}
    <2>1. CASE CallerStep \/ UNCHANGED vars
        BY ZenonT(60), <2>1 DEF CallerStep, AcceptRun, AcceptCompaction, AcceptNavigation,
           AcceptSummarizedNavigation,
           RequestNavigation, NavigationRetries, NavigationRefused, Enqueue, AppendIdle, CancelQueued,
           DriveClaim, DriveJoin, AbortBegin, AbortCommit, RunWhenIdle, IdleBlocked, IdleCallbackReturns,
           DriveReturns, Crash, Restore, vars, history
    <2>2. CASE RunStep
        BY ZenonT(60), <2>2 DEF RunStep, BeforeDrive, FindCancelled, ReadPrompt, StartRun,
           RunCheckpoint, PlanBoundary,
           FinishBoundary, ConfigurationFailure, PrepareGeneration, PreparePoll, SourceFault,
           GenerationIntent, PollIntent, AdmitRequest, RequestRefused, Frame, RequestReturns,
           RecoverAssistant, SettleResponse, SettleNext, SettleFailed, RetryWait, TimerEnds, RetryCommit,
           ReconcileRequest, AbortedTerminal, Local, Advance, Finish, history
    <2>3. CASE ToolStep
        BY ZenonT(60), <2>3, WithTasks DEF ToolStep, FindReady, PlaceReady, SettleUnstarted,
           RunTools, ToolsDone,
           StartPlanned, StartRecovered, ToolIntent, AdmitTool, ToolReturns, ToolWrites, PublishOutcome,
           ReadPlacement, CommitPlacement, PlaceResults, StageOutcome, OnlyTasks, Local, Advance, history
    <2>4. CASE StructuralStep
        BY ZenonT(60), <2>4 DEF StructuralStep, ReadPreparation, Decline, SupplySummary, DecideGenerate,
           SummaryModelMissing, AttemptIntent, NestedIntent, AdmitRequest, RequestReturns, NestedOutcome,
           AttemptResult, RecoverSummary, RetryLater, CommitNavigation, PublishSummary, ResumeRun, FailRun,
           FinishStructural, Local, Advance, Finish, history
    <2> QED
        BY SMTT(30), <2>1, <2>2, <2>3, <2>4 DEF Next, DriveStep
<1> QED
    BY <1>1 DEF GateInv, GateOK, Ungated, Resting

\* From the moment requestAbort has been called, and after the cancellation is
\* durable, no request and no tool of the operation starts, in this pass or in any
\* later one (requestOperationAbort, createGate, continueOperation).
THEOREM AbortStopsEffects == Spec => NoEffectAfterAbort
<1>1. TypeInv /\ GateInv /\ [Next]_vars
        => [ran' # ran \/ reran' # reran => Running /\ abortReq.op = 0]_vars
    BY EffectsGated
<1> QED
    BY <1>1, TypeInvariant, GateInvariant, PTL DEF Spec, NoEffectAfterAbort
=============================================================================
