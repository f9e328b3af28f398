# A TLA+ model of the durable agent harness

The repository is a monorepo around a durable agent: a *harness*
(`src/packages/agent/src/harness`) that keeps conversations in *sessions*, and
drives model requests, tool calls, compactions and navigations so that a process
may be lost at any point and another one can carry on. This directory models that
core: one lane of a harness, with its callers, the pass that drives an operation,
the tool tasks of the pass, process loss and restore.

Paths below are relative to `src/packages/agent/src/harness` unless they start
with `src/`.

## The system

| Part | State | Operations | What is hard |
|---|---|---|---|
| Session (`session/`) | entry tree, branch tips, values, lists, usage rows | serialized mutations, each one atomic commit | order on the line, close, failed commits |
| Storage (`session/memory.ts`, `session/jsonl/`, `src/packages/session-backends`) | the same, in memory, in a file, in SQLite | commit, open, fork | torn last line, failed append |
| Lane (`runtime/lane.ts`) | tip, inbox, operation, active pass, idle owner | accept, queue, withdraw, append, drive, abort, run when idle | commands interleave between the awaits of a pass |
| Drive (`runtime/drive.ts`, `runtime/drive/`) | a durable leaf of `OperationState`, a process-local pass | one procedure per leaf | the leaf is read, an effect runs, the result is committed later |
| Tools (`runtime/drive/tools.ts`, `tool-placement.ts`) | a batch of calls, staged results, memos, output | intent, execution, staging, placement, recovery | parallel completion, replay after a loss |
| Structural work (`runtime/drive/structural.ts`) | a summary task with its boundary | decide, request, commit, decline, fail | nested requests, return into a run |
| Effect gate (`execution/effect-gate.ts`) | open, aborting, closed | admit, begin abort, signal | abort before its durable record |
| Harness (`runtime/harness.ts`, `restore.ts`) | lanes by name | attach, fault, close | restore from durable values only |
| Events (`events.ts`, `runtime/reducer.ts`) | watcher queues, snapshots | emit, watch, resnapshot | order of snapshot and events |
| Hooks (`hooks.ts`) | handlers | decisions and observations | a decision about state that has moved |
| Tools and environments (`tools/`, `env/`) | files, processes | read, write, edit, bash | per-file exclusion |
| Client, server, protocol, coordinator (`src/packages/{client,server,protocol}`, `src/packages/coding-agent/src/experimental`) | connections, registrations | handshake, route, replace, shut down | stale callbacks, timers |
| Providers, chord, application, terminal, telemetry, evals | – | – | outside the durable protocol |

What has to hold of the core, informally: queued input is neither lost nor
doubled; the conversation is a tree that only navigation forks; tool results
follow their calls in source order and every call is answered; nothing that may
run only once runs twice; an abort stops effects at once and the operation in the
end; retries and compactions are bounded; one operation is open at a time and its
result is permanent; and whatever is durable can be restored.

## Modules

| Module | Models | Contents |
|---|---|---|
| `Lane` | `runtime/lane.ts`, `restore.ts` | variables, ids and inbox, callers' commands, claim and return of a pass, abort, crash, restore |
| `DriveRun` | `drive.ts`, `checkpoint.ts`, `boundary.ts`, `generation.ts`, `response.ts`, `deferred.ts`, `retry.ts`, `recovery.ts`, `reconcile.ts`, `terminal.ts` | the leaves of a run except tools |
| `DriveTools` | `tools.ts`, `tool-placement.ts`, `execution/tools.ts` | a batch and its tasks |
| `DriveStructural` | `structural.ts` | compaction and navigation |
| `AgentLane` | the composition | `Next`, `Spec`, `FairSpec`, types and properties |
| `Lifecycle` | the promise about operations | abstract specification |
| `MCAgentLane` | – | sets of input for TLC |
| `LaneTypes`, `DriveTypes`, `ToolTypes`, `StructuralTypes` | – | proof of type correctness |
| `LifecycleProofs` | – | proof that the lane implements `Lifecycle` |
| `AbortProofs` | – | proof that an abort stops effects |

**Commands.** A lane command reads, decides and commits alone on the session's
FIFO mutation line, so it is one action. Awaits between commands (a hook, a
provider, a tool, a timer) are points of the pass (`drive.pc`) or of a tool task,
and any other command may run there. What a procedure read before the await is
kept in `drive.arg` and `drive.plan`.

**Order on the line.** Where a command was issued before it runs matters in three
places.

* `requestAbort` closes the gate when it is called, and its command runs later.
  `abortReq.ahead` holds the tasks of the pass whose commands were queued before
  it. These run first.
* A command looks for an idle callback before it queues (`lane.ts:333`) and again
  on the line (`lane.ts:341`). `queued` counts the commands behind the claim of a
  callback that had seen none. On the line they find it and go back to wait
  (`IdleBlocked`). Commands issued later wait off the line.
* `acceptNavigation` reads the tip and prepares the branch to be summarized off the
  line. `nav` is such a request with what it observed. Its command is accepted,
  refused, or sent back to observe again when the tip has moved. One request at a
  time is on its way. `abandoned` is the branch the stored preparation was made of.

**Callers.** A caller of `drive` passes `waitForRetry` and `pollDeferred`
independently, and may be a convenience method (`prompt`, `resume`), which counts
on retries having been waited out (`Policy`).

**State.** `entries`, `tip`, `usage`, `inbox`, `pending`, `op`, `owned`,
`results`, `last` and `abandoned` are durable; `phase`, `drive`, `tasks`,
`abortReq`, `idleOwner`, `queued` and `nav` are lost in a `Crash`. The lane's in-memory projection is replaced in
the job that commits, so it is not a second copy. `submitted`, `drained`,
`withdrawn`, `ran`, `reran` and `crashes` are history for properties and bounds.

**Data.** Entries have an id, a type and a parent; text, models, labels, token
counts and times are gone. Whether a request fails, overflows, defers or calls
tools, what a hook asks for and whether the compaction threshold is met are
choices, restricted by constants. Ids are numbers drawn in the step that first
writes them.

## Runs

All runs use `MCAgentLane`. `CHECK_DEADLOCK FALSE` is set because a lane may be
idle with its bounds used up. The bounds are `MaxOps` operations, `MaxSubmitted`
items, `MaxCrashes` losses, `MaxQueued` commands behind an idle claim, `MaxTurns`
requests of a run, `MaxCalls` calls of a batch and `MaxAttempts` attempts (the
code's `maxRetries + 1`). `Requests` says what callers ask for, aborts included.

| Run | Bounds that matter | Shows |
|---|---|---|
| `input` | one run of two turns, two items of any kind, hook follow-ups, one loss | `QueueConservation`, `PendingPayloads`, `CompletedRunTookInput` |
| `compaction` | two items while the threshold is read and a summary decided and generated; no aborts or losses | `QueueConservation`, `NoCompactionLoop` |
| `tools` | parallel batch of two, one loss | `Tree`, `ForksOnlyByNavigation`, `ResultsInSourceOrder`, `PendingPayloads`, `Restorable`, `NeverReplayed`, `OwnedValuesLive`, `BatchAnswered`, `NoEffectAfterAbort` |
| `tools_sequential` | sequential batch of two, one steer, one loss | `SequentialOrder`, `ResultsInSourceOrder` |
| `generation` | retries, overflow, threshold, prompt callers that join passes of a host | `AttemptsBounded`, `NoCompactionLoop`, `Restorable`, `ImplementsLifecycle` |
| `deferred` | polls by prompt, resume and a host that does not wait, frames, two losses | `TypeOK`, `OwnedValuesLive` |
| `structural` | two operations of every kind, an append, an idle callback with one command behind it, one loss; no aborts | `ForksOnlyByNavigation`, `SummaryCoversBranch`, `IdleCallbackUndisturbed` |
| `progress` | `FairSpec`, parallel batch of two | `CancelledSettles`, `PassReturns` |

A property is in two runs where its parts need different input: staged results are
pending payloads only with tools, and only navigation forks a conversation that
tools, appends and recovery extend. Compaction with queued input has a run of its
own, since together with losses and aborts its states are too many. `progress` has
no invalid deferred handles: `CancelledSettles` fails with one, as
`deferred_bad_handle` explains.

Two items are enough for an item to overtake, shadow or outlive another; two calls
for a batch to be partly done; two attempts for a retry and its exhaustion; one
loss for every point to be a point of recovery, two where recovery itself starts
a poll. Each property has a mutated definition, kept beside the original, that
breaks it.

**Fairness.** `FairSpec` assumes that the steps of a pass, its return, a queued
abort, driving an open operation, restoring a lost process and the return of an
idle callback are each weakly fair. The event loop runs ready continuations and
the mutation line is FIFO, which covers the code's own steps. That requests,
tools, timers and callbacks end, and that a host attaches and drives again, is
asked of the environment. Nothing is assumed of callers' requests or of crashes.

### Where the code and its documents disagree

| Run | Property | What happens |
|---|---|---|
| `abort_retry_wait` | `RetryTimerWoken` | An abort is called while the claim of a pass is queued. It captured no pass (`lane.ts:1012`), so the pass that then enters the retry timer is not signalled and waits for `notBefore`. `src/packages/agent/docs/harness.md:993` has the abort wake it. |
| `mixed_observers` | `ObserversArePeers` | A prompt or resume joins a pass that a host installed with `waitForRetry: false`; when it returns waiting, the harness faults (`lane.ts:1194`). `harness.md:890` calls all callers peers. |
| `deferred_bad_handle` | `DeferredSourceReadable` | A poll answered with an invalid handle is stored as suspended (`response.ts:264`), and every later pass fails to read it. `harness.md:769` makes it a terminal failure. |

## Proofs

All theorems are for every value of the constants allowed by the named
assumptions (`LaneAssumption` and those of the modules that extend `Lane`).

* `StructuralTypes!TypeCorrect`: `Spec => []TypeOK`. `TypeOK` is not inductive: a
  permit is a natural number only because a poll is begun with one, and a batch
  update keeps its type only if the task's call exists. `TypeInv` adds that ids in
  use are below `nextId`, that the ids of a batch differ, that a batch in progress
  has an incomplete call, that a pass belongs to the open operation until it
  rests, and which status the call of a task has. The proof has one lemma per
  action, spread over four modules that follow the modules of the model.
* `LifecycleProofs!LaneImplementsLifecycle`: `Spec => ImplementsLifecycle`, with
  the open operation, its control and its results as refinement mapping: every step
  accepts, cancels, settles or stutters.
* `LifecycleProofs!AtMostOneResult`: `Spec => []OneResult`. No result belongs to the
  open operation, an operation has at most one result, and an idle lane has `NoOp`.
  That is not inductive: acceptance could reuse an id. `LifeInv` adds that every id
  in `results` and `op` is below `nextId`, from which acceptance draws.
* `AbortProofs!AbortStopsEffects`: `Spec => NoEffectAfterAbort`. `GateInv` says
  that a pass with an open gate, while an abort is queued or durable, is at a
  point from which no effect starts, and that what is queued ahead of the abort is
  a command. An effect starts only through an open gate or after a command that
  found the operation running.

Only model-checked: the progress properties, and the other invariants and action
properties. Liveness under fairness is out of the prover's reach, and so is what
`Ancestors` computes for every tree, on which `SummaryCoversBranch` and
`NoCompactionLoop` rest: that takes induction over the tree.

## Not modelled

`PROJECT.json` lists every part with its status. In short: configuration setters,
labels, usage adjustment and snapshots of a lane; an orderly close; several lanes in one session;
the session and storage below an atomic commit; events, watchers and the snapshot
reducer; handler order and error policy of hooks; message assembly and token
estimates; tools and environments; client, server and coordinator; providers,
chord, the application, the terminal, telemetry and evals. A failed commit faults
the harness and is covered only as a loss of the process before the commit.

## Plan

1. **Session and storage**: the mutation line with begin, end, seal and close;
   commits against an abstract atomic session; the JSONL file with torn lines and
   failed appends, refining it. Then two lanes in one session, with branch
   creation and navigation to a foreign entry.
2. **Events**: bus and watcher with resnapshot; the snapshot reducer against the
   lane state it mirrors, composed with `Lane`.
3. **Small concurrent parts**: file mutation queue, adaptive publisher, client
   connection and server routing, coordinator.
4. **Pure algorithms**: fork of a session, cut points of a compaction, framing.
5. **Proofs**: `QueueConservation` and `PendingPayloads`, `Tree`,
   `BatchAnswered`, then the refinement of the session by its storage and the
   exclusion of the queue.
