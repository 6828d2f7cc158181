# TLA+ development for Oh My Subagents

Oh My Subagents runs a *Task* with a *Team* of agents arranged as a tree.  A member works inside
an *Assignment* (one piece of delegated work), in an *Attempt* (one try at it), through a sequence
of *Dispatches* (one provider turn each).  A Dispatch ends by delegating to direct children (a
*Delegation Wave*), by a *Checkpoint* (green, blocked or retry), by a replan, by a human request or
background command, or because the controller closed it.  The controller keeps every fact in a
relational database and moves with conditional updates; nothing else is authoritative.  This
directory holds a formal model of that controller, what is checked of it with TLC, and what is
proved of it with TLAPS.  Paths below are relative to `src/src/oh_my_subagents/` unless they start
with `docs-internal/`.

## Inventory

| Component | State it keeps | Operations | Talks to |
|---|---|---|---|
| Dispatch lanes (`runtime/dispatch`, `runtime/node_operations`, `control_transitions.py`) | `Attempt.current_dispatch_id`, `current_wait_id`, `DispatchTurn.status/closed_reason/predecessor` | read authority, open successor, close, suspend on a wait, accept or rotate a provider start | every other component changes lanes through it |
| Delegation (`runtime/delegation`) | `DelegationWave`, its members, `AttemptWait` | `delegate`, settle member, join, continue, fail | dispatch, checkpoint, post-commit router |
| Checkpoints (`runtime/checkpoint`) | `AcceptedBoundary`, Assignment outcome, Attempt status, retry budget | green, blocked, retry, root completion | delegation, dispatch |
| Task control (`runtime/task_control`) | `Task.status`, `control_revision` | pause, continue, cancel | every lane of the Task at once |
| Watchdog (`runtime/watchdog`) | `Attempt.watchdog_replacement_count`, deadlines | replace a stale Dispatch, pause the Task | dispatch, task control |
| Provider lifecycle (`runtime/providers`, `integrations`) | start revision, leases, live sessions | start, accept, rotate, retire, clean up | dispatch, router |
| Post-commit router (`runtime/post_commit`, `startup_audit.py`) | in-memory queue, deadlines, health | publish, dispatch to handlers, startup audit | all handlers |
| Replan and Team revisions (`runtime/replan`, `runtime/team`) | Team revision heads, `ReplanTransition` | replan a child subtree, write the manifest, continue | dispatch, task control |
| Human requests (`runtime/human_request`) | `HumanRequest` and its wait | open, answer, time out, continue | dispatch, router |
| Command runs (`runtime/command_run`) | `CommandRun`, live processes | start, wait, exit, cancel, continue | dispatch, router |
| Launch (`task_start.py`, `runtime/launch`) | Task rows, workspace binding, `TaskStartSource` | admit and start a Task | dispatch, workspace |
| Workspace, work plan, projection, prompts, observability | files and read models | render, append, read | read the rows above |
| Workflows (`workflows`) | drafts, revisions, catalog | author, validate, publish, seed | launch pins a revision |
| Operator (`operator`) | conversations, turns | prompt, stream, stop, recover | product services |
| Interfaces (`interfaces`), console, CLI, platform | none of their own | HTTP, MCP, CLI, managed services | call the services above |

What is hard here:

* **Every handler is a transaction, and many run at once.**  Node operations of sibling members,
  the router's handlers, the watchdog and the operator commit in any order.  Each re-reads what it
  relies on in the `WHERE` clause of a conditional update.
* **Work is prepared outside a transaction.**  A continuation and a resume read a snapshot, release
  the connection to build the next provider request, and commit later: the world has moved.
* **Hints are disposable.**  A signal may be early, duplicated, handled while the Task is paused,
  or lost when the queue is full, a handler raises, or the process stops; only a restart
  republishes.
* **Control is Task-wide while work is per lane.**  Pause, cancel and every failure that pauses
  must stop all lanes at once and leave each one continuable.

What makes each component correct: a lane is driven by exactly one owner at a time (dispatch); a
Wave is joined once, after all its members, and continued once (delegation); a completed Task has
the whole Team behind it and nothing left running (checkpoints); a paused Task can be continued,
and continuing it opens each lane's one successor (task control); replacements are bounded
(watchdog); a lost hint loses no work past a restart (router and startup audit); a pending
transition is always someone's to continue (replan); an answer, a timeout and a cancellation of one
request have one winner (human requests, command runs).

## Plan

What is modelled, in the order in which it was taken:

1. `DelegationRuntime`: lanes, delegation, checkpoints, task control, provider start acceptance and
   the watchdog, with hints, lost hints and restarts.  Its lane pointers are proved, and with them
   the ownership of lanes, the agreement of Waves and children, and its action properties.
2. `FanOutFanIn`: what delegation promises, abstractly; `DelegationFanOut` shows that
   `DelegationRuntime` implements it.  Proved.
3. `TeamPlanning` and `Replan`: what a replan does to the Team tree, the replan transaction of
   concurrent members, the manifest barrier, its successor, and pause, resume and restart over it.
   All its safety properties are proved.
4. `AttemptLanes`, `HumanRequests`, `CommandRuns`, `ExternalWaits`: the two external waits, the
   process behind a command, and the Task's control over both.  All its safety properties are proved.
5. `ProviderStart`: start revisions, retries and rotation, the provider's turns and their bindings,
   recovery after a restart, and the cleanup of closed Dispatches.  All its safety properties
   are proved.

What is left, in the order of its weight:

6. `PostCommitRouter`: the bounded queue, deadlines, keyset pages of the startup audit, shutdown.
   Abstract specification: every committed source is offered to its handler or the health degrades.
   The modules above abstract all of it to a hint that may be lost and pages read in one step each.
7. `TaskStart`: admission of a Task with its workspace lane and its replayed requests.
8. `WorkflowPublication`: draft revisions and publication under concurrent authors.
9. `OperatorTurns`: turns, stop and recovery of an Operator conversation.

Every safety invariant and every action property of the runs is proved.  What only TLC checks are the
properties with fairness; see *Proofs*.

## Modules

### `DelegationRuntime`

The execution core of one Task.  Variables are the rows the handlers change (`taskStatus`,
`controlRevision` and `resultBoundary` of `TaskModel`; `assignment`, `attempt`, `dispatch`, `wave`
and `boundary` tables; `turns` numbers each member's Dispatches) and the process's memory
(`signals`: the router's hints; `preparing`: continuations read and not yet committed; `resuming`:
resume plans read and not yet committed).

Rows are keyed by Dispatches.  An Attempt is created in the transaction that opens its first
Dispatch and an Assignment in the one that opens its first Attempt, so `<<member, n>>` names all
three; `AttemptWait` has one row per waiting Attempt and is the Attempt's `wait`; a Wave is named by
its source Dispatch, which is unique in the schema.

| Action | Code |
|---|---|
| `Delegate` | `delegate`: `delegation/fan_out.py`, `preparation.py`, `staging.py` |
| `ReturnToParent`, `CompleteTask`, `RetryAttempt` | terminal Checkpoint: `checkpoint/persistence.py`, `transitions.py`, `delegation/settlement.py` |
| `JoinWave`, `SkipJoin` | `WaveMemberSettled` handler: `delegation/settlement.py` |
| `PrepareContinuation`, `OpenContinuation`, `SkipContinuation`, `FailContinuation` | `DelegationWaveSettled` handler: `delegation/continuation.py`, `dispatch/ordinary_continuation.py` |
| `PauseTask`, `CancelTask` | `task_control/control.py`, `cancellation.py`, `control_transitions.py` |
| `PlanResume`, `CommitResume`, `AbandonResume` | `continue_task`: `task_control/continuation.py`, `paused_continuation/` |
| `AcceptProviderStart`, `PauseInvalidStart` | `dispatch/provider_start.py`, `providers/transition_failure.py` |
| `WatchdogReplace`, `WatchdogPause` | `watchdog/recovery.py`, `watchdog/pause.py` |
| `Restart`, `LoseSignal`, `LoseContinuation` | `post_commit/bootstrap.py`, `delegation_wave_startup.py`, `router.py` |

An action is one transaction with the whole handler in it.  The handlers that read, release the
connection and commit later are split at that point, and what they carry over is in `preparing` or
`resuming`.  A Task starts in the state its admission commits: the root's first Dispatch `starting`.

Abstracted: prompts, checkpoints' contents, member configurations, deadlines and clocks (a Dispatch
may be found stale at any time once it is open), and the Team revision (one per Task here; `Replan`
has the others).  Participation is a green boundary of the member, because a single revision has one
configuration per member.  The watchdog's two phases (snapshot, then commit) are one step: the
commit repeats every condition of the snapshot and writes nothing else.

### `FanOutFanIn` and `DelegationFanOut`

`FanOutFanIn` has two variables: the Task's phase and, per Wave, whom it waits for, who returned and
whether it is waiting, joined, resumed or dropped.  `DelegationFanOut` defines the refinement
mapping from rows (a Wave is `joined` when it is settled without a successor and `resumed` once it
has one) and states `ImplementsFanOutFanIn`, the abstract specification as a property.

### `MCDelegation`

The instances: a lead with two children (`MCFlat`, `MCPausedJoin`), a chain of three
(`MCDeep`) and a tree of four (`MCTree`).  No symmetry is used: the members of a tree are
not interchangeable, and the liveness runs must not use it.

### `TeamPlanning`

A Team revision selects for every member its parent, a `MemberConfiguration` and a
`MemberBranchBasis`.  The last two are immutable rows that only ever are compared by identity, so
each is named by the revision that created it.  `AddChild`, `UpdateChild` and `RemoveChild` give
every successor Team a caller may ask for (`replan/planning.py`): a new tree under the caller, any
non-empty set of new configurations and new members below a target, or a target removed with its
subtree; `Refresh` renews what `_refresh_branch_bases` renews.  The code's walks to the root are
`Path`, the least set that holds a member and the parent of everyone it holds: it says what the loop
collects without recursion, so that proofs can use it.  `Branch` is a member's subtree as configured,
which is what a branch basis stands for.  Titles, providers, capabilities and
sibling order are left out; `MaxDepth`, `MaxWidth` and `MaxMembers` are the code's limits.

### `Replan`

Replans of one Task under concurrency.  Variables are `current` and `team` (the Team pointer and
revision rows), `transition` (`ReplanTransition` rows, named by the revision they lead to), the
lanes (`lane`, `pinned`, `awaits`, `waves`, `green`), `manifest` (the revision the file shows) and
the process's memory (`planned`: replan transactions that have read and not written; `signals`;
`procs`: handlers, resumes and startup projections under way).

| Action | Code |
|---|---|
| `PlanReplan`, `CommitReplan` | `add_child`, `update_child`, `remove_child`: `replan/context.py`, `planning.py`, `persistence.py`, `staging.py` |
| `ReceiveReplanCommitted`, `WriteManifest`, `FailManifest`, `MarkManifest` | the barrier: `replan/continuation.py`, `projection/materialization.py` |
| `PrepareSuccessor`, `OpenSuccessor`, `FailSuccessor` | the successor: `replan/continuation.py`, `dispatch/ordinary_continuation.py` |
| `PauseTask`, `CancelTask` | `task_control/control.py` |
| `StartResume`, `PlanResume`, `CommitResume` | `continue_task`: repair, plan and batch commit, `task_control/paused_continuation/` |
| `Restart`, `LoseSignal`, `LoseProc` | `post_commit/dispatch_startup.py`, `startup_audit.py`, `router.py` |
| `Delegate`, `Return`, `Complete`, `Redispatch`, `ContinueWave` | delegated work, reduced to what a replan meets |

`lane` says what a member's open Assignment is doing.  Delegation is reduced: a Wave joins as soon
as its last member has returned, an Attempt that a pause stopped is one `stopped` state, budgets are
left out (`DelegationRuntime` has all of that).  The replan transaction is split between its read and
its conditional writes, because other transactions commit in between; the handler and the resume are
split where the code awaits outside a transaction.  A process keeps the `control_revision` and Team
revision it read, as the prepared request does.  The database gives each transaction one snapshot
(`persistence/session.py:179`), so the content a projection renders is that of the Team it read when
it began.  At most one resume is under way; two would differ from one only in which of them
`control_revision` refuses.  `shown` (all revisions the file has shown) and `green` (the revision each
green return was given under) are history that the properties speak of.  The replay of an accepted
request (`node_operations/replan_replay.py`) writes nothing and is left out.

### `MCReplan`

Two Teams: a root with two leads that each have a child (`MCReplan`,
`MCReplanOverlap`, `MCReplanManifest`: two members that can replan at the same time), and a root
with two children and one spare identity (`MCReplanTeam`).

### `AttemptLanes`, `HumanRequests`, `CommandRuns` and `ExternalWaits`

An Attempt may suspend itself on a *Human Request* (a question with an optional deadline) or on a
*Command Run* (a background process with an optional deadline).  Either way its Dispatch closes, an
`AttemptWait` appears, and when the source ends the lane gets exactly one successor Dispatch.

`AttemptLanes` holds what both share: the Task, the lanes (`lane`: Attempt rows with their wait;
`opened`: what each Dispatch of an Attempt was opened for), hints, the `DeadlineScheduler`'s timers
and the startup audit's progress.  `HumanRequests` and `CommandRuns` add their rows and operations;
`CommandRuns` also has the memory of the `CommandProcessOwner` (`owner`) and the operating system's
process (`process`), which outlives neither a kill nor its controller for long.  `ExternalWaits`
composes them with continuation, control, faults, restart and audit, and states the properties.

| Action | Code |
|---|---|
| `OpenHumanRequest`, `RegisterHumanDeadline` | `node_operations/external_wait_handlers.py`, `human_request/deadline.py` |
| `AnswerHumanRequest`, `ExpireHumanRequest` | `human_request/service.py`, `human_request/deadline.py` |
| `StartCommandRun`, `RequestRunCancellation` | `node_operations/external_wait_handlers.py`, `command_run/service.py` |
| `ClaimLaunch`, `TakeOwnership`, `PrepareLaunch`, `SpawnProcess`, `RecordStart` and their failures | `command_run/process_owner.py`, `process_resources.py`, `transitions.py` |
| `RecoverUnowned`, `EnforceCommandDeadline`, `TerminateCancelled` | `command_run/process_owner.py`, `ownership_recovery.py` |
| `ReportExit`, `ReadExit`, `RecordExit`, `FailRecordExit` | the supervision of `process_owner.py` and the guardians; the recording is split between its read and its write |
| `OpenSuccessor`, `FailSuccessor`, `SkipSuccessor` | `human_request/continuation.py`, `command_run/continuation.py` |
| `PauseTask`, `ResumeTask`, `CancelTask` | `task_control/` over lanes that wait or have been paused |
| `LoseHint`, `FireTimer`, `Restart`, `AuditPage` | `post_commit/router.py`, `deadlines.py`, `external_wait_startup.py`, `startup_audit.py` page by page |

The exact file and lines of each definition are in `PROJECT.json`.

The owner's coroutine is split at every await after which another transaction can have committed: the
claim commits before the entry is in `_owned`, a cancellation may land between any two of its steps,
and an exit is classified by a state read before the write.  Abstracted: the validation and the
content of answers, output capture and paths, event rows, and the clock (a deadline elapses when its
timer fires).  A kill is assumed to succeed in the end, and the guardian to kill what a dead
controller left.

### `ProviderStart`

The start of one Dispatch's provider turn and everything that races it: the `DispatchStarter`'s
handler step by step (`handler`), the adapter's turn (`turn`), the node MCP bindings that let a turn
call back (`bindings`), hints and retry timers, the marks the startup audit leaves (`recovered`), and
the cleanup handler (`cleaning`).  Rows are only what the starter looks at; a lane is reduced to its
newest Dispatch (`last`), because `DelegationRuntime` has the rest.

| Action | Code |
|---|---|
| `ReceiveStart`, `DeferStart`, `PrepareStart`, `StopPredecessor`, `RecheckStart` | `providers/starter.py` and `request_preparation.py`, from the due signal to the call of the adapter |
| `RecoverStart` | `_handle_recovered_due`: a start found by the audit is never made again |
| `ReserveStart`, `BeginTurn`, `RegisterTurn`, `FailStart`, `EndTurn` | the adapters under `integrations/` |
| `AcceptStart`, `StopLost`, `FailAccept`, `ReconcileStart` | `_record_acceptance`, `dispatch/provider_start.py` |
| `RotateStart`, `FailRotate`, `ScheduleRetry`, `FireTimer` | `_record_provider_failure`, rotation, `post_commit/deadlines.py` |
| `InvalidStart`, `FailHandler` | `providers/transition_failure.py`: the pause of a start that can never succeed; an exception in the handler |
| `RevokeClosed`, `StopClosed` | `dispatch/cleanup.py`, `providers/cleanup.py`: the binding's and the provider's cleanup of a closed Dispatch |
| `NodeCloses`, `WatchdogReplace`, `PauseTask`, `CancelTask`, `ResumeTask` | what closes and opens Dispatches meanwhile: node operations, `watchdog/recovery.py`, `task_control/` |
| `LoseHint`, `Restart` | a lost hint; the lifespan of `main.py` and the audit of the next one, `post_commit/dispatch_startup.py` |

A turn works from the moment the provider has its input (`begun`), which is before the adapter has
registered it and before the controller has accepted it, so a turn can call back, and even close its
Dispatch, while its start is still in flight.  Abstracted: provider requests, routes, inventories, the
model's work, and the backoff (a timer may fire at any time).  The reasons `structural_replan` and
`task_terminal` close like the operator's stops and have no action of their own.  The bindings of a
Dispatch that its own boundary, delegation or wait closed stay until a restart; the authority check
of a call (`MayCall`) makes them useless, which is why `ClosedDispatchIsRevoked` speaks of the
other reasons.

### `MCExternalWaits` and `MCProviderStart`

One Attempt with one request and one command, and one Attempt with two Dispatches.  The constants are
model values given in the configurations.

Definitions whose comment begins with "Mutant" are broken variants of the definition that follows
them: putting one in its place makes TLC report the property that guards against that mistake, which
`PROJECT.json` records per run.

## Runs

| Run | Team and bounds | What it asks |
|---|---|---|
| `MCFlat` | 2 children, 2 child Assignments, 1 watchdog replacement, 3 control changes, 1 fault | one owner per lane, one successor per source, startup audit, immutable history, watchdog budget |
| `MCDeep` | chain of 3, 1 child Assignment, 1 retry, 3 control changes, 1 fault | the same lanes nested two levels deep with retries: Wave rows against child rows, budgets, quiet end, refinement |
| `MCTree` | tree of 4, 2 child Assignments, 2 control changes, fair handlers | two levels at once: participation composes to the whole Team, a returned Wave is joined and a joined one continued, whatever pause and resume interleave |
| `MCPausedJoin` | 2 children, 2 control changes, fair handlers | shows that a pause can lose a settled result (a finding, below) |
| `MCReplan` | two leads, 2 replans, 1 Wave, 2 control changes, 1 fault, fair router | no mutation lost, the barrier's rows, one transition per replanned lane, no successor before its manifest, startup audit, the latest replan gets its successor |
| `MCReplanTeam` | 2 children and 1 spare, 2 replans, 4 Waves | authority, participation and completion follow exactly the branches that changed |
| `MCReplanOverlap` | two leads, 2 replans, 1 Wave, fair router | shows that an overlapped replan never gets one (a finding, below) |
| `MCReplanManifest` | two leads, 2 replans, 1 Wave | shows a stale manifest behind a current transition (a finding, below) |
| `MCWaits` | 1 Attempt, 1 request and 1 command with deadlines, 3 control changes, 1 fault, 1 restart | source, wait, process and successor agree in every order of commits, recorded ends are true and final, a restart finds everything, waits end |
| `MCCancelledRun` | 1 command, 1 control change | shows a cancelled run that never ends (a finding, below) |
| `MCStarts` | 1 Attempt, 2 Dispatches, 3 control changes, 2 faults, 1 restart | a start is never forgotten, a turn is accepted or stopped, a replaced turn stops first, no generation has two turns, starts settle |
| `MCCancelledTurn` | 1 Attempt, 2 Dispatches, 2 control changes | shows a turn that outlives its cancelled Task (a finding, below) |

Deadlock checking is off: a finished Task stops, and so does one whose members do nothing more.

Why the bounds are enough.  Three control changes allow pause, resume and a second pause or a
cancel, so a continuation or a resume prepared before the first can be committed after any of the
others.  One fault is one lost hint or one restart; a restart also forgets every prepared
continuation.  Two children make a Wave with a first and a last return and two hints for one join;
a child budget of two also allows two successive Waves of one, in which a member is assigned twice.
A chain of three makes a lane both a child and a waiting parent.  Two replans by two leads overlap
in every order of reads, commits, projections and openings; two replans in sequence by one member,
or by a member and its parent, undo, repeat or refine a change, and four Waves let every member
return before, between and after them.  In `MCWaits` one lane uses its request and its command in
both orders, so each is both the first and the second wait of a lane; three control changes are a
pause, a resume and a cancel around any of its steps, and a restart has every row state and process
state to recover, with a second life in which a fault may strike.  Lanes meet only in the Task's
control, and the safety part was also checked with two Attempts, one of which waits for each source.
In `MCStarts` two Dispatches are a Dispatch and what replaces it (by the watchdog or by a resume); two
faults are a failed start and a failure while recovering from it, or two retries in a row.  The
invariants of its proof were also checked with two Attempts and three Dispatches.

## Fairness

`FairSpec` adds weak fairness of `WaveHandler` alone: the router (`post_commit/router.py`) takes
every queued signal and runs its handler to the end.  Members, providers, operators and the watchdog
owe nothing, so liveness is about what the controller owes once the members have returned.
`FairSpec` of `Replan` does the same with `ReplanHandler`.  A lost hint is by design repaired only by
a restart: the liveness properties of `DelegationRuntime` are checked without faults, those of
`Replan` excuse a failure, and `StartupFindsEveryLane` and `StartupFindsEveryReplan` say that a
restart does find what was lost.

`FairSpec` of `ExternalWaits` and of `ProviderStart` is weak fairness of what the event loop runs by
itself, each source or Dispatch on its own: queued handlers, the coroutines of the process owner and of
the starter, registered timers, the cleanup, and the pages of the startup audit.  The starter's part
includes that the provider answers a start one way or the other: the code sets no timeout on a start
(only on a stop and on a steer), so this is assumed of the provider's SDK.  Nothing makes a person
answer, a command exit, a turn end, or an operator act.  The liveness properties hold with faults:
they excuse only a controller that itself lost a hint, a write or a stop (`lossy`), and a restart
clears that excuse, so what is promised then includes that the audit recovers what the last
controller lost.

## Findings

*A pause can lose a settled result* (`MCPausedJoin`, `PauseOnlyDelaysJoin`).  The last child returns
and publishes `WaveMemberSettled`; the operator pauses; the handler finds the Task paused, changes
nothing and consumes the hint (`runtime/delegation/settlement.py:188`); the operator continues.  The
resume keeps the parent waiting because its Wave is still `open`
(`task_control/paused_continuation/sources.py:482`) and republishes nothing for it, so no hint for the
Wave exists any more: the parent waits until the process restarts and the startup audit finds the
Wave.  `docs-internal/architecture/runtime.md:368` says "Pause may delay this transaction without
losing the settled result".

*An overlapped replan is stranded* (`MCReplanOverlap`, `ReplanIsContinued`).  Two members of disjoint
branches work at the same time and both replan.  The second commits before the first one's successor
has opened, and the Task's Team moves on.  From then on the first transition cannot be shown
(`projection/materialization.py:31` compares the Team), claimed (`replan/continuation.py:171`) or
resumed (`task_control/paused_continuation/sources.py:354`), because each asks for the transition that
leads to the current Team.  The member's Dispatch is closed, its Attempt still runs, and its parent
waits for it: hints and restarts are skipped, a pause cannot be continued ("paused Attempt has no
exact continuation source"), and only a cancel ends the Task.  `docs-internal/architecture/runtime.md:475`
says "After `manifest.md` is confirmed current, a separate idempotent transition opens exactly one
successor Dispatch on the same Assignment and Attempt".  `LatestReplanIsContinued` holds: the
transition to the current Team is continued.

*A late projection leaves a stale manifest* (`MCReplanManifest`, `CurrentManifestIsShown`).  The
projection of a Team reads and renders it, awaits the Task's paths and replaces `manifest.md`
(`projection/materialization.py:37`) without looking at the Team again.  If a second replan commits and
is projected and marked meanwhile, the older content lands on top of the newer, whose transition is
already `current` and opens its successor.  `docs-internal/architecture/workspace-files-and-prompt.md:89`
says the barrier is there "so no agent begins with a known-stale organization reference".  What does
hold, and is proved, is `SuccessorWaitsForManifest`: the file has shown the successor's Team.

*A cancelled run may never end* (`MCCancelledRun`, `CancelledRunEnds`).  A Command Run is claimed and
its launch under way.  A cancellation commits; before its hint is handled, the launch raises.  The
failure path ends the run only from `pending_start`, or as a cancellation if the termination cause is
already set (`command_run/process_owner.py:450`); neither holds.  The entry stays in `_owned` without a
process, the hint finds it owned and has no process to terminate, and nothing else ever looks at the
run until a restart.  `docs/concepts/runtime-and-results.md:80` says a Command Run "waits for its
terminal state".  `CancelledProcessStops` holds: no process is left running.

*A replaced turn may outlive its Task* (`MCCancelledTurn`, `CancelStopsEveryTurn`).  The watchdog
replaces a Dispatch whose turn still runs.  The turn is stopped by the first start of the replacement
(`providers/starter.py:310`) and not by the cleanup, whose reasons leave `watchdog_superseded` out
(`providers/cleanup.py:18`).  If the operator cancels or pauses in between, that start finds its
Dispatch closed and ends, and the old turn keeps running, without any binding, for a Task that is
cancelled.  `docs/guides/run-and-operate.md:77` says "Cancel closes live work and external waits".
`TurnsAreAccounted` holds: it speaks of the turns of Dispatches that the operator closed.

A turn may also begin just after a pause has committed, because the recheck before the call and the
acceptance after it are separate transactions; it is stopped when its acceptance is lost
(`StopLost`), so this is a bounded delay and not a divergence.

## Proofs

`DelegationRuntime_proofs` proves, for every Team, every budget and every bound:

* `Inductive`: `IInv` is an invariant of `Spec`;
* `TypeCorrect`, `LiveDispatchCurrent`, `OneOpenAssignment`: the type invariant and two safety
  invariants of the runs, as consequences.

The assumptions are the named ones of `DelegationRuntime`: the Team is finite, has a root and gives
everyone else a parent (`TeamAssumption`), budgets are natural numbers or unlimited, and `None` is not a
Dispatch.  That the parents form one tree (`TreeAssumption`) is needed by `GreenTasksCoverTheTeam` alone.

`LiveDispatchIsCurrent` (a live Dispatch is its running Attempt's pointer in a running Task, and a
pointer names a live Dispatch of its lane) is not inductive.  It needs `RowsAreNumbered`, so that a
new Dispatch is new and overwrites no row; `LaneKeepsMember`, so that a lane belongs to one member;
`RunningIsCurrent`, so that a running Attempt is the current one of its open Assignment and a waiting
one has no Dispatch; `OneOpenAssignmentPerMember`, so that lanes of one member coincide; and
`PlanHasOneSourcePerMember`, so that a resume opens one new Dispatch per lane.  `IInv` is their
conjunction with `TypeOK`.  There is one lemma per action or
group of actions that change rows alike (`EndsLane` for the two terminal Checkpoints,
`OpensSuccessor` for the two ways to open a successor in the same Attempt, `PauseLanes` for the four
ways to pause), and `NextIInv` combines them.

`DelegationWaves_proofs` adds to `IInv` a second invariant, `WInv`, and proves for every Team, budget and
bound:

* `WavesInductive`: `IInv /\ WInv` is an invariant of `Spec`;
* `OneSuccessor`, `WavesMatch`, `FinishedQuiet`, `LaneOwned`, `StartupFinds`: the safety invariants of the
  runs about Waves, lanes and the end of a Task, as consequences;
* `HistoryImmutable` and `StoppedOpensNothing`: the two action properties;
* `Implements`: every step of the runtime is a step of `FanOutFanIn` under the mapping of
  `DelegationFanOut`, or leaves the abstract Waves alone.

`LaneHasOneOwner` counts the owners of a lane and is not inductive.  `LanesAreOwned` states it by rows (an
idle lane has exactly one source, any other has none), and each other conjunct of `WInv` is there for a
step that would break it.  `MembersHaveSource` and `WaveMatchesChildren` let a child's Checkpoint find its
Wave; `WavesAreDelegations` keeps a Wave's row in step with the wait it holds, so that a join gives its
lane one source and takes one wait; `OneSuccessorPerSource` and `ClosedBehind` let a successor consume its
source for good; `OpenIsServed` gives a new child and a returning one a running Attempt; `PlansAreExact`
says that a resume plan of the present control revision still lists every source, so the transaction
that commits it strands no lane although it was read earlier; and `RunningHasNoTail` follows from it,
so that in a running Task only joined Waves are left for the router to continue.  Actions that change
rows alike share one description of their effect (`PauseEffect`, `CancelEffect`, `Opens` for the
watchdog's replacement, the continuation and the resume, `EndRows` for the two terminal Checkpoints,
`NewLanes` for retry and delegation), and the invariant, the history and the refinement are each
proved from those effects.

`DelegationBudgets_proofs` proves the two budgets by counting, the participation of a whole team, and what
the progress of a Wave rests on, from `IInv /\ WInv`:

* `BudgetsAccount`: `BudgetsExact` says that the sets of Assignments and Attempts are finite and that what an
  Assignment has left plus the cardinality of what it paid for is what it was given.  Only `Delegate` and
  `RetryAttempt` change either side; every other action is shown to spend nothing (`SpendsNothing`), and
  a child is paid for by the Assignment of its source, which `WInv` keeps in place.
* `WatchdogInBudget`: the counter of an Attempt is reset by a resume, so the invariant bounds its replaced
  Dispatches by the limit times the resumes so far plus the counter.  `RevisionFollowsStatus` ties the
  resumes to the control revision: pause and resume alternate, so it is even while the Task runs.
* `GreenTasksCoverTheTeam`: `GreenTaskCoversTeam` speaks of one boundary and needs what was known when
  each earlier one was accepted.  `GreenIsCovered` says that every accepted green has greens of the
  member's direct children behind it, and that a completed Task names a boundary of the root; it is kept
  because a boundary is accepted once and never rewritten.  The participants of a green Task then hold
  the root and the children of all they hold, and `TreeAssumption` says that such a set is the whole
  team.  The descent through the levels is in that closure, so no induction is needed.
* `ServableAlways`, `HintsKeptAlways` and `HintsStayComplete`: the safety half of `ReturnedWaveContinues`
  and `SettledWaveContinues`.  In a running Task the guards of the join and of the continuation accept
  every Wave that is still owed its turn (`WavesAreServable`); no step but a lost hint, or a hint spent
  while the Task is paused, takes from a Wave the hint or the prepared continuation it waits for, and a
  restart puts all of them back (`HintsAreKept`); so before the first fault no Wave of a running Task is
  forgotten (`HintsComplete`, whose half about the join stops at the first control change, where a
  pause may have spent the hint: `PauseOnlyDelaysJoin` is that divergence).

`Replan_proofs` proves, for every Team and spare identities, every mutation and every bound:

* `InductiveInvariant`: its `IInv` is an invariant of `Spec`;
* `RevisionsStayInLine`, `BarrierRowsStayValid`, `OneTransitionPerReplannedLane`: the three safety
  invariants of `MCReplan`, as consequences;
* `NoSuccessorBeforeItsManifest`: the action property `SuccessorWaitsForManifest`, from the invariant
  and the two actions that open a replanned lane;
* `StartupFindsReplans`: the action property `StartupFindsEveryReplan`, from `LanesMatch` and two
  invariants of its own, `StartupOnlyWrites` and `FinishedHasNoLane`;
* `TypeCorrect`: `TypeOK`, from `RestTyped`, which adds that a mutation of a typed Team is typed
  (`MutationRows`) and that what a process read is a revision of the present line (`ReadsPresent`);
* `LatestReplanPursued` and `PursuitKept`: the safety half of `LatestReplanIsContinued`.  While the Task
  runs and nothing has failed, the transition to the current Team that still owes its lane a successor
  has its hint waiting, or a handler (`Pursues`) that is writing or marking, or whose next guard holds on
  what it read.  `HandlerPursues` follows the handler from step to step, `OperatorPursues` shows that a
  resume opens the successor of any hint a pause took away, and `LatestIsLast` that an older transition
  never owes that lane anything.  This is why the property is about the latest replan: a replan of
  another member makes the reads of an earlier handler stale, which `ReplanIsContinued` runs into.

None of the earlier ones is inductive.  `Typed` counts revisions and transitions together, and keeps members
known (`MutationMembers` says that a mutation adds only fresh identities); `Line` is the order of
revisions; `ProcsAreSound` says that a process that is about to mark a transition has written the
Team it leads to, which with `CurrentWasShown` ties the rows to the file; `LanesMatch` states the
correspondence of lanes and transitions as three implications instead of a cardinality.  Actions that
change the invariant's variables alike share a lemma: `WorkIInv` (delegated work), `ProcIInv` (only
processes and hints), `BarrierIInv` (only manifest states), `ClaimIInv` (one transition is opened, by
the handler or by the resume) and `SwitchIInv` (control that claims nothing).

`TeamPlanning_proofs` proves, for every Team that is a tree under the root, every caller, target and set of
new members, what a mutation does to branches, of which the runs only see small trees:

* `ReplanRenewsChangedBranches`: the successor of a Team is a tree under the root again; whoever stays keeps
  the parent; the selection of a member is renewed exactly if its branch changed; and a replan removes
  only members below its caller and renews only members above or below it.

The lemmas before it are the theory of `Path`: it is the least upward closed set (`PathIsLeast`), so paths
nest, two members of one path are comparable (`PathIsLinear`), there is no cycle (`PathHasNoCycle`), and
two Teams that agree on the members of a path have the same path (`PathAgrees`).  Each follows by
exhibiting a closed set, where an inductive definition would need an induction over the tree.
`RefreshPaths`, `GrowPaths`, `GrowReplan` and `RemoveReplan` say what the two walks of the code do to
paths and branches: `_refresh_branch_bases` climbs from the seeds, so it renews exactly those whose
subtree holds a seed.

`ReplanTeam_proofs` uses it to prove the three invariants of `MCReplanTeam` for every Team, spare
identities and bound, from `IInv` and a second invariant:

* `BranchInvariant`: `BranchInv` is an invariant of `Spec`;
* `LiveBranchesAreCurrent`, `ParticipationStaysExact`, `CompletedTeamsReturnedGreen`, as consequences.

None of the three is inductive.  `TeamsAreTrees` carries the tree from revision to revision and says that
selections are named by revisions up to the present one, so that a renewed selection is new.
`BasisIsExact` compares any two revisions, and not only neighbours: a selection is the same in both exactly
if no revision between them changed the branch; a branch that changed and was changed back has a new
basis.  `LanesNest` puts the caller of a replan below waiting lanes only, so a live lane beside it is
neither above nor below it (`ReplanIsAlone`) and keeps its branch; `LiveIsCurrent` is that fact over
time, and `PinnedExist` keeps what it compares in the table.  `GreenRows` and `GreenIsBacked` say that a
green names a revision and a member of it, and has greens of everyone below, for the branches they had
there; the greens of children count for their parent by the exact comparison of bases, which is how
each level's check reaches the leaves.  `EndedUnderCurrent` ties a completed Task to the present Team.
TLC checked all of these together on the instance of `MCReplanTeam` before they were proved.  The
assumption beyond those of `Replan_proofs` is `TreeAssumption`, that the authored members are one tree.

`ExternalWaits_proofs` proves, for any number of Attempts, requests, commands, control changes, faults
and restarts, every safety property of `MCWaits`: `TypeCorrect`, `WaitsExact`, `StartupFinds`,
`ProcessesOwned`, `EndingTruthful` and the action property `EndsAreFinal`.  It assumes
`SourcesAssumption` (requests and commands are distinct, and no source is NULL or one of the two
origins of a Dispatch that is not a source) and `BoundsAssumption`.  It also proves `SourcesAttended`,
the safety half of `WaitsEnd` and `CancelledProcessStops`: while nothing was lost (`lossy`), an ended
source whose Attempt still waits has its hint or a page of the audit to come, an open deadline has its
timer, and every run is driven, timed and, when its cancellation was asked for, being stopped.  There
are three inductive invariants:

* `WaitsInv` is about rows.  `WaitsAreExact` is not inductive: it needs `LanesFollowTask` (a lane is
  cancelled exactly with its Task, and has no current Dispatch while it is paused), `WaitOrDispatch`
  (never both), `FreshIsUnused` and `SuccessorIsOfEnded` (an unused source has no trace, and only an
  ended one has a successor), and `CancelledIsStopping` (in a cancelled Task only a command whose
  process is still being stopped has not ended).  Every action is shown to be one of six kinds of
  step (`WaitStep`: it changes nothing of these, opens a source, ends one, continues ended ones,
  pauses, or cancels), and the invariant is proved once per kind instead of once per action.
* `ProcessInv` is about one run at a time: `HintsAreTrue` (a hint that names an ownership revision
  names one that was claimed), `TimersAreTrue` (only a timed source has a timer or a due hint) and
  `LaunchIsTrue` (which process states, causes and rows go with each phase of the owner's
  coroutine).  `ProcessesAreOwned` and `EndingIsTruthful` follow from it.
* `AttendedInv` is about what is under way for one source: `RunFacts` and `RequestFacts` say what the
  launch, the exit and the hints imply of a row (a running command is past its launch, the exit
  handler's read is not stale, a terminal hint is about a source that ended), and without losses
  `RunIsDriven`, `RunIsTimed`, `RunIsStopped`, `RequestIsTimed` and the announcement of the end carry
  each obligation from one holder to the next: hint, timer, owner's phase, audit page.  A step about one
  source is shown to leave the obligations of the others alone, so each action is proved for its own
  source only.

`ProviderStart_proofs` proves, for any number of Attempts, Dispatches, failures and restarts, every
safety property of `MCStarts`: `TypeCorrect`, `StartsDriven`, the action property `TurnsAreNew`,
`TurnsAccounted` and `PredecessorStops`.  It assumes `NoneAssumption`, `BoundsAssumption` and
`DispatchesAssumption` (every Attempt can have a first Dispatch of its own).  There are two inductive
invariants:

* `StartInv` adds `Sound(d)` to the types: what the row, the handler, the turn and the signals of one
  Dispatch agree on.  `HandlerMatchesRow` says that a handler is about its row's revision, or about the
  one before it that it rotated; `SignalsAreOnce` that no revision is signalled ahead of the row, twice, or
  again once a handler has it; `TurnIsOfStart` that a turn is never ahead of its start, and behind it
  until that start has called the provider; `Driven` and `StoppedHasNoLive` carry the rest.  A step is
  shown to be, for each Dispatch, of a kind (`Frame`, `Closes`, `KeepsDead`, `Opens`, `Advances`,
  `Finishes`, `Drops`), and each kind is proved sound once.  `StartIsDriven` follows directly, and
  `OneTurnPerGeneration` because only `BeginTurn` begins a turn (`TurnsOnlyEnd`).
* `TurnInv` adds `Held(d)`: what keeps a turn (`TurnIsKept`: its start in flight, its open Dispatch, a
  cleanup to come, or a close of its own node) and each binding (`BindingIsKept`), that the binding is
  issued before the call (`IssuedFirst`), and that a row the Watchdog closed has no start left on its
  way to the provider (`ReasonIsOfClose`).  `TurnsAreAccounted` follows.  `PredecessorIsStopped` relates
  two Dispatches: it is kept because a closed row stays as it is (`ClosedStays`), because only two steps
  take a replacement past the stop of what it replaces (`HandlerSteps`), and because that stop either
  ends the turn or is a failure of this controller.

Only model-checked: what needs fairness, `ReturnedWaveContinues`, `SettledWaveContinues`,
`LatestReplanIsContinued`, `WaitsEnd`, `CancelledProcessStops` and `StartsSettle`.  The safety half of
each is proved above (`StartsDriven` is that of the last): as long as nothing was lost, what is owed has a
hint, a timer, a handler or an owner that will see to it, whatever the interleaving.  That this one is
then run, and that the chain of its steps ends, needs fairness and `ENABLED`, which are out of the
prover's reach.

## Not modelled

`PROJECT.json` lists every component with its status.  Left out, and why:

* The router's bounded queue, its cursors and its health are reduced to a hint that may be lost and to
  the order in which pages are read; they are planned above.
* Admission of a Task, Workflow authoring and publication, and Operator conversations share no rows with
  the runtime of an admitted Task; they are planned above.
* Member steering (`product/member_steering.py`) changes no lane: it delivers a message to a turn and
  records an event.
* Non-terminal Checkpoints, the work plan, workspace files, prompts, projections other than the
  manifest, and observability write files and read models of the rows that are modelled.
* The availability checks and the retirement of providers decide only whether a start is valid
  (`InvalidStart`, `FailStart`).
* Output capture of commands and the answers of requests are data that no transition depends on.
* Interfaces, the console, persistence, platform services and scripts keep no protocol of their own.
* One Task is modelled at a time.  No module combines the sources of all four families (Waves,
  replans, requests, commands) in one lane: each of `DelegationRuntime`, `Replan` and `ExternalWaits`
  models the Task's control over its own.
