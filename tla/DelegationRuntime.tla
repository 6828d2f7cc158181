-------------------------- MODULE DelegationRuntime --------------------------
(***************************************************************************)
(* The execution core of one Task: Assignments, Attempts, Dispatches and   *)
(* Delegation Waves, the controller handlers that join and continue a      *)
(* Wave, and the operator's pause, continue and cancel.                    *)
(*                                                                         *)
(* Every handler of the runtime ends in one database transaction made of   *)
(* conditional updates, so an action is one transaction.  A continuation   *)
(* and a resume release their read transaction before they prepare the     *)
(* successor's request and commit later: those two are split in a read and *)
(* a commit, and what the read captured travels in "preparing" and         *)
(* "resuming".  Signals are disposable hints: consumed once, lost when the *)
(* queue is full, when a handler raises and when the process stops.        *)
(*                                                                         *)
(* Rows are keyed by the Dispatch that created them.  An Attempt is        *)
(* created in the transaction that opens its first Dispatch and an         *)
(* Assignment in the one that opens its first Attempt, so one <<member, n>>*)
(* names all three; a Delegation Wave is named by its source Dispatch.     *)
(***************************************************************************)
EXTENDS Integers, FiniteSets

CONSTANTS
    Members,        \* the members of the Task's one Team revision
    Root,           \* the member that leads the Task
    Parent,         \* the parent of every member but the root
    ChildBudget,    \* Task.max_child_assignments_per_assignment, or NoLimit
    RetryBudget,    \* Task.max_retries_per_assignment, or NoLimit
    MaxWaveMembers, \* Task.max_wave_members, at most 8
    ReplacementLimit, \* watchdog_same_attempt_replacement_limit
    MaxControl,     \* bound on control_revision: how often control changes
    MaxFaults,      \* bound on lost signals and restarts
    None            \* SQL NULL in a pointer column

NoLimit == -1

ASSUME TeamAssumption ==
    /\ IsFiniteSet(Members)
    /\ Root \in Members
    /\ Parent \in [Members \ {Root} -> Members]

\* A Workflow nests its members, so every member is below the root: a set that
\* holds the root and the children of all it holds is the whole team.
ASSUME TreeAssumption ==
    \A S \in SUBSET Members :
        Root \in S /\ (\A m \in Members \ {Root} : Parent[m] \in S => m \in S) => S = Members

ASSUME BudgetAssumption ==
    /\ ChildBudget \in Nat \cup {NoLimit}
    /\ RetryBudget \in Nat \cup {NoLimit}
    /\ MaxWaveMembers \in Nat
    /\ ReplacementLimit \in Nat
    /\ MaxControl \in Nat
    /\ MaxFaults \in Nat

DispatchId == Members \X (Nat \ {0})

ASSUME NoneAssumption == None \notin DispatchId

VARIABLES
    taskStatus,      \* Task.status
    controlRevision, \* Task.control_revision
    resultBoundary,  \* Task.result_boundary_id, by its source Dispatch
    assignment,      \* Assignment rows
    attempt,         \* Attempt rows; wait is the Wave of the AttemptWait row
    dispatch,        \* DispatchTurn rows
    wave,            \* DelegationWave rows with their members
    boundary,        \* AcceptedBoundary outcomes, by source Dispatch
    turns,           \* how many Dispatches each member was given
    signals,         \* post-commit hints not yet handled
    preparing,       \* Wave continuations read and not yet committed
    resuming,        \* resume plans read and not yet committed
    faults           \* lost signals and restarts so far

taskRow == <<taskStatus, controlRevision, resultBoundary>>
laneRows == <<assignment, attempt, dispatch, wave, boundary, turns>>
volatile == <<signals, preparing, resuming>>
vars == <<taskRow, laneRows, volatile, faults>>

-----------------------------------------------------------------------------
(* Rows                                                                     *)

TaskStatus == {"running", "paused", "completed", "cancelled"}
CloseReason ==
    {"delegation", "boundary", "watchdog_superseded", "paused", "control_failed", "cancelled"}

Budget == Nat \cup {NoLimit}

AssignmentRow ==
    [outcome : {"open", "green", "blocked"},
     attempt : DispatchId,
     source  : DispatchId \cup {None},  \* created_by_dispatch_id; None: root
     kids    : Budget,                  \* child_assignments_remaining
     retries : Budget]                  \* retries_remaining

AttemptRow ==
    [assignment : DispatchId,
     status     : {"running", "completed", "cancelled"},
     dispatch   : DispatchId \cup {None},
     wait       : DispatchId \cup {None},
     replaced   : Nat]                  \* watchdog_replacement_count

DispatchRow ==
    [attempt : DispatchId,
     status  : {"starting", "open", "closed"},
     reason  : CloseReason \cup {"none"},
     pred    : DispatchId \cup {None}]

\* A Wave row carries its member rows, keyed by the child Assignment.
WaveRowOf(children) ==
    [status : {"open", "settled", "cancelled"},
     member : [children -> {"pending", "settled", "cancelled"}],
     succ   : DispatchId \cup {None}]

Signal == [kind : {"WaveMemberSettled", "DelegationWaveSettled"}, wave : DispatchId]

\* The table with rows added, or replaced where the key already exists.
Upsert(table, rows) ==
    [k \in DOMAIN table \cup DOMAIN rows |->
        IF k \in DOMAIN rows THEN rows[k] ELSE table[k]]

NewAssignment(i, source) ==
    [outcome |-> "open", attempt |-> i, source |-> source,
     kids |-> ChildBudget, retries |-> RetryBudget]

NewAttempt(asg, d) ==
    [assignment |-> asg, status |-> "running", dispatch |-> d, wait |-> None,
     replaced |-> 0]

NewDispatch(a, pred) ==
    [attempt |-> a, status |-> "starting", reason |-> "none", pred |-> pred]

NextDispatch(m) == <<m, turns[m] + 1>>

Covers(budget, n) == budget = NoLimit \/ budget >= n

\* Mutant of Spend: the last unit of a budget is not charged.
SpendUnlessLast(budget, n) == IF budget = NoLimit \/ budget = n THEN budget ELSE budget - n

Spend(budget, n) == IF budget = NoLimit THEN NoLimit ELSE budget - n

-----------------------------------------------------------------------------
(* Reads the handlers share                                                 *)

Children(m) == {c \in Members \ {Root} : Parent[c] = m}

RunningAttempts == {a \in DOMAIN attempt : attempt[a].status = "running"}

LaneIdle(a) ==
    /\ attempt[a].status = "running"
    /\ attempt[a].dispatch = None
    /\ attempt[a].wait = None

Live(d) == dispatch[d].status \in {"starting", "open"}

\* The Dispatch owns its Attempt's lane and may run node operations, which the
\* provider's session does before its start is accepted, too.
NodeAuthority(d) ==
    LET a == dispatch[d].attempt
        asg == attempt[a].assignment
    IN  /\ taskStatus = "running"
        /\ Live(d)
        /\ attempt[a].status = "running"
        /\ attempt[a].dispatch = d
        /\ attempt[a].wait = None
        /\ assignment[asg].outcome = "open"
        /\ assignment[asg].attempt = a

Available(c) ==
    \A asg \in DOMAIN assignment : asg[1] = c => assignment[asg].outcome # "open"

Participated(m) == \E d \in DOMAIN boundary : d[1] = m /\ boundary[d] = "green"

Unconsumed(w) == wave[w].status = "settled" /\ wave[w].succ = None

AllReturned(w) ==
    \A c \in DOMAIN wave[w].member : wave[w].member[c] = "settled"

Close(d, reason) ==
    [dispatch EXCEPT ![d].status = "closed", ![d].reason = reason]

CurrentDispatch(d) ==
    LET a == dispatch[d].attempt
    IN  attempt[a].status = "running" /\ attempt[a].dispatch = d /\ attempt[a].wait = None

\* Every current Dispatch of the Task, in a Task-wide control transaction.
CurrentDispatches ==
    {d \in DOMAIN dispatch : Live(d) /\ CurrentDispatch(d)}

\* The control transaction refuses to leave a running Attempt's pointer set.
ControlSettlesEveryLane ==
    \A a \in RunningAttempts : attempt[a].dispatch \in CurrentDispatches \cup {None}

\* Mutant of CloseCurrent: a Dispatch whose start is not accepted stays.
CloseOpenOnly(reason, failed) ==
    [d \in DOMAIN dispatch |->
        IF d \in CurrentDispatches /\ dispatch[d].status = "open"
        THEN [dispatch[d] EXCEPT !.status = "closed", !.reason = reason]
        ELSE dispatch[d]]

\* A failed Dispatch is told from the siblings that stop with it.
CloseCurrent(reason, failed) ==
    [d \in DOMAIN dispatch |->
        IF d \in CurrentDispatches
        THEN [dispatch[d] EXCEPT !.status = "closed",
                                 !.reason = IF d \in failed THEN "control_failed" ELSE reason]
        ELSE dispatch[d]]

ClearCurrent ==
    [a \in DOMAIN attempt |->
        IF attempt[a].status = "running" /\ attempt[a].dispatch \in CurrentDispatches
        THEN [attempt[a] EXCEPT !.dispatch = None]
        ELSE attempt[a]]

-----------------------------------------------------------------------------
(* Node operations: one transaction under one Dispatch's authority          *)

\* delegate: fan out to a set of direct children and wait for all of them.
Delegate(d, S) ==
    LET a == dispatch[d].attempt
        asg == attempt[a].assignment
        ids == {NextDispatch(c) : c \in S}
    IN  /\ NodeAuthority(d)
        /\ d \notin DOMAIN wave
        /\ Cardinality(S) <= MaxWaveMembers
        /\ \A c \in S : Available(c)
        /\ Covers(assignment[asg].kids, Cardinality(S))
        /\ assignment' = Upsert([assignment EXCEPT ![asg].kids = Spend(@, Cardinality(S))],
                                [i \in ids |-> NewAssignment(i, d)])
        /\ attempt' = Upsert([attempt EXCEPT ![a].dispatch = None, ![a].wait = d],
                             [i \in ids |-> NewAttempt(i, i)])
        /\ dispatch' = Upsert(Close(d, "delegation"), [i \in ids |-> NewDispatch(i, None)])
        /\ wave' = Upsert(wave, [w \in {d} |-> [status |-> "open",
                                                member |-> [i \in ids |-> "pending"],
                                                succ |-> None]])
        /\ turns' = [m \in Members |-> IF m \in S THEN turns[m] + 1 ELSE turns[m]]
        /\ UNCHANGED <<taskRow, boundary, volatile, faults>>

\* Mutant of MayCheckpoint: participation is not asked for.
MayCheckpointAlone(d, outcome) == NodeAuthority(d) /\ outcome \in {"green", "blocked"}

\* A green Checkpoint needs an accepted green from every direct child.
MayCheckpoint(d, outcome) ==
    /\ NodeAuthority(d)
    /\ outcome = "green" => \A c \in Children(d[1]) : Participated(c)

EndAttempt(a) == [attempt EXCEPT ![a].status = "completed", ![a].dispatch = None]

\* Mutant of EndAssignment: a blocked Assignment stays open.
EndGreenOnly(asg, outcome) ==
    IF outcome = "green" THEN [assignment EXCEPT ![asg].outcome = outcome] ELSE assignment

EndAssignment(asg, outcome) == [assignment EXCEPT ![asg].outcome = outcome]

\* Mutant of Accept: a blocked boundary is not stored.
AcceptUnlessBlocked(d, outcome) ==
    IF outcome = "blocked" THEN boundary ELSE Upsert(boundary, [b \in {d} |-> outcome])

Accept(d, outcome) == Upsert(boundary, [b \in {d} |-> outcome])

\* A child's green or blocked Checkpoint settles its Wave member.
ReturnToParent(d, outcome) ==
    LET a == dispatch[d].attempt
        asg == attempt[a].assignment
    IN  /\ MayCheckpoint(d, outcome)
        /\ assignment[asg].source # None
        /\ \E w \in DOMAIN wave :
            /\ asg \in DOMAIN wave[w].member
            /\ wave[w].member[asg] = "pending"
            /\ wave[w].status = "open"
            /\ wave[w].succ = None
            /\ wave' = [wave EXCEPT ![w].member[asg] = "settled"]
            /\ signals' = signals \cup {[kind |-> "WaveMemberSettled", wave |-> w]}
        /\ dispatch' = Close(d, "boundary")
        /\ attempt' = EndAttempt(a)
        /\ assignment' = EndAssignment(asg, outcome)
        /\ boundary' = Accept(d, outcome)
        /\ UNCHANGED <<taskRow, turns, preparing, resuming, faults>>

\* No other lane may still owe the root anything.
RootMayFinish ==
    /\ \A x \in RunningAttempts : assignment[attempt[x].assignment].source = None
    /\ \A x \in DOMAIN attempt : attempt[x].wait = None
    /\ \A w \in DOMAIN wave : wave[w].status # "open" /\ ~Unconsumed(w)

\* The root's green or blocked Checkpoint completes the Task.
CompleteTask(d, outcome) ==
    LET a == dispatch[d].attempt
        asg == attempt[a].assignment
    IN  /\ MayCheckpoint(d, outcome)
        /\ assignment[asg].source = None
        /\ resultBoundary = None
        /\ RootMayFinish
        /\ taskStatus' = "completed"
        /\ resultBoundary' = d
        /\ dispatch' = Close(d, "boundary")
        /\ attempt' = EndAttempt(a)
        /\ assignment' = EndAssignment(asg, outcome)
        /\ boundary' = Accept(d, outcome)
        /\ UNCHANGED <<controlRevision, wave, turns, volatile, faults>>

\* Mutant of RetryAttempt: the retry is a new Assignment of the member.
RetryAsAssignment(d) ==
    LET a == dispatch[d].attempt
        asg == attempt[a].assignment
        i == NextDispatch(d[1])
    IN  /\ NodeAuthority(d)
        /\ Covers(assignment[asg].retries, 1)
        /\ assignment' = Upsert([assignment EXCEPT ![asg].retries = Spend(@, 1)],
                                [x \in {i} |-> NewAssignment(i, assignment[asg].source)])
        /\ attempt' = Upsert(EndAttempt(a), [x \in {i} |-> NewAttempt(i, i)])
        /\ dispatch' = Upsert(Close(d, "boundary"), [x \in {i} |-> NewDispatch(i, None)])
        /\ boundary' = Accept(d, "retry")
        /\ turns' = [turns EXCEPT ![d[1]] = @ + 1]
        /\ UNCHANGED <<taskRow, wave, volatile, faults>>

\* A retry Checkpoint replaces the Attempt inside the same Assignment.
RetryAttempt(d) ==
    LET a == dispatch[d].attempt
        asg == attempt[a].assignment
        i == NextDispatch(d[1])
    IN  /\ NodeAuthority(d)
        /\ Covers(assignment[asg].retries, 1)
        /\ assignment' = [assignment EXCEPT ![asg].attempt = i, ![asg].retries = Spend(@, 1)]
        /\ attempt' = Upsert(EndAttempt(a), [x \in {i} |-> NewAttempt(asg, i)])
        /\ dispatch' = Upsert(Close(d, "boundary"), [x \in {i} |-> NewDispatch(i, None)])
        /\ boundary' = Accept(d, "retry")
        /\ turns' = [turns EXCEPT ![d[1]] = @ + 1]
        /\ UNCHANGED <<taskRow, wave, volatile, faults>>

-----------------------------------------------------------------------------
(* Wave handlers: each signal is consumed whatever its handler decides      *)

\* Mutant of Joinable: the first return joins the Wave.
JoinableEarly(w) ==
    LET a == dispatch[w].attempt
    IN  /\ taskStatus = "running"
        /\ wave[w].status = "open"
        /\ \E c \in DOMAIN wave[w].member : wave[w].member[c] = "settled"
        /\ attempt[a].status = "running"
        /\ attempt[a].dispatch = None
        /\ attempt[a].wait = w

\* The last return joins the Wave, in a running Task whose parent waits on it.
Joinable(w) ==
    LET a == dispatch[w].attempt
    IN  /\ taskStatus = "running"
        /\ wave[w].status = "open"
        /\ wave[w].succ = None
        /\ AllReturned(w)
        /\ attempt[a].status = "running"
        /\ attempt[a].dispatch = None
        /\ attempt[a].wait = w

\* Mutant of JoinWave: the joined Wave is not announced.
JoinWaveSilently(s) ==
    LET a == dispatch[s.wave].attempt
    IN  /\ s.kind = "WaveMemberSettled"
        /\ Joinable(s.wave)
        /\ wave' = [wave EXCEPT ![s.wave].status = "settled"]
        /\ attempt' = [attempt EXCEPT ![a].wait = None]
        /\ signals' = signals \ {s}
        /\ UNCHANGED <<taskRow, assignment, dispatch, boundary, turns, preparing, resuming, faults>>

JoinWave(s) ==
    LET a == dispatch[s.wave].attempt
    IN  /\ s.kind = "WaveMemberSettled"
        /\ Joinable(s.wave)
        /\ wave' = [wave EXCEPT ![s.wave].status = "settled"]
        /\ attempt' = [attempt EXCEPT ![a].wait = None]
        /\ signals' = (signals \ {s}) \cup {[kind |-> "DelegationWaveSettled", wave |-> s.wave]}
        /\ UNCHANGED <<taskRow, assignment, dispatch, boundary, turns, preparing, resuming, faults>>

\* An early, duplicated, paused or cancelled hint changes no row.
SkipJoin(s) ==
    /\ s.kind = "WaveMemberSettled"
    /\ ~Joinable(s.wave)
    /\ signals' = signals \ {s}
    /\ UNCHANGED <<taskRow, laneRows, preparing, resuming, faults>>

\* The Assignment and lane a prepared continuation of source s relies on.
ContextCurrent(s, reason) ==
    LET a == dispatch[s].attempt
        asg == attempt[a].assignment
    IN  /\ dispatch[s].status = "closed"
        /\ dispatch[s].reason = reason
        /\ assignment[asg].attempt = a
        /\ assignment[asg].outcome = "open"
        /\ LaneIdle(a)

WaveContinuable(w) ==
    /\ taskStatus = "running"
    /\ Unconsumed(w)
    /\ ContextCurrent(w, "delegation")

\* Read the settled Wave; the read transaction ends here.
PrepareContinuation(s) ==
    /\ s.kind = "DelegationWaveSettled"
    /\ signals' = signals \ {s}
    /\ preparing' = IF WaveContinuable(s.wave)
                    THEN preparing \cup {[wave |-> s.wave, control |-> controlRevision]}
                    ELSE preparing
    /\ UNCHANGED <<taskRow, laneRows, resuming, faults>>

\* Mutant of ContinuationCurrent: the Wave read before is not read again.
ContinuationAsPrepared(p) == taskStatus = "running" /\ wave[p.wave].status = "settled"

\* Mutant of ContinuationCurrent: the Task is not read again.
ContinuationAnyTask(p) == Unconsumed(p.wave) /\ ContextCurrent(p.wave, "delegation")

ContinuationCurrent(p) ==
    /\ WaveContinuable(p.wave)
    /\ controlRevision = p.control

\* Claim the Wave and open the parent's successor in the same Attempt.
OpenContinuation(p) ==
    LET a == dispatch[p.wave].attempt
        i == NextDispatch(p.wave[1])
    IN  /\ ContinuationCurrent(p)
        /\ wave' = [wave EXCEPT ![p.wave].succ = i]
        /\ attempt' = [attempt EXCEPT ![a].dispatch = i]
        /\ dispatch' = Upsert(dispatch, [x \in {i} |-> NewDispatch(a, p.wave)])
        /\ turns' = [turns EXCEPT ![p.wave[1]] = @ + 1]
        /\ preparing' = preparing \ {p}
        /\ UNCHANGED <<taskRow, assignment, boundary, signals, resuming, faults>>

\* The prepared snapshot lost a race: nothing is written and nothing retries.
SkipContinuation(p) ==
    /\ ~ContinuationCurrent(p)
    /\ preparing' = preparing \ {p}
    /\ UNCHANGED <<taskRow, laneRows, signals, resuming, faults>>

-----------------------------------------------------------------------------
(* Task control                                                             *)

\* Stop every lane: current Dispatches close, waits and Waves stay.
PauseLanes(failed) ==
    /\ ControlSettlesEveryLane
    /\ taskStatus' = "paused"
    /\ controlRevision' = controlRevision + 1
    /\ dispatch' = CloseCurrent("paused", failed)
    /\ attempt' = ClearCurrent
    /\ UNCHANGED <<resultBoundary, assignment, wave, boundary, turns, faults>>

\* The successor's request could not be prepared: pause the Task, if the
\* source is still the one that failed.
FailContinuation(p) ==
    /\ preparing' = preparing \ {p}
    /\ UNCHANGED <<signals, resuming>>
    /\ IF taskStatus = "running" /\ Unconsumed(p.wave) /\ LaneIdle(dispatch[p.wave].attempt)
       THEN controlRevision < MaxControl /\ PauseLanes({})
       ELSE UNCHANGED <<taskRow, laneRows, faults>>

PauseTask ==
    /\ taskStatus = "running"
    /\ controlRevision < MaxControl
    /\ PauseLanes({})
    /\ UNCHANGED volatile

\* Settled Waves without a successor, and lanes control stopped in mid-turn.
WaveSources == {w \in DOMAIN wave : Unconsumed(w)}

\* Mutant of ClosedTails: the tail of the lane that failed is forgotten.
ClosedTailsOfPause ==
    {d \in DOMAIN dispatch :
        /\ dispatch[d].status = "closed"
        /\ dispatch[d].reason = "paused"
        /\ \A x \in DOMAIN dispatch : dispatch[x].pred # d}

ClosedTails ==
    {d \in DOMAIN dispatch :
        /\ dispatch[d].status = "closed"
        /\ dispatch[d].reason \in {"paused", "control_failed"}
        /\ \A x \in DOMAIN dispatch : dispatch[x].pred # d}

ContinueSources == WaveSources \cup ClosedTails

SourcesOf(a) == {s \in ContinueSources : dispatch[s].attempt = a}

\* The running lanes of the Task and what each of them waits on.
Lanes == [a \in RunningAttempts |-> attempt[a].wait]

\* A waiting lane keeps an unresolved wait and no source; any other lane has
\* exactly one source, and every source has a lane.
LaneSourcesValid ==
    /\ RunningAttempts # {}
    /\ \A s \in ContinueSources : dispatch[s].attempt \in RunningAttempts
    /\ \A a \in RunningAttempts :
        /\ attempt[a].dispatch = None
        /\ IF attempt[a].wait # None
           THEN /\ SourcesOf(a) = {}
                /\ wave[attempt[a].wait].status = "open"
                /\ wave[attempt[a].wait].succ = None
           ELSE \E s \in ContinueSources : SourcesOf(a) = {s}

\* Read the resume plan of a paused Task; the read transaction ends here.
PlanResume ==
    /\ taskStatus = "paused"
    /\ controlRevision < MaxControl
    /\ LaneSourcesValid
    /\ resuming' = resuming \cup
            {[control |-> controlRevision, lanes |-> Lanes, sources |-> ContinueSources]}
    /\ UNCHANGED <<taskRow, laneRows, signals, preparing, faults>>

SourceClaimable(s) ==
    /\ s \in ContinueSources
    /\ ContextCurrent(s, IF s \in DOMAIN wave THEN "delegation" ELSE dispatch[s].reason)

ResumeCurrent(p) ==
    /\ taskStatus = "paused"
    /\ controlRevision = p.control
    /\ Lanes = p.lanes
    /\ \A s \in p.sources : SourceClaimable(s)

\* Resume every runnable lane at once; waiting lanes keep waiting.
CommitResume(p) ==
    LET opened == [s \in p.sources |-> NextDispatch(s[1])]
        pred(i) == CHOOSE s \in p.sources : opened[s] = i
        ids == {opened[s] : s \in p.sources}
        source(a) == CHOOSE s \in p.sources : dispatch[s].attempt = a
    IN  /\ ResumeCurrent(p)
        /\ taskStatus' = "running"
        /\ controlRevision' = controlRevision + 1
        /\ wave' = [w \in DOMAIN wave |->
                        IF w \in p.sources THEN [wave[w] EXCEPT !.succ = opened[w]] ELSE wave[w]]
        /\ attempt' = [a \in DOMAIN attempt |->
                        [attempt[a] EXCEPT
                            !.dispatch = IF \E s \in p.sources : dispatch[s].attempt = a
                                         THEN opened[source(a)] ELSE @,
                            !.replaced = IF a \in RunningAttempts THEN 0 ELSE @]]
        /\ dispatch' = Upsert(dispatch,
                        [i \in ids |-> NewDispatch(dispatch[pred(i)].attempt, pred(i))])
        /\ turns' = [m \in Members |->
                        IF \E s \in p.sources : s[1] = m THEN turns[m] + 1 ELSE turns[m]]
        /\ resuming' = resuming \ {p}
        /\ UNCHANGED <<resultBoundary, assignment, boundary, signals, preparing, faults>>

\* Preparation failed or another control transition won: the Task stays put.
AbandonResume(p) ==
    /\ resuming' = resuming \ {p}
    /\ UNCHANGED <<taskRow, laneRows, signals, preparing, faults>>

\* Cancel every lane; an unresolved Wave and its pending members with it.
CancelTask ==
    /\ taskStatus \in {"running", "paused"}
    /\ controlRevision < MaxControl
    /\ ControlSettlesEveryLane
    /\ \A a \in RunningAttempts : attempt[a].wait # None =>
            wave[attempt[a].wait].status = "open" /\ wave[attempt[a].wait].succ = None
    /\ taskStatus' = "cancelled"
    /\ controlRevision' = controlRevision + 1
    /\ resultBoundary' = None
    /\ dispatch' = CloseCurrent("cancelled", {})
    /\ attempt' = [a \in DOMAIN attempt |->
                    IF a \in RunningAttempts
                    THEN [attempt[a] EXCEPT !.status = "cancelled", !.dispatch = None, !.wait = None]
                    ELSE attempt[a]]
    /\ wave' = [w \in DOMAIN wave |->
                    [status |-> IF wave[w].status # "cancelled" /\ wave[w].succ = None
                                THEN "cancelled" ELSE wave[w].status,
                     member |-> [c \in DOMAIN wave[w].member |->
                                    IF wave[w].member[c] = "pending"
                                    THEN "cancelled" ELSE wave[w].member[c]],
                     succ |-> wave[w].succ]]
    /\ UNCHANGED <<assignment, boundary, turns, volatile, faults>>

-----------------------------------------------------------------------------
(* The provider behind a Dispatch                                           *)

\* The provider accepted the start of the current Dispatch.
AcceptProviderStart(d) ==
    /\ taskStatus = "running"
    /\ dispatch[d].status = "starting"
    /\ CurrentDispatch(d)
    /\ dispatch' = [dispatch EXCEPT ![d].status = "open"]
    /\ UNCHANGED <<taskRow, assignment, attempt, wave, boundary, turns, volatile, faults>>

\* An invalid start closes its own Dispatch and pauses every sibling lane.
PauseInvalidStart(d) ==
    /\ taskStatus = "running"
    /\ controlRevision < MaxControl
    /\ dispatch[d].status = "starting"
    /\ CurrentDispatch(d)
    /\ PauseLanes({d})
    /\ UNCHANGED volatile

\* An open Dispatch that no operation, Wave or Checkpoint closed in time.
Stale(d) == NodeAuthority(d) /\ dispatch[d].status = "open"

\* Mutant of WatchdogReplace: the replacement is not counted.
WatchdogReplaceUncounted(d) ==
    LET a == dispatch[d].attempt
        i == NextDispatch(d[1])
    IN  /\ Stale(d)
        /\ attempt[a].replaced < ReplacementLimit
        /\ \A x \in DOMAIN dispatch : dispatch[x].pred # d
        /\ dispatch' = Upsert(Close(d, "watchdog_superseded"), [x \in {i} |-> NewDispatch(a, d)])
        /\ attempt' = [attempt EXCEPT ![a].dispatch = i]
        /\ turns' = [turns EXCEPT ![d[1]] = @ + 1]
        /\ UNCHANGED <<taskRow, assignment, wave, boundary, volatile, faults>>

\* The watchdog replaces a stale Dispatch inside its Attempt.
WatchdogReplace(d) ==
    LET a == dispatch[d].attempt
        i == NextDispatch(d[1])
    IN  /\ Stale(d)
        /\ attempt[a].replaced < ReplacementLimit
        /\ \A x \in DOMAIN dispatch : dispatch[x].pred # d
        /\ dispatch' = Upsert(Close(d, "watchdog_superseded"), [x \in {i} |-> NewDispatch(a, d)])
        /\ attempt' = [attempt EXCEPT ![a].dispatch = i, ![a].replaced = @ + 1]
        /\ turns' = [turns EXCEPT ![d[1]] = @ + 1]
        /\ UNCHANGED <<taskRow, assignment, wave, boundary, volatile, faults>>

\* Recovery is exhausted, or the replacement could not be prepared.
WatchdogPause(d) ==
    /\ Stale(d)
    /\ controlRevision < MaxControl
    /\ \A x \in DOMAIN dispatch : dispatch[x].pred # d
    /\ PauseLanes({d})
    /\ UNCHANGED volatile

-----------------------------------------------------------------------------
(* Lost hints and restarts                                                  *)

\* Mutant of StartupSignals: only open Waves are looked for.
StartupJoinsOnly ==
    {[kind |-> "WaveMemberSettled", wave |-> w] :
        w \in {x \in DOMAIN wave : wave[x].status = "open" /\ AllReturned(x)}}

\* The hints the startup audit republishes from committed rows.
StartupSignals ==
    {[kind |-> "WaveMemberSettled", wave |-> w] :
        w \in {x \in DOMAIN wave :
                /\ wave[x].status = "open"
                /\ wave[x].succ = None
                /\ taskStatus \in {"running", "paused"}
                /\ attempt[dispatch[x].attempt].wait = x
                /\ attempt[dispatch[x].attempt].status = "running"
                /\ attempt[dispatch[x].attempt].dispatch = None
                /\ AllReturned(x)}}
    \cup
    {[kind |-> "DelegationWaveSettled", wave |-> w] :
        w \in {x \in WaveSources :
                taskStatus = "running" /\ LaneIdle(dispatch[x].attempt)}}

\* The process stops and starts again: memory is gone, rows remain.
Restart ==
    /\ faults < MaxFaults
    /\ faults' = faults + 1
    /\ signals' = StartupSignals
    /\ preparing' = {}
    /\ resuming' = {}
    /\ UNCHANGED <<taskRow, laneRows>>

\* A full queue or a handler that raised: nothing republishes the hint.
LoseSignal(s) ==
    /\ faults < MaxFaults
    /\ faults' = faults + 1
    /\ signals' = signals \ {s}
    /\ UNCHANGED <<taskRow, laneRows, preparing, resuming>>

LoseContinuation(p) ==
    /\ faults < MaxFaults
    /\ faults' = faults + 1
    /\ preparing' = preparing \ {p}
    /\ UNCHANGED <<taskRow, laneRows, signals, resuming>>

-----------------------------------------------------------------------------

\* The committed Task start: the root's first Dispatch owns its lane.
Init ==
    LET r == <<Root, 1>>
    IN  /\ taskStatus = "running"
        /\ controlRevision = 0
        /\ resultBoundary = None
        /\ assignment = [i \in {r} |-> NewAssignment(i, None)]
        /\ attempt = [i \in {r} |-> NewAttempt(i, i)]
        /\ dispatch = [i \in {r} |-> NewDispatch(i, None)]
        /\ wave = [i \in {} |-> None]
        /\ boundary = [i \in {} |-> None]
        /\ turns = [m \in Members |-> IF m = Root THEN 1 ELSE 0]
        /\ signals = {}
        /\ preparing = {}
        /\ resuming = {}
        /\ faults = 0

NodeOperation ==
    \E d \in DOMAIN dispatch :
        \/ \E S \in (SUBSET Children(d[1])) \ {{}} : Delegate(d, S)
        \/ \E outcome \in {"green", "blocked"} : ReturnToParent(d, outcome)
        \/ \E outcome \in {"green", "blocked"} : CompleteTask(d, outcome)
        \/ RetryAttempt(d)

Provider ==
    \E d \in DOMAIN dispatch :
        \/ AcceptProviderStart(d)
        \/ PauseInvalidStart(d)
        \/ WatchdogReplace(d)
        \/ WatchdogPause(d)

WaveHandler ==
    \/ \E s \in signals : JoinWave(s)
    \/ \E s \in signals : SkipJoin(s)
    \/ \E s \in signals : PrepareContinuation(s)
    \/ \E p \in preparing : OpenContinuation(p)
    \/ \E p \in preparing : SkipContinuation(p)

Control ==
    \/ PauseTask
    \/ PlanResume
    \/ \E p \in resuming : CommitResume(p)
    \/ \E p \in resuming : AbandonResume(p)
    \/ CancelTask

Failure ==
    \/ \E p \in preparing : FailContinuation(p)
    \/ Restart
    \/ \E s \in signals : LoseSignal(s)
    \/ \E p \in preparing : LoseContinuation(p)

Next == NodeOperation \/ Provider \/ WaveHandler \/ Control \/ Failure

Spec == Init /\ [][Next]_vars

\* The router drains its queue and its handlers run to the end.  Members,
\* operators and failures owe nothing.
FairSpec == Spec /\ WF_vars(WaveHandler)

-----------------------------------------------------------------------------
(* Properties                                                               *)

TaskTypeOK ==
    /\ taskStatus \in TaskStatus
    /\ controlRevision \in Nat
    /\ resultBoundary \in DOMAIN boundary \cup {None}
    /\ turns \in [Members -> Nat]
    /\ faults \in Nat

LaneTypeOK ==
    /\ assignment \in [DOMAIN assignment -> AssignmentRow]
    /\ attempt \in [DOMAIN attempt -> AttemptRow]
    /\ dispatch \in [DOMAIN dispatch -> DispatchRow]
    /\ boundary \in [DOMAIN boundary -> {"green", "blocked", "retry"}]

WaveTypeOK ==
    /\ wave = [w \in DOMAIN wave |-> wave[w]]
    /\ \A w \in DOMAIN wave : wave[w] \in WaveRowOf(DOMAIN wave[w].member)

KeysOK ==
    /\ DOMAIN dispatch \subseteq DispatchId
    /\ DOMAIN attempt \subseteq DOMAIN dispatch
    /\ DOMAIN assignment \subseteq DOMAIN attempt
    /\ DOMAIN wave \subseteq DOMAIN dispatch
    /\ DOMAIN boundary \subseteq DOMAIN dispatch
    /\ \A d \in DOMAIN dispatch : dispatch[d].attempt \in DOMAIN attempt
    /\ \A a \in DOMAIN attempt : attempt[a].assignment \in DOMAIN assignment

SignalsOK ==
    /\ signals \subseteq Signal
    /\ \A s \in signals : s.wave \in DOMAIN wave
    /\ \A p \in preparing : p.wave \in DOMAIN wave
    /\ \A p \in resuming : p.sources \subseteq DOMAIN dispatch

\* Every row has its columns, every table is keyed by Dispatches that exist
\* and every reference names a row that exists.
TypeOK == TaskTypeOK /\ LaneTypeOK /\ WaveTypeOK /\ KeysOK /\ SignalsOK

\* A Dispatch that may still act is the current pointer of its own running
\* Attempt in a running Task, and a pointer names a live Dispatch of its own
\* lane: close_current_attempt_dispatch, select_starting_dispatch_for_attempt
\* and close_current_task_dispatches keep the two ends together.
LiveDispatchIsCurrent ==
    /\ \A d \in DOMAIN dispatch : Live(d) =>
        /\ taskStatus = "running"
        /\ attempt[dispatch[d].attempt].status = "running"
        /\ attempt[dispatch[d].attempt].dispatch = d
    /\ \A a \in DOMAIN attempt : attempt[a].dispatch # None =>
        /\ attempt[a].dispatch \in DOMAIN dispatch
        /\ dispatch[attempt[a].dispatch].attempt = a
        /\ Live(attempt[a].dispatch)

\* What currently owns an Attempt's lane: a live Dispatch, an open Wave it
\* waits for, or one source that a handler or an operator will continue.
OwnersOf(a) ==
    {<<"dispatch", d>> : d \in {x \in DOMAIN dispatch :
        dispatch[x].attempt = a /\ Live(x)}}
    \cup {<<"wait", w>> : w \in {x \in DOMAIN wave :
        dispatch[x].attempt = a /\ wave[x].status = "open" /\ attempt[a].wait = x}}
    \cup {<<"source", x>> : x \in SourcesOf(a)}

\* Until the Task is cancelled, exactly one owner decides what a running
\* Attempt does next and an ended Attempt has none: no lane is stranded and no
\* lane is driven twice, whatever order handlers and control commit in.
LaneHasOneOwner ==
    taskStatus # "cancelled" =>
        \A a \in DOMAIN attempt :
            IF attempt[a].status = "running"
            THEN \E o \in OwnersOf(a) : OwnersOf(a) = {o}
            ELSE OwnersOf(a) = {}

\* A Wave and its children agree: a pending member is an open Assignment with
\* a running current Attempt, a settled member a closed one with an accepted
\* boundary, and a Wave leaves "open" by settlement only when all returned.
WaveMatchesChildren ==
    \A w \in DOMAIN wave :
        /\ \A c \in DOMAIN wave[w].member :
            /\ wave[w].member[c] = "pending" =>
                /\ assignment[c].outcome = "open"
                /\ attempt[assignment[c].attempt].status = "running"
            /\ wave[w].member[c] = "settled" =>
                /\ assignment[c].outcome # "open"
                /\ \E d \in DOMAIN boundary :
                    /\ attempt[dispatch[d].attempt].assignment = c
                    /\ boundary[d] = assignment[c].outcome
        /\ wave[w].status = "settled" => AllReturned(w)
        /\ wave[w].status = "open" => attempt[dispatch[w].attempt].wait = w

\* A source opens at most one successor, in its own Attempt, and a Wave's
\* recorded successor is that Dispatch: a hint handled twice, a continuation
\* prepared twice or a resume racing a handler cannot fork a lane.
OneSuccessorPerSource ==
    /\ \A x, y \in DOMAIN dispatch :
        dispatch[x].pred # None /\ dispatch[x].pred = dispatch[y].pred => x = y
    /\ \A x \in DOMAIN dispatch : dispatch[x].pred # None =>
        /\ dispatch[x].pred \in DOMAIN dispatch
        /\ dispatch[dispatch[x].pred].attempt = dispatch[x].attempt
        /\ dispatch[x].pred \in DOMAIN wave => wave[dispatch[x].pred].succ = x
    /\ \A w \in DOMAIN wave : wave[w].succ # None =>
        /\ wave[w].succ \in DOMAIN dispatch
        /\ dispatch[wave[w].succ].pred = w

\* A finished Task leaves nothing that could still act: no running Attempt,
\* no live Dispatch, no wait, no Wave to join or continue.  A completed one
\* also has every Assignment closed and the root's boundary as its result.
FinishedTaskIsQuiet ==
    taskStatus \in {"completed", "cancelled"} =>
        /\ RunningAttempts = {}
        /\ \A d \in DOMAIN dispatch : dispatch[d].status = "closed"
        /\ \A a \in DOMAIN attempt : attempt[a].wait = None
        /\ \A w \in DOMAIN wave : wave[w].status # "open" /\ ~Unconsumed(w)
        /\ taskStatus = "completed" =>
            /\ \A i \in DOMAIN assignment : assignment[i].outcome # "open"
            /\ resultBoundary # None
            /\ boundary[resultBoundary] = assignment[<<Root, 1>>].outcome

\* A green Task means the whole team took part: the per-level participation
\* check of commit_checkpoint composes to every member of the tree.
GreenTaskCoversTeam ==
    taskStatus = "completed" /\ boundary[resultBoundary] = "green" =>
        \A m \in Members : Participated(m)

\* Budgets account for the work they paid for: what an Assignment has left
\* and what it spent on children and retries is what it was given.
BudgetsAccountForWork ==
    \A i \in DOMAIN assignment :
        LET children == {c \in DOMAIN assignment :
                assignment[c].source # None
                /\ attempt[dispatch[assignment[c].source].attempt].assignment = i}
            attempts == {a \in DOMAIN attempt : attempt[a].assignment = i}
        IN  /\ ChildBudget # NoLimit =>
                assignment[i].kids + Cardinality(children) = ChildBudget
            /\ RetryBudget # NoLimit =>
                assignment[i].retries + Cardinality(attempts) - 1 = RetryBudget

\* The watchdog replaces a Dispatch at most ReplacementLimit times in one
\* Attempt until an operator resumes the Task; joins, continuations and
\* siblings' resumes do not refill a running lane.
WatchdogStaysInBudget ==
    \A a \in DOMAIN attempt :
        Cardinality({d \in DOMAIN dispatch :
            dispatch[d].attempt = a /\ dispatch[d].reason = "watchdog_superseded"})
        <= ReplacementLimit * (1 + controlRevision \div 2)

\* A member never works on two open Assignments of a Task that is not
\* cancelled, and one running Attempt serves each.
OneOpenAssignmentPerMember ==
    \A i, j \in DOMAIN assignment :
        i[1] = j[1] /\ assignment[i].outcome = "open" /\ assignment[j].outcome = "open" => i = j

\* While the Task runs, every lane no Dispatch drives and no pending child
\* holds is one the startup audit republishes: a restart loses no lane.
StartupFindsEveryLane ==
    taskStatus = "running" =>
        \A a \in RunningAttempts :
            \/ attempt[a].dispatch # None
            \/ \E w \in DOMAIN wave : attempt[a].wait = w /\ ~AllReturned(w)
            \/ \E s \in StartupSignals : dispatch[s.wave].attempt = a

\* A closed Dispatch keeps its close reason, an accepted boundary its outcome
\* and a Wave its successor: a late call under old authority, a duplicated
\* hint and a stale snapshot write nothing.
HistoryIsImmutable ==
    [][/\ \A d \in DOMAIN dispatch :
            dispatch[d].status = "closed" => dispatch'[d] = dispatch[d]
       /\ \A b \in DOMAIN boundary : boundary'[b] = boundary[b]
       /\ \A w \in DOMAIN wave :
            /\ wave[w].succ # None => wave'[w] = wave[w]
            /\ \A c \in DOMAIN wave[w].member :
                wave[w].member[c] # "pending" => wave'[w].member[c] = wave[w].member[c]]_vars

\* No Dispatch opens while the Task is stopped, except in the transaction
\* that resumes it; a finished Task changes no row again.
StoppedTaskOpensNothing ==
    [][/\ DOMAIN dispatch' # DOMAIN dispatch => taskStatus' = "running"
       /\ taskStatus \in {"completed", "cancelled"} => UNCHANGED <<taskRow, laneRows>>]_vars

-----------------------------------------------------------------------------
(* The inductive invariant of the lane pointers                             *)

\* A member's Dispatches are numbered up to its turns: the next one is new.
RowsAreNumbered == \A d \in DOMAIN dispatch : d[2] <= turns[d[1]]

\* A lane belongs to one member, and only the root's has no source.
LaneKeepsMember ==
    /\ \A d \in DOMAIN dispatch : dispatch[d].attempt[1] = d[1]
    /\ \A a \in DOMAIN attempt : attempt[a].assignment[1] = a[1]
    /\ \A i \in DOMAIN assignment : assignment[i].source = None => i = <<Root, 1>>

\* A running Attempt is the current one of an open Assignment and has at most
\* one of a Dispatch and a wait.
RunningIsCurrent ==
    \A a \in RunningAttempts :
        /\ assignment[attempt[a].assignment].outcome = "open"
        /\ assignment[attempt[a].assignment].attempt = a
        /\ attempt[a].wait # None => attempt[a].dispatch = None

\* A resume plan holds at most one source per member.
PlanHasOneSourcePerMember ==
    \A p \in resuming : \A s, t \in p.sources : s[1] = t[1] => s = t

IInv ==
    /\ TypeOK
    /\ RowsAreNumbered
    /\ LaneKeepsMember
    /\ RunningIsCurrent
    /\ OneOpenAssignmentPerMember
    /\ LiveDispatchIsCurrent
    /\ PlanHasOneSourcePerMember

-----------------------------------------------------------------------------
(* Liveness                                                                 *)

\* Wave ids the liveness runs can reach: no member is given more turns there.
WaveIds == Members \X (1 .. 4)

Returned(w) == w \in DOMAIN wave /\ AllReturned(w)
Joined(w) == w \in DOMAIN wave /\ wave[w].status = "settled"
Continued(w) == w \in DOMAIN wave /\ wave[w].succ # None

\* A Wave whose members have all returned is continued, as long as control does
\* not intervene (runtime.md: the parent "resumes exactly once after every Wave
\* member has returned").
ReturnedWaveContinues ==
    \A w \in WaveIds :
        Returned(w) /\ controlRevision = 0
            ~> (controlRevision > 0 \/ taskStatus # "running" \/ Continued(w))

\* Once joined, a Wave is continued by its handler or by the resume that
\* overtakes it: pausing between the join, the read and the commit of the
\* continuation strands no parent.
SettledWaveContinues ==
    \A w \in WaveIds :
        Joined(w) ~> (taskStatus # "running" \/ Continued(w))

\* "Pause may delay this transaction without losing the settled result": in a
\* Task that runs again, a Wave that has all its results is joined.
PauseOnlyDelaysJoin ==
    \A w \in WaveIds :
        Returned(w) ~> (taskStatus # "running" \/ Joined(w))
=============================================================================
