---------------------------- MODULE AttemptLanes ----------------------------
(***************************************************************************)
(* The running Attempts of one Task as an external wait sees them: each    *)
(* Attempt owns either a current Dispatch, or a wait, or nothing (it is    *)
(* between Dispatches), next to the Task's status, the post-commit hints,  *)
(* the process-local deadline timers and the startup audit.                *)
(*                                                                         *)
(* HumanRequests and CommandRuns add the two kinds of external source;     *)
(* ExternalWaits composes them.  The Delegation Wave, the third kind of    *)
(* wait, and the ends of an Attempt are DelegationRuntime's.               *)
(***************************************************************************)
EXTENDS Integers, Sequences, FiniteSets

CONSTANTS
    Attempts,    \* the running Attempts of the Task
    Requests,    \* Human Requests that may be opened
    Runs,        \* Command Runs that may be started
    Timed,       \* the sources opened with a deadline
    MaxControl,  \* bound on control_revision
    MaxFaults,   \* bound on lost hints and failed writes
    MaxRestarts, \* bound on restarts
    None         \* SQL NULL in current_wait_id

Sources == Requests \cup Runs

ASSUME SourcesAssumption ==
    /\ Requests \cap Runs = {}
    /\ Timed \subseteq Sources
    /\ Sources \cap {None, "start", "resume"} = {}
    /\ None \notin Attempts

ASSUME BoundsAssumption == {MaxControl, MaxFaults, MaxRestarts} \subseteq Nat

VARIABLES
    task,     \* Task.status
    control,  \* Task.control_revision
    lane,     \* Attempt rows with their AttemptWait row
    opened,   \* the Dispatches of each Attempt: what each one was opened for
    hints,    \* signals published and not yet handled
    timers,   \* sources with a timer in the DeadlineScheduler
    audit,    \* how many families the startup audit has read
    faults,   \* lost hints and failed writes so far
    restarts, \* restarts so far
    lossy     \* whether this controller lost a hint or failed a write

taskVars == <<task, control>>
laneVars == <<lane, opened>>
faultVars == <<faults, restarts, lossy>>
postCommit == <<hints, timers, audit, faultVars>>

-----------------------------------------------------------------------------
(* Hints                                                                    *)

\* A CommandRunCancellationRequested and a CommandProcessExited name the
\* ownership revision they are about; every other signal only its source.
Hint(kind, s) == [kind |-> kind, source |-> s, rev |-> 0]
OwnedHint(kind, s, rev) == [kind |-> kind, source |-> s, rev |-> rev]

HintKind ==
    {"HumanRequestOpened", "HumanRequestDue", "HumanRequestTerminal",
     "CommandRunPending", "CommandRunDue", "CommandRunCancellationRequested",
     "CommandProcessExited", "CommandRunTerminal"}
HintType == [kind : HintKind, source : Sources, rev : {0, 1}]

\* The handler's signal is taken from the queue; those it publishes follow.
Handled(h, published) == h \in hints /\ hints' = (hints \ {h}) \cup published

-----------------------------------------------------------------------------
(* Lanes                                                                    *)

Working(a) == lane[a].status = "running" /\ lane[a].dispatch # 0

Between(a) == lane[a].status = "running" /\ lane[a].dispatch = 0 /\ lane[a].wait = None

\* suspend_current_attempt_on_wait: the Dispatch closes and the wait begins in
\* the transaction that creates the source.
Suspend(a, s) ==
    /\ task = "running" /\ Working(a)
    /\ lane' = [lane EXCEPT ![a].dispatch = 0, ![a].wait = s]

\* The exact wait on s, if it still exists, with the lane that waits.
WaitingOn(s) == {a \in Attempts : lane[a].status = "running" /\ lane[a].wait = s}

WithoutWait(s) == [a \in Attempts |-> IF a \in WaitingOn(s) THEN [lane[a] EXCEPT !.wait = None]
                                                             ELSE lane[a]]

\* The successors of the lanes in A, opened for what origin says.
WithDispatches(A, origin) ==
    /\ opened' = [a \in Attempts |-> IF a \in A THEN Append(opened[a], origin[a]) ELSE opened[a]]
    /\ lane' = [a \in Attempts |-> IF a \in A THEN [lane[a] EXCEPT !.dispatch = Len(opened[a]) + 1]
                                              ELSE lane[a]]

\* A fault of this controller's life; a restart clears the record.
Fail == faults < MaxFaults /\ faults' = faults + 1 /\ lossy' = TRUE /\ UNCHANGED restarts

\* Pausing the Task closes every current Dispatch and leaves the waits alone.
PauseLanes ==
    /\ task = "running" /\ control < MaxControl
    /\ task' = "paused" /\ control' = control + 1
    /\ lane' = [a \in Attempts |-> [lane[a] EXCEPT !.dispatch = 0]]

LanesInit ==
    /\ task = "running" /\ control = 1
    /\ lane = [a \in Attempts |-> [status |-> "running", dispatch |-> 1, wait |-> None]]
    /\ opened = [a \in Attempts |-> <<"start">>]
    /\ hints = {} /\ timers = {}
    /\ faults = 0 /\ restarts = 0 /\ lossy = FALSE

LaneType == [status : {"running", "cancelled"}, dispatch : Nat, wait : Sources \cup {None}]
LanesTypeOK ==
    /\ task \in {"running", "paused", "cancelled"} /\ control \in Nat
    /\ lane \in [Attempts -> LaneType]
    /\ opened \in [Attempts -> Seq(Sources \cup {"start", "resume"})]
    /\ hints \subseteq HintType /\ timers \subseteq Sources
    /\ audit \in Nat /\ faults \in 0..MaxFaults /\ restarts \in 0..MaxRestarts
    /\ lossy \in BOOLEAN
=============================================================================
