---------------------------- MODULE ProviderStart ----------------------------
(***************************************************************************)
(* Starting the provider turn of a Dispatch: the DispatchStarter's handler *)
(* from the due signal to the acceptance or the next start revision, the   *)
(* adapter's turns, the node MCP bindings that let a turn call back, and   *)
(* the cleanup of Dispatches that close meanwhile.                         *)
(*                                                                         *)
(* A turn does work from the moment the provider has its input, before the *)
(* adapter has registered it and before the controller has accepted it.    *)
(*                                                                         *)
(* What opens, pauses and closes Dispatches is DelegationRuntime's: here a *)
(* lane is only the Dispatches of one Attempt, the live one of which is    *)
(* the Attempt's current Dispatch.  Requests, routes, inventories and the  *)
(* backoff are abstracted: a timer fires at any time.                      *)
(***************************************************************************)
EXTENDS Integers, FiniteSets

CONSTANTS
    Attempts,    \* running Attempts of one Task
    Dispatches,  \* Dispatches that may be opened
    MaxControl,  \* bound on control_revision
    MaxFaults,   \* bound on failed starts, failed writes, failed stops, lost hints
    MaxRestarts, \* bound on restarts
    None         \* SQL NULL

ASSUME NoneAssumption == None \notin Attempts \cup Dispatches
ASSUME BoundsAssumption == {MaxControl, MaxFaults, MaxRestarts} \subseteq Nat
\* Every Attempt can have a first Dispatch of its own.
ASSUME DispatchesAssumption ==
    \E f \in [Attempts -> Dispatches] : \A a, b \in Attempts : f[a] = f[b] => a = b

VARIABLES
    task,      \* Task.status
    control,   \* Task.control_revision
    row,       \* DispatchTurn rows
    last,      \* the newest Dispatch of each Attempt, live or closed
    handler,   \* the start in flight of each Dispatch, in memory
    bindings,  \* the node MCP bindings that authenticate
    turn,      \* the provider's turn of each Dispatch and what the adapter knows of it
    hints,     \* signals published and not yet handled
    timers,    \* start signals in the DeadlineScheduler
    recovered, \* start signals the startup audit marked
    cleaning,  \* Dispatches whose cleanup handler has yet to stop the turn
    faults,    \* failures so far
    restarts,  \* restarts so far
    lossy      \* whether this controller lost a hint, a write or a stop

taskVars == <<task, control>>
memory == <<handler, bindings, turn, recovered, cleaning>>
faultVars == <<faults, restarts, lossy>>
rows == <<row, last>>
vars == <<taskVars, rows, memory, hints, timers, faultVars>>

StopReasons == {"paused", "cancelled", "control_failed"}
CloseReason == StopReasons \cup {"none", "boundary", "watchdog_superseded"}
RowType ==
    [status : {"unused", "starting", "open", "closed"}, reason : CloseReason,
     rev : Nat,
     superseded : Dispatches \cup {None}]  \* predecessor_dispatch_id of a watchdog_recovery

Step == {"idle", "read", "recovering", "prepared", "ready", "checked", "starting",
         "accepting", "lost", "reconciling", "failing", "failed"}
HandlerType ==
    [step : Step, rev : Nat, control : Nat,
     uncertain : BOOLEAN,  \* failure_kind is UNCERTAIN_ACCEPTANCE
     rotated : BOOLEAN]    \* the next revision was committed
\* "begun": the provider has the input and the adapter not yet the execution.
\* rev is the revision of the latest turn, -1 before the first.
TurnType == [state : {"none", "begun", "running"}, rev : {-1} \cup Nat]

Idle == [step |-> "idle", rev |-> 0, control |-> 0, uncertain |-> FALSE, rotated |-> FALSE]

\* A binding and a start signal both name a Dispatch and its start revision.
Generation == [dispatch : Dispatches, rev : Nat]
Gen(d, rev) == [dispatch |-> d, rev |-> rev]
StartDue(d, rev) == [kind |-> "DispatchStartDue", gen |-> Gen(d, rev)]
Cleanup(d) == [kind |-> "DispatchCleanupRequested", gen |-> Gen(d, 0)]
\* A start signal of the startup audit whose retry is not due yet.
StartLater(d, rev) == [kind |-> "future", gen |-> Gen(d, rev)]
HintType == [kind : {"DispatchStartDue", "DispatchCleanupRequested", "future"}, gen : Generation]

-----------------------------------------------------------------------------
(* Rows                                                                     *)

Live(d) == row[d].status \in {"starting", "open"}
InFlight(d) == handler[d].step # "idle"
HasTurn(d) == turn[d].state # "none"

\* The conditions every write of the starter shares: the exact generation of a
\* current starting Dispatch of a running Task.
Exact(d, rev) == task = "running" /\ row[d].status = "starting" /\ row[d].rev = rev

\* Mutant: the reason overwrites the status.
ClosedAsReason(r, reason) == [r EXCEPT !.status = reason]

Closed(r, reason) == [r EXCEPT !.status = "closed", !.reason = reason]
CloseLive(reason) ==
    row' = [d \in Dispatches |-> IF Live(d) THEN Closed(row[d], reason) ELSE row[d]]

Opened(predecessor) ==
    [status |-> "starting", reason |-> "none", rev |-> 0, superseded |-> predecessor]

-----------------------------------------------------------------------------
(* Failures and stops                                                       *)

Failing == faults < MaxFaults /\ faults' = faults + 1 /\ UNCHANGED restarts
ProviderFails == Failing /\ UNCHANGED lossy
ControllerFails == Failing /\ lossy' = TRUE

\* adapter.stop knows only a registered execution; it interrupts the turn or
\* fails, and nobody asks again.
StopTurn(d) ==
    \/ /\ turn' = IF turn[d].state = "running" THEN [turn EXCEPT ![d].state = "none"] ELSE turn
       /\ UNCHANGED faultVars
    \/ turn[d].state = "running" /\ ControllerFails /\ UNCHANGED turn

NoStop == UNCHANGED <<turn, faultVars>>

-----------------------------------------------------------------------------
(* The start handler                                                        *)

Goes(d, step) == handler' = [handler EXCEPT ![d].step = step]
Ends(d) == handler' = [handler EXCEPT ![d] = Idle]

\* The audit marked this signal: the last controller may have made the start.
\* Mutant: the marks are lost.
RecoveringNothing(g) == FALSE

Recovering(g) == g \in recovered

\* read_provider_start_candidate, one start of a Dispatch at a time: a signal
\* that finds another in flight is dropped.
ReceiveStart(d, rev) ==
    LET h == StartDue(d, rev)
    IN  /\ h \in hints /\ hints' = hints \ {h}
        /\ IF InFlight(d) THEN UNCHANGED <<handler, recovered>>
           ELSE /\ recovered' = recovered \ {h.gen}
                /\ handler' = IF ~Exact(d, rev) THEN handler
                              ELSE [handler EXCEPT ![d] =
                                       [Idle EXCEPT !.rev = rev, !.control = control,
                                            !.step = IF Recovering(h.gen) THEN "recovering" ELSE "read"]]
        /\ UNCHANGED <<taskVars, rows, bindings, turn, cleaning, timers, faultVars>>

\* DeadlineScheduler.register keeps a timer of the same or a later revision.
Registered(g) ==
    IF \E t \in timers : t.dispatch = g.dispatch /\ t.rev >= g.rev THEN timers
    ELSE {t \in timers : t.dispatch # g.dispatch} \cup {g}

\* A signal that is not due yet goes to the scheduler.
DeferStart(d, rev) ==
    LET h == StartLater(d, rev)
    IN  /\ h \in hints /\ hints' = hints \ {h}
        /\ timers' = Registered(h.gen)
        /\ UNCHANGED <<taskVars, rows, memory, faultVars>>

\* Mutant: off by one, only a retry stops the predecessor.
InitialWatchdogRetry(d) == row[d].superseded # None /\ handler[d].rev = 1

\* _is_initial_watchdog_recovery: the very first start of a replacement.
InitialWatchdog(d) == row[d].superseded # None /\ handler[d].rev = 0
StopPredecessorOf(d) ==
    IF InitialWatchdog(d)
    THEN /\ bindings' = {b \in bindings : b.dispatch \notin {row[d].superseded}}
         /\ StopTurn(row[d].superseded)
    ELSE UNCHANGED bindings /\ NoStop

\* A start found by the startup audit is never made: whether the last
\* controller's start was accepted is unknown.
RecoverStart(d) ==
    /\ handler[d].step = "recovering"
    /\ handler' = [handler EXCEPT ![d].step = "failing", ![d].uncertain = TRUE]
    /\ bindings' = {b \in bindings :
                       b.dispatch # d /\ (InitialWatchdog(d) => b.dispatch # row[d].superseded)}
    /\ IF InitialWatchdog(d) THEN StopTurn(row[d].superseded) ELSE NoStop
    /\ UNCHANGED <<taskVars, rows, recovered, cleaning, hints, timers>>

PrepareStart(d) ==
    /\ handler[d].step = "read"
    /\ Goes(d, "prepared")
    /\ bindings' = bindings \cup {Gen(d, handler[d].rev)}
    /\ UNCHANGED <<taskVars, rows, turn, recovered, cleaning, hints, timers, faultVars>>

\* A route or a request that can never start: pause_invalid_provider_start.
InvalidStart(d) ==
    /\ handler[d].step \in {"read", "recovering"}
    /\ Ends(d)
    /\ IF Exact(d, handler[d].rev) /\ control = handler[d].control
       THEN /\ control < MaxControl
            /\ task' = "paused" /\ control' = control + 1
            /\ row' = [e \in Dispatches |-> IF e = d THEN Closed(row[e], "control_failed")
                                            ELSE IF Live(e) THEN Closed(row[e], "paused") ELSE row[e]]
            /\ hints' = hints \cup {Cleanup(e) : e \in {x \in Dispatches \ {d} : Live(x)}}
       ELSE UNCHANGED <<taskVars, row, hints>>
    /\ UNCHANGED <<last, bindings, turn, recovered, cleaning, timers, faultVars>>

StopPredecessor(d) ==
    /\ handler[d].step = "prepared"
    /\ Goes(d, "ready")
    /\ StopPredecessorOf(d)
    /\ UNCHANGED <<taskVars, rows, recovered, cleaning, hints, timers>>

\* Mutant: the binding outlives the failed start.
RevokedNothing(d) == bindings

Revoked(d) == bindings \ {Gen(d, handler[d].rev)}

\* provider_start_is_current, right before the provider is called.
RecheckStart(d) ==
    /\ handler[d].step = "ready"
    /\ IF Exact(d, handler[d].rev) THEN Goes(d, "checked") /\ UNCHANGED bindings
                                   ELSE Ends(d) /\ bindings' = Revoked(d)
    /\ UNCHANGED <<taskVars, rows, turn, recovered, cleaning, hints, timers, faultVars>>

-----------------------------------------------------------------------------
(* The adapter                                                              *)

Fails(d, uncertain) ==
    handler' = [handler EXCEPT ![d].step = "failing", ![d].uncertain = uncertain]

\* _reserve_start: never two turns of one Dispatch at once.
ReserveStart(d) ==
    /\ handler[d].step = "checked"
    /\ IF turn[d].state = "running" THEN Fails(d, TRUE) ELSE Goes(d, "starting")
    /\ UNCHANGED <<taskVars, rows, bindings, turn, recovered, cleaning, hints, timers, faultVars>>

BeginTurn(d) ==
    /\ handler[d].step = "starting" /\ ~HasTurn(d)
    /\ turn' = [turn EXCEPT ![d] = [state |-> "begun", rev |-> handler[d].rev]]
    /\ UNCHANGED <<taskVars, rows, handler, bindings, recovered, cleaning, hints, timers, faultVars>>

RegisterTurn(d) ==
    /\ handler[d].step = "starting" /\ turn[d].state = "begun"
    /\ Goes(d, "accepting")
    /\ turn' = [turn EXCEPT ![d].state = "running"]
    /\ UNCHANGED <<taskVars, rows, bindings, recovered, cleaning, hints, timers, faultVars>>

\* The provider refuses, or the answer to the input is lost: then the client
\* is closed and whether the turn was accepted stays uncertain.
FailStart(d) ==
    /\ handler[d].step \in {"checked", "starting"}
    /\ Fails(d, turn[d].state = "begun")
    /\ turn' = IF turn[d].state = "begun" THEN [turn EXCEPT ![d].state = "none"] ELSE turn
    /\ ProviderFails
    /\ UNCHANGED <<taskVars, rows, bindings, recovered, cleaning, hints, timers>>

\* The turn ends by itself.
EndTurn(d) ==
    /\ turn[d].state = "running"
    /\ turn' = [turn EXCEPT ![d].state = "none"]
    /\ UNCHANGED <<taskVars, rows, handler, bindings, recovered, cleaning, hints, timers, faultVars>>

-----------------------------------------------------------------------------
(* Acceptance and retry                                                     *)

Accepted(d) == row' = [row EXCEPT ![d].status = "open"]

AcceptStart(d) ==
    /\ handler[d].step = "accepting"
    /\ IF Exact(d, handler[d].rev) THEN Accepted(d) /\ Ends(d) /\ UNCHANGED bindings
                                   ELSE Goes(d, "lost") /\ bindings' = Revoked(d) /\ UNCHANGED row
    /\ UNCHANGED <<taskVars, last, turn, recovered, cleaning, hints, timers, faultVars>>

\* Mutant: the lost start ends and its turn goes on.
EndLost(d) ==
    /\ handler[d].step = "lost"
    /\ Ends(d) /\ NoStop
    /\ UNCHANGED <<taskVars, rows, bindings, recovered, cleaning, hints, timers>>

\* A turn whose acceptance lost is stopped.
StopLost(d) ==
    /\ handler[d].step = "lost"
    /\ Ends(d) /\ StopTurn(d)
    /\ UNCHANGED <<taskVars, rows, bindings, recovered, cleaning, hints, timers>>

\* The commit raises and may or may not have happened.
FailAccept(d) ==
    /\ handler[d].step = "accepting"
    /\ Goes(d, "reconciling") /\ ProviderFails
    /\ UNCHANGED row \/ (Exact(d, handler[d].rev) /\ Accepted(d))
    /\ UNCHANGED <<taskVars, last, bindings, turn, recovered, cleaning, hints, timers>>

\* read_provider_start_acceptance_after_commit.
ReconcileStart(d) ==
    /\ handler[d].step = "reconciling"
    /\ IF task = "running" /\ row[d].status = "open" /\ row[d].rev = handler[d].rev
       THEN Ends(d) ELSE Fails(d, TRUE)
    /\ UNCHANGED <<taskVars, rows, bindings, turn, recovered, cleaning, hints, timers, faultVars>>

\* rotate_provider_start_after_failure: the next revision, or too late.
RotateStart(d) ==
    /\ handler[d].step = "failing"
    /\ handler' = [handler EXCEPT ![d].step = "failed", ![d].rotated = Exact(d, handler[d].rev)]
    /\ row' = IF Exact(d, handler[d].rev) THEN [row EXCEPT ![d].rev = @ + 1] ELSE row
    /\ UNCHANGED <<taskVars, last, bindings, turn, recovered, cleaning, hints, timers, faultVars>>

\* The write raises: the binding and the turn go, and no retry is scheduled.
FailRotate(d) ==
    /\ handler[d].step = "failing"
    /\ Ends(d) /\ bindings' = Revoked(d) /\ ControllerFails
    /\ turn' \in IF handler[d].uncertain /\ turn[d].state = "running"
                 THEN {turn, [turn EXCEPT ![d].state = "none"]} ELSE {turn}
    /\ UNCHANGED <<taskVars, rows, recovered, cleaning, hints, timers>>

\* Mutant: the retry names the revision that failed.
FailedSignal(d) == Gen(d, handler[d].rev)

\* _next_retry_signal: the revision that the rotation committed.
NextRetrySignal(d) == Gen(d, handler[d].rev + 1)

\* After the commit: revoke, stop if uncertain, and only then the next timer.
ScheduleRetry(d) ==
    /\ handler[d].step = "failed"
    /\ Ends(d) /\ bindings' = Revoked(d)
    /\ IF handler[d].uncertain THEN StopTurn(d) ELSE NoStop
    /\ timers' = IF handler[d].rotated THEN Registered(NextRetrySignal(d)) ELSE timers
    /\ UNCHANGED <<taskVars, rows, recovered, cleaning, hints>>

\* A read or a write of the handler raises; what it did before stays done.
FailHandler(d) ==
    /\ handler[d].step \in {"read", "recovering", "prepared", "ready", "reconciling"}
    /\ Ends(d) /\ ControllerFails
    /\ UNCHANGED <<taskVars, rows, bindings, turn, recovered, cleaning, hints, timers>>

FireTimer(g) ==
    /\ g \in timers /\ timers' = timers \ {g}
    /\ hints' = hints \cup {StartDue(g.dispatch, g.rev)}
    /\ UNCHANGED <<taskVars, rows, memory, faultVars>>

-----------------------------------------------------------------------------
(* Cleanup                                                                  *)

RevokeClosed(d) ==
    /\ Cleanup(d) \in hints /\ hints' = hints \ {Cleanup(d)}
    /\ bindings' = IF row[d].status = "closed" THEN {b \in bindings : b.dispatch # d} ELSE bindings
    /\ cleaning' = cleaning \cup {d}
    /\ UNCHANGED <<taskVars, rows, handler, turn, recovered, timers, faultVars>>

StopClosed(d) ==
    /\ d \in cleaning /\ cleaning' = cleaning \ {d}
    /\ IF row[d].status = "closed" /\ row[d].reason \in StopReasons THEN StopTurn(d) ELSE NoStop
    /\ UNCHANGED <<taskVars, rows, handler, bindings, recovered, hints, timers>>

-----------------------------------------------------------------------------
(* What closes and opens Dispatches                                         *)

\* A binding's call is obeyed for the row's own generation, accepted or not:
\* here one that closes the Dispatch.
MayCall(d) ==
    /\ HasTurn(d) /\ Gen(d, turn[d].rev) \in bindings
    /\ task = "running" /\ Live(d) /\ row[d].rev = turn[d].rev

NodeCloses(d) ==
    /\ MayCall(d)
    /\ row' = [row EXCEPT ![d] = Closed(@, "boundary")]
    /\ UNCHANGED <<taskVars, last, memory, hints, timers, faultVars>>

\* The Watchdog replaces an open Dispatch that shows no activity.
WatchdogReplace(d, e) ==
    /\ task = "running" /\ row[d].status = "open" /\ row[e].status = "unused"
    /\ row' = [row EXCEPT ![d] = Closed(@, "watchdog_superseded"), ![e] = Opened(d)]
    /\ last' = [a \in Attempts |-> IF last[a] = d THEN e ELSE last[a]]
    /\ hints' = hints \cup {Cleanup(d), StartDue(e, 0)}
    /\ UNCHANGED <<taskVars, memory, timers, faultVars>>

StopTask(status, reason) ==
    /\ control < MaxControl
    /\ task' = status /\ control' = control + 1
    /\ CloseLive(reason)
    /\ hints' = hints \cup {Cleanup(d) : d \in {x \in Dispatches : Live(x)}}
    /\ UNCHANGED <<last, memory, timers, faultVars>>

PauseTask == task = "running" /\ StopTask("paused", "paused")
CancelTask == task \in {"running", "paused"} /\ StopTask("cancelled", "cancelled")

\* The lanes that a pause left without a Dispatch get their successors.
ResumeTask ==
    /\ task = "paused" /\ control < MaxControl
    /\ task' = "running" /\ control' = control + 1
    /\ LET idle == {a \in Attempts : row[last[a]].reason \in {"paused", "control_failed"}}
       IN  \E next \in [idle -> {d \in Dispatches : row[d].status = "unused"}] :
              /\ \A a, b \in idle : next[a] = next[b] => a = b
              /\ last' = [a \in Attempts |-> IF a \in idle THEN next[a] ELSE last[a]]
              /\ row' = [d \in Dispatches |-> IF \E a \in idle : next[a] = d THEN Opened(None)
                                              ELSE row[d]]
              /\ hints' = hints \cup {StartDue(next[a], 0) : a \in idle}
    /\ UNCHANGED <<memory, timers, faultVars>>

-----------------------------------------------------------------------------
(* Lost hints and restart                                                   *)

LoseHint(h) ==
    /\ h \in hints /\ hints' = hints \ {h}
    /\ ControllerFails
    /\ UNCHANGED <<taskVars, rows, memory, timers>>

\* The lifespan revokes every binding and disconnects every client; the audit
\* of the next one publishes and marks each current starting Dispatch.
Startable == {d \in Dispatches : row[d].status = "starting" /\ task = "running"}
Restart ==
    /\ restarts < MaxRestarts /\ restarts' = restarts + 1
    /\ lossy' = FALSE
    /\ handler' = [d \in Dispatches |-> Idle]
    /\ turn' = [d \in Dispatches |-> [turn[d] EXCEPT !.state = "none"]]
    /\ bindings' = {} /\ cleaning' = {} /\ timers' = {}
    /\ \E later \in SUBSET {d \in Startable : row[d].rev > 0} :
          hints' = {StartDue(d, row[d].rev) : d \in Startable \ later}
                     \cup {StartLater(d, row[d].rev) : d \in later}
    /\ recovered' = {Gen(d, row[d].rev) : d \in Startable}
    /\ UNCHANGED <<taskVars, rows, faults>>

-----------------------------------------------------------------------------
First == CHOOSE f \in [Attempts -> Dispatches] : \A a, b \in Attempts : f[a] = f[b] => a = b

\* Every Attempt has just opened its first Dispatch.
Init ==
    /\ task = "running" /\ control = 1
    /\ last = First
    /\ row = [d \in Dispatches |->
                 [Opened(None) EXCEPT !.status = IF \E a \in Attempts : First[a] = d
                                                 THEN "starting" ELSE "unused"]]
    /\ handler = [d \in Dispatches |-> Idle]
    /\ turn = [d \in Dispatches |-> [state |-> "none", rev |-> -1]]
    /\ bindings = {} /\ cleaning = {} /\ timers = {} /\ recovered = {}
    /\ hints = {StartDue(First[a], 0) : a \in Attempts}
    /\ faults = 0 /\ restarts = 0 /\ lossy = FALSE

Signalled(d) == \E h \in hints :
    h.gen.dispatch = d /\ (ReceiveStart(d, h.gen.rev) \/ DeferStart(d, h.gen.rev))

\* The steps the event loop and the provider take on their own.
StarterStep(d) ==
    \/ RecoverStart(d) \/ PrepareStart(d) \/ StopPredecessor(d) \/ RecheckStart(d)
    \/ ReserveStart(d) \/ BeginTurn(d) \/ RegisterTurn(d) \/ AcceptStart(d) \/ StopLost(d)
    \/ ReconcileStart(d) \/ RotateStart(d) \/ ScheduleRetry(d)

StarterFailure(d) ==
    InvalidStart(d) \/ FailStart(d) \/ FailAccept(d) \/ FailRotate(d) \/ FailHandler(d)

CleanupStep(d) == RevokeClosed(d) \/ StopClosed(d)

Next ==
    \/ \E d \in Dispatches :
          \/ Signalled(d) \/ StarterStep(d) \/ StarterFailure(d) \/ CleanupStep(d)
          \/ EndTurn(d) \/ NodeCloses(d)
          \/ \E e \in Dispatches : WatchdogReplace(d, e)
    \/ \E h \in hints : LoseHint(h)
    \/ \E g \in timers : FireTimer(g)
    \/ PauseTask \/ CancelTask \/ ResumeTask \/ Restart

Spec == Init /\ [][Next]_vars

\* Every handler runs, every timer fires and the provider answers a start one
\* way or the other.  Nothing makes a turn end or an operator act.
FairSpec ==
    /\ Spec
    /\ \A d \in Dispatches : WF_vars(Signalled(d)) /\ WF_vars(StarterStep(d)) /\ WF_vars(CleanupStep(d))
    /\ WF_vars(\E g \in timers : FireTimer(g))

-----------------------------------------------------------------------------
(* Properties                                                               *)

TypeOK ==
    /\ task \in {"running", "paused", "cancelled"} /\ control \in Nat
    /\ row \in [Dispatches -> RowType] /\ last \in [Attempts -> Dispatches]
    /\ handler \in [Dispatches -> HandlerType] /\ turn \in [Dispatches -> TurnType]
    /\ bindings \subseteq Generation /\ recovered \subseteq Generation /\ timers \subseteq Generation
    /\ hints \subseteq HintType /\ cleaning \subseteq Dispatches
    /\ faults \in 0..MaxFaults /\ restarts \in 0..MaxRestarts /\ lossy \in BOOLEAN

\* A starting Dispatch of a running Task is never forgotten: its own revision
\* is signalled, timed or in flight, or a failure of this controller lost it
\* (starter.py: the next timer is registered after the cleanup of the failed
\* start, the audit republishes what a restart forgets).
StartIsDriven ==
    \A d \in Dispatches : Exact(d, row[d].rev) =>
        \/ \E h \in hints : h.kind # "DispatchCleanupRequested" /\ h.gen = Gen(d, row[d].rev)
        \/ Gen(d, row[d].rev) \in timers
        \/ InFlight(d) /\ (handler[d].rev = row[d].rev \/ handler[d].rotated)
        \/ lossy

\* The turn of an open Dispatch is the accepted one, and it can call back.
OpenTurnIsAccepted ==
    \A d \in Dispatches : (row[d].status = "open" /\ HasTurn(d)) =>
        turn[d].state = "running" /\ MayCall(d)

\* A turn that lost its Dispatch to the operator, or its generation to a retry,
\* is being stopped: by the cleanup, or by the start that finds it lost.
Doomed(d) ==
    /\ HasTurn(d)
    /\ \/ row[d].status = "closed" /\ row[d].reason \in StopReasons
       \/ row[d].status = "starting" /\ turn[d].rev # row[d].rev
DoomedTurnIsStopped ==
    \A d \in Dispatches : Doomed(d) =>
        Cleanup(d) \in hints \/ d \in cleaning \/ InFlight(d) \/ lossy

\* A Dispatch that the operator or the Watchdog closed keeps no binding: not
\* one issued before the close, nor one issued after it.
ClosedDispatchIsRevoked ==
    \A b \in bindings :
        row[b.dispatch].reason \in {"paused", "cancelled", "watchdog_superseded"} =>
            Cleanup(b.dispatch) \in hints \/ InFlight(b.dispatch) \/ lossy

\* Whatever order an acceptance, a rotation, a pause, a cancellation and the
\* cleanup commit in, a turn that works is the accepted one, and one that
\* should not is on its way to be stopped with its bindings revoked
\* (_record_acceptance, _record_provider_failure, providers/cleanup.py).
TurnsAreAccounted == OpenTurnIsAccepted /\ DoomedTurnIsStopped /\ ClosedDispatchIsRevoked

\* A Watchdog replacement's turn begins only after the turn it replaces was
\* stopped (_stop_watchdog_predecessor), or its stop failed.
PredecessorStopsFirst ==
    \A d \in Dispatches :
        (row[d].superseded # None /\ HasTurn(d)) => ~HasTurn(row[d].superseded) \/ lossy

\* A start revision has one turn: one that failed, or that a restart finds
\* without knowing its outcome, never begins again: the next start is a fresh
\* revision with a fresh binding (_handle_recovered_due, _reserve_start).
OneTurnPerGeneration ==
    [][\A d \in Dispatches : (~HasTurn(d) /\ HasTurn(d)') => turn[d]'.rev > turn[d].rev]_vars

\* A start is settled (accepted, closed, or its Task stops), and a doomed turn
\* does stop, unless this controller failed to.
StartsSettle ==
    \A d \in Dispatches :
        /\ row[d].status = "starting" ~> (row[d].status # "starting" \/ task # "running" \/ lossy)
        /\ Doomed(d) ~> (~Doomed(d) \/ lossy)

\* "Cancel closes live work": no turn of a cancelled Task keeps running
\* (docs/guides/run-and-operate.md; providers/cleanup.py).
CancelStopsEveryTurn ==
    \A d \in Dispatches : (task = "cancelled" /\ HasTurn(d) /\ row[d].reason # "boundary") ~>
        (~HasTurn(d) \/ lossy)
=============================================================================
