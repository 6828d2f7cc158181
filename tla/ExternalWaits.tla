---------------------------- MODULE ExternalWaits ----------------------------
(***************************************************************************)
(* Human Requests and Command Runs together, on the Attempts of one Task:  *)
(* the handler that opens the successor of an ended source, the operator's *)
(* pause, resume and cancel over every lane, and the restart with the      *)
(* startup audit that finds what a lost hint left behind.                  *)
(***************************************************************************)
EXTENDS HumanRequests, CommandRuns

vars == <<taskVars, laneVars, postCommit, request, commandVars>>

AttemptOf(s) == IF s \in Requests THEN request[s].attempt ELSE run[s].attempt
Ended(s) == IF s \in Requests THEN RequestEnded(s) ELSE RunEnded(s)
Successor(s) == IF s \in Requests THEN request[s].successor ELSE run[s].successor
Used(s) == AttemptOf(s) # None

Unconsumed(s) == Ended(s) /\ Successor(s) = 0

TerminalHint(s) ==
    Hint(IF s \in Requests THEN "HumanRequestTerminal" ELSE "CommandRunTerminal", s)

-----------------------------------------------------------------------------
(* Continuation                                                             *)

\* claim_*_continuation: the successor's number goes on each source in S.
ClaimSources(S) ==
    /\ request' = [q \in Requests |-> IF q \in S
                      THEN [request[q] EXCEPT !.successor = Len(opened[request[q].attempt]) + 1]
                      ELSE request[q]]
    /\ run' = [r \in Runs |-> IF r \in S
                  THEN [run[r] EXCEPT !.successor = Len(opened[run[r].attempt]) + 1]
                  ELSE run[r]]

\* The terminal handler drops the source's timer before it looks at the source.
TerminalHandled(s) == Handled(TerminalHint(s), {}) /\ timers' = timers \ {s}

\* Mutant: the source may have been consumed by a resume.
ContinuableAgain(s) == Ended(s) /\ task = "running" /\ Between(AttemptOf(s))

SourceContinuable(s) == Used(s) /\ Unconsumed(s) /\ task = "running" /\ Between(AttemptOf(s))

OpenSuccessor(s) ==
    /\ SourceContinuable(s)
    /\ TerminalHandled(s)
    /\ WithDispatches({AttemptOf(s)}, [a \in {AttemptOf(s)} |-> s])
    /\ ClaimSources({s})
    /\ UNCHANGED <<owner, process, taskVars, audit, faultVars>>

\* Preparing or opening failed: pause_failed_*_continuation.
FailSuccessor(s) ==
    /\ SourceContinuable(s)
    /\ TerminalHandled(s)
    /\ PauseLanes
    /\ UNCHANGED <<opened, request, commandVars, audit, faultVars>>

SkipSuccessor(s) ==
    /\ ~SourceContinuable(s)
    /\ TerminalHandled(s)
    /\ UNCHANGED <<taskVars, laneVars, request, commandVars, audit, faultVars>>

-----------------------------------------------------------------------------
(* Task control                                                             *)

\* The startup audit runs before the controller serves a request.
Families ==
    <<"open_human_request", "terminal_human_request", "terminal_command_run",
      "pending_command_run", "running_command_run", "cancellation_requested_command_run">>
Serving == audit = Len(Families)

PauseTask ==
    /\ PauseLanes
    /\ UNCHANGED <<opened, request, commandVars, hints, timers, audit, faultVars>>

\* The one source of a lane between Dispatches: an ended wait nobody has
\* continued, or else the Dispatch that the pause closed.
ContinueSources(a) == {s \in Sources : Unconsumed(s) /\ AttemptOf(s) = a}
ContinueOrigin(a) ==
    IF ContinueSources(a) = {} THEN "resume" ELSE CHOOSE s \in ContinueSources(a) : TRUE

ResumeTask ==
    /\ task = "paused" /\ control < MaxControl
    /\ \A a \in Attempts : Cardinality(ContinueSources(a)) <= 1
    /\ task' = "running" /\ control' = control + 1
    /\ LET idle == {a \in Attempts : Between(a)}
       IN  /\ WithDispatches(idle, [a \in idle |-> ContinueOrigin(a)])
           /\ ClaimSources({s \in Sources : Used(s) /\ AttemptOf(s) \in idle /\ Unconsumed(s)})
    /\ UNCHANGED <<owner, process, postCommit>>

CancelTask ==
    /\ task \in {"running", "paused"} /\ control < MaxControl
    /\ task' = "cancelled" /\ control' = control + 1
    /\ CancelHumanWaits /\ CancelCommandWaits
    /\ lane' = [a \in Attempts |-> [status |-> "cancelled", dispatch |-> 0, wait |-> None]]
    /\ hints' = hints \cup CommandCancelHints
                      \cup {TerminalHint(q) : q \in {x \in Requests : WaitingOn(x) # {}}}
    /\ UNCHANGED <<opened, owner, process, timers, audit, faultVars>>

-----------------------------------------------------------------------------
(* Timers, lost hints, restart and the startup audit                        *)

\* The timer of one source fires once and leaves the registry.
FireTimer(s) ==
    /\ s \in timers
    /\ timers' = timers \ {s}
    /\ hints' = hints \cup {Hint(IF s \in Requests THEN "HumanRequestDue" ELSE "CommandRunDue", s)}
    /\ UNCHANGED <<taskVars, laneVars, request, commandVars, audit, faultVars>>

\* The queue is full or the handler raises before it changes anything.
LoseHint(h) ==
    /\ h \in hints /\ Fail
    /\ hints' = hints \ {h}
    /\ UNCHANGED <<taskVars, laneVars, request, commandVars, timers, audit>>

\* The controller stops and starts: everything in memory is gone.
Restart ==
    /\ restarts < MaxRestarts /\ restarts' = restarts + 1
    /\ lossy' = FALSE /\ audit' = 0 /\ hints' = {} /\ timers' = {}
    /\ owner' = [r \in Runs |-> NoOwner]
    /\ process' = [r \in Runs |-> IF process[r] = "alive" THEN "orphan" ELSE process[r]]
    /\ UNCHANGED <<taskVars, laneVars, request, run, faults>>

\* The Attempt side of every page: the exact current wait, or nothing at all.
\* Mutants: the audit reads only a running Task's rows.
WaitOfRunningTask(s) == task = "running" /\ WaitingOn(s) # {}
IdleInRunningTask(s) == task = "running" /\ Used(s) /\ Between(AttemptOf(s))

WaitIsCurrent(s) == WaitingOn(s) # {}
LaneIsIdle(s) == Used(s) /\ Between(AttemptOf(s))

Page(family) ==
    CASE family = "open_human_request" ->
             {Hint("HumanRequestOpened", q) : q \in {x \in Requests :
                 request[x].status = "open" /\ WaitIsCurrent(x)}}
      [] family = "terminal_human_request" ->
             {TerminalHint(q) : q \in {x \in Requests : Unconsumed(x) /\ LaneIsIdle(x)}}
      [] family = "terminal_command_run" ->
             {TerminalHint(r) : r \in {x \in Runs : Unconsumed(x) /\ LaneIsIdle(x)}}
      [] family = "pending_command_run" ->
             {Hint("CommandRunPending", r) : r \in {x \in Runs :
                 run[x].state = "pending_start" /\ WaitIsCurrent(x)}}
      [] family = "running_command_run" ->
             {Hint("CommandRunPending", r) : r \in {x \in Runs :
                 run[x].state = "running" /\ WaitIsCurrent(x)}}
      [] family = "cancellation_requested_command_run" ->
             {OwnedHint("CommandRunCancellationRequested", r, run[r].rev) : r \in {x \in Runs :
                 run[x].state = "cancellation_requested"}}

\* Handlers already run while the next family is read.
AuditPage ==
    /\ ~Serving
    /\ audit' = audit + 1
    /\ hints' = hints \cup Page(Families[audit + 1])
    /\ UNCHANGED <<taskVars, laneVars, request, commandVars, timers, faultVars>>

-----------------------------------------------------------------------------
Init == LanesInit /\ HumanInit /\ CommandInit /\ audit = Len(Families)

Human ==
    Serving /\ \E q \in Requests :
        /\ \/ \E a \in Attempts : OpenHumanRequest(a, q)
           \/ AnswerHumanRequest(q)
        /\ UNCHANGED commandVars

Command ==
    Serving /\ \E r \in Runs :
        /\ \/ \E a \in Attempts : StartCommandRun(a, r)
           \/ RequestRunCancellation(r)
        /\ UNCHANGED request

Control == Serving /\ (PauseTask \/ ResumeTask \/ CancelTask)

HumanHandler(q) ==
    /\ RegisterHumanDeadline(q) \/ ExpireHumanRequest(q)
    /\ UNCHANGED commandVars

CommandHandler(r) ==
    /\ \/ ClaimLaunch(r) \/ RecoverUnowned(r) \/ ReadExit(r)
       \/ EnforceCommandDeadline(r) \/ TerminateCancelled(r)
    /\ UNCHANGED request

\* The coroutines of the process owner, past the handler that began them.
OwnerTask(r) ==
    /\ \/ TakeOwnership(r) \/ PrepareLaunch(r) \/ SpawnProcess(r) \/ RecordStart(r)
       \/ KillProcess(r) \/ ReportExit(r) \/ RecordExit(r)
    /\ UNCHANGED request

OwnerFailure(r) ==
    /\ FailLaunch(r) \/ FailRecordStart(r) \/ FailRecordExit(r) \/ ExitProcess(r)
    /\ UNCHANGED request

Continuation(s) == OpenSuccessor(s) \/ FailSuccessor(s) \/ SkipSuccessor(s)

Failure == Restart \/ \E h \in hints : LoseHint(h)

Next ==
    \/ Human \/ Command \/ Control \/ AuditPage \/ Failure
    \/ \E q \in Requests : HumanHandler(q)
    \/ \E r \in Runs : CommandHandler(r) \/ OwnerTask(r) \/ OwnerFailure(r)
    \/ \E s \in Sources : Continuation(s) \/ FireTimer(s)

Spec == Init /\ [][Next]_vars

\* The event loop runs every coroutine, handler and timer it holds, and the
\* startup audit reads every page.  Nothing makes a person answer, a command
\* exit, or an operator resume.
FairSpec ==
    /\ Spec
    /\ WF_vars(AuditPage)
    /\ \A q \in Requests : WF_vars(HumanHandler(q))
    /\ \A r \in Runs : WF_vars(CommandHandler(r)) /\ WF_vars(OwnerTask(r))
    /\ \A s \in Sources : WF_vars(Continuation(s)) /\ WF_vars(FireTimer(s))

-----------------------------------------------------------------------------
(* Safety                                                                   *)

TypeOK ==
    /\ LanesTypeOK /\ audit \in 0..Len(Families)
    /\ request \in [Requests -> RequestType]
    /\ run \in [Runs -> RunType]
    /\ owner \in [Runs -> OwnerType] /\ process \in [Runs -> ProcessState]

\* An Attempt waits exactly for the source that is open on it: ending a source
\* takes its own wait, and a source whose wait is gone has ended, except the
\* command of a cancelled Task whose process is still being stopped.
WaitMatchesSource ==
    \A a \in Attempts, s \in Sources :
        lane[a].wait = s <=>
            /\ Used(s) /\ AttemptOf(s) = a /\ ~Ended(s)
            /\ task # "cancelled"

\* A wait is consumed by one Dispatch of its own Attempt and by no other, and
\* the source names it; nothing opens for a source that has not ended.
OneSuccessorPerWait ==
    \A s \in Sources, a \in Attempts :
        LET for == {n \in DOMAIN opened[a] : opened[a][n] = s}
        IN  /\ for = IF Used(s) /\ AttemptOf(s) = a /\ Successor(s) # 0 THEN {Successor(s)} ELSE {}
            /\ for # {} => Ended(s)

\* An ended wait is never lost: until its successor opens, its lane owns
\* nothing else and the lane has no second source to choose from.
EndedWaitKeepsItsLane ==
    \A s \in Sources : (Used(s) /\ Unconsumed(s) /\ task # "cancelled") =>
        /\ Between(AttemptOf(s))
        /\ ContinueSources(AttemptOf(s)) = {s}

\* Whatever order an answer, a deadline, an exit, a cancellation and the
\* operator's control commit in, source, wait and lane agree and each ended
\* wait is worth exactly one Dispatch (terminalize_command_run,
\* persist_human_request_resolution, claim_*_continuation).
WaitsAreExact == WaitMatchesSource /\ OneSuccessorPerWait /\ EndedWaitKeepsItsLane

\* "A lost in-memory signal is therefore recoverable from committed source
\* truth": whatever is unfinished is on a page of the startup audit.
Pages == UNION {Page(Families[i]) : i \in DOMAIN Families}
StartupFindsEverySource ==
    \A s \in Sources : (Used(s) /\ (~Ended(s) \/ (Successor(s) = 0 /\ task # "cancelled"))) =>
        \E h \in Pages : h.source = s

\* The CommandProcessOwner never forgets a process of its own that still runs,
\* and a run that ended before its process (its cancellation or its owner's
\* loss won) leaves it being killed, or a launch that is about to find out.
ProcessesAreOwned ==
    \A r \in Runs : process[r] = "alive" =>
        /\ Owned(r)
        /\ RunEnded(r) => owner[r].killing \/ owner[r].phase = "recording"

\* The recorded end is what happened: success only for a command that exited
\* with zero, a deadline only for a run that had one, and no end at all for a
\* process the owner has not seen exit unless the ownership was lost or the
\* process was never started.
EndingIsTruthful ==
    \A r \in Runs :
        /\ run[r].state = "succeeded" => process[r] = "zero"
        /\ run[r].state = "timed_out" => Exited(r) /\ r \in Timed
        /\ run[r].state \in {"cancelled", "failed"} => process[r] = "none" \/ Exited(r)

Safety ==
    TypeOK /\ WaitsAreExact /\ StartupFindsEverySource /\ ProcessesAreOwned /\ EndingIsTruthful

-----------------------------------------------------------------------------
(* Steps                                                                    *)

\* "Commit one exact terminal winner" (docs-internal/architecture/runtime.md):
\* an end is never replaced by another, a successor is never replaced or opened
\* after the Task was cancelled, and recovery never launches a command again.
EndIsFinal ==
    [][/\ \A q \in Requests : RequestEnded(q) => request'[q].status = request[q].status
       /\ \A r \in Runs : RunEnded(r) => run'[r].state = run[r].state
       /\ \A s \in Sources : (Successor(s) # 0 \/ task = "cancelled") => Successor(s)' = Successor(s)
       /\ \A r \in Runs : process[r] # "none" => process'[r] \in {process[r], "orphan", "zero", "nonzero"}
       /\ \A r \in Runs : Exited(r) => process'[r] = process[r]]_vars

-----------------------------------------------------------------------------
(* Liveness                                                                 *)

\* A source with a deadline does not keep its Attempt waiting: the request
\* ends, and the run ends or somebody asked for its cancellation; and the
\* Attempt of an ended source works again unless the Task stops first.  A
\* controller that loses a hint may forget the source, until it restarts.
WaitsEnd ==
    \A s \in Sources :
        /\ (s \in Timed /\ Used(s) /\ ~Ended(s)) ~>
              (Ended(s) \/ (s \in Runs /\ run[s].state = "cancellation_requested") \/ lossy)
        /\ (Used(s) /\ Unconsumed(s)) ~> (Successor(s) # 0 \/ task # "running" \/ lossy)

\* "Cancel ... terminate[s] the owned family": once cancellation is requested no
\* process of the run stays alive.
CancelledProcessStops ==
    \A r \in Runs : (run[r].state = "cancellation_requested") ~>
        (process[r] \notin {"alive", "orphan"} \/ lossy)

\* A Command Run "waits for its terminal state" (docs/concepts/
\* runtime-and-results.md): a requested cancellation reaches its end.
CancelledRunEnds ==
    \A r \in Runs : (run[r].state = "cancellation_requested") ~> (Ended(r) \/ lossy)
=============================================================================
