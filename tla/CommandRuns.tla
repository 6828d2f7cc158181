----------------------------- MODULE CommandRuns -----------------------------
(***************************************************************************)
(* A Command Run: started by a node in the transaction that suspends its   *)
(* Attempt, launched after the commit by the controller's                  *)
(* CommandProcessOwner, and ended by exactly one of the process's exit,    *)
(* its deadline, a cancellation, a failed launch and the loss of its owner. *)
(*                                                                         *)
(* "run" is the database row; "owner" is the entry of the CommandProcess-  *)
(* Owner's _owned dictionary with the progress of its _launch_owned task,  *)
(* and dies with the controller; "process" is the operating system's       *)
(* process, which a guardian kills when the controller's liveness pipe     *)
(* closes.  Output capture, paths and events are abstracted.               *)
(***************************************************************************)
EXTENDS AttemptLanes

VARIABLES
    run,      \* CommandRun rows
    owner,    \* the owned entries and their launches, in memory
    process   \* the operating system's process of each run

commandVars == <<run, owner, process>>

RunEnds == {"succeeded", "failed", "timed_out", "cancelled", "abandoned"}
RunState == {"unused", "pending_start", "running", "cancellation_requested"} \cup RunEnds
Cause == {"none", "cancelled", "timed_out", "launch_failed"}
\* "claiming": the claim is committed and the entry not yet in the dictionary;
\* "unlaunched": launching failed and left the entry without a process.
Phase == {"none", "claiming", "opening", "spawning", "recording", "resolved", "unlaunched"}

RunType == [state : RunState, rev : {0, 1}, attempt : Attempts \cup {None}, successor : Nat]
OwnerType ==
    [phase : Phase, cause : Cause,
     killing : BOOLEAN,                \* a _terminate_owned_process task runs
     reported : BOOLEAN,               \* CommandProcessExited was published
     saw : RunState \cup {"nothing"}]  \* the state the exit handler has read
\* "orphan": the controller that spawned it is gone.
ProcessState == {"none", "alive", "orphan", "zero", "nonzero"}

NoOwner == [phase |-> "none", cause |-> "none", killing |-> FALSE, reported |-> FALSE,
            saw |-> "nothing"]

RunEnded(r) == run[r].state \in RunEnds
Exited(r) == process[r] \in {"zero", "nonzero"}
\* _owned holds the run: revision 1 is the only one a claim can give.
Owned(r) == owner[r].phase \notin {"none", "claiming"}

CommandInit ==
    /\ run = [r \in Runs |-> [state |-> "unused", rev |-> 0, attempt |-> None, successor |-> 0]]
    /\ owner = [r \in Runs |-> NoOwner]
    /\ process = [r \in Runs |-> "none"]

-----------------------------------------------------------------------------
(* terminalize_command_run                                                  *)

\* A run whose wait Task cancellation took still takes the late truth of its
\* process: the lane is cancelled and owns nothing.
CancelledOwnerAccepts(r, end) ==
    /\ run[r].state = "cancellation_requested" /\ end \in {"cancelled", "abandoned"}
    /\ task = "cancelled" /\ lane[run[r].attempt].status = "cancelled"
    /\ run[r].successor = 0

Accepts(r, rev, expected, end) ==
    /\ run[r].rev = rev /\ run[r].state \in expected
    /\ WaitingOn(r) # {} \/ CancelledOwnerAccepts(r, end)

\* The transaction when it wins; the caller publishes CommandRunTerminal.
EndRun(r, end) ==
    /\ run' = [run EXCEPT ![r].state = end]
    /\ lane' = WithoutWait(r)

Unfinished == {"pending_start", "running", "cancellation_requested"}

\* Mutants: an end the schema does not know; a cancelled run is cancelled
\* whoever may still hold its process.
UnownedIsLost(r) == "unowned"
UnownedCancelled(r) == IF run[r].state = "cancellation_requested" THEN "cancelled" ELSE "abandoned"

\* abandon_unowned_command_run, and the never-claimed run that is only cancelled.
UnownedEnd(r) ==
    IF run[r].state = "cancellation_requested" /\ run[r].rev = 0 THEN "cancelled" ELSE "abandoned"

EndUnowned(r, h) ==
    IF Accepts(r, run[r].rev, Unfinished, UnownedEnd(r))
    THEN EndRun(r, UnownedEnd(r)) /\ Handled(h, {Hint("CommandRunTerminal", r)})
    ELSE Handled(h, {}) /\ UNCHANGED <<run, lane>>

\* Mutant: the cause is noted and nobody kills the process.
TerminatingQuietly(r, cause) == [owner[r] EXCEPT !.cause = IF @ = "none" THEN cause ELSE @]

\* _request_owned_termination keeps the first cause.
Terminating(r, cause) ==
    [owner[r] EXCEPT !.cause = IF @ = "none" THEN cause ELSE @, !.killing = TRUE]

-----------------------------------------------------------------------------
(* Start and launch                                                         *)

StartCommandRun(a, r) ==
    /\ run[r].state = "unused"
    /\ Suspend(a, r)
    /\ run' = [run EXCEPT ![r].state = "pending_start", ![r].attempt = a]
    /\ hints' = hints \cup {Hint("CommandRunPending", r)}
    /\ UNCHANGED <<owner, process, taskVars, opened, timers, audit, faultVars>>

\* Mutant: recovery launches a run that was running.
MayRelaunch(r) == run[r].state \in {"pending_start", "running"}

MayClaimLaunch(r) == run[r].state = "pending_start" /\ run[r].rev = 0

ClaimLaunch(r) ==
    /\ MayClaimLaunch(r)
    /\ Handled(Hint("CommandRunPending", r), {})
    /\ run' = [run EXCEPT ![r].rev = 1]
    /\ owner' = [owner EXCEPT ![r].phase = "claiming"]
    /\ UNCHANGED <<process, taskVars, laneVars, timers, audit, faultVars>>

\* The commit is awaited before _owned[run_id] is assigned.
TakeOwnership(r) ==
    /\ owner[r].phase = "claiming"
    /\ owner' = [owner EXCEPT ![r].phase = "opening"]
    /\ UNCHANGED <<run, process, taskVars, laneVars, postCommit>>

RecoverUnowned(r) ==
    /\ ~MayClaimLaunch(r)
    /\ LET h == Hint("CommandRunPending", r)
       IN IF RunEnded(r) \/ (Owned(r) /\ run[r].rev = 1)
          THEN Handled(h, {}) /\ UNCHANGED <<run, lane>>
          ELSE EndUnowned(r, h)
    /\ UNCHANGED <<owner, process, taskVars, opened, timers, audit, faultVars>>

\* _finish_unlaunched_cancellation, asked before the directory and the output
\* file are opened and again before the process is spawned.
FinishesUnlaunched(r) ==
    owner[r].cause = "cancelled" /\ Accepts(r, 1, {"cancellation_requested"}, "cancelled")

\* The controller ends a run it owns without a process, and forgets it.
EndOwned(r, end) ==
    /\ EndRun(r, end)
    /\ owner' = [owner EXCEPT ![r] = NoOwner]
    /\ hints' = hints \cup {Hint("CommandRunTerminal", r)}

PrepareLaunch(r) ==
    /\ owner[r].phase = "opening"
    /\ IF FinishesUnlaunched(r)
       THEN EndOwned(r, "cancelled")
       ELSE /\ owner' = [owner EXCEPT ![r].phase = "spawning"]
            /\ UNCHANGED <<run, lane, hints>>
    /\ UNCHANGED <<process, taskVars, opened, timers, audit, faultVars>>

SpawnProcess(r) ==
    /\ owner[r].phase = "spawning"
    /\ process' = [process EXCEPT ![r] = "alive"]
    /\ owner' = [owner EXCEPT ![r].phase = "recording"]
    /\ UNCHANGED <<run, taskVars, laneVars, postCommit>>

\* _terminalize_launch_failure: an exception before there is a process.
FailLaunch(r) ==
    /\ owner[r].phase \in {"opening", "spawning"}
    /\ IF Accepts(r, 1, {"pending_start"}, "failed") THEN EndOwned(r, "failed")
       ELSE IF FinishesUnlaunched(r) THEN EndOwned(r, "cancelled")
       ELSE /\ owner' = [owner EXCEPT ![r].phase = "unlaunched"]
            /\ UNCHANGED <<run, lane, hints>>
    /\ UNCHANGED <<process, taskVars, opened, timers, audit, faultVars>>

MayMarkRunning(r) == run[r].state = "pending_start" /\ run[r].rev = 1

\* mark_command_run_running, or the discovery that the row has moved on.
RecordStart(r) ==
    /\ owner[r].phase = "recording"
    /\ IF MayMarkRunning(r)
       THEN /\ run' = [run EXCEPT ![r].state = "running"]
            /\ timers' = IF r \in Timed THEN timers \cup {r} ELSE timers
            /\ owner' = [owner EXCEPT ![r].phase = "resolved",
                                      ![r].killing = @ \/ owner[r].cause # "none"]
       ELSE /\ owner' = [owner EXCEPT ![r] = [Terminating(r, "cancelled") EXCEPT !.phase = "resolved"]]
            /\ UNCHANGED <<run, timers>>
    /\ UNCHANGED <<process, taskVars, laneVars, hints, audit, faultVars>>

\* The write of the running state fails and the child is terminated.
FailRecordStart(r) ==
    /\ owner[r].phase = "recording" /\ Fail
    /\ owner' = [owner EXCEPT ![r] = [Terminating(r, "launch_failed") EXCEPT !.phase = "resolved"]]
    /\ UNCHANGED <<run, process, taskVars, laneVars, hints, timers, audit>>

-----------------------------------------------------------------------------
(* The process and its exit                                                 *)

ExitProcess(r) ==
    /\ process[r] \in {"alive", "orphan"}
    /\ \E code \in {"zero", "nonzero"} : process' = [process EXCEPT ![r] = code]
    /\ UNCHANGED <<run, owner, taskVars, laneVars, postCommit>>

\* _terminate_owned_process, or the guardian of a controller that is gone.
KillProcess(r) ==
    /\ (process[r] = "alive" /\ owner[r].killing) \/ process[r] = "orphan"
    /\ process' = [process EXCEPT ![r] = "nonzero"]
    /\ UNCHANGED <<run, owner, taskVars, laneVars, postCommit>>

\* _supervise_process waits for the exit and for launch_state_resolved.
ReportExit(r) ==
    /\ Exited(r) /\ owner[r].phase = "resolved" /\ ~owner[r].reported
    /\ owner' = [owner EXCEPT ![r].reported = TRUE]
    /\ hints' = hints \cup {OwnedHint("CommandProcessExited", r, 1)}
    /\ UNCHANGED <<run, process, taskVars, laneVars, timers, audit, faultVars>>

\* record_command_process_exit reads the row, classifies the exit by what it
\* read, and commits later.
ReadExit(r) ==
    /\ Handled(OwnedHint("CommandProcessExited", r, 1), {})
    /\ owner' = IF Owned(r) THEN [owner EXCEPT ![r].saw = run[r].state] ELSE owner
    /\ UNCHANGED <<run, process, taskVars, laneVars, timers, audit, faultVars>>

\* classify_command_process_exit: the end it records and the states it expects.
ExitEnd(saw, cause, code) ==
    IF cause = "cancelled" \/ saw = "cancellation_requested" THEN "cancelled"
    ELSE IF cause = "timed_out" THEN "timed_out"
    ELSE IF cause = "launch_failed" THEN "failed"
    ELSE IF code = "zero" THEN "succeeded" ELSE "failed"
ExitExpects(saw, cause) ==
    IF cause = "cancelled" \/ saw = "cancellation_requested" THEN {"cancellation_requested"}
    ELSE IF cause = "launch_failed" THEN {"pending_start", "running"}
    ELSE {"running"}

\* The owner forgets the run whether or not it won.
RecordExit(r) ==
    LET end == ExitEnd(owner[r].saw, owner[r].cause, process[r])
    IN  /\ owner[r].saw # "nothing"
        /\ IF Accepts(r, 1, ExitExpects(owner[r].saw, owner[r].cause), end)
           THEN EndOwned(r, end)
           ELSE /\ owner' = [owner EXCEPT ![r] = NoOwner]
                /\ UNCHANGED <<run, lane, hints>>
        /\ UNCHANGED <<process, taskVars, opened, timers, audit, faultVars>>

\* On SQLite a write after a stale read raises instead: the hint is lost and
\* the entry stays.
FailRecordExit(r) ==
    /\ owner[r].saw \notin {"nothing", run[r].state}
    /\ owner' = [owner EXCEPT ![r].saw = "nothing"]
    /\ UNCHANGED <<run, process, taskVars, laneVars, postCommit>>

-----------------------------------------------------------------------------
(* Deadline and cancellation                                                *)

EnforceCommandDeadline(r) ==
    LET h == Hint("CommandRunDue", r)
    IN  /\ IF run[r].state # "running" THEN Handled(h, {}) /\ UNCHANGED <<run, lane, owner>>
           ELSE IF Owned(r)
           THEN /\ owner' = [owner EXCEPT ![r] = Terminating(r, "timed_out")]
                /\ Handled(h, {}) /\ UNCHANGED <<run, lane>>
           ELSE EndUnowned(r, h) /\ UNCHANGED owner
        /\ UNCHANGED <<process, taskVars, opened, timers, audit, faultVars>>

Cancellable(r) == run[r].state \in {"pending_start", "running"}

RequestRunCancellation(r) ==
    /\ Cancellable(r) /\ WaitingOn(r) # {} /\ task \in {"running", "paused"}
    /\ run' = [run EXCEPT ![r].state = "cancellation_requested"]
    /\ hints' = hints \cup {OwnedHint("CommandRunCancellationRequested", r, run[r].rev)}
    /\ UNCHANGED <<owner, process, taskVars, laneVars, timers, audit, faultVars>>

TerminateCancelled(r) ==
    \E rev \in {0, 1} :
        LET h == OwnedHint("CommandRunCancellationRequested", r, rev)
        IN  /\ IF run[r].state # "cancellation_requested" \/ run[r].rev # rev
               THEN Handled(h, {}) /\ UNCHANGED <<run, lane, owner>>
               ELSE IF Owned(r)
               THEN /\ owner' = [owner EXCEPT ![r] = Terminating(r, "cancelled")]
                    /\ Handled(h, {}) /\ UNCHANGED <<run, lane>>
               ELSE EndUnowned(r, h) /\ UNCHANGED owner
            /\ UNCHANGED <<process, taskVars, opened, timers, audit, faultVars>>

\* What the Task's cancellation does to the runs its lanes wait for, and the
\* hints it publishes for them.
WaitedRuns == {r \in Runs : WaitingOn(r) # {}}
CancelCommandWaits ==
    run' = [r \in Runs |-> IF r \in WaitedRuns /\ Cancellable(r)
                           THEN [run[r] EXCEPT !.state = "cancellation_requested"] ELSE run[r]]
\* Mutant: only the runs not yet launched are told.
CancelHintsOfPending ==
    {OwnedHint("CommandRunCancellationRequested", r, 0) : r \in {x \in WaitedRuns : run[x].rev = 0}}

CommandCancelHints ==
    {OwnedHint("CommandRunCancellationRequested", r, run[r].rev) : r \in WaitedRuns}
=============================================================================
