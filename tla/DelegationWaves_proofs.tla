----------------------- MODULE DelegationWaves_proofs -----------------------
(***************************************************************************)
(* WInv, the invariant of the Waves and the lanes they hold, is inductive  *)
(* under IInv.  It gives the ownership of every lane, the agreement of a   *)
(* Wave with its children, the history and the quiet end of a Task, and    *)
(* that every step of DelegationRuntime is a step of FanOutFanIn.          *)
(***************************************************************************)
EXTENDS DelegationFanOut, DelegationRuntime_proofs

-----------------------------------------------------------------------------
(* The inductive invariant of the Waves                                     *)

\* A Wave belongs to a Dispatch that delegation closed, has members, and is
\* joined only when they returned and cancelled only with its Task.
WavesAreDelegations ==
    \A w \in DOMAIN wave :
        /\ dispatch[w].status = "closed"
        /\ dispatch[w].reason = "delegation"
        /\ DOMAIN wave[w].member # {}
        /\ wave[w].succ # None => wave[w].status = "settled"
        /\ wave[w].status = "settled" => AllReturned(w)
        /\ wave[w].status = "open" => attempt[dispatch[w].attempt].wait = w
        /\ wave[w].status = "cancelled" => taskStatus = "cancelled"

\* A child Assignment is a member of the Wave of its source and of no other.
MembersHaveSource ==
    /\ \A w \in DOMAIN wave : \A c \in DOMAIN wave[w].member :
        c \in DOMAIN assignment /\ assignment[c].source = w
    /\ \A i \in DOMAIN assignment : assignment[i].source # None => assignment[i].source \in DOMAIN wave
    /\ <<Root, 1>> \in DOMAIN assignment

\* Only a closed Dispatch has a successor or a boundary.
ClosedBehind ==
    /\ \A x \in DOMAIN dispatch : dispatch[x].pred # None => dispatch[dispatch[x].pred].status = "closed"
    /\ \A b \in DOMAIN boundary : dispatch[b].status = "closed"

\* An open Assignment is served by the running Attempt it points at.
OpenIsServed ==
    taskStatus # "cancelled" =>
        \A i \in DOMAIN assignment : assignment[i].outcome = "open" =>
            /\ assignment[i].attempt \in DOMAIN attempt
            /\ attempt[assignment[i].attempt].status = "running"
            /\ attempt[assignment[i].attempt].assignment = i

\* The lane of an Attempt in rows: an ended one has nothing, a driven or
\* waiting one has no source, and an idle one has exactly one.
LanesAreOwned ==
    taskStatus # "cancelled" =>
        \A a \in DOMAIN attempt :
            /\ attempt[a].status # "running" => attempt[a].wait = None
            /\ attempt[a].wait # None =>
                /\ attempt[a].wait \in DOMAIN wave
                /\ dispatch[attempt[a].wait].attempt = a
                /\ wave[attempt[a].wait].status = "open"
            /\ attempt[a].status # "running" \/ attempt[a].dispatch # None \/ attempt[a].wait # None =>
                SourcesOf(a) = {}
            /\ LaneIdle(a) => \E s \in ContinueSources : SourcesOf(a) = {s}

\* A plan of the present control revision still lists every source.
PlansAreExact ==
    \A p \in resuming :
        /\ p.control \in Nat /\ p.control <= controlRevision
        /\ p.control = controlRevision => taskStatus = "paused" /\ p.sources = ContinueSources

\* Nothing stopped by control waits in a running Task.
RunningHasNoTail == taskStatus = "running" => ClosedTails = {}

WInv ==
    /\ WavesAreDelegations
    /\ MembersHaveSource
    /\ ClosedBehind
    /\ OneSuccessorPerSource
    /\ OpenIsServed
    /\ LanesAreOwned
    /\ WaveMatchesChildren
    /\ PlansAreExact
    /\ RunningHasNoTail
    /\ FinishedTaskIsQuiet

-----------------------------------------------------------------------------
(* Sources                                                                  *)

\* A Dispatch that control stopped and nothing continued.
StoppedTail(x) ==
    /\ dispatch[x].status = "closed"
    /\ dispatch[x].reason \in {"paused", "control_failed"}
    /\ \A y \in DOMAIN dispatch : dispatch[y].pred # x

LEMMA SourceRows ==
    ASSUME IInv, NEW x
    PROVE  /\ x \in WaveSources <=> x \in DOMAIN wave /\ wave[x].status = "settled" /\ wave[x].succ = None
           /\ x \in ClosedTails <=> x \in DOMAIN dispatch /\ StoppedTail(x)
           /\ x \in ContinueSources <=> x \in WaveSources \/ x \in ClosedTails
           /\ x \in ContinueSources => x \in DOMAIN dispatch
<1>1. DOMAIN wave \subseteq DOMAIN dispatch
    BY DEF IInv, TypeOK, KeysOK
<1>2. QED
    BY <1>1 DEF ContinueSources, WaveSources, Unconsumed, ClosedTails, StoppedTail

LEMMA SourcesOfRows ==
    ASSUME NEW a
    PROVE  /\ SourcesOf(a) = {} <=> \A x \in ContinueSources : dispatch[x].attempt # a
           /\ \A s \in ContinueSources :
                SourcesOf(a) = {s} <=>
                    /\ dispatch[s].attempt = a
                    /\ \A x \in ContinueSources : dispatch[x].attempt = a => x = s
BY DEF SourcesOf

\* A Wave row has its columns.
LEMMA WaveFacts ==
    ASSUME IInv, NEW w \in DOMAIN wave
    PROVE  /\ w \in DOMAIN dispatch /\ w \in DispatchId /\ w # None
           /\ dispatch[w].attempt \in DOMAIN attempt
           /\ wave[w].status \in {"open", "settled", "cancelled"}
           /\ wave[w].succ \in DispatchId \cup {None}
           /\ wave[w] = [status |-> wave[w].status, member |-> wave[w].member, succ |-> wave[w].succ]
           /\ wave[w].member \in [DOMAIN wave[w].member -> {"pending", "settled", "cancelled"}]
<1>1. w \in DOMAIN dispatch
    BY DEF IInv, TypeOK, KeysOK
<1>2. wave[w] \in WaveRowOf(DOMAIN wave[w].member)
    BY DEF IInv, TypeOK, WaveTypeOK
<1>3. QED
    BY <1>1, <1>2, DispatchFacts DEF WaveRowOf

\* The lane of an Attempt that a live Dispatch drives.
LEMMA DrivenLane ==
    ASSUME IInv, NEW d \in DOMAIN dispatch, Live(d)
    PROVE  /\ taskStatus = "running"
           /\ dispatch[d].attempt \in DOMAIN attempt
           /\ attempt[dispatch[d].attempt].status = "running"
           /\ attempt[dispatch[d].attempt].dispatch = d
           /\ attempt[dispatch[d].attempt].wait = None
           /\ d # None
<1>1. d # None /\ dispatch[d].attempt \in DOMAIN attempt
    BY DispatchFacts
<1>2. QED
    BY <1>1 DEF IInv, LiveDispatchIsCurrent, RunningIsCurrent, RunningAttempts

\* A row that is not live is closed.
LEMMA LiveOrClosed ==
    ASSUME IInv, NEW d \in DOMAIN dispatch
    PROVE  Live(d) <=> dispatch[d].status # "closed"
BY DispatchFacts DEF DispatchRow, Live

-----------------------------------------------------------------------------
(* The initial state, and steps that leave every row alone                  *)

LEMMA InitWInv == Init => WInv
<1> SUFFICES ASSUME Init PROVE WInv
    OBVIOUS
<1> DEFINE r == <<Root, 1>>
<1>1. r # None
    BY TeamAssumption, NoneAssumption DEF DispatchId
<1>2. /\ DOMAIN dispatch = {r} /\ DOMAIN attempt = {r} /\ DOMAIN assignment = {r}
      /\ DOMAIN wave = {} /\ DOMAIN boundary = {} /\ resuming = {} /\ taskStatus = "running"
      /\ dispatch[r].status = "starting" /\ dispatch[r].pred = None /\ dispatch[r].attempt = r
      /\ attempt[r].status = "running" /\ attempt[r].wait = None /\ attempt[r].dispatch = r
      /\ attempt[r].assignment = r
      /\ assignment[r].attempt = r /\ assignment[r].source = None
    BY DEF Init, NewDispatch, NewAttempt, NewAssignment
<1> HIDE DEF r
<1>3. WavesAreDelegations /\ MembersHaveSource /\ ClosedBehind /\ OneSuccessorPerSource
    BY <1>2 DEF WavesAreDelegations, MembersHaveSource, ClosedBehind, OneSuccessorPerSource, r
<1>4. OpenIsServed /\ WaveMatchesChildren /\ PlansAreExact /\ FinishedTaskIsQuiet
    BY <1>2 DEF OpenIsServed, WaveMatchesChildren, PlansAreExact, FinishedTaskIsQuiet
<1>5. ClosedTails = {} /\ ContinueSources = {}
    BY <1>2 DEF ClosedTails, ContinueSources, WaveSources
<1>6. LanesAreOwned /\ RunningHasNoTail
    BY <1>1, <1>2, <1>5 DEF LanesAreOwned, RunningHasNoTail, SourcesOf, LaneIdle
<1>7. QED
    BY <1>3, <1>4, <1>6 DEF WInv

LEMMA WRowsUnchanged ==
    ASSUME IInv, WInv, UNCHANGED <<taskRow, laneRows>>,
           \A p \in resuming' :
                \/ p \in resuming
                \/ p.control = controlRevision /\ taskStatus = "paused" /\ p.sources = ContinueSources
    PROVE  WInv'
<1>1. UNCHANGED <<taskStatus, controlRevision, resultBoundary, assignment, attempt, dispatch, wave, boundary>>
    BY DEF taskRow, laneRows
<1>2. ContinueSources' = ContinueSources /\ ClosedTails' = ClosedTails
    BY <1>1 DEF ContinueSources, WaveSources, ClosedTails, Unconsumed
<1>3. \A a : SourcesOf(a)' = SourcesOf(a)
    BY <1>1, <1>2 DEF SourcesOf
<1>4. WavesAreDelegations' /\ MembersHaveSource' /\ ClosedBehind' /\ OneSuccessorPerSource'
    BY <1>1 DEF WInv, WavesAreDelegations, MembersHaveSource, ClosedBehind, OneSuccessorPerSource, AllReturned
<1>5. OpenIsServed' /\ WaveMatchesChildren'
    BY <1>1 DEF WInv, OpenIsServed, WaveMatchesChildren, AllReturned
<1>6. FinishedTaskIsQuiet'
    BY <1>1 DEF WInv, FinishedTaskIsQuiet, RunningAttempts, Unconsumed
<1>7. LanesAreOwned' /\ RunningHasNoTail'
    BY <1>1, <1>2, <1>3 DEF WInv, LanesAreOwned, RunningHasNoTail, LaneIdle
<1>8. PlansAreExact'
    BY <1>1, <1>2 DEF WInv, PlansAreExact, IInv, TypeOK, TaskTypeOK
<1>9. QED
    BY <1>4, <1>5, <1>6, <1>7, <1>8 DEF WInv

LEMMA WSkipSteps ==
    ASSUME IInv, WInv,
           \/ \E s \in signals : SkipJoin(s) \/ PrepareContinuation(s) \/ LoseSignal(s)
           \/ \E p \in preparing : SkipContinuation(p) \/ LoseContinuation(p)
           \/ \E p \in resuming : AbandonResume(p)
           \/ Restart
           \/ UNCHANGED vars
    PROVE  WInv'
<1>1. UNCHANGED <<taskRow, laneRows>>
    BY DEF SkipJoin, PrepareContinuation, LoseSignal, SkipContinuation, LoseContinuation,
        AbandonResume, Restart, vars
<1>2. resuming' \subseteq resuming
    BY DEF SkipJoin, PrepareContinuation, LoseSignal, SkipContinuation, LoseContinuation,
        AbandonResume, Restart, vars, volatile
<1>3. QED
    BY <1>1, <1>2, WRowsUnchanged

LEMMA WPlanResume ==
    ASSUME IInv, WInv, PlanResume
    PROVE  WInv'
BY WRowsUnchanged DEF PlanResume

-----------------------------------------------------------------------------
(* Task control and failures that pause the Task                            *)

\* What stopping every lane does to each row.
LEMMA PauseEffect ==
    ASSUME IInv, NEW failed, PauseLanes(failed)
    PROVE  /\ taskStatus' = "paused" /\ controlRevision' = controlRevision + 1
           /\ UNCHANGED <<resultBoundary, assignment, wave, boundary>>
           /\ DOMAIN dispatch' = DOMAIN dispatch /\ DOMAIN attempt' = DOMAIN attempt
           /\ \A x \in DOMAIN dispatch :
                /\ dispatch'[x].attempt = dispatch[x].attempt
                /\ dispatch'[x].pred = dispatch[x].pred
                /\ dispatch'[x].status = "closed"
                /\ ~Live(x) => dispatch'[x] = dispatch[x]
                /\ Live(x) => dispatch'[x].reason \in {"paused", "control_failed"}
           /\ \A a \in DOMAIN attempt :
                /\ attempt'[a].assignment = attempt[a].assignment
                /\ attempt'[a].status = attempt[a].status
                /\ attempt'[a].wait = attempt[a].wait
                /\ attempt'[a].dispatch = None
<1>1. /\ taskStatus' = "paused" /\ controlRevision' = controlRevision + 1
      /\ UNCHANGED <<resultBoundary, assignment, wave, boundary>>
      /\ DOMAIN dispatch' = DOMAIN dispatch /\ DOMAIN attempt' = DOMAIN attempt
    BY DEF PauseLanes, CloseCurrent, ClearCurrent
<1>2. ASSUME NEW x \in DOMAIN dispatch
      PROVE  /\ dispatch'[x].attempt = dispatch[x].attempt
             /\ dispatch'[x].pred = dispatch[x].pred
             /\ dispatch'[x].status = "closed"
             /\ ~Live(x) => dispatch'[x] = dispatch[x]
             /\ Live(x) => dispatch'[x].reason \in {"paused", "control_failed"}
    <2>1. dispatch[x] \in DispatchRow
        BY DispatchFacts
    <2>2. x \in CurrentDispatches <=> Live(x)
        BY LiveIsCurrent
    <2>3. dispatch'[x] = IF Live(x)
                         THEN [dispatch[x] EXCEPT !.status = "closed",
                                                  !.reason = IF x \in failed THEN "control_failed" ELSE "paused"]
                         ELSE dispatch[x]
        BY <2>2 DEF PauseLanes, CloseCurrent
    <2>4. QED
        BY <2>1, <2>3, LiveOrClosed DEF DispatchRow
<1>3. ASSUME NEW a \in DOMAIN attempt
      PROVE  /\ attempt'[a].assignment = attempt[a].assignment
             /\ attempt'[a].status = attempt[a].status
             /\ attempt'[a].wait = attempt[a].wait
             /\ attempt'[a].dispatch = None
    <2>1. attempt[a] \in AttemptRow
        BY AttemptFacts
    <2>2. attempt[a].dispatch # None =>
            attempt[a].status = "running" /\ attempt[a].dispatch \in CurrentDispatches
        BY LiveIsCurrent DEF IInv, LiveDispatchIsCurrent
    <2>3. attempt'[a] = IF attempt[a].status = "running" /\ attempt[a].dispatch \in CurrentDispatches
                        THEN [attempt[a] EXCEPT !.dispatch = None]
                        ELSE attempt[a]
        BY DEF PauseLanes, ClearCurrent
    <2>4. QED
        BY <2>1, <2>2, <2>3 DEF AttemptRow
<1>4. QED
    BY <1>1, <1>2, <1>3

\* The Dispatch that drove a lane becomes the source that resumes it.
LEMMA WPauseLanes ==
    ASSUME IInv, WInv, NEW failed, PauseLanes(failed), taskStatus = "running", resuming' = resuming
    PROVE  WInv'
<1> USE DEF WInv
<1>1. /\ taskStatus' = "paused" /\ controlRevision' = controlRevision + 1
      /\ UNCHANGED <<resultBoundary, assignment, wave, boundary>>
      /\ DOMAIN dispatch' = DOMAIN dispatch /\ DOMAIN attempt' = DOMAIN attempt
    BY PauseEffect
<1>2. ASSUME NEW x \in DOMAIN dispatch
      PROVE  /\ dispatch'[x].attempt = dispatch[x].attempt
             /\ dispatch'[x].pred = dispatch[x].pred
             /\ dispatch'[x].status = "closed"
             /\ ~Live(x) => dispatch'[x] = dispatch[x]
             /\ Live(x) => dispatch'[x].reason \in {"paused", "control_failed"}
    BY PauseEffect
<1>3. ASSUME NEW a \in DOMAIN attempt
      PROVE  /\ attempt'[a].assignment = attempt[a].assignment
             /\ attempt'[a].status = attempt[a].status
             /\ attempt'[a].wait = attempt[a].wait
             /\ attempt'[a].dispatch = None
    BY PauseEffect
<1>4. WavesAreDelegations'
    <2> SUFFICES ASSUME NEW w \in DOMAIN wave
                 PROVE  /\ dispatch'[w].status = "closed"
                        /\ dispatch'[w].reason = "delegation"
                        /\ DOMAIN wave[w].member # {}
                        /\ wave[w].succ # None => wave[w].status = "settled"
                        /\ wave[w].status = "settled" => AllReturned(w)
                        /\ wave[w].status = "open" => attempt'[dispatch'[w].attempt].wait = w
                        /\ wave[w].status # "cancelled"
        BY <1>1 DEF WavesAreDelegations, AllReturned
    <2>1. w \in DOMAIN dispatch /\ dispatch[w].attempt \in DOMAIN attempt
        BY WaveFacts
    <2>2. ~Live(w)
        BY <2>1, LiveOrClosed DEF WavesAreDelegations
    <2>3. QED
        BY <1>2, <1>3, <2>1, <2>2 DEF WavesAreDelegations
<1>5. MembersHaveSource'
    BY <1>1 DEF MembersHaveSource
<1>6. ClosedBehind' /\ OneSuccessorPerSource'
    <2>1. \A x \in DOMAIN dispatch : dispatch[x].pred # None => dispatch[x].pred \in DOMAIN dispatch
        BY DEF OneSuccessorPerSource
    <2>2. ClosedBehind'
        <3>1. \A b \in DOMAIN boundary : b \in DOMAIN dispatch
            BY DEF IInv, TypeOK, KeysOK
        <3>2. QED
            BY <1>1, <1>2, <2>1, <3>1 DEF ClosedBehind
    <2>3. OneSuccessorPerSource'
        BY <1>1, <1>2, <2>1 DEF OneSuccessorPerSource
    <2>4. QED
        BY <2>2, <2>3
<1>7. OpenIsServed'
    BY <1>1, <1>3 DEF OpenIsServed
<1>8. WaveMatchesChildren'
    <2> SUFFICES ASSUME NEW w \in DOMAIN wave
                 PROVE  /\ \A c \in DOMAIN wave[w].member :
                            /\ wave[w].member[c] = "pending" =>
                                /\ assignment[c].outcome = "open"
                                /\ attempt'[assignment[c].attempt].status = "running"
                            /\ wave[w].member[c] = "settled" =>
                                /\ assignment[c].outcome # "open"
                                /\ \E d \in DOMAIN boundary :
                                    /\ attempt'[dispatch'[d].attempt].assignment = c
                                    /\ boundary[d] = assignment[c].outcome
                        /\ wave[w].status = "settled" => AllReturned(w)
                        /\ wave[w].status = "open" => attempt'[dispatch'[w].attempt].wait = w
        BY <1>1 DEF WaveMatchesChildren, AllReturned
    <2>1. ASSUME NEW c \in DOMAIN wave[w].member, wave[w].member[c] = "pending"
          PROVE  /\ assignment[c].outcome = "open"
                 /\ attempt'[assignment[c].attempt].status = "running"
        <3>1. c \in DOMAIN assignment /\ assignment[c].outcome = "open"
            BY <2>1 DEF WaveMatchesChildren, MembersHaveSource
        <3>2. QED
            BY <1>1, <3>1, <1>7 DEF OpenIsServed
    <2>2. ASSUME NEW c \in DOMAIN wave[w].member, wave[w].member[c] = "settled"
          PROVE  /\ assignment[c].outcome # "open"
                 /\ \E d \in DOMAIN boundary :
                        /\ attempt'[dispatch'[d].attempt].assignment = c
                        /\ boundary[d] = assignment[c].outcome
        <3>1. PICK d \in DOMAIN boundary :
                /\ attempt[dispatch[d].attempt].assignment = c
                /\ boundary[d] = assignment[c].outcome
            BY <2>2 DEF WaveMatchesChildren
        <3>2. d \in DOMAIN dispatch /\ dispatch[d].attempt \in DOMAIN attempt
            BY DEF IInv, TypeOK, KeysOK
        <3>3. attempt'[dispatch'[d].attempt].assignment = c
            BY <1>2, <1>3, <3>1, <3>2
        <3>4. QED
            BY <2>2, <3>1, <3>3 DEF WaveMatchesChildren
    <2>3. QED
        BY <1>1, <1>4, <2>1, <2>2 DEF WavesAreDelegations, AllReturned
<1>9. ASSUME NEW x
      PROVE  x \in ContinueSources' <=> x \in ContinueSources \/ (x \in DOMAIN dispatch /\ Live(x))
    <2>1. WaveSources' = WaveSources
        BY <1>1 DEF WaveSources, Unconsumed
    <2>2. x \in ClosedTails' <=> x \in ClosedTails \/ (x \in DOMAIN dispatch /\ Live(x))
        <3>1. x \in ClosedTails' => x \in ClosedTails \/ (x \in DOMAIN dispatch /\ Live(x))
            BY <1>1, <1>2 DEF ClosedTails
        <3>2. x \in ClosedTails => x \in ClosedTails'
            <4>1. x \in ClosedTails => ~Live(x)
                BY DEF ClosedTails, Live
            <4>2. QED
                BY <1>1, <1>2, <4>1 DEF ClosedTails
        <3>3. ASSUME x \in DOMAIN dispatch, Live(x)
              PROVE  x \in ClosedTails'
            <4>1. \A y \in DOMAIN dispatch : dispatch[y].pred # x
                BY <3>3, LiveOrClosed, DispatchFacts DEF ClosedBehind
            <4>2. QED
                BY <1>1, <1>2, <3>3, <4>1 DEF ClosedTails
        <3>4. QED
            BY <3>1, <3>2, <3>3
    <2>3. QED
        BY <2>1, <2>2 DEF ContinueSources
<1>10. LanesAreOwned'
    <2> SUFFICES ASSUME NEW a \in DOMAIN attempt
                 PROVE  /\ attempt'[a].status # "running" => attempt'[a].wait = None
                        /\ attempt'[a].wait # None =>
                            /\ attempt'[a].wait \in DOMAIN wave'
                            /\ dispatch'[attempt'[a].wait].attempt = a
                            /\ wave'[attempt'[a].wait].status = "open"
                        /\ attempt'[a].status # "running" \/ attempt'[a].dispatch # None
                            \/ attempt'[a].wait # None => SourcesOf(a)' = {}
                        /\ LaneIdle(a)' => \E s \in ContinueSources' : SourcesOf(a)' = {s}
        BY <1>1 DEF LanesAreOwned
    <2>1. /\ attempt[a].status # "running" => attempt[a].wait = None
          /\ attempt[a].wait # None =>
                /\ attempt[a].wait \in DOMAIN wave
                /\ dispatch[attempt[a].wait].attempt = a
                /\ wave[attempt[a].wait].status = "open"
          /\ attempt[a].status # "running" \/ attempt[a].dispatch # None \/ attempt[a].wait # None =>
                SourcesOf(a) = {}
          /\ LaneIdle(a) => \E s \in ContinueSources : SourcesOf(a) = {s}
        BY DEF LanesAreOwned
    <2>2. /\ attempt'[a].status = attempt[a].status /\ attempt'[a].wait = attempt[a].wait
          /\ attempt'[a].dispatch = None
        BY <1>3
    <2>3. attempt[a].wait # None => dispatch'[attempt[a].wait].attempt = a
        BY <1>2, <2>1, WaveFacts
    <2>4. ASSUME NEW x
          PROVE  x \in SourcesOf(a)' <=>
                    x \in SourcesOf(a) \/ (x \in DOMAIN dispatch /\ Live(x) /\ dispatch[x].attempt = a)
        BY <1>2, <1>9, SourceRows DEF SourcesOf
    <2>5. \A x \in DOMAIN dispatch : Live(x) /\ dispatch[x].attempt = a =>
            /\ attempt[a].status = "running" /\ attempt[a].wait = None /\ attempt[a].dispatch = x /\ x # None
        BY DrivenLane
    <2>6. CASE attempt[a].status # "running" \/ attempt[a].wait # None
        <3>1. SourcesOf(a)' = {}
            BY <2>1, <2>4, <2>5, <2>6
        <3>2. QED
            BY <1>1, <2>1, <2>2, <2>3, <2>6, <3>1 DEF LaneIdle
    <2>7. CASE attempt[a].status = "running" /\ attempt[a].wait = None /\ attempt[a].dispatch = None
        <3>1. PICK s \in ContinueSources : SourcesOf(a) = {s}
            BY <2>1, <2>7 DEF LaneIdle
        <3>2. SourcesOf(a)' = {s}
            BY <2>4, <2>5, <2>7, <3>1
        <3>3. s \in ContinueSources'
            BY <1>9
        <3>4. QED
            BY <2>2, <2>7, <3>2, <3>3
    <2>8. CASE attempt[a].status = "running" /\ attempt[a].wait = None /\ attempt[a].dispatch # None
        <3> DEFINE d == attempt[a].dispatch
        <3>1. d \in DOMAIN dispatch /\ dispatch[d].attempt = a /\ Live(d)
            BY <2>8 DEF IInv, LiveDispatchIsCurrent
        <3>2. SourcesOf(a)' = {d}
            BY <2>1, <2>4, <2>5, <2>8, <3>1
        <3>3. d \in ContinueSources'
            BY <1>9, <3>1
        <3>4. QED
            BY <2>2, <2>8, <3>2, <3>3
    <2>9. QED
        BY <2>6, <2>7, <2>8
<1>11. PlansAreExact'
    BY <1>1 DEF PlansAreExact, IInv, TypeOK, TaskTypeOK
<1>12. RunningHasNoTail' /\ FinishedTaskIsQuiet'
    BY <1>1 DEF RunningHasNoTail, FinishedTaskIsQuiet
<1>13. QED
    BY <1>4, <1>5, <1>6, <1>7, <1>8, <1>10, <1>11, <1>12

LEMMA WPauseSteps ==
    ASSUME IInv, WInv,
           \/ PauseTask
           \/ \E d \in DOMAIN dispatch : PauseInvalidStart(d) \/ WatchdogPause(d)
           \/ \E p \in preparing : FailContinuation(p)
    PROVE  WInv'
<1>1. resuming' = resuming
    BY DEF PauseTask, PauseInvalidStart, WatchdogPause, FailContinuation, volatile
<1>2. \/ UNCHANGED <<taskRow, laneRows>>
      \/ taskStatus = "running" /\ \E failed : PauseLanes(failed)
    BY DEF PauseTask, PauseInvalidStart, WatchdogPause, Stale, NodeAuthority, FailContinuation
<1>3. QED
    BY <1>1, <1>2, WPauseLanes, WRowsUnchanged

\* What cancelling does to each row.
LEMMA CancelEffect ==
    ASSUME IInv, CancelTask
    PROVE  /\ taskStatus \in {"running", "paused"}
           /\ taskStatus' = "cancelled" /\ controlRevision' = controlRevision + 1
           /\ UNCHANGED <<assignment, boundary, resuming>>
           /\ DOMAIN dispatch' = DOMAIN dispatch /\ DOMAIN attempt' = DOMAIN attempt
           /\ DOMAIN wave' = DOMAIN wave
           /\ \A x \in DOMAIN dispatch :
                /\ dispatch'[x].attempt = dispatch[x].attempt
                /\ dispatch'[x].pred = dispatch[x].pred
                /\ dispatch'[x].status = "closed"
                /\ ~Live(x) => dispatch'[x] = dispatch[x]
           /\ \A a \in DOMAIN attempt :
                /\ attempt'[a].assignment = attempt[a].assignment
                /\ attempt'[a].status # "running"
                /\ attempt[a].status = "running" => attempt'[a].wait = None
                /\ attempt[a].status # "running" => attempt'[a].wait = attempt[a].wait
           /\ \A w \in DOMAIN wave :
                /\ wave'[w].status = IF wave[w].status # "cancelled" /\ wave[w].succ = None
                                     THEN "cancelled" ELSE wave[w].status
                /\ wave'[w].succ = wave[w].succ
                /\ DOMAIN wave'[w].member = DOMAIN wave[w].member
                /\ \A c \in DOMAIN wave[w].member :
                    wave'[w].member[c] = IF wave[w].member[c] = "pending"
                                         THEN "cancelled" ELSE wave[w].member[c]
<1>1. /\ taskStatus \in {"running", "paused"}
      /\ taskStatus' = "cancelled" /\ controlRevision' = controlRevision + 1
      /\ UNCHANGED <<assignment, boundary, resuming>>
      /\ DOMAIN dispatch' = DOMAIN dispatch /\ DOMAIN attempt' = DOMAIN attempt
      /\ DOMAIN wave' = DOMAIN wave
    BY DEF CancelTask, CloseCurrent, volatile
<1>2. ASSUME NEW x \in DOMAIN dispatch
      PROVE  /\ dispatch'[x].attempt = dispatch[x].attempt
             /\ dispatch'[x].pred = dispatch[x].pred
             /\ dispatch'[x].status = "closed"
             /\ ~Live(x) => dispatch'[x] = dispatch[x]
    <2>1. dispatch[x] \in DispatchRow
        BY DispatchFacts
    <2>2. x \in CurrentDispatches <=> Live(x)
        BY LiveIsCurrent
    <2>3. dispatch'[x] = IF Live(x)
                         THEN [dispatch[x] EXCEPT !.status = "closed", !.reason = "cancelled"]
                         ELSE dispatch[x]
        BY <2>2 DEF CancelTask, CloseCurrent
    <2>4. QED
        BY <2>1, <2>3, LiveOrClosed DEF DispatchRow
<1>3. ASSUME NEW a \in DOMAIN attempt
      PROVE  /\ attempt'[a].assignment = attempt[a].assignment
             /\ attempt'[a].status # "running"
             /\ attempt[a].status = "running" => attempt'[a].wait = None
             /\ attempt[a].status # "running" => attempt'[a].wait = attempt[a].wait
    <2>1. attempt[a] \in AttemptRow
        BY AttemptFacts
    <2>2. QED
        BY <2>1 DEF CancelTask, RunningAttempts, AttemptRow
<1>4. ASSUME NEW w \in DOMAIN wave
      PROVE  /\ wave'[w].status = IF wave[w].status # "cancelled" /\ wave[w].succ = None
                                  THEN "cancelled" ELSE wave[w].status
             /\ wave'[w].succ = wave[w].succ
             /\ DOMAIN wave'[w].member = DOMAIN wave[w].member
             /\ \A c \in DOMAIN wave[w].member :
                    wave'[w].member[c] = IF wave[w].member[c] = "pending"
                                         THEN "cancelled" ELSE wave[w].member[c]
    BY DEF CancelTask
<1>5. QED
    BY <1>1, <1>2, <1>3, <1>4

LEMMA WCancelTask ==
    ASSUME IInv, WInv, CancelTask
    PROVE  WInv'
<1> USE DEF WInv
<1>1. /\ taskStatus \in {"running", "paused"}
      /\ taskStatus' = "cancelled" /\ controlRevision' = controlRevision + 1
      /\ UNCHANGED <<assignment, boundary, resuming>>
      /\ DOMAIN dispatch' = DOMAIN dispatch /\ DOMAIN attempt' = DOMAIN attempt
      /\ DOMAIN wave' = DOMAIN wave
    BY CancelEffect
<1>2. ASSUME NEW x \in DOMAIN dispatch
      PROVE  /\ dispatch'[x].attempt = dispatch[x].attempt
             /\ dispatch'[x].pred = dispatch[x].pred
             /\ dispatch'[x].status = "closed"
             /\ ~Live(x) => dispatch'[x] = dispatch[x]
    BY CancelEffect
<1>3. ASSUME NEW a \in DOMAIN attempt
      PROVE  /\ attempt'[a].assignment = attempt[a].assignment
             /\ attempt'[a].status # "running"
             /\ attempt'[a].wait = None
    BY <1>1, CancelEffect DEF LanesAreOwned
<1>4. ASSUME NEW w \in DOMAIN wave
      PROVE  /\ w \in DOMAIN dispatch /\ dispatch[w].attempt \in DOMAIN attempt /\ ~Live(w)
             /\ wave'[w].succ = wave[w].succ
             /\ DOMAIN wave'[w].member = DOMAIN wave[w].member
             /\ \A c \in DOMAIN wave[w].member :
                    wave'[w].member[c] = IF wave[w].member[c] = "pending"
                                         THEN "cancelled" ELSE wave[w].member[c]
             /\ wave[w].succ # None => wave[w].status = "settled"
             /\ wave'[w].status = IF wave[w].succ = None THEN "cancelled" ELSE "settled"
    <2>1. w \in DOMAIN dispatch /\ dispatch[w].attempt \in DOMAIN attempt
        BY WaveFacts
    <2>2. ~Live(w)
        BY <2>1, LiveOrClosed DEF WavesAreDelegations
    <2>3. wave[w].succ # None => wave[w].status = "settled"
        BY DEF WavesAreDelegations
    <2>4. QED
        BY <2>1, <2>2, <2>3, CancelEffect
<1>5. WavesAreDelegations'
    <2> SUFFICES ASSUME NEW w \in DOMAIN wave
                 PROVE  /\ dispatch'[w].status = "closed"
                        /\ dispatch'[w].reason = "delegation"
                        /\ DOMAIN wave'[w].member # {}
                        /\ wave'[w].succ # None => wave'[w].status = "settled"
                        /\ wave'[w].status = "settled" => AllReturned(w)'
                        /\ wave'[w].status = "open" => attempt'[dispatch'[w].attempt].wait = w
        BY <1>1 DEF WavesAreDelegations
    <2>1. dispatch'[w].status = "closed" /\ dispatch'[w].reason = "delegation"
        BY <1>2, <1>4 DEF WavesAreDelegations
    <2>2. DOMAIN wave'[w].member # {}
        BY <1>4 DEF WavesAreDelegations
    <2>3. wave[w].succ # None => AllReturned(w)
        BY DEF WavesAreDelegations
    <2>4. wave'[w].status = "settled" => AllReturned(w)'
        BY <1>4, <2>3 DEF AllReturned
    <2>5. QED
        BY <1>4, <2>1, <2>2, <2>4
<1>6. MembersHaveSource'
    BY <1>1, <1>4 DEF MembersHaveSource
<1>7. ClosedBehind' /\ OneSuccessorPerSource'
    <2>1. \A x \in DOMAIN dispatch : dispatch[x].pred # None => dispatch[x].pred \in DOMAIN dispatch
        BY DEF OneSuccessorPerSource
    <2>2. ClosedBehind'
        <3>1. \A b \in DOMAIN boundary : b \in DOMAIN dispatch
            BY DEF IInv, TypeOK, KeysOK
        <3>2. QED
            BY <1>1, <1>2, <2>1, <3>1 DEF ClosedBehind
    <2>3. OneSuccessorPerSource'
        BY <1>1, <1>2, <1>4, <2>1 DEF OneSuccessorPerSource
    <2>4. QED
        BY <2>2, <2>3
<1>8. OpenIsServed' /\ LanesAreOwned' /\ RunningHasNoTail'
    BY <1>1 DEF OpenIsServed, LanesAreOwned, RunningHasNoTail
<1>9. WaveMatchesChildren'
    <2> SUFFICES ASSUME NEW w \in DOMAIN wave
                 PROVE  \A c \in DOMAIN wave[w].member :
                            /\ wave'[w].member[c] # "pending"
                            /\ wave'[w].member[c] = "settled" =>
                                /\ assignment[c].outcome # "open"
                                /\ \E d \in DOMAIN boundary :
                                    /\ attempt'[dispatch'[d].attempt].assignment = c
                                    /\ boundary[d] = assignment[c].outcome
        BY <1>1, <1>4, <1>5 DEF WaveMatchesChildren, WavesAreDelegations
    <2>1. ASSUME NEW c \in DOMAIN wave[w].member, wave'[w].member[c] = "settled"
          PROVE  /\ assignment[c].outcome # "open"
                 /\ \E d \in DOMAIN boundary :
                        /\ attempt'[dispatch'[d].attempt].assignment = c
                        /\ boundary[d] = assignment[c].outcome
        <3>1. wave[w].member[c] = "settled"
            BY <1>4, <2>1
        <3>2. PICK d \in DOMAIN boundary :
                /\ attempt[dispatch[d].attempt].assignment = c
                /\ boundary[d] = assignment[c].outcome
            BY <3>1 DEF WaveMatchesChildren
        <3>3. d \in DOMAIN dispatch /\ dispatch[d].attempt \in DOMAIN attempt
            BY DEF IInv, TypeOK, KeysOK
        <3>4. attempt'[dispatch'[d].attempt].assignment = c
            BY <1>2, <1>3, <3>2, <3>3
        <3>5. QED
            BY <3>1, <3>2, <3>4 DEF WaveMatchesChildren
    <2>2. QED
        BY <1>4, <2>1
<1>10. PlansAreExact'
    BY <1>1 DEF PlansAreExact, IInv, TypeOK, TaskTypeOK
<1>11. FinishedTaskIsQuiet'
    <2>1. RunningAttempts' = {}
        BY <1>1, <1>3 DEF RunningAttempts
    <2>2. \A w \in DOMAIN wave' : wave'[w].status # "open" /\ ~Unconsumed(w)'
        BY <1>1, <1>4 DEF Unconsumed
    <2>3. QED
        BY <1>1, <1>2, <1>3, <2>1, <2>2 DEF FinishedTaskIsQuiet
<1>12. QED
    BY <1>5, <1>6, <1>7, <1>8, <1>9, <1>10, <1>11

-----------------------------------------------------------------------------
(* The provider behind a Dispatch                                           *)

\* Accepting a start leaves the Dispatch live and every other row alone.
LEMMA WAcceptProviderStart ==
    ASSUME IInv, WInv, NEW d \in DOMAIN dispatch, AcceptProviderStart(d)
    PROVE  WInv'
<1> USE DEF WInv
<1>1. /\ taskStatus = "running"
      /\ DOMAIN dispatch' = DOMAIN dispatch
      /\ UNCHANGED <<taskStatus, controlRevision, resultBoundary, assignment, attempt, wave,
                     boundary, resuming>>
    BY DEF AcceptProviderStart, taskRow, volatile
<1>2. ASSUME NEW x \in DOMAIN dispatch
      PROVE  /\ dispatch'[x].attempt = dispatch[x].attempt
             /\ dispatch'[x].pred = dispatch[x].pred
             /\ dispatch'[x].reason = dispatch[x].reason
             /\ dispatch'[x].status = "closed" <=> dispatch[x].status = "closed"
    <2>1. dispatch[x] \in DispatchRow
        BY DispatchFacts
    <2>2. QED
        BY <2>1 DEF AcceptProviderStart, DispatchRow
<1>3. \A w \in DOMAIN wave : w \in DOMAIN dispatch
    BY DEF IInv, TypeOK, KeysOK
<1>4. WavesAreDelegations' /\ MembersHaveSource'
    BY <1>1, <1>2, <1>3 DEF WavesAreDelegations, MembersHaveSource, AllReturned
<1>5. ClosedBehind' /\ OneSuccessorPerSource'
    <2>1. \A x \in DOMAIN dispatch : dispatch[x].pred # None => dispatch[x].pred \in DOMAIN dispatch
        BY DEF OneSuccessorPerSource
    <2>2. \A b \in DOMAIN boundary : b \in DOMAIN dispatch
        BY DEF IInv, TypeOK, KeysOK
    <2>3. ClosedBehind'
        BY <1>1, <1>2, <2>1, <2>2 DEF ClosedBehind
    <2>4. OneSuccessorPerSource'
        BY <1>1, <1>2, <2>1 DEF OneSuccessorPerSource
    <2>5. QED
        BY <2>3, <2>4
<1>6. OpenIsServed'
    BY <1>1 DEF OpenIsServed
<1>7. WaveMatchesChildren'
    <2>1. \A b \in DOMAIN boundary : dispatch'[b].attempt = dispatch[b].attempt
        BY <1>2 DEF IInv, TypeOK, KeysOK
    <2>2. QED
        BY <1>1, <1>2, <1>3, <2>1 DEF WaveMatchesChildren, AllReturned
<1>8. ContinueSources' = ContinueSources /\ ClosedTails' = ClosedTails
    BY <1>1, <1>2 DEF ContinueSources, WaveSources, ClosedTails, Unconsumed
<1>9. \A a : SourcesOf(a)' = SourcesOf(a)
    BY <1>2, <1>8, SourceRows DEF SourcesOf
<1>10. LanesAreOwned' /\ RunningHasNoTail'
    <2>1. \A a \in DOMAIN attempt : attempt[a].wait # None =>
            dispatch'[attempt[a].wait].attempt = dispatch[attempt[a].wait].attempt
        BY <1>1, <1>2, <1>3 DEF LanesAreOwned
    <2>2. QED
        BY <1>1, <1>8, <1>9, <2>1 DEF LanesAreOwned, RunningHasNoTail, LaneIdle
<1>11. PlansAreExact' /\ FinishedTaskIsQuiet'
    BY <1>1 DEF PlansAreExact, FinishedTaskIsQuiet
<1>12. QED
    BY <1>4, <1>5, <1>6, <1>7, <1>10, <1>11

-----------------------------------------------------------------------------
(* Opening successors: a replacement, a continuation, a resume              *)

\* Nothing succeeds a source or a live Dispatch yet.
LEMMA SourceIsTail ==
    ASSUME IInv, WInv, NEW s \in DOMAIN dispatch, Live(s) \/ s \in ContinueSources
    PROVE  \A y \in DOMAIN dispatch : dispatch[y].pred # s
<1> SUFFICES ASSUME NEW y \in DOMAIN dispatch, dispatch[y].pred = s PROVE FALSE
    OBVIOUS
<1>1. s # None /\ y # None
    BY DispatchFacts
<1>2. dispatch[s].status = "closed"
    BY <1>1 DEF WInv, ClosedBehind
<1>3. s \in WaveSources \/ s \in ClosedTails
    BY <1>2, LiveOrClosed, SourceRows
<1>4. CASE s \in WaveSources
    BY <1>1, <1>4, SourceRows DEF WInv, OneSuccessorPerSource
<1>5. CASE s \in ClosedTails
    BY <1>5 DEF ClosedTails
<1>6. QED
    BY <1>3, <1>4, <1>5

\* Each source of Q, a live Dispatch that is replaced or the source of an idle
\* lane, gets the new Dispatch o[s] in its lane.
Opens(Q, o) ==
    /\ taskStatus \in {"running", "paused"} /\ taskStatus' = "running"
    /\ \A s \in Q :
        /\ s \in DOMAIN dispatch
        /\ attempt[dispatch[s].attempt].status = "running"
        /\ attempt[dispatch[s].attempt].wait = None
        /\ Live(s) \/ (s \in ContinueSources /\ attempt[dispatch[s].attempt].dispatch = None)
        /\ o[s] \notin DOMAIN dispatch /\ o[s] # None
        /\ o[s] \in DOMAIN dispatch'
        /\ dispatch'[o[s]].attempt = dispatch[s].attempt
        /\ dispatch'[o[s]].pred = s
        /\ dispatch'[o[s]].status = "starting"
    /\ \A s, t \in Q : o[s] = o[t] \/ dispatch[s].attempt = dispatch[t].attempt => s = t
    /\ DOMAIN dispatch \subseteq DOMAIN dispatch'
    /\ \A x \in DOMAIN dispatch' \ DOMAIN dispatch : \E s \in Q : x = o[s]
    /\ \A x \in DOMAIN dispatch :
        /\ dispatch'[x].attempt = dispatch[x].attempt
        /\ dispatch'[x].pred = dispatch[x].pred
        /\ x \in Q /\ Live(x) => dispatch'[x].status = "closed" /\ dispatch'[x].reason = "watchdog_superseded"
        /\ ~(x \in Q /\ Live(x)) => dispatch'[x] = dispatch[x]
    /\ DOMAIN attempt' = DOMAIN attempt
    /\ \A a \in DOMAIN attempt :
        /\ attempt'[a].assignment = attempt[a].assignment
        /\ attempt'[a].status = attempt[a].status
        /\ attempt'[a].wait = attempt[a].wait
        /\ (\A s \in Q : dispatch[s].attempt # a) => attempt'[a].dispatch = attempt[a].dispatch
        /\ \A s \in Q : dispatch[s].attempt = a => attempt'[a].dispatch = o[s]
    /\ DOMAIN wave' = DOMAIN wave
    /\ \A w \in DOMAIN wave :
        /\ wave'[w].status = wave[w].status /\ wave'[w].member = wave[w].member
        /\ wave'[w].succ = IF w \in Q THEN o[w] ELSE wave[w].succ
    /\ UNCHANGED <<assignment, boundary>>

LEMMA WOpened ==
    ASSUME IInv, WInv, NEW Q, NEW o, Opens(Q, o),
           \A x \in ClosedTails : x \in Q,
           resuming' \subseteq resuming,
           \/ controlRevision' = controlRevision /\ taskStatus = "running"
           \/ controlRevision' = controlRevision + 1
    PROVE  WInv'
<1> USE DEF WInv
<1>1. /\ taskStatus \in {"running", "paused"} /\ taskStatus' = "running"
      /\ DOMAIN dispatch \subseteq DOMAIN dispatch' /\ DOMAIN attempt' = DOMAIN attempt
      /\ DOMAIN wave' = DOMAIN wave
      /\ UNCHANGED <<assignment, boundary>>
    BY DEF Opens
<1>2. ASSUME NEW s \in Q
      PROVE  /\ s \in DOMAIN dispatch
             /\ attempt[dispatch[s].attempt].status = "running"
             /\ attempt[dispatch[s].attempt].wait = None
             /\ Live(s) \/ (s \in ContinueSources /\ attempt[dispatch[s].attempt].dispatch = None)
             /\ o[s] \notin DOMAIN dispatch /\ o[s] # None
             /\ o[s] \in DOMAIN dispatch'
             /\ dispatch'[o[s]].attempt = dispatch[s].attempt
             /\ dispatch'[o[s]].pred = s
             /\ dispatch'[o[s]].status = "starting"
    BY DEF Opens
<1>3. \A s, t \in Q : o[s] = o[t] \/ dispatch[s].attempt = dispatch[t].attempt => s = t
    BY DEF Opens
<1>4. \A x \in DOMAIN dispatch' \ DOMAIN dispatch : \E s \in Q : x = o[s]
    BY DEF Opens
<1>5. ASSUME NEW x \in DOMAIN dispatch
      PROVE  /\ dispatch'[x].attempt = dispatch[x].attempt
             /\ dispatch'[x].pred = dispatch[x].pred
             /\ x \in Q /\ Live(x) =>
                    dispatch'[x].status = "closed" /\ dispatch'[x].reason = "watchdog_superseded"
             /\ ~(x \in Q /\ Live(x)) => dispatch'[x] = dispatch[x]
    BY DEF Opens
<1>6. ASSUME NEW a \in DOMAIN attempt
      PROVE  /\ attempt'[a].assignment = attempt[a].assignment
             /\ attempt'[a].status = attempt[a].status
             /\ attempt'[a].wait = attempt[a].wait
             /\ (\A s \in Q : dispatch[s].attempt # a) => attempt'[a].dispatch = attempt[a].dispatch
             /\ \A s \in Q : dispatch[s].attempt = a => attempt'[a].dispatch = o[s]
    BY DEF Opens
<1>7. ASSUME NEW w \in DOMAIN wave
      PROVE  /\ wave'[w].status = wave[w].status /\ wave'[w].member = wave[w].member
             /\ wave'[w].succ = IF w \in Q THEN o[w] ELSE wave[w].succ
    BY DEF Opens
<1>8. ASSUME NEW s \in Q
      PROVE  \A y \in DOMAIN dispatch : dispatch[y].pred # s
    BY <1>2, SourceIsTail
<1>9. ASSUME NEW w \in DOMAIN wave
      PROVE  /\ w \in DOMAIN dispatch /\ ~Live(w) /\ dispatch'[w] = dispatch[w]
             /\ dispatch[w].reason = "delegation" /\ dispatch[w].status = "closed"
             /\ dispatch[w].attempt \in DOMAIN attempt
             /\ w \in Q => wave[w].status = "settled" /\ wave[w].succ = None
    <2>1. w \in DOMAIN dispatch /\ dispatch[w].attempt \in DOMAIN attempt
        BY WaveFacts
    <2>2. dispatch[w].reason = "delegation" /\ dispatch[w].status = "closed" /\ ~Live(w)
        BY <2>1, LiveOrClosed DEF WavesAreDelegations
    <2>3. w \in Q => w \in WaveSources
        BY <1>2, <2>2, SourceRows DEF ClosedTails
    <2>4. QED
        BY <1>5, <2>1, <2>2, <2>3, SourceRows
<1>10. WavesAreDelegations'
    <2> SUFFICES ASSUME NEW w \in DOMAIN wave
                 PROVE  /\ dispatch'[w].status = "closed"
                        /\ dispatch'[w].reason = "delegation"
                        /\ DOMAIN wave'[w].member # {}
                        /\ wave'[w].succ # None => wave'[w].status = "settled"
                        /\ wave'[w].status = "settled" => AllReturned(w)'
                        /\ wave'[w].status = "open" => attempt'[dispatch'[w].attempt].wait = w
                        /\ wave'[w].status # "cancelled"
        BY <1>1 DEF WavesAreDelegations
    <2>1. /\ DOMAIN wave[w].member # {}
          /\ wave[w].succ # None => wave[w].status = "settled"
          /\ wave[w].status = "settled" => AllReturned(w)
          /\ wave[w].status = "open" => attempt[dispatch[w].attempt].wait = w
          /\ wave[w].status # "cancelled"
        BY <1>1 DEF WavesAreDelegations
    <2>2. AllReturned(w)' <=> AllReturned(w)
        BY <1>7 DEF AllReturned
    <2>3. QED
        BY <1>6, <1>7, <1>9, <2>1, <2>2
<1>11. MembersHaveSource'
    BY <1>1, <1>7 DEF MembersHaveSource
<1>12. ClosedBehind'
    <2>1. ASSUME NEW x \in DOMAIN dispatch', dispatch'[x].pred # None
          PROVE  dispatch'[dispatch'[x].pred].status = "closed"
        <3>1. CASE x \in DOMAIN dispatch
            <4>1. dispatch'[x].pred = dispatch[x].pred /\ dispatch[x].pred \in DOMAIN dispatch
                  /\ dispatch[dispatch[x].pred].status = "closed"
                BY <1>5, <2>1, <3>1 DEF ClosedBehind, OneSuccessorPerSource
            <4>2. QED
                BY <1>5, <4>1
        <3>2. CASE x \notin DOMAIN dispatch
            <4>1. PICK s \in Q : x = o[s]
                BY <1>4, <3>2
            <4>2. dispatch[s].status = "closed" \/ Live(s)
                BY <1>2, LiveOrClosed
            <4>3. QED
                BY <1>2, <1>5, <4>1, <4>2
        <3>3. QED
            BY <3>1, <3>2
    <2>2. ASSUME NEW b \in DOMAIN boundary
          PROVE  dispatch'[b].status = "closed"
        <3>1. b \in DOMAIN dispatch /\ dispatch[b].status = "closed"
            BY DEF IInv, TypeOK, KeysOK, ClosedBehind
        <3>2. QED
            BY <1>5, <3>1
    <2>3. QED
        BY <1>1, <2>1, <2>2 DEF ClosedBehind
<1>13. OneSuccessorPerSource'
    <2>1. ASSUME NEW x \in DOMAIN dispatch', NEW y \in DOMAIN dispatch',
                 dispatch'[x].pred # None, dispatch'[x].pred = dispatch'[y].pred
          PROVE  x = y
        <3>1. CASE x \in DOMAIN dispatch /\ y \in DOMAIN dispatch
            BY <1>5, <2>1, <3>1 DEF OneSuccessorPerSource
        <3>2. CASE x \notin DOMAIN dispatch /\ y \notin DOMAIN dispatch
            BY <1>2, <1>4, <2>1, <3>2
        <3>3. CASE x \in DOMAIN dispatch /\ y \notin DOMAIN dispatch
            BY <1>2, <1>4, <1>5, <1>8, <2>1, <3>3
        <3>4. CASE x \notin DOMAIN dispatch /\ y \in DOMAIN dispatch
            BY <1>2, <1>4, <1>5, <1>8, <2>1, <3>4
        <3>5. QED
            BY <3>1, <3>2, <3>3, <3>4
    <2>2. ASSUME NEW x \in DOMAIN dispatch', dispatch'[x].pred # None
          PROVE  /\ dispatch'[x].pred \in DOMAIN dispatch'
                 /\ dispatch'[dispatch'[x].pred].attempt = dispatch'[x].attempt
                 /\ dispatch'[x].pred \in DOMAIN wave' => wave'[dispatch'[x].pred].succ = x
        <3>1. CASE x \in DOMAIN dispatch
            <4> DEFINE s == dispatch[x].pred
            <4>1. /\ dispatch'[x].pred = s /\ s \in DOMAIN dispatch /\ s \notin Q
                  /\ dispatch[s].attempt = dispatch[x].attempt
                  /\ s \in DOMAIN wave => wave[s].succ = x
                BY <1>5, <1>8, <2>2, <3>1 DEF OneSuccessorPerSource
            <4>2. dispatch'[s].attempt = dispatch'[x].attempt
                BY <1>5, <3>1, <4>1
            <4>3. s \in DOMAIN wave => wave'[s].succ = x
                BY <1>7, <4>1
            <4>4. QED
                BY <1>1, <4>1, <4>2, <4>3
        <3>2. CASE x \notin DOMAIN dispatch
            <4>1. PICK s \in Q : x = o[s]
                BY <1>4, <3>2
            <4>2. QED
                BY <1>1, <1>2, <1>5, <1>7, <4>1
        <3>3. QED
            BY <3>1, <3>2
    <2>3. ASSUME NEW w \in DOMAIN wave, wave'[w].succ # None
          PROVE  wave'[w].succ \in DOMAIN dispatch' /\ dispatch'[wave'[w].succ].pred = w
        <3>1. CASE w \in Q
            BY <1>2, <1>7, <3>1
        <3>2. CASE w \notin Q
            BY <1>1, <1>5, <1>7, <2>3, <3>2 DEF OneSuccessorPerSource
        <3>3. QED
            BY <3>1, <3>2
    <2>4. QED
        BY <1>1, <2>1, <2>2, <2>3 DEF OneSuccessorPerSource
<1>14. OpenIsServed'
    BY <1>1, <1>6 DEF OpenIsServed
<1>15. WaveMatchesChildren'
    <2> SUFFICES ASSUME NEW w \in DOMAIN wave
                 PROVE  \A c \in DOMAIN wave[w].member :
                            /\ wave[w].member[c] = "pending" =>
                                /\ assignment[c].outcome = "open"
                                /\ attempt'[assignment[c].attempt].status = "running"
                            /\ wave[w].member[c] = "settled" =>
                                /\ assignment[c].outcome # "open"
                                /\ \E d \in DOMAIN boundary :
                                    /\ attempt'[dispatch'[d].attempt].assignment = c
                                    /\ boundary[d] = assignment[c].outcome
        BY <1>1, <1>7, <1>10 DEF WaveMatchesChildren, WavesAreDelegations
    <2> TAKE c \in DOMAIN wave[w].member
    <2>1. c \in DOMAIN assignment
        BY DEF MembersHaveSource
    <2>2. wave[w].member[c] = "pending" =>
            assignment[c].outcome = "open" /\ attempt'[assignment[c].attempt].status = "running"
        <3>1. wave[w].member[c] = "pending" => assignment[c].outcome = "open"
            BY DEF WaveMatchesChildren
        <3>2. QED
            BY <1>1, <1>14, <2>1, <3>1 DEF OpenIsServed
    <2>3. ASSUME wave[w].member[c] = "settled"
          PROVE  /\ assignment[c].outcome # "open"
                 /\ \E d \in DOMAIN boundary :
                        /\ attempt'[dispatch'[d].attempt].assignment = c
                        /\ boundary[d] = assignment[c].outcome
        <3>1. PICK d \in DOMAIN boundary :
                /\ attempt[dispatch[d].attempt].assignment = c
                /\ boundary[d] = assignment[c].outcome
            BY <2>3 DEF WaveMatchesChildren
        <3>2. d \in DOMAIN dispatch /\ dispatch[d].attempt \in DOMAIN attempt
            BY DEF IInv, TypeOK, KeysOK
        <3>3. attempt'[dispatch'[d].attempt].assignment = c
            BY <1>5, <1>6, <3>1, <3>2
        <3>4. QED
            BY <2>3, <3>1, <3>3 DEF WaveMatchesChildren
    <2>4. QED
        BY <2>2, <2>3
<1>16. ASSUME NEW x
       PROVE  /\ x \in ClosedTails' => x \in ClosedTails /\ x \notin Q
              /\ x \in ContinueSources' <=> x \in ContinueSources /\ x \notin Q
    <2>1. x \in WaveSources' <=> x \in WaveSources /\ x \notin Q
        BY <1>1, <1>2, <1>7 DEF WaveSources, Unconsumed
    <2>2. x \in ClosedTails' => x \in ClosedTails /\ x \notin Q
        <3> SUFFICES ASSUME x \in ClosedTails' PROVE x \in ClosedTails /\ x \notin Q
            OBVIOUS
        <3>1. /\ x \in DOMAIN dispatch' /\ dispatch'[x].status = "closed"
              /\ dispatch'[x].reason \in {"paused", "control_failed"}
              /\ \A y \in DOMAIN dispatch' : dispatch'[y].pred # x
            BY DEF ClosedTails
        <3>2. x \in DOMAIN dispatch
            BY <1>2, <1>4, <3>1
        <3>3. x \notin Q
            BY <1>2, <3>1
        <3>4. QED
            BY <1>1, <1>5, <3>1, <3>2, <3>3 DEF ClosedTails
    <2>3. x \in ClosedTails /\ x \notin Q => x \in ClosedTails'
        <3> SUFFICES ASSUME x \in ClosedTails, x \notin Q PROVE x \in ClosedTails'
            OBVIOUS
        <3>1. x \in DOMAIN dispatch /\ dispatch'[x] = dispatch[x]
            BY <1>5 DEF ClosedTails
        <3>2. \A y \in DOMAIN dispatch' : dispatch'[y].pred # x
            BY <1>2, <1>4, <1>5 DEF ClosedTails
        <3>3. QED
            BY <1>1, <3>1, <3>2 DEF ClosedTails
    <2>4. QED
        BY <2>1, <2>2, <2>3 DEF ContinueSources
<1>17. LanesAreOwned'
    <2> SUFFICES ASSUME NEW a \in DOMAIN attempt
                 PROVE  /\ attempt'[a].status # "running" => attempt'[a].wait = None
                        /\ attempt'[a].wait # None =>
                            /\ attempt'[a].wait \in DOMAIN wave'
                            /\ dispatch'[attempt'[a].wait].attempt = a
                            /\ wave'[attempt'[a].wait].status = "open"
                        /\ attempt'[a].status # "running" \/ attempt'[a].dispatch # None
                            \/ attempt'[a].wait # None => SourcesOf(a)' = {}
                        /\ LaneIdle(a)' => \E s \in ContinueSources' : SourcesOf(a)' = {s}
        BY <1>1 DEF LanesAreOwned
    <2>1. /\ attempt[a].status # "running" => attempt[a].wait = None
          /\ attempt[a].wait # None =>
                /\ attempt[a].wait \in DOMAIN wave
                /\ dispatch[attempt[a].wait].attempt = a
                /\ wave[attempt[a].wait].status = "open"
          /\ attempt[a].status # "running" \/ attempt[a].dispatch # None \/ attempt[a].wait # None =>
                SourcesOf(a) = {}
          /\ LaneIdle(a) => \E s \in ContinueSources : SourcesOf(a) = {s}
        BY <1>1 DEF LanesAreOwned
    <2>2. ASSUME NEW x
          PROVE  x \in SourcesOf(a)' <=> x \in SourcesOf(a) /\ x \notin Q
        BY <1>5, <1>16, SourceRows DEF SourcesOf
    <2>3. attempt'[a].wait # None =>
                /\ attempt'[a].wait \in DOMAIN wave'
                /\ dispatch'[attempt'[a].wait].attempt = a
                /\ wave'[attempt'[a].wait].status = "open"
        BY <1>1, <1>6, <1>7, <1>9, <2>1
    <2>4. CASE \A s \in Q : dispatch[s].attempt # a
        <3>1. SourcesOf(a)' = SourcesOf(a)
            BY <2>2, <2>4 DEF SourcesOf
        <3>2. /\ attempt'[a].status = attempt[a].status /\ attempt'[a].wait = attempt[a].wait
              /\ attempt'[a].dispatch = attempt[a].dispatch
            BY <1>6, <2>4
        <3>3. LaneIdle(a)' => \E s \in ContinueSources' : SourcesOf(a)' = {s}
            <4> SUFFICES ASSUME LaneIdle(a)' PROVE \E s \in ContinueSources' : SourcesOf(a)' = {s}
                OBVIOUS
            <4>1. PICK s \in ContinueSources : SourcesOf(a) = {s}
                BY <2>1, <3>2 DEF LaneIdle
            <4>2. dispatch[s].attempt = a
                BY <4>1 DEF SourcesOf
            <4>3. s \in ContinueSources'
                BY <1>16, <2>4, <4>2
            <4>4. QED
                BY <3>1, <4>1, <4>3
        <3>4. QED
            BY <2>1, <2>3, <3>1, <3>2, <3>3
    <2>5. CASE \E s \in Q : dispatch[s].attempt = a
        <3>1. PICK s \in Q : dispatch[s].attempt = a
            BY <2>5
        <3>2. /\ attempt'[a].status = "running" /\ attempt'[a].wait = None
              /\ attempt'[a].dispatch # None
            BY <1>2, <1>6, <3>1
        <3>3. \A x \in SourcesOf(a) : x \in Q
            <4>1. CASE Live(s)
                BY <1>2, <2>1, <3>1, <4>1, DrivenLane
            <4>2. CASE s \in ContinueSources /\ attempt[a].dispatch = None
                <5>1. PICK t \in ContinueSources : SourcesOf(a) = {t}
                    BY <1>2, <2>1, <3>1, <4>2 DEF LaneIdle
                <5>2. s \in SourcesOf(a)
                    BY <3>1, <4>2 DEF SourcesOf
                <5>3. QED
                    BY <5>1, <5>2
            <4>3. QED
                BY <1>2, <3>1, <4>1, <4>2
        <3>4. SourcesOf(a)' = {}
            BY <2>2, <3>3
        <3>5. QED
            BY <2>3, <3>2, <3>4 DEF LaneIdle
    <2>6. QED
        BY <2>4, <2>5
<1>18. PlansAreExact'
    BY <1>1 DEF PlansAreExact, IInv, TypeOK, TaskTypeOK
<1>19. RunningHasNoTail' /\ FinishedTaskIsQuiet'
    BY <1>1, <1>16 DEF RunningHasNoTail, FinishedTaskIsQuiet
<1>20. QED
    BY <1>10, <1>11, <1>12, <1>13, <1>14, <1>15, <1>17, <1>18, <1>19

LEMMA WatchdogReplaceEffect ==
    ASSUME IInv, WInv, NEW d \in DOMAIN dispatch, WatchdogReplace(d)
    PROVE  /\ Opens({d}, [s \in {d} |-> NextDispatch(d[1])])
           /\ ClosedTails = {}
           /\ taskStatus = "running" /\ UNCHANGED <<controlRevision, resuming>>
<1> DEFINE a == dispatch[d].attempt
           i == NextDispatch(d[1])
           o == [s \in {d} |-> i]
<1>1. /\ taskStatus = "running" /\ Live(d)
      /\ attempt[a].status = "running" /\ attempt[a].dispatch = d /\ attempt[a].wait = None
      /\ UNCHANGED <<taskStatus, controlRevision, assignment, wave, boundary, resuming>>
    BY DEF WatchdogReplace, Stale, NodeAuthority, taskRow, volatile
<1>2. a \in DOMAIN attempt /\ a \in DispatchId /\ d \in DispatchId /\ d # None
    BY DispatchFacts, AttemptFacts
<1>3. i \in DispatchId /\ i # None /\ i \notin DOMAIN dispatch
    BY DispatchFacts, NextIsNew DEF IInv, TypeOK
<1>4. /\ DOMAIN dispatch' = DOMAIN dispatch \cup {i}
      /\ dispatch'[i] = NewDispatch(a, d)
      /\ \A x \in DOMAIN dispatch :
            dispatch'[x] = IF x = d THEN [dispatch[d] EXCEPT !.status = "closed",
                                                             !.reason = "watchdog_superseded"]
                           ELSE dispatch[x]
    BY <1>3 DEF WatchdogReplace, Upsert, Close
<1>5. dispatch'[i].attempt = a /\ dispatch'[i].pred = d /\ dispatch'[i].status = "starting"
    BY <1>4 DEF NewDispatch
<1>6. ASSUME NEW x \in DOMAIN dispatch
      PROVE  /\ dispatch'[x].attempt = dispatch[x].attempt
             /\ dispatch'[x].pred = dispatch[x].pred
             /\ x = d => dispatch'[x].status = "closed" /\ dispatch'[x].reason = "watchdog_superseded"
             /\ x # d => dispatch'[x] = dispatch[x]
    <2>1. dispatch[x] \in DispatchRow
        BY DispatchFacts
    <2>2. CASE x = d
        <3>1. dispatch'[x] = [dispatch[x] EXCEPT !.status = "closed", !.reason = "watchdog_superseded"]
            BY <1>4, <2>2
        <3>2. QED
            BY <2>1, <2>2, <3>1 DEF DispatchRow
    <2>3. CASE x # d
        BY <1>4, <2>3
    <2>4. QED
        BY <2>2, <2>3
<1>7. ASSUME NEW x \in DOMAIN attempt
      PROVE  /\ attempt'[x].assignment = attempt[x].assignment
             /\ attempt'[x].status = attempt[x].status
             /\ attempt'[x].wait = attempt[x].wait
             /\ attempt'[x].dispatch = IF x = a THEN i ELSE attempt[x].dispatch
    <2>1. attempt[x] \in AttemptRow
        BY AttemptFacts
    <2>2. attempt'[x] = IF x = a THEN [attempt[a] EXCEPT !.dispatch = i, !.replaced = @ + 1]
                        ELSE attempt[x]
        BY DEF WatchdogReplace
    <2>3. QED
        BY <2>1, <2>2 DEF AttemptRow
<1>8. DOMAIN attempt' = DOMAIN attempt
    BY DEF WatchdogReplace
<1>9. \A w \in DOMAIN wave : w # d
    BY <1>1, LiveOrClosed DEF WInv, WavesAreDelegations
<1>10. Opens({d}, o)
    <2>1. o[d] = i
        OBVIOUS
    <2> HIDE DEF o, i, a
    <2>2. \A s \in {d} : s = d /\ o[s] = i
        BY <2>1
    <2> QED
        BY <1>1, <1>3, <1>4, <1>5, <1>6, <1>7, <1>8, <1>9, <2>2 DEF Opens, a
<1>11. ClosedTails = {}
    BY <1>1 DEF WInv, RunningHasNoTail
<1>12. QED
    BY <1>1, <1>10, <1>11

LEMMA WWatchdogReplace ==
    ASSUME IInv, WInv, NEW d \in DOMAIN dispatch, WatchdogReplace(d)
    PROVE  WInv'
BY WatchdogReplaceEffect, WOpened

LEMMA OpenContinuationEffect ==
    ASSUME IInv, WInv, NEW p \in preparing, OpenContinuation(p)
    PROVE  /\ Opens({p.wave}, [s \in {p.wave} |-> NextDispatch(p.wave[1])])
           /\ ClosedTails = {}
           /\ taskStatus = "running" /\ UNCHANGED <<controlRevision, resuming>>
<1> DEFINE w == p.wave
           a == dispatch[w].attempt
           i == NextDispatch(w[1])
           o == [s \in {w} |-> i]
<1>1. w \in DOMAIN wave /\ w \in DOMAIN dispatch /\ a \in DOMAIN attempt
    BY DEF IInv, TypeOK, KeysOK, SignalsOK
<1>2. /\ taskStatus = "running" /\ LaneIdle(a) /\ w \in ContinueSources
      /\ UNCHANGED <<taskStatus, controlRevision, assignment, boundary, resuming>>
    BY <1>1 DEF OpenContinuation, ContinuationCurrent, WaveContinuable, ContextCurrent, ContinueSources,
        WaveSources, taskRow
<1>3. i \in DispatchId /\ i # None /\ i \notin DOMAIN dispatch
    BY <1>1, DispatchFacts, NextIsNew DEF IInv, TypeOK
<1>4. /\ DOMAIN dispatch' = DOMAIN dispatch \cup {i}
      /\ dispatch'[i] = NewDispatch(a, w)
      /\ \A x \in DOMAIN dispatch : dispatch'[x] = dispatch[x]
    BY <1>3 DEF OpenContinuation, Upsert
<1>5. dispatch'[i].attempt = a /\ dispatch'[i].pred = w /\ dispatch'[i].status = "starting"
    BY <1>4 DEF NewDispatch
<1>6. ASSUME NEW x \in DOMAIN attempt
      PROVE  /\ attempt'[x].assignment = attempt[x].assignment
             /\ attempt'[x].status = attempt[x].status
             /\ attempt'[x].wait = attempt[x].wait
             /\ attempt'[x].dispatch = IF x = a THEN i ELSE attempt[x].dispatch
    <2>1. attempt[x] \in AttemptRow
        BY AttemptFacts
    <2>2. attempt'[x] = IF x = a THEN [attempt[a] EXCEPT !.dispatch = i] ELSE attempt[x]
        BY DEF OpenContinuation
    <2>3. QED
        BY <2>1, <2>2 DEF AttemptRow
<1>7. DOMAIN attempt' = DOMAIN attempt /\ DOMAIN wave' = DOMAIN wave
    BY DEF OpenContinuation
<1>8. ASSUME NEW x \in DOMAIN wave
      PROVE  /\ wave'[x].status = wave[x].status /\ wave'[x].member = wave[x].member
             /\ wave'[x].succ = IF x = w THEN i ELSE wave[x].succ
    <2>1. wave' = [wave EXCEPT ![w].succ = i]
        BY DEF OpenContinuation
    <2>2. QED
        BY <2>1, WaveFacts
<1>9. ~Live(w)
    BY <1>1, LiveOrClosed DEF WInv, WavesAreDelegations
<1>10. Opens({w}, o)
    <2>1. o[w] = i
        OBVIOUS
    <2>2. attempt[a].status = "running" /\ attempt[a].wait = None /\ attempt[a].dispatch = None
        BY <1>2 DEF LaneIdle
    <2> HIDE DEF o, i, w, a
    <2>3. \A s \in {w} : s = w /\ o[s] = i
        BY <2>1
    <2> QED
        BY <1>1, <1>2, <1>3, <1>4, <1>5, <1>6, <1>7, <1>8, <1>9, <2>2, <2>3 DEF Opens, a
<1>11. ClosedTails = {}
    BY <1>2 DEF WInv, RunningHasNoTail
<1>12. QED
    BY <1>2, <1>10, <1>11

LEMMA WOpenContinuation ==
    ASSUME IInv, WInv, NEW p \in preparing, OpenContinuation(p)
    PROVE  WInv'
BY OpenContinuationEffect, WOpened

\* A resume gives every source of its plan a successor in that source's lane.
LEMMA ResumeEffect ==
    ASSUME IInv, WInv, NEW p \in resuming, CommitResume(p)
    PROVE  Opens(p.sources, [s \in p.sources |-> NextDispatch(s[1])])
<1> DEFINE Q == p.sources
           o == [s \in Q |-> NextDispatch(s[1])]
           pred(i) == CHOOSE s \in Q : o[s] = i
           ids == {o[s] : s \in Q}
           source(a) == CHOOSE s \in Q : dispatch[s].attempt = a
<1>1. /\ ResumeCurrent(p)
      /\ taskStatus = "paused" /\ taskStatus' = "running"
      /\ UNCHANGED <<assignment, boundary>>
    BY DEF CommitResume, ResumeCurrent
<1>2. wave' = [w \in DOMAIN wave |->
                IF w \in Q THEN [wave[w] EXCEPT !.succ = o[w]] ELSE wave[w]]
    BY DEF CommitResume
<1>3. attempt' = [a \in DOMAIN attempt |->
                    [attempt[a] EXCEPT
                        !.dispatch = IF \E s \in Q : dispatch[s].attempt = a
                                     THEN o[source(a)] ELSE @,
                        !.replaced = IF a \in RunningAttempts THEN 0 ELSE @]]
    BY DEF CommitResume
<1>4. dispatch' = Upsert(dispatch, [i \in ids |-> NewDispatch(dispatch[pred(i)].attempt, pred(i))])
    BY DEF CommitResume
<1>5. ASSUME NEW s \in Q
      PROVE  /\ s \in DOMAIN dispatch /\ s[1] \in Members
             /\ dispatch[s].attempt \in DOMAIN attempt /\ dispatch[s].attempt[1] = s[1]
             /\ LaneIdle(dispatch[s].attempt) /\ s \in ContinueSources /\ ~Live(s)
    <2>1. s \in DOMAIN dispatch
        BY DEF IInv, TypeOK, SignalsOK
    <2>2. LaneIdle(dispatch[s].attempt) /\ s \in ContinueSources /\ dispatch[s].status = "closed"
        BY <1>1 DEF ResumeCurrent, SourceClaimable, ContextCurrent
    <2>3. QED
        BY <2>1, <2>2, DispatchFacts, LiveOrClosed
<1>6. \A s, t \in Q : s[1] = t[1] => s = t
    BY DEF IInv, PlanHasOneSourcePerMember
<1>7. ASSUME NEW s \in Q
      PROVE  o[s] # None /\ o[s][1] = s[1] /\ o[s] \notin DOMAIN dispatch
    BY <1>5, NextIsNew DEF IInv, TypeOK
<1>8. \A s, t \in Q : o[s] = o[t] \/ dispatch[s].attempt = dispatch[t].attempt => s = t
    <2> SUFFICES ASSUME NEW s \in Q, NEW t \in Q,
                        o[s] = o[t] \/ dispatch[s].attempt = dispatch[t].attempt
                 PROVE  s[1] = t[1]
        BY <1>6
    <2>1. o[s][1] = s[1] /\ o[t][1] = t[1]
        BY <1>7
    <2>2. dispatch[s].attempt[1] = s[1] /\ dispatch[t].attempt[1] = t[1]
        BY <1>5
    <2> HIDE DEF o
    <2>3. QED
        BY <2>1, <2>2
<1>9. ASSUME NEW s \in Q
      PROVE  pred(o[s]) = s /\ source(dispatch[s].attempt) = s
    <2>1. \A t \in Q : o[t] = o[s] \/ dispatch[t].attempt = dispatch[s].attempt => t = s
        BY <1>8
    <2> HIDE DEF o
    <2>2. QED
        BY <2>1
<1>10. DOMAIN dispatch' = DOMAIN dispatch \cup ids
    BY <1>4 DEF Upsert
<1>11. ASSUME NEW x \in DOMAIN dispatch
       PROVE  dispatch'[x] = dispatch[x]
    <2>1. x \notin ids
        BY <1>7
    <2>2. QED
        BY <1>4, <2>1 DEF Upsert
<1>12. ASSUME NEW s \in Q
       PROVE  /\ o[s] \in DOMAIN dispatch'
              /\ dispatch'[o[s]].attempt = dispatch[s].attempt
              /\ dispatch'[o[s]].pred = s
              /\ dispatch'[o[s]].status = "starting"
    <2>1. o[s] \in ids
        OBVIOUS
    <2>2. dispatch'[o[s]] = NewDispatch(dispatch[pred(o[s])].attempt, pred(o[s]))
        BY <1>4, <2>1 DEF Upsert
    <2>3. dispatch'[o[s]] = NewDispatch(dispatch[s].attempt, s)
        BY <1>9, <2>2
    <2> HIDE DEF o, ids
    <2>4. QED
        BY <1>10, <2>1, <2>3 DEF NewDispatch
<1>13. ASSUME NEW x \in DOMAIN attempt
       PROVE  /\ attempt'[x].assignment = attempt[x].assignment
              /\ attempt'[x].status = attempt[x].status
              /\ attempt'[x].wait = attempt[x].wait
              /\ (\A s \in Q : dispatch[s].attempt # x) => attempt'[x].dispatch = attempt[x].dispatch
              /\ \A s \in Q : dispatch[s].attempt = x => attempt'[x].dispatch = o[s]
    <2>1. attempt[x] \in AttemptRow
        BY AttemptFacts
    <2> DEFINE ptr == IF \E s \in Q : dispatch[s].attempt = x THEN o[source(x)] ELSE attempt[x].dispatch
               count == IF x \in RunningAttempts THEN 0 ELSE attempt[x].replaced
    <2>2. attempt'[x] = [attempt[x] EXCEPT !.dispatch = ptr, !.replaced = count]
        BY <1>3
    <2>3. (\A s \in Q : dispatch[s].attempt # x) => ptr = attempt[x].dispatch
        OBVIOUS
    <2>4. ASSUME NEW s \in Q, dispatch[s].attempt = x
          PROVE  ptr = o[s]
        <3>1. ptr = o[source(x)]
            BY <2>4
        <3>2. source(x) = s
            BY <1>9, <2>4
        <3> HIDE DEF source, o, ptr
        <3>3. QED
            BY <3>1, <3>2
    <2> HIDE DEF ptr, count
    <2>5. attempt'[x] = [assignment |-> attempt[x].assignment, status |-> attempt[x].status,
                         dispatch |-> ptr, wait |-> attempt[x].wait, replaced |-> count]
        BY <2>1, <2>2 DEF AttemptRow
    <2>6. QED
        BY <2>3, <2>4, <2>5
<1>14. DOMAIN attempt' = DOMAIN attempt /\ DOMAIN wave' = DOMAIN wave
    BY <1>2, <1>3
<1>15. ASSUME NEW w \in DOMAIN wave
       PROVE  /\ wave'[w].status = wave[w].status /\ wave'[w].member = wave[w].member
              /\ wave'[w].succ = IF w \in Q THEN o[w] ELSE wave[w].succ
    <2> HIDE DEF o
    <2>1. wave'[w] = IF w \in Q THEN [wave[w] EXCEPT !.succ = o[w]] ELSE wave[w]
        BY <1>2
    <2>2. QED
        BY <2>1, WaveFacts
<1>16. \A x \in DOMAIN dispatch' \ DOMAIN dispatch : \E s \in Q : x = o[s]
    BY <1>10
<1>17. DOMAIN dispatch \subseteq DOMAIN dispatch'
    BY <1>10
<1> HIDE DEF o, ids, pred, source
<1>18. QED
    <2>1. \A s \in Q :
            /\ attempt[dispatch[s].attempt].status = "running"
            /\ attempt[dispatch[s].attempt].wait = None
            /\ attempt[dispatch[s].attempt].dispatch = None
        BY <1>5 DEF LaneIdle
    <2>2. Opens(Q, o)
        BY <1>1, <1>5, <1>7, <1>8, <1>11, <1>12, <1>13, <1>14, <1>15, <1>16, <1>17, <2>1 DEF Opens
    <2>3. QED
        BY <2>2 DEF o

LEMMA WCommitResume ==
    ASSUME IInv, WInv, NEW p \in resuming, CommitResume(p)
    PROVE  WInv'
<1>1. /\ controlRevision = p.control
      /\ controlRevision' = controlRevision + 1
      /\ resuming' = resuming \ {p}
    BY DEF CommitResume, ResumeCurrent
<1>2. p.sources = ContinueSources
    BY <1>1 DEF WInv, PlansAreExact
<1>3. \A x \in ClosedTails : x \in p.sources
    BY <1>2 DEF ContinueSources
<1>4. QED
    BY <1>1, <1>3, ResumeEffect, WOpened

-----------------------------------------------------------------------------
(* Joining a Wave                                                           *)

\* The joined Wave becomes the one source of the lane that waited for it.
LEMMA WJoinWave ==
    ASSUME IInv, WInv, NEW s \in signals, JoinWave(s)
    PROVE  WInv'
<1> DEFINE w == s.wave
           a == dispatch[w].attempt
<1> USE DEF WInv
<1>1. w \in DOMAIN wave /\ w \in DOMAIN dispatch /\ w # None /\ a \in DOMAIN attempt
    BY WaveFacts DEF IInv, TypeOK, SignalsOK
<1>2. /\ taskStatus = "running" /\ wave[w].status = "open" /\ wave[w].succ = None /\ AllReturned(w)
      /\ attempt[a].status = "running" /\ attempt[a].dispatch = None /\ attempt[a].wait = w
    BY DEF JoinWave, Joinable
<1>3. UNCHANGED <<taskStatus, controlRevision, assignment, dispatch, boundary, resuming>>
    BY DEF JoinWave, taskRow
<1>4. DOMAIN wave' = DOMAIN wave /\ DOMAIN attempt' = DOMAIN attempt
    BY DEF JoinWave
<1>5. ASSUME NEW x \in DOMAIN wave
      PROVE  /\ wave'[x].status = IF x = w THEN "settled" ELSE wave[x].status
             /\ wave'[x].member = wave[x].member /\ wave'[x].succ = wave[x].succ
    <2>1. wave' = [wave EXCEPT ![w].status = "settled"]
        BY DEF JoinWave
    <2>2. QED
        BY <2>1, WaveFacts
<1>6. ASSUME NEW x \in DOMAIN attempt
      PROVE  /\ attempt'[x].assignment = attempt[x].assignment
             /\ attempt'[x].status = attempt[x].status
             /\ attempt'[x].dispatch = attempt[x].dispatch
             /\ attempt'[x].wait = IF x = a THEN None ELSE attempt[x].wait
    <2>1. attempt[x] \in AttemptRow
        BY AttemptFacts
    <2>2. QED
        BY <2>1 DEF JoinWave, AttemptRow
<1> HIDE DEF w
<1>7. WavesAreDelegations'
    <2> SUFFICES ASSUME NEW x \in DOMAIN wave
                 PROVE  /\ dispatch[x].status = "closed"
                        /\ dispatch[x].reason = "delegation"
                        /\ DOMAIN wave'[x].member # {}
                        /\ wave'[x].succ # None => wave'[x].status = "settled"
                        /\ wave'[x].status = "settled" => AllReturned(x)'
                        /\ wave'[x].status = "open" => attempt'[dispatch[x].attempt].wait = x
                        /\ wave'[x].status # "cancelled"
        BY <1>3, <1>4 DEF WavesAreDelegations
    <2>1. /\ dispatch[x].status = "closed"
          /\ dispatch[x].reason = "delegation"
          /\ DOMAIN wave[x].member # {}
          /\ wave[x].succ # None => wave[x].status = "settled"
          /\ wave[x].status = "settled" => AllReturned(x)
          /\ wave[x].status = "open" => attempt[dispatch[x].attempt].wait = x
          /\ wave[x].status # "cancelled"
        BY <1>2 DEF WavesAreDelegations
    <2>2. AllReturned(x)' <=> AllReturned(x)
        BY <1>5 DEF AllReturned
    <2>3. wave'[x].status = "open" => attempt'[dispatch[x].attempt].wait = x
        <3>1. dispatch[x].attempt \in DOMAIN attempt
            BY WaveFacts
        <3>2. QED
            BY <1>2, <1>5, <1>6, <2>1, <3>1
    <2>4. QED
        BY <1>2, <1>5, <2>1, <2>2, <2>3
<1>8. MembersHaveSource'
    BY <1>3, <1>4, <1>5 DEF MembersHaveSource
<1>9. ClosedBehind' /\ OneSuccessorPerSource'
    BY <1>3, <1>4, <1>5 DEF ClosedBehind, OneSuccessorPerSource
<1>10. OpenIsServed'
    BY <1>3, <1>4, <1>6 DEF OpenIsServed
<1>11. WaveMatchesChildren'
    <2> SUFFICES ASSUME NEW x \in DOMAIN wave
                 PROVE  \A c \in DOMAIN wave[x].member :
                            /\ wave[x].member[c] = "pending" =>
                                /\ assignment[c].outcome = "open"
                                /\ attempt'[assignment[c].attempt].status = "running"
                            /\ wave[x].member[c] = "settled" =>
                                /\ assignment[c].outcome # "open"
                                /\ \E d \in DOMAIN boundary :
                                    /\ attempt'[dispatch[d].attempt].assignment = c
                                    /\ boundary[d] = assignment[c].outcome
        BY <1>3, <1>4, <1>5, <1>7 DEF WaveMatchesChildren, WavesAreDelegations
    <2> TAKE c \in DOMAIN wave[x].member
    <2>1. wave[x].member[c] = "pending" => assignment[c].outcome = "open"
        BY DEF WaveMatchesChildren
    <2>2. c \in DOMAIN assignment
        BY DEF MembersHaveSource
    <2>3. \A d \in DOMAIN boundary : dispatch[d].attempt \in DOMAIN attempt
        BY DEF IInv, TypeOK, KeysOK
    <2>4. QED
        BY <1>2, <1>3, <1>6, <1>10, <2>1, <2>2, <2>3 DEF WaveMatchesChildren, OpenIsServed
<1>12. ClosedTails' = ClosedTails
    BY <1>3 DEF ClosedTails
<1>13. ASSUME NEW x
       PROVE  x \in ContinueSources' <=> x \in ContinueSources \/ x = w
    BY <1>1, <1>2, <1>4, <1>5, <1>12 DEF ContinueSources, WaveSources, Unconsumed
<1>14. LanesAreOwned'
    <2> SUFFICES ASSUME NEW x \in DOMAIN attempt
                 PROVE  /\ attempt'[x].status # "running" => attempt'[x].wait = None
                        /\ attempt'[x].wait # None =>
                            /\ attempt'[x].wait \in DOMAIN wave'
                            /\ dispatch'[attempt'[x].wait].attempt = x
                            /\ wave'[attempt'[x].wait].status = "open"
                        /\ attempt'[x].status # "running" \/ attempt'[x].dispatch # None
                            \/ attempt'[x].wait # None => SourcesOf(x)' = {}
                        /\ LaneIdle(x)' => \E y \in ContinueSources' : SourcesOf(x)' = {y}
        BY <1>4 DEF LanesAreOwned
    <2>1. /\ attempt[x].status # "running" => attempt[x].wait = None
          /\ attempt[x].wait # None =>
                /\ attempt[x].wait \in DOMAIN wave
                /\ dispatch[attempt[x].wait].attempt = x
                /\ wave[attempt[x].wait].status = "open"
          /\ attempt[x].status # "running" \/ attempt[x].dispatch # None \/ attempt[x].wait # None =>
                SourcesOf(x) = {}
          /\ LaneIdle(x) => \E y \in ContinueSources : SourcesOf(x) = {y}
        BY <1>2 DEF LanesAreOwned
    <2>2. ASSUME NEW y
          PROVE  y \in SourcesOf(x)' <=> y \in SourcesOf(x) \/ (y = w /\ x = a)
        BY <1>3, <1>13 DEF SourcesOf
    <2>3. CASE x = a
        <3>1. SourcesOf(x)' = {w}
            BY <1>1, <1>2, <2>1, <2>2, <2>3
        <3>2. w \in ContinueSources'
            BY <1>13
        <3>3. QED
            BY <1>2, <1>6, <2>3, <3>1, <3>2
    <2>4. CASE x # a
        <3>1. SourcesOf(x)' = SourcesOf(x)
            BY <2>2, <2>4 DEF SourcesOf
        <3>2. attempt[x].wait # None => attempt[x].wait # w
            BY <2>1, <2>4
        <3>3. QED
            BY <1>3, <1>4, <1>5, <1>6, <1>13, <2>1, <2>4, <3>1, <3>2 DEF LaneIdle
    <2>5. QED
        BY <2>3, <2>4
<1>15. PlansAreExact' /\ RunningHasNoTail' /\ FinishedTaskIsQuiet'
    BY <1>2, <1>3, <1>12 DEF PlansAreExact, RunningHasNoTail, FinishedTaskIsQuiet
<1>16. QED
    BY <1>7, <1>8, <1>9, <1>10, <1>11, <1>14, <1>15

-----------------------------------------------------------------------------
(* A terminal Checkpoint                                                    *)

\* What ending a lane does to each row: d is its Dispatch, a its Attempt.
EndRows(d, a, asg, outcome) ==
    /\ DOMAIN dispatch' = DOMAIN dispatch /\ DOMAIN attempt' = DOMAIN attempt
    /\ DOMAIN assignment' = DOMAIN assignment /\ DOMAIN boundary' = DOMAIN boundary \cup {d}
    /\ \A x \in DOMAIN dispatch :
        /\ x # d => dispatch'[x] = dispatch[x]
        /\ dispatch'[x].attempt = dispatch[x].attempt /\ dispatch'[x].pred = dispatch[x].pred
    /\ dispatch'[d].status = "closed" /\ dispatch'[d].reason = "boundary"
    /\ \A x \in DOMAIN attempt :
        /\ x # a => attempt'[x] = attempt[x]
        /\ attempt'[x].assignment = attempt[x].assignment /\ attempt'[x].wait = attempt[x].wait
    /\ attempt'[a].status = "completed" /\ attempt'[a].dispatch = None
    /\ \A x \in DOMAIN assignment :
        /\ x # asg => assignment'[x] = assignment[x]
        /\ assignment'[x].source = assignment[x].source
        /\ assignment'[x].attempt = assignment[x].attempt
    /\ assignment'[asg].outcome = outcome
    /\ \A b \in DOMAIN boundary : b # d => boundary'[b] = boundary[b]
    /\ boundary'[d] = outcome

LEMMA EndEffect ==
    ASSUME IInv, NEW d \in DOMAIN dispatch, NodeAuthority(d),
           NEW outcome \in {"green", "blocked"}, EndsLane(d, outcome)
    PROVE  EndRows(d, dispatch[d].attempt, attempt[dispatch[d].attempt].assignment, outcome)
<1> DEFINE a == dispatch[d].attempt
           asg == attempt[a].assignment
<1>1. /\ a \in DOMAIN attempt /\ attempt[a] \in AttemptRow
      /\ asg \in DOMAIN assignment /\ assignment[asg] \in AssignmentRow /\ dispatch[d] \in DispatchRow
    BY AuthorityFacts, DispatchFacts
<1>2. /\ dispatch' = [dispatch EXCEPT ![d].status = "closed", ![d].reason = "boundary"]
      /\ attempt' = [attempt EXCEPT ![a].status = "completed", ![a].dispatch = None]
      /\ assignment' = [assignment EXCEPT ![asg].outcome = outcome]
      /\ boundary' = [b \in DOMAIN boundary \cup {d} |-> IF b = d THEN outcome ELSE boundary[b]]
    BY DEF EndsLane, Close, EndAttempt, EndAssignment, Accept, Upsert
<1>3. ASSUME NEW x \in DOMAIN dispatch
      PROVE  /\ x # d => dispatch'[x] = dispatch[x]
             /\ dispatch'[x].attempt = dispatch[x].attempt /\ dispatch'[x].pred = dispatch[x].pred
             /\ x = d => dispatch'[x].status = "closed" /\ dispatch'[x].reason = "boundary"
    BY <1>1, <1>2 DEF DispatchRow
<1>4. ASSUME NEW x \in DOMAIN attempt
      PROVE  /\ x # a => attempt'[x] = attempt[x]
             /\ attempt'[x].assignment = attempt[x].assignment /\ attempt'[x].wait = attempt[x].wait
             /\ x = a => attempt'[x].status = "completed" /\ attempt'[x].dispatch = None
    BY <1>1, <1>2 DEF AttemptRow
<1>5. ASSUME NEW x \in DOMAIN assignment
      PROVE  /\ x # asg => assignment'[x] = assignment[x]
             /\ assignment'[x].source = assignment[x].source
             /\ assignment'[x].attempt = assignment[x].attempt
             /\ x = asg => assignment'[x].outcome = outcome
    BY <1>1, <1>2 DEF AssignmentRow
<1>6. /\ DOMAIN dispatch' = DOMAIN dispatch /\ DOMAIN attempt' = DOMAIN attempt
      /\ DOMAIN assignment' = DOMAIN assignment /\ DOMAIN boundary' = DOMAIN boundary \cup {d}
      /\ \A b \in DOMAIN boundary : b # d => boundary'[b] = boundary[b]
      /\ boundary'[d] = outcome
    BY <1>2
<1>7. QED
    BY <1>1, <1>3, <1>4, <1>5, <1>6 DEF EndRows

LEMMA WEnded ==
    ASSUME IInv, WInv, NEW d \in DOMAIN dispatch, NodeAuthority(d),
           NEW outcome \in {"green", "blocked"}, EndsLane(d, outcome),
           taskStatus' \in {"running", "completed"}, controlRevision' = controlRevision,
           DOMAIN wave' = DOMAIN wave,
           \A w \in DOMAIN wave :
                /\ wave'[w].status = wave[w].status /\ wave'[w].succ = wave[w].succ
                /\ DOMAIN wave'[w].member = DOMAIN wave[w].member
                /\ \A c \in DOMAIN wave[w].member :
                    wave'[w].member[c] = IF c = attempt[dispatch[d].attempt].assignment
                                         THEN "settled" ELSE wave[w].member[c]
    PROVE  /\ WavesAreDelegations' /\ MembersHaveSource' /\ ClosedBehind' /\ OneSuccessorPerSource'
           /\ OpenIsServed' /\ WaveMatchesChildren' /\ LanesAreOwned'
           /\ PlansAreExact' /\ RunningHasNoTail'
<1> DEFINE a == dispatch[d].attempt
           asg == attempt[a].assignment
<1> USE DEF WInv
<1>1. /\ taskStatus = "running" /\ Live(d) /\ d # None
      /\ a \in DOMAIN attempt /\ asg \in DOMAIN assignment
      /\ attempt[a].status = "running" /\ attempt[a].dispatch = d /\ attempt[a].wait = None
      /\ assignment[asg].outcome = "open" /\ assignment[asg].attempt = a
    BY AuthorityFacts DEF NodeAuthority
<1>2. ASSUME NEW w \in DOMAIN wave
      PROVE  /\ wave'[w].status = wave[w].status /\ wave'[w].succ = wave[w].succ
             /\ DOMAIN wave'[w].member = DOMAIN wave[w].member
             /\ \A c \in DOMAIN wave[w].member :
                    wave'[w].member[c] = IF c = asg THEN "settled" ELSE wave[w].member[c]
    OBVIOUS
<1>3. EndRows(d, a, asg, outcome)
    BY EndEffect
<1> HIDE DEF a, asg
<1>4. /\ DOMAIN dispatch' = DOMAIN dispatch /\ DOMAIN attempt' = DOMAIN attempt
      /\ DOMAIN assignment' = DOMAIN assignment /\ DOMAIN boundary' = DOMAIN boundary \cup {d}
      /\ dispatch'[d].status = "closed" /\ dispatch'[d].reason = "boundary"
      /\ attempt'[a].status = "completed" /\ attempt'[a].dispatch = None
      /\ assignment'[asg].outcome = outcome
      /\ boundary'[d] = outcome
      /\ resuming' = resuming
    BY <1>3 DEF EndRows, EndsLane
<1>5. ASSUME NEW x \in DOMAIN dispatch
      PROVE  /\ x # d => dispatch'[x] = dispatch[x]
             /\ dispatch'[x].attempt = dispatch[x].attempt /\ dispatch'[x].pred = dispatch[x].pred
    BY <1>3 DEF EndRows
<1>6. ASSUME NEW x \in DOMAIN attempt
      PROVE  /\ x # a => attempt'[x] = attempt[x]
             /\ attempt'[x].assignment = attempt[x].assignment /\ attempt'[x].wait = attempt[x].wait
    BY <1>3 DEF EndRows
<1>7. ASSUME NEW x \in DOMAIN assignment
      PROVE  /\ x # asg => assignment'[x] = assignment[x]
             /\ assignment'[x].source = assignment[x].source
             /\ assignment'[x].attempt = assignment[x].attempt
    BY <1>3 DEF EndRows
<1>8. ASSUME NEW b \in DOMAIN boundary, b # d
      PROVE  boundary'[b] = boundary[b]
    BY <1>8, <1>3 DEF EndRows
<1>9. d \notin DOMAIN wave /\ d \notin DOMAIN boundary /\ \A y \in DOMAIN dispatch : dispatch[y].pred # d
    BY <1>1, LiveOrClosed DEF WavesAreDelegations, ClosedBehind
<1>10. WavesAreDelegations'
    <2> SUFFICES ASSUME NEW w \in DOMAIN wave
                 PROVE  /\ dispatch'[w].status = "closed"
                        /\ dispatch'[w].reason = "delegation"
                        /\ DOMAIN wave'[w].member # {}
                        /\ wave'[w].succ # None => wave'[w].status = "settled"
                        /\ wave'[w].status = "settled" => AllReturned(w)'
                        /\ wave'[w].status = "open" => attempt'[dispatch'[w].attempt].wait = w
                        /\ wave'[w].status # "cancelled"
        BY DEF WavesAreDelegations
    <2>1. /\ dispatch[w].status = "closed"
          /\ dispatch[w].reason = "delegation"
          /\ DOMAIN wave[w].member # {}
          /\ wave[w].succ # None => wave[w].status = "settled"
          /\ wave[w].status = "settled" => AllReturned(w)
          /\ wave[w].status = "open" => attempt[dispatch[w].attempt].wait = w
          /\ wave[w].status # "cancelled"
        BY <1>1 DEF WavesAreDelegations
    <2>2. AllReturned(w) => AllReturned(w)'
        BY <1>2 DEF AllReturned
    <2>3. w \in DOMAIN dispatch /\ w # d /\ dispatch[w].attempt \in DOMAIN attempt
        BY <1>9, WaveFacts
    <2>4. QED
        BY <1>5, <1>6, <1>2, <2>1, <2>2, <2>3
<1>11. MembersHaveSource'
    BY <1>4, <1>7, <1>2 DEF MembersHaveSource
<1>12. ClosedBehind'
    <2>1. ASSUME NEW x \in DOMAIN dispatch, dispatch'[x].pred # None
          PROVE  dispatch'[dispatch'[x].pred].status = "closed"
        <3>1. /\ dispatch'[x].pred = dispatch[x].pred /\ dispatch[x].pred \in DOMAIN dispatch
              /\ dispatch[dispatch[x].pred].status = "closed" /\ dispatch[x].pred # d
            BY <1>5, <1>9, <2>1 DEF ClosedBehind, OneSuccessorPerSource
        <3>2. QED
            BY <1>5, <3>1
    <2>2. ASSUME NEW b \in DOMAIN boundary'
          PROVE  dispatch'[b].status = "closed"
        <3>1. b # d => b \in DOMAIN dispatch /\ dispatch[b].status = "closed"
            BY <1>4 DEF IInv, TypeOK, KeysOK, ClosedBehind
        <3>2. QED
            BY <1>4, <1>5, <3>1
    <2>3. QED
        BY <1>4, <2>1, <2>2 DEF ClosedBehind
<1>13. OneSuccessorPerSource'
    BY <1>4, <1>5, <1>2 DEF OneSuccessorPerSource
<1>14. OpenIsServed'
    <2> SUFFICES ASSUME NEW i \in DOMAIN assignment, assignment'[i].outcome = "open"
                 PROVE  /\ assignment'[i].attempt \in DOMAIN attempt
                        /\ attempt'[assignment'[i].attempt].status = "running"
                        /\ attempt'[assignment'[i].attempt].assignment = i
        BY <1>4 DEF OpenIsServed
    <2>1. i # asg /\ assignment'[i] = assignment[i]
        BY <1>4, <1>7
    <2>2. /\ assignment[i].attempt \in DOMAIN attempt
          /\ attempt[assignment[i].attempt].status = "running"
          /\ attempt[assignment[i].attempt].assignment = i
        BY <1>1, <2>1 DEF OpenIsServed
    <2>3. assignment[i].attempt # a
        BY <2>1, <2>2 DEF asg
    <2>4. QED
        BY <1>6, <2>1, <2>2, <2>3
<1>15. WaveMatchesChildren'
    <2> SUFFICES ASSUME NEW w \in DOMAIN wave
                 PROVE  \A c \in DOMAIN wave[w].member :
                            /\ wave'[w].member[c] = "pending" =>
                                /\ assignment'[c].outcome = "open"
                                /\ attempt'[assignment'[c].attempt].status = "running"
                            /\ wave'[w].member[c] = "settled" =>
                                /\ assignment'[c].outcome # "open"
                                /\ \E b \in DOMAIN boundary' :
                                    /\ attempt'[dispatch'[b].attempt].assignment = c
                                    /\ boundary'[b] = assignment'[c].outcome
        BY <1>2, <1>10 DEF WaveMatchesChildren, WavesAreDelegations
    <2> TAKE c \in DOMAIN wave[w].member
    <2>1. c \in DOMAIN assignment
        BY DEF MembersHaveSource
    <2>2. CASE c = asg
        <3>1. d \in DOMAIN boundary' /\ attempt'[dispatch'[d].attempt].assignment = c
            BY <1>1, <1>4, <1>5, <1>6, <2>2 DEF a, asg
        <3>2. QED
            BY <1>4, <1>2, <2>2, <3>1
    <2>3. CASE c # asg
        <3>1. assignment'[c] = assignment[c] /\ wave'[w].member[c] = wave[w].member[c]
            BY <1>7, <1>2, <2>1, <2>3
        <3>2. wave[w].member[c] = "pending" =>
                assignment[c].outcome = "open" /\ attempt'[assignment[c].attempt].status = "running"
            <4>1. wave[w].member[c] = "pending" => assignment[c].outcome = "open"
                BY DEF WaveMatchesChildren
            <4>2. QED
                BY <1>4, <1>14, <2>1, <3>1, <4>1 DEF OpenIsServed
        <3>3. ASSUME wave[w].member[c] = "settled"
              PROVE  /\ assignment[c].outcome # "open"
                     /\ \E b \in DOMAIN boundary' :
                            /\ attempt'[dispatch'[b].attempt].assignment = c
                            /\ boundary'[b] = assignment[c].outcome
            <4>1. PICK b \in DOMAIN boundary :
                    /\ attempt[dispatch[b].attempt].assignment = c
                    /\ boundary[b] = assignment[c].outcome
                BY <3>3 DEF WaveMatchesChildren
            <4>2. b \in DOMAIN dispatch /\ dispatch[b].attempt \in DOMAIN attempt /\ b # d
                BY <1>9 DEF IInv, TypeOK, KeysOK
            <4>3. attempt'[dispatch'[b].attempt].assignment = c /\ boundary'[b] = boundary[b]
                BY <1>5, <1>6, <1>8, <4>1, <4>2
            <4>4. QED
                BY <1>4, <3>3, <4>1, <4>3 DEF WaveMatchesChildren
        <3>4. QED
            BY <3>1, <3>2, <3>3
    <2>4. QED
        BY <2>2, <2>3
<1>16. WaveSources' = WaveSources
    BY <1>2 DEF WaveSources, Unconsumed
<1>17. ClosedTails' = ClosedTails
    <2>1. \A x \in DOMAIN dispatch : dispatch'[x].pred = dispatch[x].pred
        BY <1>5
    <2>2. d \notin ClosedTails /\ d \notin ClosedTails'
        BY <1>1, <1>4 DEF ClosedTails, Live
    <2>3. \A x \in DOMAIN dispatch : x # d => dispatch'[x] = dispatch[x]
        BY <1>5
    <2>4. QED
        BY <1>4, <2>1, <2>2, <2>3 DEF ClosedTails
<1>18. \A x : SourcesOf(x)' = SourcesOf(x)
    BY <1>5, <1>16, <1>17, SourceRows DEF SourcesOf, ContinueSources
<1>19. LanesAreOwned'
    <2> SUFFICES ASSUME NEW x \in DOMAIN attempt
                 PROVE  /\ attempt'[x].status # "running" => attempt'[x].wait = None
                        /\ attempt'[x].wait # None =>
                            /\ attempt'[x].wait \in DOMAIN wave'
                            /\ dispatch'[attempt'[x].wait].attempt = x
                            /\ wave'[attempt'[x].wait].status = "open"
                        /\ attempt'[x].status # "running" \/ attempt'[x].dispatch # None
                            \/ attempt'[x].wait # None => SourcesOf(x)' = {}
                        /\ LaneIdle(x)' => \E y \in ContinueSources' : SourcesOf(x)' = {y}
        BY <1>4 DEF LanesAreOwned
    <2>1. /\ attempt[x].status # "running" => attempt[x].wait = None
          /\ attempt[x].wait # None =>
                /\ attempt[x].wait \in DOMAIN wave
                /\ dispatch[attempt[x].wait].attempt = x
                /\ wave[attempt[x].wait].status = "open"
          /\ attempt[x].status # "running" \/ attempt[x].dispatch # None \/ attempt[x].wait # None =>
                SourcesOf(x) = {}
          /\ LaneIdle(x) => \E y \in ContinueSources : SourcesOf(x) = {y}
        BY <1>1 DEF LanesAreOwned
    <2>2. attempt[x].wait # None => dispatch'[attempt[x].wait].attempt = x
        BY <1>5, <2>1, WaveFacts
    <2>3. CASE x = a
        BY <1>1, <1>4, <1>6, <1>18, <2>1, <2>3 DEF LaneIdle
    <2>4. CASE x # a
        <3>1. ContinueSources' = ContinueSources
            BY <1>16, <1>17 DEF ContinueSources
        <3>2. attempt'[x] = attempt[x]
            BY <1>6, <2>4
        <3>3. QED
            BY <1>2, <1>18, <2>1, <2>2, <3>1, <3>2 DEF LaneIdle
    <2>5. QED
        BY <2>3, <2>4
<1>20. PlansAreExact' /\ RunningHasNoTail'
    BY <1>1, <1>4, <1>17 DEF PlansAreExact, RunningHasNoTail
<1>21. QED
    BY <1>10, <1>11, <1>12, <1>13, <1>14, <1>15, <1>19, <1>20

LEMMA WReturnToParent ==
    ASSUME IInv, WInv, NEW d \in DOMAIN dispatch, NEW outcome \in {"green", "blocked"},
           ReturnToParent(d, outcome)
    PROVE  WInv'
<1> DEFINE asg == attempt[dispatch[d].attempt].assignment
<1>1. /\ NodeAuthority(d) /\ taskStatus = "running"
      /\ EndsLane(d, outcome)
      /\ UNCHANGED <<taskStatus, controlRevision>>
    BY DEF ReturnToParent, MayCheckpoint, NodeAuthority, EndsLane, taskRow
<1>2. PICK w \in DOMAIN wave :
        /\ asg \in DOMAIN wave[w].member
        /\ wave' = [wave EXCEPT ![w].member[asg] = "settled"]
    BY DEF ReturnToParent
<1>3. \A x \in DOMAIN wave : asg \in DOMAIN wave[x].member => x = w
    BY <1>2 DEF WInv, MembersHaveSource
<1> HIDE DEF asg
<1>4. DOMAIN wave' = DOMAIN wave
    BY <1>2
<1>5. ASSUME NEW x \in DOMAIN wave
      PROVE  /\ wave'[x].status = wave[x].status /\ wave'[x].succ = wave[x].succ
             /\ DOMAIN wave'[x].member = DOMAIN wave[x].member
             /\ \A c \in DOMAIN wave[x].member :
                    wave'[x].member[c] = IF c = asg THEN "settled" ELSE wave[x].member[c]
    <2>1. CASE x = w
        <3>1. wave'[w] = [wave[w] EXCEPT !.member = [wave[w].member EXCEPT ![asg] = "settled"]]
            BY <1>2
        <3>2. QED
            BY <1>2, <2>1, <3>1, WaveFacts
    <2>2. CASE x # w
        BY <1>2, <1>3, <2>2
    <2>3. QED
        BY <2>1, <2>2
<1>6. /\ WavesAreDelegations' /\ MembersHaveSource' /\ ClosedBehind' /\ OneSuccessorPerSource'
      /\ OpenIsServed' /\ WaveMatchesChildren' /\ LanesAreOwned'
      /\ PlansAreExact' /\ RunningHasNoTail'
    BY <1>1, <1>4, <1>5, WEnded DEF asg
<1>7. FinishedTaskIsQuiet'
    BY <1>1 DEF FinishedTaskIsQuiet
<1>8. QED
    BY <1>6, <1>7 DEF WInv

\* The root is the last to end, so its end leaves the Task quiet.
LEMMA WCompleteTask ==
    ASSUME IInv, IInv', WInv, NEW d \in DOMAIN dispatch, NEW outcome \in {"green", "blocked"},
           CompleteTask(d, outcome)
    PROVE  WInv'
<1> DEFINE a == dispatch[d].attempt
           asg == attempt[a].assignment
<1>1. /\ NodeAuthority(d) /\ RootMayFinish /\ assignment[asg].source = None
      /\ EndsLane(d, outcome)
      /\ taskStatus' = "completed" /\ resultBoundary' = d
      /\ UNCHANGED <<controlRevision, wave>>
    BY DEF CompleteTask, MayCheckpoint, EndsLane, volatile
<1>2. asg \in DOMAIN assignment /\ asg = <<Root, 1>> /\ asg # None /\ d # None /\ a \in DOMAIN attempt
    BY <1>1, AuthorityFacts, NoneAssumption DEF IInv, LaneKeepsMember
<1>3. \A w \in DOMAIN wave : asg \notin DOMAIN wave[w].member
    BY <1>1, WaveFacts DEF WInv, MembersHaveSource
<1>4. /\ WavesAreDelegations' /\ MembersHaveSource' /\ ClosedBehind' /\ OneSuccessorPerSource'
      /\ OpenIsServed' /\ WaveMatchesChildren' /\ LanesAreOwned'
      /\ PlansAreExact' /\ RunningHasNoTail'
    BY <1>1, <1>3, WEnded
<1>5. EndRows(d, a, asg, outcome)
    BY <1>1, EndEffect
<1>6. /\ DOMAIN attempt' = DOMAIN attempt /\ attempt'[a].status = "completed"
      /\ \A x \in DOMAIN attempt : x # a => attempt'[x] = attempt[x]
      /\ \A x \in DOMAIN attempt : attempt'[x].wait = attempt[x].wait
      /\ boundary'[d] = outcome /\ assignment'[asg].outcome = outcome
    <2>1. /\ DOMAIN attempt' = DOMAIN attempt /\ attempt'[a].status = "completed"
          /\ boundary'[d] = outcome /\ assignment'[asg].outcome = outcome
        BY <1>5 DEF EndRows
    <2>2. ASSUME NEW x \in DOMAIN attempt
          PROVE  (x # a => attempt'[x] = attempt[x]) /\ attempt'[x].wait = attempt[x].wait
        BY <1>5 DEF EndRows
    <2>3. QED
        BY <2>1, <2>2
<1>7. \A x \in RunningAttempts : x = a
    <2> SUFFICES ASSUME NEW x \in RunningAttempts PROVE x = a
        OBVIOUS
    <2>1. assignment[attempt[x].assignment].source = None
        BY <1>1 DEF RootMayFinish
    <2>2. attempt[x].assignment = asg
        BY <1>2, <2>1, AttemptFacts DEF IInv, LaneKeepsMember, RunningAttempts
    <2>3. QED
        BY <1>1, <2>2, AuthorityFacts
<1>8. RunningAttempts' = {}
    BY <1>6, <1>7 DEF RunningAttempts
<1>9. \A x \in DOMAIN dispatch' : dispatch'[x].status = "closed"
    <2>1. \A x \in DOMAIN dispatch' : ~Live(x)'
        BY <1>1 DEF IInv, LiveDispatchIsCurrent
    <2>2. \A x \in DOMAIN dispatch' : dispatch'[x] \in DispatchRow
        BY DEF IInv, TypeOK, LaneTypeOK
    <2>3. QED
        BY <2>1, <2>2 DEF Live, DispatchRow
<1>10. FinishedTaskIsQuiet'
    <2>1. \A x \in DOMAIN attempt' : attempt'[x].wait = None
        BY <1>1, <1>6 DEF RootMayFinish
    <2>2. \A w \in DOMAIN wave' : wave'[w].status # "open" /\ ~Unconsumed(w)'
        BY <1>1 DEF RootMayFinish, Unconsumed
    <2>3. \A i \in DOMAIN assignment' : assignment'[i].outcome # "open"
        BY <1>1, <1>4, <1>8 DEF OpenIsServed, RunningAttempts
    <2>4. QED
        BY <1>1, <1>2, <1>6, <1>8, <1>9, <2>1, <2>2, <2>3 DEF FinishedTaskIsQuiet
<1>11. QED
    BY <1>4, <1>10 DEF WInv

-----------------------------------------------------------------------------
(* Opening new lanes: a retry and a delegation                              *)

\* The live Dispatch d ends for a reason of its own and every new Dispatch
\* starts a lane: no source appears or disappears.
LEMMA NewLanes ==
    ASSUME IInv, WInv, NEW d \in DOMAIN dispatch, Live(d),
           DOMAIN dispatch \subseteq DOMAIN dispatch',
           \A x \in DOMAIN dispatch :
                /\ dispatch'[x].attempt = dispatch[x].attempt
                /\ dispatch'[x].pred = dispatch[x].pred
                /\ x # d => dispatch'[x] = dispatch[x],
           dispatch'[d].status = "closed", dispatch'[d].reason \in {"boundary", "delegation"},
           \A x \in DOMAIN dispatch' \ DOMAIN dispatch :
                dispatch'[x].pred = None /\ dispatch'[x].status = "starting",
           WaveSources' = WaveSources
    PROVE  /\ ClosedTails' = ClosedTails /\ ContinueSources' = ContinueSources
           /\ \A a \in DOMAIN attempt : SourcesOf(a)' = SourcesOf(a)
           /\ \A a : a \notin DOMAIN attempt => SourcesOf(a)' = {}
           /\ d \notin DOMAIN wave /\ d \notin DOMAIN boundary
           /\ \A y \in DOMAIN dispatch' : dispatch'[y].pred # d
           /\ \A x \in DOMAIN dispatch' : dispatch'[x].pred # None =>
                /\ x \in DOMAIN dispatch /\ dispatch'[x].pred = dispatch[x].pred
                /\ dispatch[x].pred \in DOMAIN dispatch /\ dispatch[x].pred # d
                /\ dispatch'[dispatch[x].pred] = dispatch[dispatch[x].pred]
                /\ dispatch[dispatch[x].pred].status = "closed"
<1> USE DEF WInv
<1>1. d # None
    BY DrivenLane
<1>2. d \notin DOMAIN wave /\ d \notin DOMAIN boundary /\ \A y \in DOMAIN dispatch : dispatch[y].pred # d
    BY <1>1, LiveOrClosed DEF WavesAreDelegations, ClosedBehind
<1>3. \A y \in DOMAIN dispatch' : dispatch'[y].pred # d
    BY <1>1, <1>2
<1>4. ASSUME NEW x \in DOMAIN dispatch', dispatch'[x].pred # None
      PROVE  /\ x \in DOMAIN dispatch /\ dispatch'[x].pred = dispatch[x].pred
             /\ dispatch[x].pred \in DOMAIN dispatch /\ dispatch[x].pred # d
             /\ dispatch'[dispatch[x].pred] = dispatch[dispatch[x].pred]
             /\ dispatch[dispatch[x].pred].status = "closed"
    <2>1. x \in DOMAIN dispatch /\ dispatch'[x].pred = dispatch[x].pred /\ dispatch[x].pred # d
        BY <1>2, <1>4
    <2>2. dispatch[x].pred \in DOMAIN dispatch /\ dispatch[dispatch[x].pred].status = "closed"
        BY <1>4, <2>1 DEF OneSuccessorPerSource, ClosedBehind
    <2>3. QED
        BY <2>1, <2>2
<1>5. ClosedTails' = ClosedTails
    <2>1. ASSUME NEW x \in ClosedTails
          PROVE  x \in ClosedTails'
        <3>1. x \in DOMAIN dispatch /\ x # d /\ x # None /\ dispatch'[x] = dispatch[x]
              /\ \A y \in DOMAIN dispatch : dispatch[y].pred # x
            BY DispatchFacts DEF ClosedTails, Live
        <3>2. \A y \in DOMAIN dispatch' : dispatch'[y].pred # x
            BY <3>1
        <3>3. QED
            BY <3>1, <3>2 DEF ClosedTails
    <2>2. ASSUME NEW x \in ClosedTails'
          PROVE  x \in ClosedTails
        BY DEF ClosedTails
    <2>3. QED
        BY <2>1, <2>2
<1>6. ContinueSources' = ContinueSources
    BY <1>5 DEF ContinueSources
<1>7. \A x \in ContinueSources : x \in DOMAIN dispatch /\ dispatch'[x].attempt = dispatch[x].attempt
    BY SourceRows
<1>8. ASSUME NEW a
      PROVE  SourcesOf(a)' = SourcesOf(a)
    BY <1>6, <1>7 DEF SourcesOf
<1>9. ASSUME NEW a, a \notin DOMAIN attempt
      PROVE  SourcesOf(a) = {}
    BY <1>7, <1>9, DispatchFacts DEF SourcesOf
<1>10. QED
    BY <1>2, <1>3, <1>4, <1>5, <1>6, <1>8, <1>9

LEMMA WRetryAttempt ==
    ASSUME IInv, WInv, NEW d \in DOMAIN dispatch, RetryAttempt(d)
    PROVE  WInv'
<1> DEFINE a == dispatch[d].attempt
           asg == attempt[a].assignment
           i == NextDispatch(d[1])
<1> USE DEF WInv
<1>1. /\ NodeAuthority(d) /\ taskStatus = "running" /\ Live(d)
      /\ attempt[a].status = "running" /\ attempt[a].dispatch = d /\ attempt[a].wait = None
      /\ assignment[asg].outcome = "open" /\ assignment[asg].attempt = a
      /\ UNCHANGED <<taskStatus, controlRevision, wave, resuming>>
    BY DEF RetryAttempt, NodeAuthority, taskRow, volatile
<1>2. /\ d # None /\ d[1] \in Members
      /\ a \in DOMAIN attempt /\ attempt[a] \in AttemptRow /\ dispatch[d] \in DispatchRow
      /\ asg \in DOMAIN assignment /\ assignment[asg] \in AssignmentRow
    BY <1>1, AuthorityFacts, DispatchFacts
<1>3. /\ i # None /\ i \notin DOMAIN dispatch /\ i \notin DOMAIN attempt
    BY <1>2, NextIsNew DEF IInv, TypeOK, KeysOK
<1> HIDE DEF i
<1>4. /\ dispatch' = Upsert(Close(d, "boundary"), [x \in {i} |-> NewDispatch(i, None)])
      /\ attempt' = Upsert(EndAttempt(a), [x \in {i} |-> NewAttempt(asg, i)])
      /\ assignment' = [assignment EXCEPT ![asg].attempt = i,
                                          ![asg].retries = Spend(assignment[asg].retries, 1)]
      /\ boundary' = Upsert(boundary, [b \in {d} |-> "retry"])
    BY DEF RetryAttempt, Accept, i
<1>5. /\ DOMAIN dispatch' = DOMAIN dispatch \cup {i} /\ DOMAIN attempt' = DOMAIN attempt \cup {i}
      /\ DOMAIN assignment' = DOMAIN assignment /\ DOMAIN boundary' = DOMAIN boundary \cup {d}
      /\ dispatch'[i] = NewDispatch(i, None) /\ attempt'[i] = NewAttempt(asg, i)
    BY <1>4 DEF Upsert, Close, EndAttempt
<1>6. /\ dispatch'[i].attempt = i /\ dispatch'[i].pred = None /\ dispatch'[i].status = "starting"
      /\ attempt'[i].assignment = asg /\ attempt'[i].status = "running"
      /\ attempt'[i].dispatch = i /\ attempt'[i].wait = None
    BY <1>5 DEF NewDispatch, NewAttempt
<1>7. ASSUME NEW x \in DOMAIN dispatch
      PROVE  /\ dispatch'[x].attempt = dispatch[x].attempt /\ dispatch'[x].pred = dispatch[x].pred
             /\ x # d => dispatch'[x] = dispatch[x]
             /\ x = d => dispatch'[x].status = "closed" /\ dispatch'[x].reason = "boundary"
    <2>1. dispatch'[x] = IF x = d THEN [dispatch[d] EXCEPT !.status = "closed", !.reason = "boundary"]
                         ELSE dispatch[x]
        BY <1>3, <1>4 DEF Upsert, Close
    <2>2. QED
        BY <1>2, <2>1 DEF DispatchRow
<1>8. ASSUME NEW x \in DOMAIN attempt
      PROVE  /\ attempt'[x].assignment = attempt[x].assignment /\ attempt'[x].wait = attempt[x].wait
             /\ x # a => attempt'[x] = attempt[x]
             /\ x = a => attempt'[x].status = "completed" /\ attempt'[x].dispatch = None
    <2>1. attempt'[x] = IF x = a THEN [attempt[a] EXCEPT !.status = "completed", !.dispatch = None]
                        ELSE attempt[x]
        BY <1>3, <1>4 DEF Upsert, EndAttempt
    <2>2. QED
        BY <1>2, <2>1 DEF AttemptRow
<1>9. ASSUME NEW x \in DOMAIN assignment
      PROVE  /\ assignment'[x].source = assignment[x].source
             /\ assignment'[x].outcome = assignment[x].outcome
             /\ assignment'[x].attempt = IF x = asg THEN i ELSE assignment[x].attempt
    BY <1>2, <1>4 DEF AssignmentRow
<1>10. \A b \in DOMAIN boundary : b # d => boundary'[b] = boundary[b]
    BY <1>4 DEF Upsert
<1>11. /\ ClosedTails' = ClosedTails /\ ContinueSources' = ContinueSources
       /\ \A x \in DOMAIN attempt : SourcesOf(x)' = SourcesOf(x)
       /\ \A x : x \notin DOMAIN attempt => SourcesOf(x)' = {}
       /\ d \notin DOMAIN wave /\ d \notin DOMAIN boundary
       /\ \A y \in DOMAIN dispatch' : dispatch'[y].pred # d
       /\ \A x \in DOMAIN dispatch' : dispatch'[x].pred # None =>
            /\ x \in DOMAIN dispatch /\ dispatch'[x].pred = dispatch[x].pred
            /\ dispatch[x].pred \in DOMAIN dispatch /\ dispatch[x].pred # d
            /\ dispatch'[dispatch[x].pred] = dispatch[dispatch[x].pred]
            /\ dispatch[dispatch[x].pred].status = "closed"
    <2>1. WaveSources' = WaveSources
        BY <1>1 DEF WaveSources, Unconsumed
    <2>2. QED
        BY <1>1, <1>5, <1>6, <1>7, <2>1, NewLanes
<1> HIDE DEF a, asg
<1>12. WavesAreDelegations'
    <2>1. \A w \in DOMAIN wave : /\ dispatch'[w] = dispatch[w]
                                 /\ attempt'[dispatch[w].attempt].wait = attempt[dispatch[w].attempt].wait
        BY <1>7, <1>8, <1>11, WaveFacts
    <2>2. QED
        BY <1>1, <2>1 DEF WavesAreDelegations, AllReturned
<1>13. MembersHaveSource'
    BY <1>1, <1>5, <1>9 DEF MembersHaveSource
<1>14. ClosedBehind'
    <2>1. \A b \in DOMAIN boundary' : dispatch'[b].status = "closed"
        BY <1>5, <1>7 DEF ClosedBehind, IInv, TypeOK, KeysOK
    <2>2. QED
        BY <1>11, <2>1 DEF ClosedBehind
<1>15. OneSuccessorPerSource'
    <2>1. ASSUME NEW x \in DOMAIN dispatch', dispatch'[x].pred # None
          PROVE  /\ dispatch'[x].pred \in DOMAIN dispatch'
                 /\ dispatch'[dispatch'[x].pred].attempt = dispatch'[x].attempt
                 /\ dispatch'[x].pred \in DOMAIN wave => wave[dispatch'[x].pred].succ = x
        BY <1>5, <1>7, <1>11, <2>1 DEF OneSuccessorPerSource
    <2>2. \A x, y \in DOMAIN dispatch' :
            dispatch'[x].pred # None /\ dispatch'[x].pred = dispatch'[y].pred => x = y
        BY <1>11 DEF OneSuccessorPerSource
    <2>3. \A w \in DOMAIN wave : wave[w].succ # None =>
            wave[w].succ \in DOMAIN dispatch' /\ dispatch'[wave[w].succ].pred = w
        BY <1>5, <1>7 DEF OneSuccessorPerSource
    <2>4. QED
        BY <1>1, <2>1, <2>2, <2>3 DEF OneSuccessorPerSource
<1>16. OpenIsServed'
    <2> SUFFICES ASSUME NEW x \in DOMAIN assignment, assignment'[x].outcome = "open"
                 PROVE  /\ assignment'[x].attempt \in DOMAIN attempt'
                        /\ attempt'[assignment'[x].attempt].status = "running"
                        /\ attempt'[assignment'[x].attempt].assignment = x
        BY <1>5 DEF OpenIsServed
    <2>1. CASE x = asg
        BY <1>5, <1>6, <1>9, <2>1
    <2>2. CASE x # asg
        <3>1. /\ assignment'[x].attempt = assignment[x].attempt
              /\ assignment[x].attempt \in DOMAIN attempt
              /\ attempt[assignment[x].attempt].status = "running"
              /\ attempt[assignment[x].attempt].assignment = x
            BY <1>1, <1>9, <2>2 DEF OpenIsServed
        <3>2. assignment[x].attempt # a
            BY <2>2, <3>1 DEF asg
        <3>3. QED
            BY <1>5, <1>8, <3>1, <3>2
    <2>3. QED
        BY <2>1, <2>2
<1>17. WaveMatchesChildren'
    <2> SUFFICES ASSUME NEW w \in DOMAIN wave
                 PROVE  \A c \in DOMAIN wave[w].member :
                            /\ wave[w].member[c] = "pending" =>
                                /\ assignment'[c].outcome = "open"
                                /\ attempt'[assignment'[c].attempt].status = "running"
                            /\ wave[w].member[c] = "settled" =>
                                /\ assignment'[c].outcome # "open"
                                /\ \E b \in DOMAIN boundary' :
                                    /\ attempt'[dispatch'[b].attempt].assignment = c
                                    /\ boundary'[b] = assignment'[c].outcome
        BY <1>1, <1>12 DEF WaveMatchesChildren, WavesAreDelegations, AllReturned
    <2> TAKE c \in DOMAIN wave[w].member
    <2>1. c \in DOMAIN assignment /\ assignment'[c].outcome = assignment[c].outcome
        BY <1>9 DEF MembersHaveSource
    <2>2. wave[w].member[c] = "pending" =>
            assignment'[c].outcome = "open" /\ attempt'[assignment'[c].attempt].status = "running"
        <3>1. wave[w].member[c] = "pending" => assignment[c].outcome = "open"
            BY DEF WaveMatchesChildren
        <3>2. QED
            BY <1>1, <1>5, <1>16, <2>1, <3>1 DEF OpenIsServed
    <2>3. ASSUME wave[w].member[c] = "settled"
          PROVE  /\ assignment'[c].outcome # "open"
                 /\ \E b \in DOMAIN boundary' :
                        /\ attempt'[dispatch'[b].attempt].assignment = c
                        /\ boundary'[b] = assignment'[c].outcome
        <3>1. PICK b \in DOMAIN boundary :
                /\ attempt[dispatch[b].attempt].assignment = c
                /\ boundary[b] = assignment[c].outcome
            BY <2>3 DEF WaveMatchesChildren
        <3>2. b \in DOMAIN dispatch /\ dispatch[b].attempt \in DOMAIN attempt /\ b # d
            BY <1>11 DEF IInv, TypeOK, KeysOK
        <3>3. attempt'[dispatch'[b].attempt].assignment = c /\ boundary'[b] = boundary[b]
            BY <1>7, <1>8, <1>10, <3>1, <3>2
        <3>4. QED
            BY <1>5, <2>1, <2>3, <3>1, <3>3 DEF WaveMatchesChildren
    <2>4. QED
        BY <2>2, <2>3
<1>18. LanesAreOwned'
    <2> SUFFICES ASSUME NEW x \in DOMAIN attempt'
                 PROVE  /\ attempt'[x].status # "running" => attempt'[x].wait = None
                        /\ attempt'[x].wait # None =>
                            /\ attempt'[x].wait \in DOMAIN wave'
                            /\ dispatch'[attempt'[x].wait].attempt = x
                            /\ wave'[attempt'[x].wait].status = "open"
                        /\ attempt'[x].status # "running" \/ attempt'[x].dispatch # None
                            \/ attempt'[x].wait # None => SourcesOf(x)' = {}
                        /\ LaneIdle(x)' => \E y \in ContinueSources' : SourcesOf(x)' = {y}
        BY DEF LanesAreOwned
    <2>1. CASE x = i
        BY <1>3, <1>6, <1>11, <2>1 DEF LaneIdle
    <2>2. CASE x # i
        <3>1. x \in DOMAIN attempt
            BY <1>5, <2>2
        <3>2. /\ attempt[x].status # "running" => attempt[x].wait = None
              /\ attempt[x].wait # None =>
                    /\ attempt[x].wait \in DOMAIN wave
                    /\ dispatch[attempt[x].wait].attempt = x
                    /\ wave[attempt[x].wait].status = "open"
              /\ attempt[x].status # "running" \/ attempt[x].dispatch # None \/ attempt[x].wait # None =>
                    SourcesOf(x) = {}
              /\ LaneIdle(x) => \E y \in ContinueSources : SourcesOf(x) = {y}
            BY <1>1, <3>1 DEF LanesAreOwned
        <3>3. attempt[x].wait # None => dispatch'[attempt[x].wait].attempt = x
            BY <1>7, <3>2, WaveFacts
        <3>4. CASE x = a
            BY <1>1, <1>2, <1>8, <1>11, <3>1, <3>2, <3>4 DEF LaneIdle
        <3>5. CASE x # a
            BY <1>1, <1>8, <1>11, <3>1, <3>2, <3>3, <3>5 DEF LaneIdle
        <3>6. QED
            BY <3>4, <3>5
    <2>3. QED
        BY <2>1, <2>2
<1>19. PlansAreExact' /\ RunningHasNoTail' /\ FinishedTaskIsQuiet'
    BY <1>1, <1>11 DEF PlansAreExact, RunningHasNoTail, FinishedTaskIsQuiet
<1>20. QED
    BY <1>12, <1>13, <1>14, <1>15, <1>16, <1>17, <1>18, <1>19


LEMMA WDelegate ==
    ASSUME IInv, WInv, NEW d \in DOMAIN dispatch, NEW S \in SUBSET Children(d[1]), S # {},
           Delegate(d, S)
    PROVE  WInv'
<1> DEFINE a == dispatch[d].attempt
           asg == attempt[a].assignment
           ids == {NextDispatch(c) : c \in S}
<1> USE DEF WInv
<1>1. /\ NodeAuthority(d) /\ taskStatus = "running" /\ Live(d) /\ d \notin DOMAIN wave
      /\ S \subseteq Members
      /\ UNCHANGED <<taskStatus, controlRevision, boundary, resuming>>
    BY ChildrenFinite DEF Delegate, NodeAuthority, taskRow, volatile
<1>2. /\ d # None /\ a \in DOMAIN attempt /\ attempt[a] \in AttemptRow
      /\ attempt[a].status = "running" /\ attempt[a].dispatch = d /\ attempt[a].wait = None
      /\ dispatch[d] \in DispatchRow
    BY <1>1, AuthorityFacts, DispatchFacts, DrivenLane
<1>3. /\ dispatch' = Upsert(Close(d, "delegation"), [j \in ids |-> NewDispatch(j, None)])
      /\ attempt' = Upsert([attempt EXCEPT ![a].dispatch = None, ![a].wait = d],
                           [j \in ids |-> NewAttempt(j, j)])
      /\ wave' = Upsert(wave, [w \in {d} |-> [status |-> "open",
                                              member |-> [j \in ids |-> "pending"],
                                              succ |-> None]])
    BY DEF Delegate
<1>4. assignment' = Upsert([assignment EXCEPT ![asg].kids = Spend(assignment[asg].kids, Cardinality(S))],
                           [j \in ids |-> NewAssignment(j, d)])
    BY DEF Delegate
<1>5. ids # {} /\ \A j \in ids : j # None /\ j \notin DOMAIN dispatch
                                  /\ j \notin DOMAIN attempt /\ j \notin DOMAIN assignment
    <2>1. \A c \in S : LET j == NextDispatch(c)
                       IN  j # None /\ j \notin DOMAIN dispatch
        BY <1>1, NextIsNew DEF IInv, TypeOK
    <2>2. QED
        BY <2>1 DEF IInv, TypeOK, KeysOK
<1> HIDE DEF ids
<1>6. /\ DOMAIN dispatch' = DOMAIN dispatch \cup ids /\ DOMAIN attempt' = DOMAIN attempt \cup ids
      /\ DOMAIN wave' = DOMAIN wave \cup {d}
    BY <1>3 DEF Upsert, Close
<1>7. DOMAIN assignment' = DOMAIN assignment \cup ids
    BY <1>4 DEF Upsert
<1>8. ASSUME NEW j \in ids
      PROVE  /\ dispatch'[j].attempt = j /\ dispatch'[j].pred = None /\ dispatch'[j].status = "starting"
             /\ attempt'[j].assignment = j /\ attempt'[j].status = "running"
             /\ attempt'[j].dispatch = j /\ attempt'[j].wait = None
             /\ assignment'[j].attempt = j /\ assignment'[j].outcome = "open"
             /\ assignment'[j].source = d
    <2>1. dispatch'[j] = NewDispatch(j, None) /\ attempt'[j] = NewAttempt(j, j)
        BY <1>3 DEF Upsert
    <2>2. assignment'[j] = NewAssignment(j, d)
        BY <1>4 DEF Upsert
    <2>3. QED
        BY <2>1, <2>2 DEF NewDispatch, NewAttempt, NewAssignment
<1>9. ASSUME NEW x \in DOMAIN dispatch
      PROVE  /\ dispatch'[x].attempt = dispatch[x].attempt /\ dispatch'[x].pred = dispatch[x].pred
             /\ x # d => dispatch'[x] = dispatch[x]
             /\ x = d => dispatch'[x].status = "closed" /\ dispatch'[x].reason = "delegation"
    <2>1. dispatch'[x] = IF x = d THEN [dispatch[d] EXCEPT !.status = "closed", !.reason = "delegation"]
                         ELSE dispatch[x]
        BY <1>3, <1>5 DEF Upsert, Close
    <2>2. QED
        BY <1>2, <2>1 DEF DispatchRow
<1>10. ASSUME NEW x \in DOMAIN attempt
       PROVE  /\ attempt'[x].assignment = attempt[x].assignment
              /\ attempt'[x].status = attempt[x].status
              /\ x # a => attempt'[x] = attempt[x]
              /\ x = a => attempt'[x].wait = d /\ attempt'[x].dispatch = None
    <2>1. attempt'[x] = IF x = a THEN [attempt[a] EXCEPT !.dispatch = None, !.wait = d]
                        ELSE attempt[x]
        BY <1>3, <1>5 DEF Upsert
    <2>2. QED
        BY <1>2, <2>1 DEF AttemptRow
<1>11. ASSUME NEW x \in DOMAIN assignment
       PROVE  /\ assignment'[x].source = assignment[x].source
              /\ assignment'[x].outcome = assignment[x].outcome
              /\ assignment'[x].attempt = assignment[x].attempt
    <2>1. x \notin ids /\ assignment[x] \in AssignmentRow
        BY <1>5 DEF IInv, TypeOK, LaneTypeOK
    <2>2. assignment'[x] = IF x = asg
                           THEN [assignment[asg] EXCEPT !.kids = Spend(assignment[asg].kids, Cardinality(S))]
                           ELSE assignment[x]
        BY <1>4, <2>1 DEF Upsert
    <2>3. QED
        BY <2>1, <2>2 DEF AssignmentRow
<1>12. /\ wave'[d] = [status |-> "open", member |-> [j \in ids |-> "pending"], succ |-> None]
       /\ \A w \in DOMAIN wave : wave'[w] = wave[w]
    BY <1>1, <1>3 DEF Upsert
<1>13. /\ wave'[d].status = "open" /\ wave'[d].succ = None /\ DOMAIN wave'[d].member = ids
       /\ \A c \in ids : wave'[d].member[c] = "pending"
    BY <1>12
<1>14. WaveSources' = WaveSources
    <2>1. \A w \in DOMAIN wave' : Unconsumed(w)' <=> w \in DOMAIN wave /\ Unconsumed(w)
        BY <1>1, <1>6, <1>12, <1>13 DEF Unconsumed
    <2>2. QED
        BY <1>6, <2>1 DEF WaveSources
<1>15. /\ ClosedTails' = ClosedTails /\ ContinueSources' = ContinueSources
       /\ \A x \in DOMAIN attempt : SourcesOf(x)' = SourcesOf(x)
       /\ \A x : x \notin DOMAIN attempt => SourcesOf(x)' = {}
       /\ d \notin DOMAIN boundary
       /\ \A y \in DOMAIN dispatch' : dispatch'[y].pred # d
       /\ \A x \in DOMAIN dispatch' : dispatch'[x].pred # None =>
            /\ x \in DOMAIN dispatch /\ dispatch'[x].pred = dispatch[x].pred
            /\ dispatch[x].pred \in DOMAIN dispatch /\ dispatch[x].pred # d
            /\ dispatch'[dispatch[x].pred] = dispatch[dispatch[x].pred]
            /\ dispatch[dispatch[x].pred].status = "closed"
    BY <1>1, <1>6, <1>8, <1>9, <1>14, NewLanes
<1>16. ASSUME NEW w \in DOMAIN wave
       PROVE  /\ dispatch'[w] = dispatch[w] /\ w # d
              /\ attempt[dispatch[w].attempt].wait = w =>
                    attempt'[dispatch[w].attempt].wait = w
    BY <1>1, <1>2, <1>9, <1>10, WaveFacts
<1> HIDE DEF a, asg
<1>17. WavesAreDelegations'
    <2>1. attempt'[dispatch'[d].attempt].wait = d
        BY <1>2, <1>9, <1>10 DEF a
    <2> SUFFICES ASSUME NEW w \in DOMAIN wave'
                 PROVE  /\ dispatch'[w].status = "closed" /\ dispatch'[w].reason = "delegation"
                        /\ DOMAIN wave'[w].member # {}
                        /\ wave'[w].succ # None => wave'[w].status = "settled"
                        /\ wave'[w].status = "settled" => AllReturned(w)'
                        /\ wave'[w].status = "open" => attempt'[dispatch'[w].attempt].wait = w
                        /\ wave'[w].status = "cancelled" => taskStatus' = "cancelled"
        BY DEF WavesAreDelegations
    <2>2. CASE w = d
        BY <1>5, <1>9, <1>13, <2>1, <2>2
    <2>3. CASE w # d
        BY <1>1, <1>6, <1>12, <1>16, <2>3 DEF WavesAreDelegations, AllReturned
    <2>4. QED
        BY <2>2, <2>3
<1>18. MembersHaveSource'
    BY <1>6, <1>7, <1>8, <1>11, <1>12, <1>13 DEF MembersHaveSource
<1>19. ClosedBehind'
    <2>1. \A b \in DOMAIN boundary' : dispatch'[b].status = "closed"
        BY <1>1, <1>9 DEF ClosedBehind, IInv, TypeOK, KeysOK
    <2>2. QED
        BY <1>15, <2>1 DEF ClosedBehind
<1>20. OneSuccessorPerSource'
    <2>1. ASSUME NEW x \in DOMAIN dispatch', dispatch'[x].pred # None
          PROVE  /\ dispatch'[x].pred \in DOMAIN dispatch'
                 /\ dispatch'[dispatch'[x].pred].attempt = dispatch'[x].attempt
                 /\ dispatch'[x].pred \in DOMAIN wave' => wave'[dispatch'[x].pred].succ = x
        BY <1>6, <1>9, <1>12, <1>15, <2>1 DEF OneSuccessorPerSource
    <2>2. \A x, y \in DOMAIN dispatch' :
            dispatch'[x].pred # None /\ dispatch'[x].pred = dispatch'[y].pred => x = y
        BY <1>15 DEF OneSuccessorPerSource
    <2>3. \A w \in DOMAIN wave' : wave'[w].succ # None =>
            wave'[w].succ \in DOMAIN dispatch' /\ dispatch'[wave'[w].succ].pred = w
        BY <1>6, <1>9, <1>12, <1>13 DEF OneSuccessorPerSource
    <2>4. QED
        BY <2>1, <2>2, <2>3 DEF OneSuccessorPerSource
<1>21. OpenIsServed'
    <2> SUFFICES ASSUME NEW x \in DOMAIN assignment', assignment'[x].outcome = "open"
                 PROVE  /\ assignment'[x].attempt \in DOMAIN attempt'
                        /\ attempt'[assignment'[x].attempt].status = "running"
                        /\ attempt'[assignment'[x].attempt].assignment = x
        BY DEF OpenIsServed
    <2>1. CASE x \in ids
        BY <1>6, <1>8, <2>1
    <2>2. CASE x \notin ids
        BY <1>1, <1>6, <1>7, <1>10, <1>11, <2>2 DEF OpenIsServed
    <2>3. QED
        BY <2>1, <2>2
<1>22. WaveMatchesChildren'
    <2> SUFFICES ASSUME NEW w \in DOMAIN wave'
                 PROVE  \A c \in DOMAIN wave'[w].member :
                            /\ wave'[w].member[c] = "pending" =>
                                /\ assignment'[c].outcome = "open"
                                /\ attempt'[assignment'[c].attempt].status = "running"
                            /\ wave'[w].member[c] = "settled" =>
                                /\ assignment'[c].outcome # "open"
                                /\ \E b \in DOMAIN boundary' :
                                    /\ attempt'[dispatch'[b].attempt].assignment = c
                                    /\ boundary'[b] = assignment'[c].outcome
        BY <1>17 DEF WaveMatchesChildren, WavesAreDelegations, AllReturned
    <2> TAKE c \in DOMAIN wave'[w].member
    <2>1. CASE w = d
        BY <1>8, <1>13, <2>1
    <2>2. CASE w # d
        <3>1. w \in DOMAIN wave /\ wave'[w] = wave[w] /\ c \in DOMAIN wave[w].member
            BY <1>6, <1>12, <2>2
        <3>2. c \in DOMAIN assignment /\ assignment'[c].outcome = assignment[c].outcome
            BY <1>11, <3>1 DEF MembersHaveSource
        <3>3. wave[w].member[c] = "pending" =>
                assignment'[c].outcome = "open" /\ attempt'[assignment'[c].attempt].status = "running"
            <4>1. wave[w].member[c] = "pending" => assignment[c].outcome = "open"
                BY <3>1 DEF WaveMatchesChildren
            <4>2. QED
                BY <1>1, <1>7, <1>21, <3>2, <4>1 DEF OpenIsServed
        <3>4. ASSUME wave[w].member[c] = "settled"
              PROVE  /\ assignment'[c].outcome # "open"
                     /\ \E b \in DOMAIN boundary' :
                            /\ attempt'[dispatch'[b].attempt].assignment = c
                            /\ boundary'[b] = assignment'[c].outcome
            <4>1. PICK b \in DOMAIN boundary :
                    /\ attempt[dispatch[b].attempt].assignment = c
                    /\ boundary[b] = assignment[c].outcome
                BY <3>1, <3>4 DEF WaveMatchesChildren
            <4>2. b \in DOMAIN dispatch /\ dispatch[b].attempt \in DOMAIN attempt
                BY DEF IInv, TypeOK, KeysOK
            <4>3. attempt'[dispatch'[b].attempt].assignment = c
                BY <1>9, <1>10, <4>1, <4>2
            <4>4. QED
                BY <1>1, <3>1, <3>2, <3>4, <4>1, <4>3 DEF WaveMatchesChildren
        <3>5. QED
            BY <3>1, <3>3, <3>4
    <2>3. QED
        BY <2>1, <2>2
<1>23. LanesAreOwned'
    <2> SUFFICES ASSUME NEW x \in DOMAIN attempt'
                 PROVE  /\ attempt'[x].status # "running" => attempt'[x].wait = None
                        /\ attempt'[x].wait # None =>
                            /\ attempt'[x].wait \in DOMAIN wave'
                            /\ dispatch'[attempt'[x].wait].attempt = x
                            /\ wave'[attempt'[x].wait].status = "open"
                        /\ attempt'[x].status # "running" \/ attempt'[x].dispatch # None
                            \/ attempt'[x].wait # None => SourcesOf(x)' = {}
                        /\ LaneIdle(x)' => \E y \in ContinueSources' : SourcesOf(x)' = {y}
        BY DEF LanesAreOwned
    <2>1. CASE x \in ids
        BY <1>5, <1>8, <1>15, <2>1 DEF LaneIdle
    <2>2. CASE x \notin ids
        <3>1. x \in DOMAIN attempt
            BY <1>6, <2>2
        <3>2. /\ attempt[x].status # "running" => attempt[x].wait = None
              /\ attempt[x].wait # None =>
                    /\ attempt[x].wait \in DOMAIN wave
                    /\ dispatch[attempt[x].wait].attempt = x
                    /\ wave[attempt[x].wait].status = "open"
              /\ attempt[x].status # "running" \/ attempt[x].dispatch # None \/ attempt[x].wait # None =>
                    SourcesOf(x) = {}
              /\ LaneIdle(x) => \E y \in ContinueSources : SourcesOf(x) = {y}
            BY <1>1, <3>1 DEF LanesAreOwned
        <3>3. CASE x = a
            <4>1. dispatch'[d].attempt = x
                BY <1>9, <3>3 DEF a
            <4>2. SourcesOf(x)' = {}
                BY <1>2, <1>15, <3>1, <3>2, <3>3
            <4>3. QED
                BY <1>2, <1>6, <1>10, <1>13, <3>1, <3>3, <4>1, <4>2 DEF LaneIdle
        <3>4. CASE x # a
            BY <1>6, <1>10, <1>12, <1>15, <1>16, <3>1, <3>2, <3>4 DEF LaneIdle
        <3>5. QED
            BY <3>3, <3>4
    <2>3. QED
        BY <2>1, <2>2
<1>24. PlansAreExact' /\ RunningHasNoTail' /\ FinishedTaskIsQuiet'
    BY <1>1, <1>15 DEF PlansAreExact, RunningHasNoTail, FinishedTaskIsQuiet
<1>25. QED
    BY <1>17, <1>18, <1>19, <1>20, <1>21, <1>22, <1>23, <1>24

-----------------------------------------------------------------------------
(* The invariant                                                            *)

LEMMA NextWInv ==
    IInv /\ WInv /\ [Next]_vars => WInv'
<1> SUFFICES ASSUME IInv, WInv, [Next]_vars PROVE WInv'
    OBVIOUS
<1>1. CASE UNCHANGED vars
    BY <1>1, WSkipSteps
<1>2. CASE NodeOperation
    <2>1. PICK d \in DOMAIN dispatch :
            \/ \E S \in (SUBSET Children(d[1])) \ {{}} : Delegate(d, S)
            \/ \E outcome \in {"green", "blocked"} : ReturnToParent(d, outcome)
            \/ \E outcome \in {"green", "blocked"} : CompleteTask(d, outcome)
            \/ RetryAttempt(d)
        BY <1>2 DEF NodeOperation
    <2>2. IInv'
        BY NextIInv
    <2>3. CASE \E S \in (SUBSET Children(d[1])) \ {{}} : Delegate(d, S)
        <3>1. PICK S \in (SUBSET Children(d[1])) \ {{}} : Delegate(d, S)
            BY <2>3
        <3>2. S \in SUBSET Children(d[1]) /\ S # {}
            OBVIOUS
        <3>3. QED
            BY <3>1, <3>2, WDelegate
    <2>4. QED
        BY <2>1, <2>2, <2>3, WReturnToParent, WCompleteTask, WRetryAttempt
<1>3. CASE Provider
    <2>1. PICK d \in DOMAIN dispatch :
            AcceptProviderStart(d) \/ PauseInvalidStart(d) \/ WatchdogReplace(d) \/ WatchdogPause(d)
        BY <1>3 DEF Provider
    <2>2. QED
        BY <2>1, WAcceptProviderStart, WWatchdogReplace, WPauseSteps
<1>4. CASE WaveHandler
    BY <1>4, WJoinWave, WOpenContinuation, WSkipSteps DEF WaveHandler
<1>5. CASE Control
    BY <1>5, WPlanResume, WCommitResume, WCancelTask, WPauseSteps, WSkipSteps DEF Control
<1>6. CASE Failure
    BY <1>6, WPauseSteps, WSkipSteps DEF Failure
<1>7. QED
    BY <1>1, <1>2, <1>3, <1>4, <1>5, <1>6 DEF Next

\* Every reachable state has Waves that agree with the lanes they hold.
THEOREM WavesInductive == Spec => [](IInv /\ WInv)
<1>1. Init => IInv /\ WInv
    BY InitIInv, InitWInv
<1>2. IInv /\ WInv /\ [Next]_vars => (IInv /\ WInv)'
    BY NextIInv, NextWInv
<1>3. QED
    BY <1>1, <1>2, PTL DEF Spec

\* Neither a handler racing control nor a hint handled twice forks a lane: a
\* source opens one successor, in its own Attempt.
THEOREM OneSuccessor == Spec => []OneSuccessorPerSource
<1>1. WInv => OneSuccessorPerSource
    BY DEF WInv
<1>2. QED
    BY <1>1, WavesInductive, PTL

\* A Wave and its children agree whatever Checkpoints, pauses and joins
\* interleave: no Wave leaves "open" before all its members returned.
THEOREM WavesMatch == Spec => []WaveMatchesChildren
<1>1. WInv => WaveMatchesChildren
    BY DEF WInv
<1>2. QED
    BY <1>1, WavesInductive, PTL

\* A completed or cancelled Task leaves no lane, wait or Wave that a late
\* handler could still act on.
THEOREM FinishedQuiet == Spec => []FinishedTaskIsQuiet
<1>1. WInv => FinishedTaskIsQuiet
    BY DEF WInv
<1>2. QED
    BY <1>1, WavesInductive, PTL

-----------------------------------------------------------------------------
(* Owners of a lane                                                         *)

LEMMA OwnedLanes ==
    IInv /\ WInv => LaneHasOneOwner
<1> SUFFICES ASSUME IInv, WInv, taskStatus # "cancelled", NEW a \in DOMAIN attempt
             PROVE  IF attempt[a].status = "running"
                    THEN \E o \in OwnersOf(a) : OwnersOf(a) = {o}
                    ELSE OwnersOf(a) = {}
    BY DEF LaneHasOneOwner
<1> DEFINE D == {x \in DOMAIN dispatch : dispatch[x].attempt = a /\ Live(x)}
           W == {x \in DOMAIN wave :
                    dispatch[x].attempt = a /\ wave[x].status = "open" /\ attempt[a].wait = x}
<1>1. OwnersOf(a) = {<<"dispatch", d>> : d \in D} \cup {<<"wait", w>> : w \in W}
                    \cup {<<"source", x>> : x \in SourcesOf(a)}
    BY DEF OwnersOf
<1>2. D = IF attempt[a].dispatch = None THEN {} ELSE {attempt[a].dispatch}
    <2>1. ASSUME NEW x \in D
          PROVE  attempt[a].dispatch = x /\ x # None
        BY DrivenLane
    <2>2. attempt[a].dispatch # None => attempt[a].dispatch \in D
        BY DEF IInv, LiveDispatchIsCurrent
    <2>3. QED
        BY <2>1, <2>2
<1>3. attempt[a].status # "running" => attempt[a].dispatch = None
    BY DrivenLane DEF IInv, LiveDispatchIsCurrent
<1>4. /\ attempt[a].status # "running" => attempt[a].wait = None
      /\ attempt[a].wait # None =>
            /\ attempt[a].wait \in DOMAIN wave
            /\ dispatch[attempt[a].wait].attempt = a
            /\ wave[attempt[a].wait].status = "open"
      /\ attempt[a].status # "running" \/ attempt[a].dispatch # None \/ attempt[a].wait # None =>
            SourcesOf(a) = {}
      /\ LaneIdle(a) => \E s \in ContinueSources : SourcesOf(a) = {s}
    BY DEF WInv, LanesAreOwned
<1>5. W = IF attempt[a].wait = None THEN {} ELSE {attempt[a].wait}
    BY <1>4, WaveFacts
<1>6. attempt[a].status = "running" /\ attempt[a].wait # None => attempt[a].dispatch = None
    BY DEF IInv, RunningIsCurrent, RunningAttempts
<1> HIDE DEF D, W
<1>7. CASE attempt[a].status # "running"
    BY <1>1, <1>2, <1>3, <1>4, <1>5, <1>7
<1>8. CASE attempt[a].status = "running" /\ attempt[a].dispatch # None
    <2>1. D = {attempt[a].dispatch} /\ W = {} /\ SourcesOf(a) = {}
        BY <1>2, <1>4, <1>5, <1>6, <1>8
    <2>2. OwnersOf(a) = {<<"dispatch", attempt[a].dispatch>>}
        BY <1>1, <2>1
    <2>3. QED
        BY <1>8, <2>2
<1>9. CASE attempt[a].status = "running" /\ attempt[a].wait # None
    <2>1. D = {} /\ W = {attempt[a].wait} /\ SourcesOf(a) = {}
        BY <1>2, <1>4, <1>5, <1>6, <1>9
    <2>2. OwnersOf(a) = {<<"wait", attempt[a].wait>>}
        BY <1>1, <2>1
    <2>3. QED
        BY <1>9, <2>2
<1>10. CASE attempt[a].status = "running" /\ attempt[a].dispatch = None /\ attempt[a].wait = None
    <2>1. PICK s : SourcesOf(a) = {s}
        BY <1>4, <1>10 DEF LaneIdle
    <2>2. D = {} /\ W = {}
        BY <1>2, <1>5, <1>10
    <2>3. OwnersOf(a) = {<<"source", s>>}
        BY <1>1, <2>1, <2>2
    <2>4. QED
        BY <1>10, <2>3
<1>11. QED
    BY <1>7, <1>8, <1>9, <1>10

\* For any team, any bound and any order of commits, a running Attempt always
\* has exactly one owner: no lane is stranded and none is driven twice.
THEOREM LaneOwned == Spec => []LaneHasOneOwner
BY OwnedLanes, WavesInductive, PTL

LEMMA FoundLanes ==
    IInv /\ WInv => StartupFindsEveryLane
<1> SUFFICES ASSUME IInv, WInv, taskStatus = "running", NEW a \in RunningAttempts,
                    attempt[a].dispatch = None,
                    ~\E w \in DOMAIN wave : attempt[a].wait = w /\ ~AllReturned(w)
             PROVE  \E s \in StartupSignals : dispatch[s.wave].attempt = a
    BY DEF StartupFindsEveryLane
<1>1. /\ a \in DOMAIN attempt /\ attempt[a].status = "running"
      /\ attempt[a].wait # None =>
            /\ attempt[a].wait \in DOMAIN wave
            /\ dispatch[attempt[a].wait].attempt = a
            /\ wave[attempt[a].wait].status = "open"
      /\ LaneIdle(a) => \E s \in ContinueSources : SourcesOf(a) = {s}
    BY DEF WInv, LanesAreOwned, RunningAttempts
<1>2. CASE attempt[a].wait # None
    <2> DEFINE w == attempt[a].wait
               s == [kind |-> "WaveMemberSettled", wave |-> w]
    <2>1. w \in DOMAIN wave /\ wave[w].status = "open" /\ wave[w].succ = None /\ AllReturned(w)
        BY <1>1, <1>2 DEF WInv, WavesAreDelegations
    <2>2. w \in {x \in DOMAIN wave :
                    /\ wave[x].status = "open"
                    /\ wave[x].succ = None
                    /\ taskStatus \in {"running", "paused"}
                    /\ attempt[dispatch[x].attempt].wait = x
                    /\ attempt[dispatch[x].attempt].status = "running"
                    /\ attempt[dispatch[x].attempt].dispatch = None
                    /\ AllReturned(x)}
        BY <1>1, <1>2, <2>1
    <2>3. s \in StartupSignals
        BY <2>2 DEF StartupSignals
    <2>4. s.wave = w /\ dispatch[w].attempt = a
        BY <1>1, <1>2
    <2>5. QED
        BY <2>3, <2>4
<1>3. CASE attempt[a].wait = None
    <2>1. LaneIdle(a)
        BY <1>1, <1>3 DEF LaneIdle
    <2>2. PICK x \in ContinueSources : SourcesOf(a) = {x}
        BY <1>1, <2>1
    <2>3. x \in WaveSources /\ dispatch[x].attempt = a
        BY <2>2, SourcesOfRows DEF WInv, RunningHasNoTail, ContinueSources
    <2> DEFINE s == [kind |-> "DelegationWaveSettled", wave |-> x]
    <2>4. s \in StartupSignals /\ s.wave = x
        BY <2>1, <2>3 DEF StartupSignals
    <2>5. QED
        BY <2>3, <2>4
<1>4. QED
    BY <1>2, <1>3

\* Whenever the process stops, the startup audit republishes a hint for every
\* lane of a running Task that nothing else will move.
THEOREM StartupFinds == Spec => []StartupFindsEveryLane
BY FoundLanes, WavesInductive, PTL

-----------------------------------------------------------------------------
(* History                                                                  *)

\* The rows that no step writes again.
HistoryKept ==
    /\ \A d \in DOMAIN dispatch :
        dispatch[d].status = "closed" => dispatch'[d] = dispatch[d]
    /\ \A b \in DOMAIN boundary : boundary'[b] = boundary[b]
    /\ \A w \in DOMAIN wave :
        /\ wave[w].succ # None => wave'[w] = wave[w]
        /\ \A c \in DOMAIN wave[w].member :
            wave[w].member[c] # "pending" => wave'[w].member[c] = wave[w].member[c]

LEMMA HistoryOpened ==
    ASSUME IInv, IInv', WInv, NEW Q, NEW o, Opens(Q, o)
    PROVE  HistoryKept
<1>1. ASSUME NEW d \in DOMAIN dispatch, dispatch[d].status = "closed"
      PROVE  dispatch'[d] = dispatch[d]
    BY <1>1, LiveOrClosed DEF Opens
<1>2. \A b \in DOMAIN boundary : boundary'[b] = boundary[b]
    BY DEF Opens
<1>3. \A w \in DOMAIN wave : wave'[w].member = wave[w].member
    BY DEF Opens
<1>4. ASSUME NEW w \in DOMAIN wave, wave[w].succ # None
      PROVE  wave'[w] = wave[w]
    <2>1. w \in DOMAIN dispatch /\ wave[w].succ \in DOMAIN dispatch /\ dispatch[wave[w].succ].pred = w
        BY <1>4, WaveFacts DEF WInv, OneSuccessorPerSource
    <2>2. w \notin Q
        <3>1. ASSUME w \in Q PROVE Live(w) \/ w \in ContinueSources
            BY <3>1 DEF Opens
        <3>2. QED
            BY <2>1, <3>1, SourceIsTail
    <2>3. /\ wave'[w].status = wave[w].status /\ wave'[w].member = wave[w].member
          /\ wave'[w].succ = wave[w].succ /\ w \in DOMAIN wave'
        BY <2>2 DEF Opens
    <2>4. wave'[w] \in WaveRowOf(DOMAIN wave'[w].member)
        BY <2>3 DEF IInv, TypeOK, WaveTypeOK
    <2>5. wave'[w] = [status |-> wave'[w].status, member |-> wave'[w].member, succ |-> wave'[w].succ]
        BY <2>4 DEF WaveRowOf
    <2>6. wave[w] = [status |-> wave[w].status, member |-> wave[w].member, succ |-> wave[w].succ]
        BY WaveFacts
    <2>7. QED
        BY <2>3, <2>5, <2>6
<1>5. QED
    BY <1>1, <1>2, <1>3, <1>4 DEF HistoryKept

LEMMA HistoryPaused ==
    ASSUME IInv, NEW failed, PauseLanes(failed)
    PROVE  HistoryKept
<1>1. /\ UNCHANGED <<wave, boundary>>
      /\ \A x \in DOMAIN dispatch : ~Live(x) => dispatch'[x] = dispatch[x]
    BY PauseEffect
<1>2. QED
    BY <1>1, LiveOrClosed DEF HistoryKept

LEMMA HistoryCancelled ==
    ASSUME IInv, WInv, CancelTask
    PROVE  HistoryKept
<1>1. /\ UNCHANGED boundary
      /\ \A x \in DOMAIN dispatch : ~Live(x) => dispatch'[x] = dispatch[x]
    BY CancelEffect
<1>2. ASSUME NEW w \in DOMAIN wave
      PROVE  wave'[w] = [status |-> IF wave[w].status # "cancelled" /\ wave[w].succ = None
                                    THEN "cancelled" ELSE wave[w].status,
                         member |-> [c \in DOMAIN wave[w].member |->
                                        IF wave[w].member[c] = "pending"
                                        THEN "cancelled" ELSE wave[w].member[c]],
                         succ |-> wave[w].succ]
    BY DEF CancelTask
<1>3. ASSUME NEW w \in DOMAIN wave, wave[w].succ # None
      PROVE  wave'[w] = wave[w]
    <2>1. \A c \in DOMAIN wave[w].member : wave[w].member[c] # "pending"
        BY <1>3 DEF WInv, WavesAreDelegations, AllReturned
    <2>2. /\ wave[w] = [status |-> wave[w].status, member |-> wave[w].member, succ |-> wave[w].succ]
          /\ wave[w].member = [c \in DOMAIN wave[w].member |-> wave[w].member[c]]
        BY WaveFacts
    <2>3. wave[w].member = [c \in DOMAIN wave[w].member |->
                                IF wave[w].member[c] = "pending"
                                THEN "cancelled" ELSE wave[w].member[c]]
        BY <2>1, <2>2
    <2>4. QED
        BY <1>2, <1>3, <2>2, <2>3
<1>4. \A w \in DOMAIN wave : \A c \in DOMAIN wave[w].member :
        wave[w].member[c] # "pending" => wave'[w].member[c] = wave[w].member[c]
    <2>1. \A w \in DOMAIN wave : \A c \in DOMAIN wave[w].member :
            wave'[w].member[c] = IF wave[w].member[c] = "pending"
                                 THEN "cancelled" ELSE wave[w].member[c]
        BY CancelEffect
    <2>2. QED
        BY <2>1
<1>5. QED
    BY <1>1, <1>3, <1>4, LiveOrClosed DEF HistoryKept

LEMMA HistoryEnded ==
    ASSUME IInv, WInv, NEW d \in DOMAIN dispatch, NEW outcome \in {"green", "blocked"},
           ReturnToParent(d, outcome) \/ CompleteTask(d, outcome)
    PROVE  HistoryKept
<1> DEFINE asg == attempt[dispatch[d].attempt].assignment
<1>1. NodeAuthority(d) /\ Live(d) /\ EndsLane(d, outcome)
    BY DEF ReturnToParent, CompleteTask, MayCheckpoint, NodeAuthority, EndsLane, volatile
<1>2. EndRows(d, dispatch[d].attempt, asg, outcome)
    BY <1>1, EndEffect
<1>3. d \notin DOMAIN boundary
    BY <1>1, LiveOrClosed DEF WInv, ClosedBehind
<1>4. ASSUME NEW x \in DOMAIN dispatch, dispatch[x].status = "closed"
      PROVE  dispatch'[x] = dispatch[x]
    BY <1>1, <1>2, <1>4, LiveOrClosed DEF EndRows
<1>5. \A b \in DOMAIN boundary : boundary'[b] = boundary[b]
    BY <1>2, <1>3 DEF EndRows
<1>6. \/ UNCHANGED wave
      \/ \E w \in DOMAIN wave :
            /\ asg \in DOMAIN wave[w].member /\ wave[w].member[asg] = "pending" /\ wave[w].succ = None
            /\ wave' = [wave EXCEPT ![w].member[asg] = "settled"]
    BY DEF ReturnToParent, CompleteTask
<1> HIDE DEF asg
<1>7. CASE UNCHANGED wave
    BY <1>4, <1>5, <1>7 DEF HistoryKept
<1>8. ASSUME NEW w \in DOMAIN wave,
             asg \in DOMAIN wave[w].member, wave[w].member[asg] = "pending", wave[w].succ = None,
             wave' = [wave EXCEPT ![w].member[asg] = "settled"]
      PROVE  HistoryKept
    <2>1. wave[w] = [status |-> wave[w].status, member |-> wave[w].member, succ |-> wave[w].succ]
        BY WaveFacts
    <2>2. wave'[w].member = [wave[w].member EXCEPT ![asg] = "settled"]
        BY <1>8, <2>1
    <2>3. \A c \in DOMAIN wave[w].member :
            wave[w].member[c] # "pending" => wave'[w].member[c] = wave[w].member[c]
        BY <1>8, <2>2
    <2>4. \A x \in DOMAIN wave : x # w => wave'[x] = wave[x]
        BY <1>8
    <2>5. QED
        BY <1>4, <1>5, <1>8, <2>3, <2>4 DEF HistoryKept
<1>9. QED
    BY <1>6, <1>7, <1>8

LEMMA HistoryJoined ==
    ASSUME IInv, WInv, NEW s \in signals, JoinWave(s)
    PROVE  HistoryKept
<1> DEFINE w == s.wave
<1>1. w \in DOMAIN wave /\ wave[w].status = "open" /\ UNCHANGED <<dispatch, boundary>>
    BY DEF JoinWave, Joinable, IInv, TypeOK, SignalsOK
<1>2. wave' = [wave EXCEPT ![w].status = "settled"]
    BY DEF JoinWave
<1>3. wave[w].succ = None
    BY <1>1 DEF WInv, WavesAreDelegations
<1>4. wave[w] = [status |-> wave[w].status, member |-> wave[w].member, succ |-> wave[w].succ]
    BY <1>1, WaveFacts
<1> HIDE DEF w
<1>5. wave'[w].member = wave[w].member /\ \A x \in DOMAIN wave : x # w => wave'[x] = wave[x]
    BY <1>1, <1>2, <1>4
<1>6. QED
    BY <1>1, <1>3, <1>5 DEF HistoryKept

LEMMA HistoryFannedOut ==
    ASSUME IInv, WInv, NEW d \in DOMAIN dispatch,
           RetryAttempt(d) \/ \E S \in SUBSET Children(d[1]) : Delegate(d, S)
    PROVE  HistoryKept
<1>1. NodeAuthority(d) /\ d[1] \in Members
    BY DispatchFacts DEF RetryAttempt, Delegate
<1>2. Live(d) /\ d \notin DOMAIN boundary
    BY <1>1, LiveOrClosed DEF NodeAuthority, WInv, ClosedBehind
<1>3. CASE RetryAttempt(d)
    <2> DEFINE i == NextDispatch(d[1])
    <2>1. i \notin DOMAIN dispatch
        BY <1>1, NextIsNew DEF IInv, TypeOK
    <2> HIDE DEF i
    <2>2. \A x \in DOMAIN dispatch : x # d => dispatch'[x] = dispatch[x]
        BY <1>3, <2>1 DEF RetryAttempt, Upsert, Close, i
    <2>3. /\ UNCHANGED wave
          /\ \A b \in DOMAIN boundary : boundary'[b] = boundary[b]
        BY <1>2, <1>3 DEF RetryAttempt, Accept, Upsert
    <2>4. QED
        BY <1>2, <2>2, <2>3, LiveOrClosed DEF HistoryKept
<1>4. ASSUME NEW S \in SUBSET Children(d[1]), Delegate(d, S)
      PROVE  HistoryKept
    <2> DEFINE ids == {NextDispatch(c) : c \in S}
    <2>1. \A j \in ids : j \notin DOMAIN dispatch
        BY ChildrenFinite, NextIsNew DEF IInv, TypeOK
    <2>2. /\ dispatch' = Upsert(Close(d, "delegation"), [j \in ids |-> NewDispatch(j, None)])
          /\ UNCHANGED boundary /\ d \notin DOMAIN wave
          /\ wave' = Upsert(wave, [w \in {d} |-> [status |-> "open",
                                                  member |-> [j \in ids |-> "pending"],
                                                  succ |-> None]])
        BY <1>4 DEF Delegate
    <2> HIDE DEF ids
    <2>3. \A x \in DOMAIN dispatch : x # d => dispatch'[x] = dispatch[x]
        BY <2>1, <2>2 DEF Upsert, Close
    <2>4. \A w \in DOMAIN wave : wave'[w] = wave[w]
        BY <2>2 DEF Upsert
    <2>5. QED
        BY <1>2, <2>2, <2>3, <2>4, LiveOrClosed DEF HistoryKept
<1>5. QED
    BY <1>3, <1>4

LEMMA NextHistory ==
    IInv /\ WInv /\ [Next]_vars => HistoryKept
<1> SUFFICES ASSUME IInv, WInv, [Next]_vars PROVE HistoryKept
    OBVIOUS
<1>1. ASSUME UNCHANGED laneRows PROVE HistoryKept
    BY <1>1 DEF laneRows, HistoryKept
<1>2. IInv'
    BY NextIInv
<1>3. CASE UNCHANGED vars
    BY <1>1, <1>3 DEF vars
<1>4. CASE NodeOperation
    <2>1. PICK d \in DOMAIN dispatch :
            \/ RetryAttempt(d) \/ \E S \in SUBSET Children(d[1]) : Delegate(d, S)
            \/ \E outcome \in {"green", "blocked"} : ReturnToParent(d, outcome) \/ CompleteTask(d, outcome)
        BY <1>4 DEF NodeOperation
    <2>2. QED
        BY <2>1, HistoryFannedOut, HistoryEnded
<1>5. CASE Provider
    <2>1. PICK d \in DOMAIN dispatch :
            AcceptProviderStart(d) \/ PauseInvalidStart(d) \/ WatchdogReplace(d) \/ WatchdogPause(d)
        BY <1>5 DEF Provider
    <2>2. CASE AcceptProviderStart(d)
        <3>1. dispatch[d].status # "closed"
            BY <2>2 DEF AcceptProviderStart
        <3>2. UNCHANGED <<wave, boundary>> /\ \A x \in DOMAIN dispatch : x # d => dispatch'[x] = dispatch[x]
            BY <2>2 DEF AcceptProviderStart
        <3>3. QED
            BY <3>1, <3>2 DEF HistoryKept
    <2>3. CASE WatchdogReplace(d)
        BY <1>2, <2>3, WatchdogReplaceEffect, HistoryOpened
    <2>4. CASE PauseInvalidStart(d) \/ WatchdogPause(d)
        BY <2>4, HistoryPaused DEF PauseInvalidStart, WatchdogPause
    <2>5. QED
        BY <2>1, <2>2, <2>3, <2>4
<1>6. CASE WaveHandler
    <2>1. CASE \E s \in signals : JoinWave(s)
        BY <2>1, HistoryJoined
    <2>2. CASE \E s \in signals : SkipJoin(s) \/ PrepareContinuation(s)
        BY <1>1, <2>2 DEF SkipJoin, PrepareContinuation
    <2>3. CASE \E p \in preparing : OpenContinuation(p)
        BY <1>2, <2>3, OpenContinuationEffect, HistoryOpened
    <2>4. CASE \E p \in preparing : SkipContinuation(p)
        BY <1>1, <2>4 DEF SkipContinuation
    <2>5. QED
        BY <1>6, <2>1, <2>2, <2>3, <2>4 DEF WaveHandler
<1>7. CASE Control
    <2>1. CASE PauseTask
        BY <2>1, HistoryPaused DEF PauseTask
    <2>2. CASE PlanResume \/ \E p \in resuming : AbandonResume(p)
        BY <1>1, <2>2 DEF PlanResume, AbandonResume
    <2>3. CASE \E p \in resuming : CommitResume(p)
        BY <1>2, <2>3, ResumeEffect, HistoryOpened
    <2>4. CASE CancelTask
        BY <2>4, HistoryCancelled
    <2>5. QED
        BY <1>7, <2>1, <2>2, <2>3, <2>4 DEF Control
<1>8. CASE Failure
    <2>1. ASSUME NEW p \in preparing, FailContinuation(p) PROVE HistoryKept
        <3>1. UNCHANGED laneRows \/ PauseLanes({})
            BY <2>1 DEF FailContinuation
        <3>2. QED
            BY <1>1, <3>1, HistoryPaused
    <2>2. CASE \/ Restart \/ \E s \in signals : LoseSignal(s)
               \/ \E p \in preparing : LoseContinuation(p)
        BY <1>1, <2>2 DEF Restart, LoseSignal, LoseContinuation
    <2>3. QED
        BY <1>8, <2>1, <2>2 DEF Failure
<1>9. QED
    BY <1>3, <1>4, <1>5, <1>6, <1>7, <1>8 DEF Next

\* A closed Dispatch, an accepted boundary, a returned member and a continued
\* Wave are never written again, by any call under old authority.
THEOREM HistoryImmutable == Spec => HistoryIsImmutable
<1>1. IInv /\ WInv /\ [Next]_vars => HistoryKept
    BY NextHistory
<1>2. Spec => [][HistoryKept]_vars
    BY <1>1, WavesInductive, PTL DEF Spec
<1>3. QED
    BY <1>2 DEF HistoryIsImmutable, HistoryKept

-----------------------------------------------------------------------------
(* A stopped Task                                                           *)

\* What a step may do to a Task that is stopped.
StoppedKept ==
    /\ DOMAIN dispatch' # DOMAIN dispatch => taskStatus' = "running"
    /\ taskStatus \in {"completed", "cancelled"} => UNCHANGED <<taskRow, laneRows>>

LEMMA NextStopped ==
    IInv /\ WInv /\ [Next]_vars => StoppedKept
<1> SUFFICES ASSUME IInv, WInv, [Next]_vars PROVE StoppedKept
    OBVIOUS
<1>1. ASSUME UNCHANGED <<taskRow, laneRows>> PROVE StoppedKept
    BY <1>1 DEF laneRows, StoppedKept
<1>2. ASSUME taskStatus \in {"running", "paused"},
             taskStatus' = "running" \/ DOMAIN dispatch' = DOMAIN dispatch
      PROVE  StoppedKept
    BY <1>2 DEF StoppedKept
<1>3. ASSUME NEW failed, taskStatus = "running", PauseLanes(failed) PROVE StoppedKept
    BY <1>2, <1>3, PauseEffect
<1>4. ASSUME NEW Q, NEW o, Opens(Q, o) PROVE StoppedKept
    BY <1>2, <1>4 DEF Opens
<1>5. CASE UNCHANGED vars
    BY <1>1, <1>5 DEF vars
<1>6. CASE NodeOperation
    <2>1. PICK d \in DOMAIN dispatch :
            \/ RetryAttempt(d) \/ \E S \in SUBSET Children(d[1]) : Delegate(d, S)
            \/ \E outcome \in {"green", "blocked"} : ReturnToParent(d, outcome) \/ CompleteTask(d, outcome)
        BY <1>6 DEF NodeOperation
    <2>2. taskStatus = "running"
        BY <2>1 DEF RetryAttempt, Delegate, ReturnToParent, CompleteTask, MayCheckpoint, NodeAuthority
    <2>3. taskStatus' = "running" \/ DOMAIN dispatch' = DOMAIN dispatch
        BY <2>1, <2>2 DEF RetryAttempt, Delegate, ReturnToParent, CompleteTask, taskRow, Close
    <2>4. QED
        BY <1>2, <2>2, <2>3
<1>7. CASE Provider
    <2>1. PICK d \in DOMAIN dispatch :
            AcceptProviderStart(d) \/ PauseInvalidStart(d) \/ WatchdogReplace(d) \/ WatchdogPause(d)
        BY <1>7 DEF Provider
    <2>2. CASE AcceptProviderStart(d)
        BY <1>2, <2>2 DEF AcceptProviderStart
    <2>3. CASE WatchdogReplace(d)
        BY <1>4, <2>3, WatchdogReplaceEffect
    <2>4. CASE PauseInvalidStart(d) \/ WatchdogPause(d)
        BY <1>3, <2>4 DEF PauseInvalidStart, WatchdogPause, Stale, NodeAuthority
    <2>5. QED
        BY <2>1, <2>2, <2>3, <2>4
<1>8. CASE WaveHandler
    <2>1. CASE \E s \in signals : JoinWave(s)
        BY <1>2, <2>1 DEF JoinWave, Joinable
    <2>2. CASE \E s \in signals : SkipJoin(s) \/ PrepareContinuation(s)
        BY <1>1, <2>2 DEF SkipJoin, PrepareContinuation
    <2>3. CASE \E p \in preparing : OpenContinuation(p)
        BY <1>4, <2>3, OpenContinuationEffect
    <2>4. CASE \E p \in preparing : SkipContinuation(p)
        BY <1>1, <2>4 DEF SkipContinuation
    <2>5. QED
        BY <1>8, <2>1, <2>2, <2>3, <2>4 DEF WaveHandler
<1>9. CASE Control
    <2>1. CASE PauseTask
        BY <1>3, <2>1 DEF PauseTask
    <2>2. CASE PlanResume \/ \E p \in resuming : AbandonResume(p)
        BY <1>1, <2>2 DEF PlanResume, AbandonResume
    <2>3. CASE \E p \in resuming : CommitResume(p)
        BY <1>4, <2>3, ResumeEffect
    <2>4. CASE CancelTask
        BY <1>2, <2>4, CancelEffect
    <2>5. QED
        BY <1>9, <2>1, <2>2, <2>3, <2>4 DEF Control
<1>10. CASE Failure
    <2>1. ASSUME NEW p \in preparing, FailContinuation(p) PROVE StoppedKept
        <3>1. UNCHANGED <<taskRow, laneRows>> \/ (taskStatus = "running" /\ PauseLanes({}))
            BY <2>1 DEF FailContinuation
        <3>2. QED
            BY <1>1, <1>3, <3>1
    <2>2. CASE \/ Restart \/ \E s \in signals : LoseSignal(s)
               \/ \E p \in preparing : LoseContinuation(p)
        BY <1>1, <2>2 DEF Restart, LoseSignal, LoseContinuation
    <2>3. QED
        BY <1>10, <2>1, <2>2 DEF Failure
<1>11. QED
    BY <1>5, <1>6, <1>7, <1>8, <1>9, <1>10 DEF Next

\* Only the transaction that resumes a stopped Task opens a Dispatch in it, and
\* a finished Task changes no row: what the guards of every handler add up to.
THEOREM StoppedOpensNothing == Spec => StoppedTaskOpensNothing
<1>1. IInv /\ WInv /\ [Next]_vars => StoppedKept
    BY NextStopped
<1>2. Spec => [][StoppedKept]_vars
    BY <1>1, WavesInductive, PTL DEF Spec
<1>3. QED
    BY <1>2 DEF StoppedTaskOpensNothing, StoppedKept

-----------------------------------------------------------------------------
(* The fan-out and fan-in behind the rows                                   *)

\* What a Wave's rows mean to FanOutFanIn.
FanRow(w) ==
    [members  |-> DOMAIN wave[w].member,
     returned |-> {c \in DOMAIN wave[w].member : wave[w].member[c] = "settled"},
     phase    |-> WavePhase(w)]

FanRows == [w \in DOMAIN wave |-> FanRow(w)]

\* The steps of FanOutFanIn, over those rows.
LEMMA FanSteps ==
    /\ Fan!vars = <<TaskPhase, FanRows>>
    /\ Fan!Init <=> TaskPhase = "running" /\ FanRows = [w \in {} |-> {}]
    /\ Fan!Open <=>
        /\ TaskPhase = "running"
        /\ \E w \in DOMAIN FanRows' \ DOMAIN FanRows :
            /\ FanRows' = [x \in DOMAIN FanRows \cup {w} |-> IF x = w THEN FanRows'[w] ELSE FanRows[x]]
            /\ FanRows'[w].members # {}
            /\ \A x \in DOMAIN FanRows : FanRows[x].members \cap FanRows'[w].members = {}
            /\ FanRows'[w] = [members |-> FanRows'[w].members, returned |-> {}, phase |-> "waiting"]
        /\ UNCHANGED TaskPhase
    /\ Fan!Return <=>
        /\ TaskPhase = "running"
        /\ \E w \in DOMAIN FanRows : \E c \in FanRows[w].members \ FanRows[w].returned :
            /\ FanRows[w].phase = "waiting"
            /\ FanRows' = [FanRows EXCEPT ![w].returned = FanRows[w].returned \cup {c}]
        /\ UNCHANGED TaskPhase
    /\ Fan!Join <=>
        /\ TaskPhase = "running"
        /\ \E w \in DOMAIN FanRows :
            /\ FanRows[w].phase = "waiting"
            /\ FanRows[w].returned = FanRows[w].members
            /\ FanRows' = [FanRows EXCEPT ![w].phase = "joined"]
        /\ UNCHANGED TaskPhase
    /\ Fan!Continue <=>
        /\ TaskPhase = "running"
        /\ \E w \in DOMAIN FanRows :
            /\ FanRows[w].phase = "joined"
            /\ FanRows' = [FanRows EXCEPT ![w].phase = "resumed"]
        /\ UNCHANGED TaskPhase
    /\ Fan!Pause <=> TaskPhase = "running" /\ TaskPhase' = "paused" /\ UNCHANGED FanRows
    /\ Fan!Resume <=>
        /\ TaskPhase = "paused"
        /\ TaskPhase' = "running"
        /\ FanRows' = [w \in DOMAIN FanRows |->
                        IF FanRows[w].phase = "joined"
                        THEN [FanRows[w] EXCEPT !.phase = "resumed"] ELSE FanRows[w]]
    /\ Fan!Complete <=>
        /\ TaskPhase = "running"
        /\ \A w \in DOMAIN FanRows : FanRows[w].phase = "resumed"
        /\ TaskPhase' = "over"
        /\ UNCHANGED FanRows
    /\ Fan!Cancel <=>
        /\ TaskPhase # "over"
        /\ TaskPhase' = "over"
        /\ FanRows' = [w \in DOMAIN FanRows |->
                        IF FanRows[w].phase = "resumed"
                        THEN FanRows[w] ELSE [FanRows[w] EXCEPT !.phase = "dropped"]]
BY DEF Fan!vars, Fan!Init, Fan!Open, Fan!Return, Fan!Join, Fan!Continue, Fan!Pause, Fan!Resume,
    Fan!Complete, Fan!Cancel, FanRows, FanRow

\* The phase of a Wave, read from its row.
LEMMA FanPhase ==
    ASSUME NEW w
    PROVE  /\ wave[w].status = "open" => FanRow(w).phase = "waiting"
           /\ wave[w].status = "settled" =>
                FanRow(w).phase = IF wave[w].succ = None THEN "joined" ELSE "resumed"
           /\ wave[w].status = "cancelled" => FanRow(w).phase = "dropped"
BY DEF FanRow, WavePhase

LEMMA SameFanRow ==
    ASSUME NEW w,
           wave'[w].status = wave[w].status,
           wave'[w].succ = None <=> wave[w].succ = None,
           DOMAIN wave'[w].member = DOMAIN wave[w].member,
           \A c \in DOMAIN wave[w].member :
                wave'[w].member[c] = "settled" <=> wave[w].member[c] = "settled"
    PROVE  FanRow(w)' = FanRow(w)
BY DEF FanRow, WavePhase

LEMMA MovedFanRow ==
    ASSUME NEW w, NEW phase, FanRow(w)'.phase = phase,
           DOMAIN wave'[w].member = DOMAIN wave[w].member,
           \A c \in DOMAIN wave[w].member :
                wave'[w].member[c] = "settled" <=> wave[w].member[c] = "settled"
    PROVE  FanRow(w)' = [FanRow(w) EXCEPT !.phase = phase]
<1> DEFINE M == DOMAIN wave[w].member
           R == {c \in M : wave[w].member[c] = "settled"}
<1>1. M' = M /\ R' = R
    OBVIOUS
<1>2. FanRow(w) = [members |-> M, returned |-> R, phase |-> FanRow(w).phase]
    BY DEF FanRow
<1>3. FanRow(w)' = [members |-> M', returned |-> R', phase |-> FanRow(w)'.phase]
    BY DEF FanRow
<1> HIDE DEF M, R
<1>4. QED
    BY <1>1, <1>2, <1>3

LEMMA FanIdle ==
    ASSUME UNCHANGED <<taskStatus, wave>>
    PROVE  UNCHANGED Fan!vars
BY DEF Fan!vars, TaskPhase, WavePhase

LEMMA FanPaused ==
    ASSUME IInv, NEW failed, PauseLanes(failed), taskStatus = "running"
    PROVE  Fan!Pause
<1>1. taskStatus' = "paused" /\ UNCHANGED wave
    BY PauseEffect
<1>2. QED
    BY <1>1, FanSteps DEF TaskPhase, FanRows, FanRow, WavePhase

LEMMA FanOpened ==
    ASSUME IInv, WInv, NEW d \in DOMAIN dispatch, NEW S \in SUBSET Children(d[1]), S # {},
           Delegate(d, S)
    PROVE  Fan!Open
<1> DEFINE ids == {NextDispatch(c) : c \in S}
<1>1. /\ taskStatus = "running" /\ taskStatus' = "running" /\ d \notin DOMAIN wave
      /\ wave' = Upsert(wave, [w \in {d} |-> [status |-> "open",
                                              member |-> [j \in ids |-> "pending"],
                                              succ |-> None]])
    BY DEF Delegate, NodeAuthority, taskRow
<1>2. ids # {} /\ \A j \in ids : j \notin DOMAIN assignment
    <2>1. \A c \in S : NextDispatch(c) \notin DOMAIN dispatch
        BY ChildrenFinite, NextIsNew DEF IInv, TypeOK
    <2>2. QED
        BY <2>1 DEF IInv, TypeOK, KeysOK
<1> HIDE DEF ids
<1>3. /\ DOMAIN wave' = DOMAIN wave \cup {d}
      /\ wave'[d] = [status |-> "open", member |-> [j \in ids |-> "pending"], succ |-> None]
      /\ \A w \in DOMAIN wave : w # d /\ wave'[w] = wave[w]
    BY <1>1 DEF Upsert
<1>4. FanRow(d)' = [members |-> ids, returned |-> {}, phase |-> "waiting"]
    BY <1>3 DEF FanRow, WavePhase
<1>5. /\ DOMAIN FanRows = DOMAIN wave /\ DOMAIN FanRows' = DOMAIN wave \cup {d}
      /\ FanRows'[d] = [members |-> ids, returned |-> {}, phase |-> "waiting"]
    BY <1>3, <1>4 DEF FanRows
<1>6. \A w \in DOMAIN wave : FanRows'[w] = FanRows[w]
    BY <1>3, SameFanRow DEF FanRows
<1>7. \A w \in DOMAIN FanRows : FanRows[w].members \cap FanRows'[d].members = {}
    BY <1>2, <1>5 DEF FanRows, FanRow, WInv, MembersHaveSource
<1>8. FanRows' = [x \in DOMAIN FanRows \cup {d} |-> IF x = d THEN FanRows'[d] ELSE FanRows[x]]
    BY <1>1, <1>5, <1>6 DEF FanRows
<1>9. d \in DOMAIN FanRows' \ DOMAIN FanRows
    BY <1>1, <1>5
<1>10. TaskPhase = "running" /\ UNCHANGED TaskPhase
    BY <1>1 DEF TaskPhase
<1>11. FanRows'[d].members = ids
    BY <1>5
<1>12. QED
    BY <1>2, <1>5, <1>7, <1>8, <1>9, <1>10, <1>11, FanSteps

LEMMA FanReturned ==
    ASSUME IInv, WInv, NEW d \in DOMAIN dispatch, NEW outcome \in {"green", "blocked"},
           ReturnToParent(d, outcome)
    PROVE  Fan!Return
<1> DEFINE asg == attempt[dispatch[d].attempt].assignment
<1>1. taskStatus = "running" /\ taskStatus' = "running"
    BY DEF ReturnToParent, MayCheckpoint, NodeAuthority, taskRow
<1>2. PICK w \in DOMAIN wave :
        /\ asg \in DOMAIN wave[w].member /\ wave[w].member[asg] = "pending"
        /\ wave[w].status = "open"
        /\ wave' = [wave EXCEPT ![w].member[asg] = "settled"]
    BY DEF ReturnToParent
<1> HIDE DEF asg
<1>3. wave[w] = [status |-> wave[w].status, member |-> wave[w].member, succ |-> wave[w].succ]
    BY WaveFacts
<1>4. /\ wave'[w].status = wave[w].status
      /\ wave'[w].member = [wave[w].member EXCEPT ![asg] = "settled"]
      /\ DOMAIN wave' = DOMAIN wave /\ \A x \in DOMAIN wave : x # w => wave'[x] = wave[x]
    BY <1>2, <1>3
<1>5. FanRow(w)' = [FanRow(w) EXCEPT !.returned = FanRow(w).returned \cup {asg}]
    <2>1. FanRow(w)'.phase = "waiting" /\ FanRow(w).phase = "waiting"
        BY <1>2, <1>4 DEF FanRow, WavePhase
    <2>2. DOMAIN wave'[w].member = DOMAIN wave[w].member
        BY <1>4
    <2>3. {c \in DOMAIN wave'[w].member : wave'[w].member[c] = "settled"} =
          {c \in DOMAIN wave[w].member : wave[w].member[c] = "settled"} \cup {asg}
        BY <1>2, <1>4
    <2> DEFINE M == DOMAIN wave[w].member
               R == {c \in M : wave[w].member[c] = "settled"}
    <2>4. FanRow(w) = [members |-> M, returned |-> R, phase |-> "waiting"]
        BY <2>1 DEF FanRow
    <2>5. FanRow(w)' = [members |-> M', returned |-> R', phase |-> "waiting"]
        BY <2>1 DEF FanRow
    <2>6. M' = M /\ R' = R \cup {asg}
        BY <2>2, <2>3
    <2> HIDE DEF M, R
    <2>7. QED
        BY <2>4, <2>5, <2>6
<1>6. \A x \in DOMAIN wave : x # w => FanRow(x)' = FanRow(x)
    BY <1>4, SameFanRow
<1>7. FanRows' = [FanRows EXCEPT ![w].returned = FanRows[w].returned \cup {asg}]
    BY <1>4, <1>5, <1>6 DEF FanRows
<1>8. w \in DOMAIN FanRows /\ FanRows[w].phase = "waiting" /\ asg \in FanRows[w].members \ FanRows[w].returned
    BY <1>2 DEF FanRows, FanRow, WavePhase
<1>9. TaskPhase = "running" /\ UNCHANGED TaskPhase
    BY <1>1 DEF TaskPhase
<1>10. QED
    BY <1>7, <1>8, <1>9, FanSteps

LEMMA FanJoined ==
    ASSUME IInv, WInv, NEW s \in signals, JoinWave(s)
    PROVE  Fan!Join
<1> DEFINE w == s.wave
<1>1. /\ taskStatus = "running" /\ taskStatus' = "running"
      /\ w \in DOMAIN wave /\ wave[w].status = "open" /\ wave[w].succ = None /\ AllReturned(w)
      /\ wave' = [wave EXCEPT ![w].status = "settled"]
    BY DEF JoinWave, Joinable, IInv, TypeOK, SignalsOK, taskRow
<1> HIDE DEF w
<1>2. wave[w] = [status |-> wave[w].status, member |-> wave[w].member, succ |-> wave[w].succ]
    BY <1>1, WaveFacts
<1>3. /\ wave'[w].status = "settled" /\ wave'[w].member = wave[w].member /\ wave'[w].succ = None
      /\ DOMAIN wave' = DOMAIN wave /\ \A x \in DOMAIN wave : x # w => wave'[x] = wave[x]
    BY <1>1, <1>2
<1>4. FanRow(w)' = [FanRow(w) EXCEPT !.phase = "joined"]
    <2>1. FanRow(w)'.phase = "joined"
        BY <1>3 DEF FanRow, WavePhase
    <2>2. QED
        BY <1>3, <2>1, MovedFanRow
<1>5. \A x \in DOMAIN wave : x # w => FanRow(x)' = FanRow(x)
    BY <1>3, SameFanRow
<1>6. FanRows' = [FanRows EXCEPT ![w].phase = "joined"]
    BY <1>3, <1>4, <1>5 DEF FanRows
<1>7. w \in DOMAIN FanRows /\ FanRows[w].phase = "waiting" /\ FanRows[w].returned = FanRows[w].members
    BY <1>1 DEF FanRows, FanRow, WavePhase, AllReturned
<1>8. TaskPhase = "running" /\ UNCHANGED TaskPhase
    BY <1>1 DEF TaskPhase
<1>9. QED
    BY <1>6, <1>7, <1>8, FanSteps

LEMMA FanContinued ==
    ASSUME IInv, WInv, NEW p \in preparing, OpenContinuation(p)
    PROVE  Fan!Continue
<1> DEFINE w == p.wave
           i == NextDispatch(w[1])
<1>1. /\ taskStatus = "running" /\ taskStatus' = "running"
      /\ w \in DOMAIN wave /\ wave[w].status = "settled" /\ wave[w].succ = None
      /\ wave' = [wave EXCEPT ![w].succ = i]
    BY DEF OpenContinuation, ContinuationCurrent, WaveContinuable, Unconsumed, IInv, TypeOK, SignalsOK, taskRow
<1>2. i # None
    BY <1>1, WaveFacts, DispatchFacts, NextIsNew DEF IInv, TypeOK
<1>3. wave[w] = [status |-> wave[w].status, member |-> wave[w].member, succ |-> wave[w].succ]
    BY <1>1, WaveFacts
<1> HIDE DEF w, i
<1>4. /\ wave'[w].status = "settled" /\ wave'[w].member = wave[w].member /\ wave'[w].succ = i
      /\ DOMAIN wave' = DOMAIN wave /\ \A x \in DOMAIN wave : x # w => wave'[x] = wave[x]
    BY <1>1, <1>3
<1>5. FanRow(w)' = [FanRow(w) EXCEPT !.phase = "resumed"]
    <2>1. FanRow(w)'.phase = "resumed"
        BY <1>2, <1>4 DEF FanRow, WavePhase
    <2>2. QED
        BY <1>4, <2>1, MovedFanRow
<1>6. \A x \in DOMAIN wave : x # w => FanRow(x)' = FanRow(x)
    BY <1>4, SameFanRow
<1>7. FanRows' = [FanRows EXCEPT ![w].phase = "resumed"]
    BY <1>4, <1>5, <1>6 DEF FanRows
<1>8. w \in DOMAIN FanRows /\ FanRows[w].phase = "joined"
    BY <1>1 DEF FanRows, FanRow, WavePhase
<1>9. TaskPhase = "running" /\ UNCHANGED TaskPhase
    BY <1>1 DEF TaskPhase
<1>10. QED
    BY <1>7, <1>8, <1>9, FanSteps

\* The plan of a resume still lists every joined Wave, so all of them continue.
LEMMA FanResumed ==
    ASSUME IInv, WInv, NEW p \in resuming, CommitResume(p)
    PROVE  Fan!Resume
<1> DEFINE Q == p.sources
           o == [s \in Q |-> NextDispatch(s[1])]
<1>1. taskStatus = "paused" /\ taskStatus' = "running" /\ controlRevision = p.control
    BY DEF CommitResume, ResumeCurrent
<1>2. Q = ContinueSources
    BY <1>1 DEF WInv, PlansAreExact
<1>3. Opens(Q, o)
    BY ResumeEffect
<1> HIDE DEF Q, o
<1>4. /\ DOMAIN wave' = DOMAIN wave
      /\ \A w \in DOMAIN wave :
            /\ wave'[w].status = wave[w].status /\ wave'[w].member = wave[w].member
            /\ wave'[w].succ = IF w \in Q THEN o[w] ELSE wave[w].succ
            /\ w \in Q => o[w] # None
    BY <1>3 DEF Opens
<1>5. ASSUME NEW w \in DOMAIN wave
      PROVE  FanRow(w)' = IF FanRow(w).phase = "joined"
                          THEN [FanRow(w) EXCEPT !.phase = "resumed"] ELSE FanRow(w)
    <2>1. w \in Q <=> wave[w].status = "settled" /\ wave[w].succ = None
        <3>1. w \notin ClosedTails
            BY DEF ClosedTails, WInv, WavesAreDelegations
        <3>2. QED
            BY <1>2, <3>1, SourceRows
    <2>2. FanRow(w).phase = "joined" <=> w \in Q
        BY <2>1, WaveFacts, FanPhase
    <2>3. CASE w \in Q
        <3>1. wave'[w].status = "settled" /\ wave'[w].succ # None /\ wave'[w].member = wave[w].member
            BY <1>4, <2>1, <2>3
        <3>2. FanRow(w)'.phase = "resumed"
            BY <3>1 DEF FanRow, WavePhase
        <3>3. QED
            BY <2>2, <2>3, <3>1, <3>2, MovedFanRow
    <2>4. CASE w \notin Q
        BY <1>4, <2>2, <2>4, SameFanRow
    <2>5. QED
        BY <2>3, <2>4
<1>6. FanRows' = [w \in DOMAIN FanRows |->
                    IF FanRows[w].phase = "joined"
                    THEN [FanRows[w] EXCEPT !.phase = "resumed"] ELSE FanRows[w]]
    BY <1>4, <1>5 DEF FanRows
<1>7. TaskPhase = "paused" /\ TaskPhase' = "running"
    BY <1>1 DEF TaskPhase
<1>8. QED
    BY <1>6, <1>7, FanSteps

LEMMA FanCompleted ==
    ASSUME IInv, WInv, NEW d \in DOMAIN dispatch, NEW outcome \in {"green", "blocked"},
           CompleteTask(d, outcome)
    PROVE  Fan!Complete
<1>1. taskStatus = "running" /\ taskStatus' = "completed" /\ UNCHANGED wave /\ RootMayFinish
    BY DEF CompleteTask, MayCheckpoint, NodeAuthority
<1>2. ASSUME NEW w \in DOMAIN wave
      PROVE  FanRow(w).phase = "resumed"
    <2>1. wave[w].status = "settled" /\ wave[w].succ # None
        BY <1>1, WaveFacts DEF RootMayFinish, Unconsumed, WInv, WavesAreDelegations
    <2>2. QED
        BY <2>1, FanPhase
<1>3. UNCHANGED FanRows
    BY <1>1 DEF FanRows, FanRow, WavePhase
<1>4. QED
    BY <1>1, <1>2, <1>3, FanSteps DEF TaskPhase, FanRows

LEMMA FanCancelled ==
    ASSUME IInv, WInv, CancelTask
    PROVE  Fan!Cancel
<1>1. taskStatus \in {"running", "paused"} /\ taskStatus' = "cancelled" /\ DOMAIN wave' = DOMAIN wave
    BY CancelEffect
<1>2. ASSUME NEW w \in DOMAIN wave
      PROVE  FanRow(w)' = IF FanRow(w).phase = "resumed"
                          THEN FanRow(w) ELSE [FanRow(w) EXCEPT !.phase = "dropped"]
    <2>1. /\ wave'[w].status = IF wave[w].status # "cancelled" /\ wave[w].succ = None
                               THEN "cancelled" ELSE wave[w].status
          /\ wave'[w].succ = wave[w].succ
          /\ DOMAIN wave'[w].member = DOMAIN wave[w].member
          /\ \A c \in DOMAIN wave[w].member :
                wave'[w].member[c] = "settled" <=> wave[w].member[c] = "settled"
        BY CancelEffect
    <2>2. wave[w].status \in {"open", "settled"} /\ (wave[w].succ # None => wave[w].status = "settled")
        BY <1>1, WaveFacts DEF WInv, WavesAreDelegations
    <2>3. CASE wave[w].succ # None
        BY <2>1, <2>2, <2>3, FanPhase, SameFanRow
    <2>4. CASE wave[w].succ = None
        <3>1. wave'[w].status = "cancelled"
            BY <2>1, <2>2, <2>4
        <3>2. FanRow(w)'.phase = "dropped"
            BY <3>1 DEF FanRow, WavePhase
        <3>3. FanRow(w).phase # "resumed"
            BY <2>2, <2>4, FanPhase
        <3>4. QED
            BY <2>1, <3>2, <3>3, MovedFanRow
    <2>5. QED
        BY <2>3, <2>4
<1>3. FanRows' = [w \in DOMAIN FanRows |->
                    IF FanRows[w].phase = "resumed"
                    THEN FanRows[w] ELSE [FanRows[w] EXCEPT !.phase = "dropped"]]
    BY <1>1, <1>2 DEF FanRows
<1>4. TaskPhase # "over" /\ TaskPhase' = "over"
    BY <1>1 DEF TaskPhase
<1>5. QED
    BY <1>3, <1>4, FanSteps

LEMMA NextFan ==
    IInv /\ WInv /\ [Next]_vars => [Fan!Next]_(Fan!vars)
<1> SUFFICES ASSUME IInv, WInv, [Next]_vars PROVE Fan!Next \/ UNCHANGED Fan!vars
    OBVIOUS
<1> USE DEF Fan!Next
<1>1. CASE UNCHANGED vars
    BY <1>1, FanIdle DEF vars, taskRow, laneRows
<1>2. CASE NodeOperation
    <2>1. PICK d \in DOMAIN dispatch :
            \/ \E S \in (SUBSET Children(d[1])) \ {{}} : Delegate(d, S)
            \/ \E outcome \in {"green", "blocked"} : ReturnToParent(d, outcome)
            \/ \E outcome \in {"green", "blocked"} : CompleteTask(d, outcome)
            \/ RetryAttempt(d)
        BY <1>2 DEF NodeOperation
    <2>2. CASE \E S \in (SUBSET Children(d[1])) \ {{}} : Delegate(d, S)
        <3>1. PICK S \in (SUBSET Children(d[1])) \ {{}} : Delegate(d, S)
            BY <2>2
        <3>2. S \in SUBSET Children(d[1]) /\ S # {}
            OBVIOUS
        <3>3. QED
            BY <3>1, <3>2, FanOpened
    <2>3. CASE RetryAttempt(d)
        BY <2>3, FanIdle DEF RetryAttempt, taskRow
    <2>4. QED
        BY <2>1, <2>2, <2>3, FanReturned, FanCompleted
<1>3. CASE Provider
    <2>1. PICK d \in DOMAIN dispatch :
            AcceptProviderStart(d) \/ PauseInvalidStart(d) \/ WatchdogReplace(d) \/ WatchdogPause(d)
        BY <1>3 DEF Provider
    <2>2. CASE AcceptProviderStart(d) \/ WatchdogReplace(d)
        BY <2>2, FanIdle DEF AcceptProviderStart, WatchdogReplace, taskRow
    <2>3. CASE PauseInvalidStart(d) \/ WatchdogPause(d)
        BY <2>3, FanPaused DEF PauseInvalidStart, WatchdogPause, Stale, NodeAuthority
    <2>4. QED
        BY <2>1, <2>2, <2>3
<1>4. CASE WaveHandler
    <2>1. CASE \E s \in signals : JoinWave(s)
        BY <2>1, FanJoined
    <2>2. CASE \E s \in signals : SkipJoin(s) \/ PrepareContinuation(s)
        BY <2>2, FanIdle DEF SkipJoin, PrepareContinuation, taskRow, laneRows
    <2>3. CASE \E p \in preparing : OpenContinuation(p)
        BY <2>3, FanContinued
    <2>4. CASE \E p \in preparing : SkipContinuation(p)
        BY <2>4, FanIdle DEF SkipContinuation, taskRow, laneRows
    <2>5. QED
        BY <1>4, <2>1, <2>2, <2>3, <2>4 DEF WaveHandler
<1>5. CASE Control
    <2>1. CASE PauseTask
        BY <2>1, FanPaused DEF PauseTask
    <2>2. CASE PlanResume \/ \E p \in resuming : AbandonResume(p)
        BY <2>2, FanIdle DEF PlanResume, AbandonResume, taskRow, laneRows
    <2>3. CASE \E p \in resuming : CommitResume(p)
        BY <2>3, FanResumed
    <2>4. CASE CancelTask
        BY <2>4, FanCancelled
    <2>5. QED
        BY <1>5, <2>1, <2>2, <2>3, <2>4 DEF Control
<1>6. CASE Failure
    <2>1. ASSUME NEW p \in preparing, FailContinuation(p) PROVE Fan!Pause \/ UNCHANGED Fan!vars
        <3>1. UNCHANGED <<taskRow, laneRows>> \/ (taskStatus = "running" /\ PauseLanes({}))
            BY <2>1 DEF FailContinuation
        <3>2. QED
            BY <3>1, FanIdle, FanPaused DEF taskRow, laneRows
    <2>2. CASE \/ Restart \/ \E s \in signals : LoseSignal(s)
               \/ \E p \in preparing : LoseContinuation(p)
        BY <2>2, FanIdle DEF Restart, LoseSignal, LoseContinuation, taskRow, laneRows
    <2>3. QED
        BY <1>6, <2>1, <2>2 DEF Failure
<1>7. QED
    BY <1>1, <1>2, <1>3, <1>4, <1>5, <1>6 DEF Next

\* The runtime implements what delegation promises: for every team and bound,
\* each transaction opens, returns to, joins, continues or drops a Wave as
\* FanOutFanIn allows, or leaves it alone, whatever control does meanwhile.
THEOREM Implements == Spec => ImplementsFanOutFanIn
<1>1. Init => Fan!Init
    BY FanSteps DEF Init, TaskPhase, FanRows
<1>2. IInv /\ WInv /\ [Next]_vars => [Fan!Next]_(Fan!vars)
    BY NextFan
<1>3. QED
    BY <1>1, <1>2, WavesInductive, PTL DEF Spec, ImplementsFanOutFanIn, Fan!Spec
=============================================================================
