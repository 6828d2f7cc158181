---------------------- MODULE DelegationRuntime_proofs ----------------------
(***************************************************************************)
(* IInv is an inductive invariant of Spec, so TypeOK, LiveDispatchIsCurrent*)
(* and OneOpenAssignmentPerMember hold for every team, every budget and    *)
(* every bound.                                                            *)
(***************************************************************************)
EXTENDS DelegationRuntime, FiniteSetTheorems, TLAPS

-----------------------------------------------------------------------------
(* Tables                                                                   *)

LEMMA UpsertDomain ==
    ASSUME NEW table, NEW rows
    PROVE  DOMAIN Upsert(table, rows) = DOMAIN table \cup DOMAIN rows
BY DEF Upsert

LEMMA UpsertNew ==
    ASSUME NEW table, NEW rows, NEW k \in DOMAIN rows
    PROVE  Upsert(table, rows)[k] = rows[k]
BY DEF Upsert

LEMMA UpsertOld ==
    ASSUME NEW table, NEW rows, NEW k \in DOMAIN table, k \notin DOMAIN rows
    PROVE  Upsert(table, rows)[k] = table[k]
BY DEF Upsert

LEMMA UpsertType ==
    ASSUME NEW T, NEW table, NEW rows,
           table \in [DOMAIN table -> T], rows \in [DOMAIN rows -> T]
    PROVE  Upsert(table, rows) \in [DOMAIN Upsert(table, rows) -> T]
BY DEF Upsert

-----------------------------------------------------------------------------
(* Budgets and fresh rows                                                   *)

LEMMA SpendType ==
    ASSUME NEW budget \in Budget, NEW n \in Nat, Covers(budget, n)
    PROVE  Spend(budget, n) \in Budget
BY DEF Spend, Covers, Budget, NoLimit

LEMMA ChildrenFinite ==
    ASSUME NEW m, NEW S \in SUBSET Children(m)
    PROVE  IsFiniteSet(S) /\ Cardinality(S) \in Nat /\ S \subseteq Members
<1>1. S \subseteq Members
    BY DEF Children
<1>2. IsFiniteSet(S)
    BY <1>1, TeamAssumption, FS_Subset
<1>3. QED
    BY <1>1, <1>2, FS_CardinalityType

LEMMA NextIsNew ==
    ASSUME TaskTypeOK, KeysOK, RowsAreNumbered, NEW m \in Members
    PROVE  /\ NextDispatch(m) \in DispatchId
           /\ NextDispatch(m) # None
           /\ NextDispatch(m)[1] = m
           /\ NextDispatch(m)[2] = turns[m] + 1
           /\ NextDispatch(m) \notin DOMAIN dispatch
BY NoneAssumption DEF TaskTypeOK, KeysOK, RowsAreNumbered, NextDispatch, DispatchId

LEMMA NewRows ==
    ASSUME NEW i \in DispatchId, NEW a \in DispatchId, NEW asg \in DispatchId,
           NEW source \in DispatchId \cup {None}
    PROVE  /\ NewDispatch(a, source) \in DispatchRow
           /\ NewDispatch(a, source).attempt = a
           /\ NewDispatch(a, source).status = "starting"
           /\ NewAttempt(asg, i) \in AttemptRow
           /\ NewAttempt(asg, i).assignment = asg
           /\ NewAttempt(asg, i).dispatch = i
           /\ NewAttempt(asg, i).wait = None
           /\ NewAttempt(asg, i).status = "running"
           /\ NewAssignment(i, source) \in AssignmentRow
           /\ NewAssignment(i, source).attempt = i
           /\ NewAssignment(i, source).outcome = "open"
           /\ NewAssignment(i, source).source = source
BY BudgetAssumption DEF NewDispatch, NewAttempt, NewAssignment, DispatchRow, AttemptRow,
    AssignmentRow, Budget

\* What the invariant says of one Dispatch and of one Attempt.
LEMMA DispatchFacts ==
    ASSUME IInv, NEW d \in DOMAIN dispatch
    PROVE  /\ d \in DispatchId /\ d # None /\ d[1] \in Members
           /\ dispatch[d] \in DispatchRow
           /\ dispatch[d].attempt \in DOMAIN attempt
           /\ dispatch[d].attempt[1] = d[1]
BY NoneAssumption DEF IInv, TypeOK, KeysOK, LaneTypeOK, LaneKeepsMember, DispatchId

LEMMA AttemptFacts ==
    ASSUME IInv, NEW a \in DOMAIN attempt
    PROVE  /\ a \in DOMAIN dispatch /\ a \in DispatchId /\ a # None
           /\ attempt[a] \in AttemptRow
           /\ attempt[a].assignment \in DOMAIN assignment
           /\ attempt[a].assignment \in DispatchId
           /\ attempt[a].assignment[1] = a[1]
           /\ assignment[attempt[a].assignment] \in AssignmentRow
BY NoneAssumption DEF IInv, TypeOK, KeysOK, LaneTypeOK, LaneKeepsMember

\* turns grows, and the rows it numbers grow with it.
LEMMA NumberingKept ==
    ASSUME IInv, turns' \in [Members -> Nat],
           \A m \in Members : turns[m] <= turns'[m],
           \A d \in DOMAIN dispatch' \ DOMAIN dispatch :
                d[1] \in Members /\ d[2] <= turns'[d[1]]
    PROVE  RowsAreNumbered'
<1> SUFFICES ASSUME NEW d \in DOMAIN dispatch', d \in DOMAIN dispatch
             PROVE  d[2] <= turns'[d[1]]
    BY DEF RowsAreNumbered
<1>1. d[2] <= turns[d[1]] /\ d[2] \in Nat /\ d[1] \in Members
    BY DispatchFacts DEF IInv, RowsAreNumbered, DispatchId
<1>2. QED
    BY <1>1 DEF IInv, TypeOK, TaskTypeOK

-----------------------------------------------------------------------------
(* The initial state                                                        *)

LEMMA InitIInv == Init => IInv
<1> SUFFICES ASSUME Init PROVE IInv
    OBVIOUS
<1> DEFINE r == <<Root, 1>>
<1>1. r \in DispatchId /\ r # None /\ r[1] = Root /\ r[2] = 1
    BY TeamAssumption, NoneAssumption DEF DispatchId
<1>2. TaskTypeOK
    BY TeamAssumption DEF Init, TaskTypeOK, TaskStatus
<1>3. LaneTypeOK
    BY <1>1, BudgetAssumption DEF Init, LaneTypeOK, NewAssignment, NewAttempt, NewDispatch,
        AssignmentRow, AttemptRow, DispatchRow, Budget
<1>4. WaveTypeOK /\ KeysOK /\ SignalsOK
    BY <1>1 DEF Init, WaveTypeOK, KeysOK, SignalsOK, NewAttempt, NewDispatch
<1>5. RowsAreNumbered /\ LaneKeepsMember
    BY <1>1, TeamAssumption DEF Init, RowsAreNumbered, LaneKeepsMember, NewAssignment, NewAttempt, NewDispatch
<1>6. RunningIsCurrent /\ OneOpenAssignmentPerMember /\ LiveDispatchIsCurrent
    BY <1>1 DEF Init, RunningIsCurrent, OneOpenAssignmentPerMember, LiveDispatchIsCurrent,
        RunningAttempts, Live, NewAssignment, NewAttempt, NewDispatch
<1>7. PlanHasOneSourcePerMember
    BY DEF Init, PlanHasOneSourcePerMember
<1>8. QED
    BY <1>2, <1>3, <1>4, <1>5, <1>6, <1>7 DEF IInv, TypeOK

-----------------------------------------------------------------------------
(* Steps that leave every row alone                                         *)

LEMMA RowsUnchanged ==
    ASSUME IInv, UNCHANGED <<taskRow, laneRows>>, faults' \in Nat,
           SignalsOK', PlanHasOneSourcePerMember'
    PROVE  IInv'
<1>1. TypeOK'
    BY DEF IInv, TypeOK, TaskTypeOK, LaneTypeOK, WaveTypeOK, KeysOK, taskRow, laneRows
<1>2. RowsAreNumbered' /\ LaneKeepsMember' /\ RunningIsCurrent' /\ OneOpenAssignmentPerMember'
    BY DEF IInv, RowsAreNumbered, LaneKeepsMember, RunningIsCurrent, OneOpenAssignmentPerMember,
        RunningAttempts, taskRow, laneRows
<1>3. LiveDispatchIsCurrent'
    BY DEF IInv, LiveDispatchIsCurrent, Live, taskRow, laneRows
<1>4. QED
    BY <1>1, <1>2, <1>3 DEF IInv

LEMMA StutterStep ==
    ASSUME IInv, UNCHANGED vars
    PROVE  IInv'
<1>1. SignalsOK' /\ PlanHasOneSourcePerMember'
    BY DEF IInv, TypeOK, SignalsOK, PlanHasOneSourcePerMember, vars, volatile, laneRows
<1>2. faults' \in Nat
    BY DEF IInv, TypeOK, TaskTypeOK, vars
<1>3. QED
    BY <1>1, <1>2, RowsUnchanged DEF vars

LEMMA SkipSteps ==
    ASSUME IInv,
           \/ \E s \in signals : SkipJoin(s) \/ PrepareContinuation(s) \/ LoseSignal(s)
           \/ \E p \in preparing : SkipContinuation(p) \/ LoseContinuation(p)
           \/ \E p \in resuming : AbandonResume(p)
           \/ Restart
    PROVE  IInv'
<1>1. UNCHANGED <<taskRow, laneRows>>
    BY DEF SkipJoin, PrepareContinuation, LoseSignal, SkipContinuation, LoseContinuation,
        AbandonResume, Restart
<1>2. faults' \in Nat
    BY DEF SkipJoin, PrepareContinuation, LoseSignal, SkipContinuation, LoseContinuation,
        AbandonResume, Restart, IInv, TypeOK, TaskTypeOK
<1>3. SignalsOK'
    <2>1. StartupSignals \subseteq Signal /\ \A s \in StartupSignals : s.wave \in DOMAIN wave
        BY DEF StartupSignals, WaveSources, Signal, IInv, TypeOK, KeysOK
    <2>2. DOMAIN wave' = DOMAIN wave /\ DOMAIN dispatch' = DOMAIN dispatch
        BY <1>1 DEF laneRows
    <2>3. QED
        BY <2>1, <2>2 DEF SkipJoin, PrepareContinuation, LoseSignal, SkipContinuation,
            LoseContinuation, AbandonResume, Restart, IInv, TypeOK, SignalsOK
<1>4. PlanHasOneSourcePerMember'
    BY DEF SkipJoin, PrepareContinuation, LoseSignal, SkipContinuation, LoseContinuation,
        AbandonResume, Restart, IInv, PlanHasOneSourcePerMember
<1>5. QED
    BY <1>1, <1>2, <1>3, <1>4, RowsUnchanged

\* A valid plan has one source per lane, and running lanes of one member are
\* one lane.
LEMMA PlanResumeStep ==
    ASSUME IInv, PlanResume
    PROVE  IInv'
<1>1. UNCHANGED <<taskRow, laneRows>> /\ faults' \in Nat
    BY DEF PlanResume, IInv, TypeOK, TaskTypeOK
<1>2. ContinueSources \subseteq DOMAIN dispatch
    BY DEF ContinueSources, WaveSources, ClosedTails, IInv, TypeOK, KeysOK
<1>3. SignalsOK'
    BY <1>1, <1>2 DEF PlanResume, IInv, TypeOK, SignalsOK, laneRows
<1>4. ASSUME NEW s \in ContinueSources, NEW t \in ContinueSources, s[1] = t[1]
      PROVE  s = t
    <2>1. LaneSourcesValid
        BY DEF PlanResume
    <2> DEFINE a == dispatch[s].attempt
               b == dispatch[t].attempt
    <2>2. a \in RunningAttempts /\ b \in RunningAttempts
        BY <2>1 DEF LaneSourcesValid
    <2>3. a[1] = b[1] /\ attempt[a].assignment[1] = a[1] /\ attempt[b].assignment[1] = b[1]
        BY <1>2, <1>4, <2>2 DEF IInv, LaneKeepsMember, RunningAttempts
    <2>4. attempt[a].assignment = attempt[b].assignment
        <3>1. \A x \in RunningAttempts :
                attempt[x].assignment \in DOMAIN assignment
                /\ assignment[attempt[x].assignment].outcome = "open"
            BY DEF IInv, TypeOK, KeysOK, RunningIsCurrent, RunningAttempts
        <3>2. QED
            BY <2>2, <2>3, <3>1 DEF IInv, OneOpenAssignmentPerMember
    <2>5. a = b
        BY <2>2, <2>4 DEF IInv, RunningIsCurrent
    <2>6. s \in SourcesOf(a) /\ t \in SourcesOf(a)
        BY <2>5 DEF SourcesOf
    <2>7. \E x \in ContinueSources : SourcesOf(a) = {x}
        <3>1. attempt[a].wait = None
            BY <2>1, <2>2, <2>6 DEF LaneSourcesValid
        <3>2. QED
            BY <2>1, <2>2, <3>1 DEF LaneSourcesValid
    <2>8. QED
        BY <2>6, <2>7
<1>5. PlanHasOneSourcePerMember'
    BY <1>4 DEF PlanResume, IInv, PlanHasOneSourcePerMember
<1>6. QED
    BY <1>1, <1>3, <1>5, RowsUnchanged

-----------------------------------------------------------------------------
(* Task control and failures that pause the Task                            *)

LEMMA LiveIsCurrent ==
    ASSUME IInv
    PROVE  CurrentDispatches = {d \in DOMAIN dispatch : Live(d)}
<1>1. ASSUME NEW d \in DOMAIN dispatch, Live(d)
      PROVE  CurrentDispatch(d)
    <2> DEFINE a == dispatch[d].attempt
    <2>1. a \in DOMAIN attempt /\ attempt[a].status = "running" /\ attempt[a].dispatch = d
        BY <1>1 DEF IInv, TypeOK, KeysOK, LiveDispatchIsCurrent
    <2>2. d # None
        BY NoneAssumption DEF IInv, TypeOK, KeysOK
    <2>3. attempt[a].wait = None
        BY <2>1, <2>2 DEF IInv, RunningIsCurrent, RunningAttempts
    <2>4. QED
        BY <2>1, <2>3 DEF CurrentDispatch
<1>2. QED
    BY <1>1 DEF CurrentDispatches

\* Closing every live Dispatch and clearing every pointer keeps the rows typed.
LEMMA PauseLanesKeepsRows ==
    ASSUME IInv, NEW failed, PauseLanes(failed)
    PROVE  TaskTypeOK' /\ LaneTypeOK' /\ WaveTypeOK' /\ KeysOK' /\ RowsAreNumbered'
           /\ LaneKeepsMember' /\ RunningIsCurrent' /\ OneOpenAssignmentPerMember'
           /\ LiveDispatchIsCurrent'
<1> USE DEF IInv, TypeOK
<1>1. /\ DOMAIN dispatch' = DOMAIN dispatch
      /\ DOMAIN attempt' = DOMAIN attempt
      /\ UNCHANGED <<assignment, wave, boundary, turns>>
    BY DEF PauseLanes, CloseCurrent, ClearCurrent
<1>2. \A d \in DOMAIN dispatch :
        /\ dispatch'[d].attempt = dispatch[d].attempt
        /\ dispatch'[d] \in DispatchRow
        /\ ~Live(d)'
    BY LiveIsCurrent DEF PauseLanes, CloseCurrent, LaneTypeOK, DispatchRow, CloseReason, Live
<1>3. \A a \in DOMAIN attempt :
        /\ attempt'[a] = [attempt[a] EXCEPT !.dispatch = attempt'[a].dispatch]
        /\ attempt'[a].dispatch = None
        /\ attempt'[a] \in AttemptRow
    <2> SUFFICES ASSUME NEW a \in DOMAIN attempt
                 PROVE  /\ attempt'[a] = [attempt[a] EXCEPT !.dispatch = attempt'[a].dispatch]
                        /\ attempt'[a].dispatch = None
                        /\ attempt'[a] \in AttemptRow
        OBVIOUS
    <2>1. attempt[a] \in AttemptRow
        BY DEF LaneTypeOK
    <2>2. attempt[a].dispatch # None =>
            attempt[a].status = "running" /\ attempt[a].dispatch \in CurrentDispatches
        BY LiveIsCurrent DEF LiveDispatchIsCurrent
    <2>3. QED
        BY <2>1, <2>2 DEF PauseLanes, ClearCurrent, AttemptRow
<1>4. TaskTypeOK'
    BY DEF PauseLanes, TaskTypeOK, TaskStatus
<1>5. LaneTypeOK' /\ WaveTypeOK'
    BY <1>1, <1>2, <1>3 DEF PauseLanes, CloseCurrent, ClearCurrent, LaneTypeOK, WaveTypeOK
<1>6. \A a \in DOMAIN attempt :
        /\ attempt'[a].assignment = attempt[a].assignment
        /\ attempt'[a].status = attempt[a].status
        /\ attempt'[a].wait = attempt[a].wait
    BY <1>3 DEF LaneTypeOK, AttemptRow
<1>7. KeysOK' /\ RowsAreNumbered' /\ LaneKeepsMember' /\ OneOpenAssignmentPerMember'
    BY <1>1, <1>2, <1>6 DEF KeysOK, RowsAreNumbered, LaneKeepsMember, OneOpenAssignmentPerMember
<1>8. RunningIsCurrent' /\ LiveDispatchIsCurrent'
    BY <1>1, <1>2, <1>3, <1>6 DEF RunningIsCurrent, LiveDispatchIsCurrent, RunningAttempts
<1>9. QED
    BY <1>4, <1>5, <1>7, <1>8

LEMMA PauseSteps ==
    ASSUME IInv,
           \/ PauseTask
           \/ \E d \in DOMAIN dispatch : PauseInvalidStart(d) \/ WatchdogPause(d)
           \/ \E p \in preparing : FailContinuation(p)
    PROVE  IInv'
<1>1. PICK failed : PauseLanes(failed) \/ UNCHANGED <<taskRow, laneRows, faults>>
    BY DEF PauseTask, PauseInvalidStart, WatchdogPause, FailContinuation
<1>2. /\ signals' = signals /\ resuming' = resuming /\ preparing' \subseteq preparing
    BY DEF PauseTask, PauseInvalidStart, WatchdogPause, FailContinuation, volatile
<1>3. PlanHasOneSourcePerMember'
    BY <1>2 DEF IInv, PlanHasOneSourcePerMember
<1>4. CASE PauseLanes(failed)
    <2>1. DOMAIN wave' = DOMAIN wave /\ DOMAIN dispatch' = DOMAIN dispatch
        BY <1>4 DEF PauseLanes, CloseCurrent
    <2>2. SignalsOK'
        BY <1>2, <2>1 DEF IInv, TypeOK, SignalsOK
    <2>3. QED
        BY <1>3, <1>4, <2>2, PauseLanesKeepsRows DEF IInv, TypeOK
<1>5. CASE UNCHANGED <<taskRow, laneRows, faults>>
    <2>1. SignalsOK' /\ faults' \in Nat
        BY <1>2, <1>5 DEF IInv, TypeOK, SignalsOK, TaskTypeOK, laneRows
    <2>2. QED
        BY <1>3, <1>5, <2>1, RowsUnchanged
<1>6. QED
    BY <1>1, <1>4, <1>5

LEMMA CancelTaskStep ==
    ASSUME IInv, CancelTask
    PROVE  IInv'
<1> USE DEF IInv, TypeOK
<1>1. /\ DOMAIN dispatch' = DOMAIN dispatch
      /\ DOMAIN attempt' = DOMAIN attempt
      /\ DOMAIN wave' = DOMAIN wave
      /\ UNCHANGED <<assignment, boundary, turns, volatile, faults>>
    BY DEF CancelTask, CloseCurrent
<1>2. \A d \in DOMAIN dispatch :
        /\ dispatch'[d].attempt = dispatch[d].attempt
        /\ dispatch'[d] \in DispatchRow
        /\ ~Live(d)'
    BY LiveIsCurrent DEF CancelTask, CloseCurrent, LaneTypeOK, DispatchRow, CloseReason, Live
<1>3. \A a \in DOMAIN attempt :
        /\ attempt'[a] \in AttemptRow
        /\ attempt'[a].assignment = attempt[a].assignment
        /\ attempt'[a].dispatch = None
        /\ attempt'[a].status # "running"
    <2> SUFFICES ASSUME NEW a \in DOMAIN attempt
                 PROVE  /\ attempt'[a] \in AttemptRow
                        /\ attempt'[a].assignment = attempt[a].assignment
                        /\ attempt'[a].dispatch = None
                        /\ attempt'[a].status # "running"
        OBVIOUS
    <2>1. attempt[a] \in AttemptRow
        BY DEF LaneTypeOK
    <2>2. attempt[a].dispatch # None => attempt[a].status = "running"
        BY DEF LiveDispatchIsCurrent
    <2>3. QED
        BY <2>1, <2>2 DEF CancelTask, RunningAttempts, AttemptRow
<1>4. TaskTypeOK'
    <2>1. /\ taskStatus' = "cancelled"
          /\ controlRevision' = controlRevision + 1
          /\ resultBoundary' = None
        BY DEF CancelTask
    <2>2. QED
        BY <1>1, <2>1 DEF TaskTypeOK, TaskStatus
<1>5. LaneTypeOK'
    <2>1. dispatch' = [d \in DOMAIN dispatch' |-> dispatch'[d]]
        BY DEF CancelTask, CloseCurrent
    <2>2. attempt' = [a \in DOMAIN attempt' |-> attempt'[a]]
        BY DEF CancelTask
    <2>3. QED
        BY <1>1, <1>2, <1>3, <2>1, <2>2 DEF LaneTypeOK
<1>6. WaveTypeOK'
    <2>1. wave' = [w \in DOMAIN wave' |-> wave'[w]]
        BY DEF CancelTask
    <2>2. ASSUME NEW w \in DOMAIN wave
          PROVE  wave'[w] \in WaveRowOf(DOMAIN wave'[w].member)
        <3>1. wave[w] \in WaveRowOf(DOMAIN wave[w].member)
            BY DEF WaveTypeOK
        <3>2. wave'[w] = [status |-> IF wave[w].status # "cancelled" /\ wave[w].succ = None
                                     THEN "cancelled" ELSE wave[w].status,
                          member |-> [c \in DOMAIN wave[w].member |->
                                        IF wave[w].member[c] = "pending"
                                        THEN "cancelled" ELSE wave[w].member[c]],
                          succ |-> wave[w].succ]
            BY DEF CancelTask
        <3>3. QED
            BY <3>1, <3>2 DEF WaveRowOf
    <2>3. QED
        BY <1>1, <2>1, <2>2 DEF WaveTypeOK
<1>7. KeysOK' /\ RowsAreNumbered' /\ LaneKeepsMember' /\ OneOpenAssignmentPerMember'
    BY <1>1, <1>2, <1>3 DEF KeysOK, RowsAreNumbered, LaneKeepsMember, OneOpenAssignmentPerMember
<1>8. RunningIsCurrent' /\ LiveDispatchIsCurrent'
    BY <1>1, <1>2, <1>3 DEF RunningIsCurrent, LiveDispatchIsCurrent, RunningAttempts
<1>9. SignalsOK' /\ PlanHasOneSourcePerMember'
    BY <1>1 DEF SignalsOK, PlanHasOneSourcePerMember, volatile
<1>10. QED
    BY <1>4, <1>5, <1>6, <1>7, <1>8, <1>9

-----------------------------------------------------------------------------
(* The provider behind a Dispatch                                           *)

LEMMA AcceptProviderStartStep ==
    ASSUME IInv, NEW d \in DOMAIN dispatch, AcceptProviderStart(d)
    PROVE  IInv'
<1> USE DEF IInv, TypeOK
<1>1. /\ DOMAIN dispatch' = DOMAIN dispatch
      /\ UNCHANGED <<taskRow, assignment, attempt, wave, boundary, turns, volatile, faults>>
    BY DEF AcceptProviderStart
<1>2. \A x \in DOMAIN dispatch :
        /\ dispatch'[x] \in DispatchRow
        /\ dispatch'[x].attempt = dispatch[x].attempt
        /\ Live(x)' <=> Live(x)
    BY DEF AcceptProviderStart, LaneTypeOK, DispatchRow, Live
<1>3. TaskTypeOK' /\ LaneTypeOK' /\ WaveTypeOK'
    <2>1. dispatch' = [x \in DOMAIN dispatch' |-> dispatch'[x]]
        BY DEF AcceptProviderStart
    <2>2. QED
        BY <1>1, <1>2, <2>1 DEF TaskTypeOK, LaneTypeOK, WaveTypeOK, taskRow
<1>4. KeysOK' /\ SignalsOK' /\ RowsAreNumbered' /\ LaneKeepsMember'
    BY <1>1, <1>2 DEF KeysOK, SignalsOK, RowsAreNumbered, LaneKeepsMember, volatile
<1>5. RunningIsCurrent' /\ OneOpenAssignmentPerMember' /\ PlanHasOneSourcePerMember'
    BY <1>1 DEF RunningIsCurrent, OneOpenAssignmentPerMember, PlanHasOneSourcePerMember,
        RunningAttempts, volatile
<1>6. LiveDispatchIsCurrent'
    BY <1>1, <1>2 DEF LiveDispatchIsCurrent, taskRow
<1>7. QED
    BY <1>3, <1>4, <1>5, <1>6

\* Opening the successor i of source s in the lane of s, where no other
\* Dispatch stays live.
OpensSuccessor(s, i) ==
    LET a == dispatch[s].attempt
    IN  /\ taskStatus = "running"
        /\ attempt[a].status = "running"
        /\ attempt[a].wait = None
        /\ UNCHANGED <<taskRow, assignment, boundary, resuming, faults>>
        /\ turns' = [turns EXCEPT ![s[1]] = @ + 1]
        /\ dispatch' = [x \in DOMAIN dispatch \cup {i} |-> dispatch'[x]]
        /\ dispatch'[i] = NewDispatch(a, s)
        /\ \A x \in DOMAIN dispatch :
            /\ dispatch'[x] \in DispatchRow
            /\ dispatch'[x].attempt = dispatch[x].attempt
            /\ Live(x)' <=> Live(x) /\ dispatch[x].attempt # a
        /\ attempt' = [x \in DOMAIN attempt |-> attempt'[x]]
        /\ \A x \in DOMAIN attempt :
            /\ attempt'[x] \in AttemptRow
            /\ attempt'[x].assignment = attempt[x].assignment
            /\ attempt'[x].status = attempt[x].status
            /\ attempt'[x].wait = attempt[x].wait
            /\ attempt'[x].dispatch = IF x = a THEN i ELSE attempt[x].dispatch

LEMMA SuccessorOpened ==
    ASSUME IInv, NEW s \in DOMAIN dispatch, OpensSuccessor(s, NextDispatch(s[1])),
           DOMAIN wave' = DOMAIN wave, WaveTypeOK', SignalsOK'
    PROVE  IInv'
<1> DEFINE a == dispatch[s].attempt
           i == NextDispatch(s[1])
<1> USE DEF OpensSuccessor
<1>1. /\ s \in DispatchId /\ s[1] \in Members
      /\ a \in DOMAIN attempt /\ a \in DispatchId /\ a[1] = s[1]
    BY DispatchFacts, AttemptFacts
<1>2. i \in DispatchId /\ i # None /\ i[1] = s[1] /\ i[2] = turns[s[1]] + 1 /\ i \notin DOMAIN dispatch
    BY <1>1, NextIsNew DEF IInv, TypeOK
<1>3. dispatch'[i] \in DispatchRow /\ dispatch'[i].attempt = a /\ dispatch'[i].status = "starting"
    <2>1. NewDispatch(a, s) \in DispatchRow /\ NewDispatch(a, s).attempt = a
          /\ NewDispatch(a, s).status = "starting"
        BY <1>1, NewRows
    <2>2. dispatch'[i] = NewDispatch(a, s)
        OBVIOUS
    <2>3. QED
        BY <2>1, <2>2
<1>4. turns' \in [Members -> Nat] /\ \A m \in Members : turns[m] <= turns'[m]
    BY <1>1 DEF IInv, TypeOK, TaskTypeOK
<1>5. TaskTypeOK'
    BY <1>4 DEF IInv, TypeOK, TaskTypeOK, taskRow
<1>6. LaneTypeOK'
    BY <1>3 DEF IInv, TypeOK, LaneTypeOK
<1>7. KeysOK'
    BY <1>1, <1>2, <1>3 DEF IInv, TypeOK, KeysOK
<1>8. RowsAreNumbered'
    <2>1. i[2] <= turns'[i[1]]
        BY <1>1, <1>2, <1>4 DEF IInv, TypeOK, TaskTypeOK
    <2>2. QED
        BY <1>1, <1>2, <1>4, <2>1, NumberingKept
<1>9. LaneKeepsMember'
    BY <1>1, <1>2, <1>3 DEF IInv, LaneKeepsMember
<1>10. RunningIsCurrent'
    BY DEF IInv, RunningIsCurrent, RunningAttempts
<1>11. OneOpenAssignmentPerMember' /\ PlanHasOneSourcePerMember'
    BY DEF IInv, OneOpenAssignmentPerMember, PlanHasOneSourcePerMember
<1>12. LiveDispatchIsCurrent'
    <2>1. ASSUME NEW x \in DOMAIN dispatch', Live(x)'
          PROVE  /\ taskStatus' = "running"
                 /\ attempt'[dispatch'[x].attempt].status = "running"
                 /\ attempt'[dispatch'[x].attempt].dispatch = x
        <3>1. CASE x = i
            BY <1>1, <1>3, <3>1 DEF taskRow
        <3>2. CASE x # i
            <4>1. x \in DOMAIN dispatch /\ Live(x) /\ dispatch[x].attempt # a
                BY <2>1, <3>2
            <4>2. QED
                BY <4>1, DispatchFacts DEF IInv, LiveDispatchIsCurrent, taskRow
        <3>3. QED
            BY <3>1, <3>2
    <2>2. ASSUME NEW x \in DOMAIN attempt', attempt'[x].dispatch # None
          PROVE  /\ attempt'[x].dispatch \in DOMAIN dispatch'
                 /\ dispatch'[attempt'[x].dispatch].attempt = x
                 /\ dispatch'[attempt'[x].dispatch].status \in {"starting", "open"}
        <3>1. CASE x = a
            BY <1>1, <1>3, <3>1
        <3>2. CASE x # a
            <4> DEFINE d == attempt[x].dispatch
            <4>1. x \in DOMAIN attempt /\ attempt'[x].dispatch = d
                BY <2>2, <3>2
            <4>2. d \in DOMAIN dispatch /\ dispatch[d].attempt = x /\ Live(d)
                BY <2>2, <4>1 DEF IInv, LiveDispatchIsCurrent
            <4>3. QED
                BY <4>1, <4>2, <3>2 DEF Live
        <3>3. QED
            BY <3>1, <3>2
    <2>3. QED
        BY <2>1, <2>2 DEF LiveDispatchIsCurrent, Live
<1>13. QED
    BY <1>5, <1>6, <1>7, <1>8, <1>9, <1>10, <1>11, <1>12 DEF IInv, TypeOK

LEMMA WatchdogReplaceStep ==
    ASSUME IInv, NEW d \in DOMAIN dispatch, WatchdogReplace(d)
    PROVE  IInv'
<1> DEFINE a == dispatch[d].attempt
           i == NextDispatch(d[1])
<1>1. /\ taskStatus = "running" /\ Live(d)
      /\ attempt[a].status = "running" /\ attempt[a].dispatch = d /\ attempt[a].wait = None
    BY DEF WatchdogReplace, Stale, NodeAuthority
<1>2. /\ UNCHANGED <<taskRow, assignment, wave, boundary, volatile, faults>>
      /\ turns' = [turns EXCEPT ![d[1]] = @ + 1]
    BY DEF WatchdogReplace
<1>3. i \in DispatchId /\ i \notin DOMAIN dispatch
    BY DispatchFacts, NextIsNew DEF IInv, TypeOK
<1>4. /\ dispatch' = [x \in DOMAIN dispatch \cup {i} |-> dispatch'[x]]
      /\ dispatch'[i] = NewDispatch(a, d)
      /\ \A x \in DOMAIN dispatch :
            dispatch'[x] = IF x = d THEN [dispatch[d] EXCEPT !.status = "closed",
                                                             !.reason = "watchdog_superseded"]
                           ELSE dispatch[x]
    BY <1>3 DEF WatchdogReplace, Upsert, Close
<1>5. ASSUME NEW x \in DOMAIN dispatch
      PROVE  /\ dispatch'[x] \in DispatchRow
             /\ dispatch'[x].attempt = dispatch[x].attempt
             /\ Live(x)' <=> Live(x) /\ dispatch[x].attempt # a
    <2>1. dispatch[x] \in DispatchRow
        BY DispatchFacts
    <2>2. Live(x) /\ dispatch[x].attempt = a => x = d
        BY <1>1 DEF IInv, LiveDispatchIsCurrent
    <2>3. CASE x = d
        BY <1>4, <2>1, <2>3 DEF DispatchRow, CloseReason, Live
    <2>4. CASE x # d
        BY <1>4, <2>1, <2>2, <2>4 DEF Live
    <2>5. QED
        BY <2>3, <2>4
<1>6. ASSUME NEW x \in DOMAIN attempt
      PROVE  /\ attempt'[x] \in AttemptRow
             /\ attempt'[x].assignment = attempt[x].assignment
             /\ attempt'[x].status = attempt[x].status
             /\ attempt'[x].wait = attempt[x].wait
             /\ attempt'[x].dispatch = IF x = a THEN i ELSE attempt[x].dispatch
    <2>1. attempt[x] \in AttemptRow
        BY AttemptFacts
    <2>2. attempt'[x] = IF x = a THEN [attempt[a] EXCEPT !.dispatch = i, !.replaced = @ + 1]
                        ELSE attempt[x]
        BY DEF WatchdogReplace
    <2>3. CASE x = a
        <3>1. attempt'[a] = [assignment |-> attempt[a].assignment, status |-> attempt[a].status,
                             dispatch |-> i, wait |-> attempt[a].wait,
                             replaced |-> attempt[a].replaced + 1]
            BY <2>1, <2>2, <2>3 DEF AttemptRow
        <3>2. QED
            BY <1>3, <2>1, <2>3, <3>1 DEF AttemptRow
    <2>4. CASE x # a
        BY <2>1, <2>2, <2>4
    <2>5. QED
        BY <2>3, <2>4
<1>7. attempt' = [x \in DOMAIN attempt |-> attempt'[x]]
    BY DEF WatchdogReplace
<1>8. WaveTypeOK' /\ SignalsOK'
    BY <1>2, <1>4 DEF IInv, TypeOK, WaveTypeOK, SignalsOK, volatile
<1>9. UNCHANGED <<taskRow, assignment, boundary, resuming, faults>> /\ DOMAIN wave' = DOMAIN wave
    BY <1>2 DEF volatile
<1>10. QED
    <2>1. OpensSuccessor(d, i)
        BY <1>1, <1>2, <1>4, <1>5, <1>6, <1>7, <1>9 DEF OpensSuccessor
    <2>2. QED
        BY <1>8, <1>9, <2>1, SuccessorOpened

-----------------------------------------------------------------------------
(* Wave handlers                                                            *)

LEMMA OpenContinuationStep ==
    ASSUME IInv, NEW p \in preparing, OpenContinuation(p)
    PROVE  IInv'
<1> DEFINE w == p.wave
           a == dispatch[w].attempt
           i == NextDispatch(w[1])
<1>1. w \in DOMAIN wave /\ w \in DOMAIN dispatch
    BY DEF IInv, TypeOK, KeysOK, SignalsOK
<1>2. taskStatus = "running" /\ LaneIdle(a)
    BY DEF OpenContinuation, ContinuationCurrent, WaveContinuable, ContextCurrent
<1>3. /\ UNCHANGED <<taskRow, assignment, boundary, signals, resuming, faults>>
      /\ turns' = [turns EXCEPT ![w[1]] = @ + 1]
      /\ preparing' \subseteq preparing
    BY DEF OpenContinuation
<1>4. i \in DispatchId /\ i \notin DOMAIN dispatch
    BY <1>1, DispatchFacts, NextIsNew DEF IInv, TypeOK
<1>5. /\ dispatch' = [x \in DOMAIN dispatch \cup {i} |-> dispatch'[x]]
      /\ dispatch'[i] = NewDispatch(a, w)
      /\ \A x \in DOMAIN dispatch : dispatch'[x] = dispatch[x]
    BY <1>4 DEF OpenContinuation, Upsert
<1>6. ASSUME NEW x \in DOMAIN dispatch
      PROVE  /\ dispatch'[x] \in DispatchRow
             /\ dispatch'[x].attempt = dispatch[x].attempt
             /\ Live(x)' <=> Live(x) /\ dispatch[x].attempt # a
    <2>1. Live(x) => dispatch[x].attempt # a
        <3>1. Live(x) => attempt[dispatch[x].attempt].dispatch = x /\ x # None
            BY DispatchFacts DEF IInv, LiveDispatchIsCurrent
        <3>2. QED
            BY <1>2, <3>1 DEF LaneIdle
    <2>2. QED
        BY <1>5, <2>1, DispatchFacts DEF Live
<1>7. ASSUME NEW x \in DOMAIN attempt
      PROVE  /\ attempt'[x] \in AttemptRow
             /\ attempt'[x].assignment = attempt[x].assignment
             /\ attempt'[x].status = attempt[x].status
             /\ attempt'[x].wait = attempt[x].wait
             /\ attempt'[x].dispatch = IF x = a THEN i ELSE attempt[x].dispatch
    <2>1. attempt[x] \in AttemptRow
        BY AttemptFacts
    <2>2. attempt'[x] = IF x = a THEN [attempt[a] EXCEPT !.dispatch = i] ELSE attempt[x]
        BY DEF OpenContinuation
    <2>3. QED
        BY <1>4, <2>1, <2>2 DEF AttemptRow
<1>8. attempt' = [x \in DOMAIN attempt |-> attempt'[x]]
    BY DEF OpenContinuation
<1>9. DOMAIN wave' = DOMAIN wave /\ WaveTypeOK'
    <2>1. wave' = [wave EXCEPT ![w].succ = i]
        BY DEF OpenContinuation
    <2>2. QED
        BY <1>1, <1>4, <2>1, ZenonT(60) DEF IInv, TypeOK, WaveTypeOK, WaveRowOf
<1>10. SignalsOK'
    BY <1>3, <1>5, <1>9 DEF IInv, TypeOK, SignalsOK
<1>11. attempt[a].status = "running" /\ attempt[a].wait = None
    BY <1>2 DEF LaneIdle
<1>12. UNCHANGED <<taskRow, assignment, boundary, resuming, faults>>
    BY <1>3
<1>13. QED
    <2>1. OpensSuccessor(w, i)
        BY <1>2, <1>3, <1>5, <1>6, <1>7, <1>8, <1>11, <1>12 DEF OpensSuccessor
    <2>2. QED
        BY <1>1, <1>9, <1>10, <2>1, SuccessorOpened

LEMMA JoinWaveStep ==
    ASSUME IInv, NEW s \in signals, JoinWave(s)
    PROVE  IInv'
<1> DEFINE w == s.wave
           a == dispatch[w].attempt
<1>1. w \in DOMAIN wave /\ w \in DOMAIN dispatch /\ w \in DispatchId /\ a \in DOMAIN attempt
    BY DEF IInv, TypeOK, KeysOK, SignalsOK
<1>2. attempt[a].status = "running" /\ attempt[a].dispatch = None
    BY DEF JoinWave, Joinable
<1>3. /\ UNCHANGED <<taskRow, assignment, dispatch, boundary, turns, preparing, resuming, faults>>
      /\ wave' = [wave EXCEPT ![w].status = "settled"]
      /\ attempt' = [attempt EXCEPT ![a].wait = None]
      /\ signals' = (signals \ {s}) \cup {[kind |-> "DelegationWaveSettled", wave |-> w]}
    BY DEF JoinWave
<1>4. ASSUME NEW x \in DOMAIN attempt
      PROVE  /\ attempt'[x] \in AttemptRow
             /\ attempt'[x].assignment = attempt[x].assignment
             /\ attempt'[x].status = attempt[x].status
             /\ attempt'[x].wait # None => attempt'[x].wait = attempt[x].wait
             /\ attempt'[x].dispatch = attempt[x].dispatch
    <2>1. attempt[x] \in AttemptRow
        BY AttemptFacts
    <2>2. QED
        BY <1>3, <2>1 DEF AttemptRow
<1>5. UNCHANGED <<taskRow, assignment, dispatch, turns, resuming>> /\ DOMAIN attempt' = DOMAIN attempt
    BY <1>3
<1>6. TaskTypeOK' /\ LaneTypeOK'
    BY <1>3, <1>4 DEF IInv, TypeOK, TaskTypeOK, LaneTypeOK, taskRow
<1>7. WaveTypeOK' /\ DOMAIN wave' = DOMAIN wave
    BY <1>1, <1>3, ZenonT(60) DEF IInv, TypeOK, WaveTypeOK, WaveRowOf
<1>8. UNCHANGED boundary
    BY <1>3
<1>9. KeysOK'
    BY <1>4, <1>5, <1>7, <1>8 DEF IInv, TypeOK, KeysOK
<1>10. RowsAreNumbered' /\ LaneKeepsMember'
    BY <1>4, <1>5 DEF IInv, RowsAreNumbered, LaneKeepsMember
<1>11. SignalsOK'
    BY <1>1, <1>3, <1>7 DEF IInv, TypeOK, SignalsOK, Signal
<1>12. RunningIsCurrent'
    BY <1>4, <1>5 DEF IInv, RunningIsCurrent, RunningAttempts
<1>13. OneOpenAssignmentPerMember' /\ PlanHasOneSourcePerMember'
    BY <1>5 DEF IInv, OneOpenAssignmentPerMember, PlanHasOneSourcePerMember
<1>14. LiveDispatchIsCurrent'
    <2>1. \A d \in DOMAIN dispatch : dispatch[d].attempt \in DOMAIN attempt
        BY DispatchFacts
    <2>2. QED
        BY <1>4, <1>5, <2>1 DEF IInv, LiveDispatchIsCurrent, Live, taskRow
<1>15. QED
    BY <1>6, <1>7, <1>9, <1>10, <1>11, <1>12, <1>13, <1>14 DEF IInv, TypeOK

-----------------------------------------------------------------------------
(* Node operations                                                          *)

LEMMA AuthorityFacts ==
    ASSUME IInv, NEW d \in DOMAIN dispatch, NodeAuthority(d)
    PROVE  LET a == dispatch[d].attempt
               asg == attempt[a].assignment
           IN  /\ d \in DispatchId /\ d # None /\ d[1] \in Members
               /\ a \in DOMAIN attempt /\ a \in DispatchId /\ a # None /\ a[1] = d[1]
               /\ asg \in DOMAIN assignment /\ asg \in DispatchId /\ asg[1] = d[1]
               /\ attempt[a] \in AttemptRow
               /\ assignment[asg] \in AssignmentRow
               /\ a \in RunningAttempts
               /\ \A x \in RunningAttempts : attempt[x].assignment = asg => x = a
               /\ \A x \in DOMAIN dispatch : Live(x) /\ dispatch[x].attempt = a => x = d
<1> DEFINE a == dispatch[d].attempt
           asg == attempt[a].assignment
<1>1. a \in DOMAIN attempt /\ a[1] = d[1] /\ d \in DispatchId /\ d # None /\ d[1] \in Members
    BY DispatchFacts
<1>2. attempt[a].status = "running" /\ attempt[a].dispatch = d /\ assignment[asg].attempt = a
    BY DEF NodeAuthority
<1>3. \A x \in RunningAttempts : attempt[x].assignment = asg => x = a
    BY <1>2 DEF IInv, RunningIsCurrent
<1>4. \A x \in DOMAIN dispatch : Live(x) /\ dispatch[x].attempt = a => x = d
    BY <1>2 DEF IInv, LiveDispatchIsCurrent
<1>5. a \in RunningAttempts
    BY <1>1, <1>2 DEF RunningAttempts
<1>6. QED
    BY <1>1, <1>3, <1>4, <1>5, AttemptFacts

\* A terminal Checkpoint of d closes its Dispatch, Attempt and Assignment.
EndsLane(d, outcome) ==
    LET a == dispatch[d].attempt
    IN  /\ dispatch' = Close(d, "boundary")
        /\ attempt' = EndAttempt(a)
        /\ assignment' = EndAssignment(attempt[a].assignment, outcome)
        /\ boundary' = Accept(d, outcome)
        /\ UNCHANGED <<turns, resuming>>

LEMMA LaneEnded ==
    ASSUME IInv, NEW d \in DOMAIN dispatch, NodeAuthority(d),
           NEW outcome \in {"green", "blocked"}, EndsLane(d, outcome),
           DOMAIN wave' = DOMAIN wave
    PROVE  /\ LaneTypeOK' /\ KeysOK' /\ RowsAreNumbered' /\ LaneKeepsMember'
           /\ RunningIsCurrent' /\ OneOpenAssignmentPerMember' /\ PlanHasOneSourcePerMember'
           /\ DOMAIN dispatch' = DOMAIN dispatch
           /\ DOMAIN boundary' = DOMAIN boundary \cup {d}
           /\ taskStatus' = taskStatus => LiveDispatchIsCurrent'
           /\ \A x \in DOMAIN dispatch : Live(x)' <=> Live(x) /\ x # d
           /\ \A x \in DOMAIN attempt :
                attempt'[x].dispatch = IF x = dispatch[d].attempt THEN None ELSE attempt[x].dispatch
<1> DEFINE a == dispatch[d].attempt
           asg == attempt[a].assignment
<1>1. /\ d \in DispatchId /\ d # None
      /\ a \in DOMAIN attempt /\ a \in RunningAttempts
      /\ asg \in DOMAIN assignment
      /\ \A x \in RunningAttempts : attempt[x].assignment = asg => x = a
      /\ \A x \in DOMAIN dispatch : Live(x) /\ dispatch[x].attempt = a => x = d
    BY AuthorityFacts
<1>2. /\ dispatch' = [x \in DOMAIN dispatch |-> dispatch'[x]]
      /\ attempt' = [x \in DOMAIN attempt |-> attempt'[x]]
      /\ assignment' = [x \in DOMAIN assignment |-> assignment'[x]]
      /\ DOMAIN boundary' = DOMAIN boundary \cup {d}
      /\ UNCHANGED <<turns, resuming>>
    BY DEF EndsLane, Close, EndAttempt, EndAssignment, Accept, Upsert
<1>3. ASSUME NEW x \in DOMAIN dispatch
      PROVE  /\ dispatch'[x] \in DispatchRow
             /\ dispatch'[x].attempt = dispatch[x].attempt
             /\ Live(x)' <=> Live(x) /\ x # d
    <2>1. dispatch[x] \in DispatchRow
        BY DispatchFacts
    <2>2. dispatch'[x] = IF x = d THEN [dispatch[d] EXCEPT !.status = "closed", !.reason = "boundary"]
                         ELSE dispatch[x]
        BY DEF EndsLane, Close
    <2>3. CASE x = d
        BY <2>1, <2>2, <2>3 DEF DispatchRow, CloseReason, Live
    <2>4. CASE x # d
        BY <2>1, <2>2, <2>4 DEF Live
    <2>5. QED
        BY <2>3, <2>4
<1>4. ASSUME NEW x \in DOMAIN attempt
      PROVE  /\ attempt'[x] \in AttemptRow
             /\ attempt'[x].assignment = attempt[x].assignment
             /\ attempt'[x].wait = attempt[x].wait
             /\ attempt'[x].status = IF x = a THEN "completed" ELSE attempt[x].status
             /\ attempt'[x].dispatch = IF x = a THEN None ELSE attempt[x].dispatch
    <2>1. attempt[x] \in AttemptRow
        BY AttemptFacts
    <2>2. attempt'[x] = IF x = a THEN [attempt[a] EXCEPT !.status = "completed", !.dispatch = None]
                        ELSE attempt[x]
        BY DEF EndsLane, EndAttempt
    <2>3. CASE x = a
        BY <2>1, <2>2, <2>3 DEF AttemptRow
    <2>4. CASE x # a
        BY <2>1, <2>2, <2>4
    <2>5. QED
        BY <2>3, <2>4
<1>5. ASSUME NEW x \in DOMAIN assignment
      PROVE  /\ assignment'[x] \in AssignmentRow
             /\ assignment'[x].attempt = assignment[x].attempt
             /\ assignment'[x].source = assignment[x].source
             /\ assignment'[x].outcome = IF x = asg THEN outcome ELSE assignment[x].outcome
    <2>1. assignment[x] \in AssignmentRow
        BY DEF IInv, TypeOK, LaneTypeOK
    <2>2. assignment'[x] = IF x = asg THEN [assignment[asg] EXCEPT !.outcome = outcome]
                           ELSE assignment[x]
        BY DEF EndsLane, EndAssignment
    <2>3. CASE x = asg
        BY <2>1, <2>2, <2>3 DEF AssignmentRow
    <2>4. CASE x # asg
        BY <2>1, <2>2, <2>4
    <2>5. QED
        BY <2>3, <2>4
<1>6. LaneTypeOK'
    <2>1. boundary' \in [DOMAIN boundary' -> {"green", "blocked", "retry"}]
        BY DEF EndsLane, Accept, Upsert, IInv, TypeOK, LaneTypeOK
    <2>2. QED
        BY <1>2, <1>3, <1>4, <1>5, <2>1 DEF LaneTypeOK
<1>7. KeysOK'
    BY <1>2, <1>3, <1>4 DEF IInv, TypeOK, KeysOK
<1>8. RowsAreNumbered' /\ LaneKeepsMember' /\ PlanHasOneSourcePerMember'
    BY <1>2, <1>3, <1>4, <1>5 DEF IInv, RowsAreNumbered, LaneKeepsMember, PlanHasOneSourcePerMember
<1>9. RunningIsCurrent'
    <2> SUFFICES ASSUME NEW x \in DOMAIN attempt, attempt'[x].status = "running"
                 PROVE  /\ assignment'[attempt'[x].assignment].outcome = "open"
                        /\ assignment'[attempt'[x].assignment].attempt = x
                        /\ attempt'[x].wait # None => attempt'[x].dispatch = None
        BY <1>2 DEF RunningIsCurrent, RunningAttempts
    <2>1. x # a /\ x \in RunningAttempts
        BY <1>4 DEF RunningAttempts
    <2>2. attempt[x].assignment # asg /\ attempt[x].assignment \in DOMAIN assignment
        BY <1>1, <2>1, AttemptFacts
    <2>3. QED
        BY <1>4, <1>5, <2>1, <2>2 DEF IInv, RunningIsCurrent
<1>10. OneOpenAssignmentPerMember'
    BY <1>2, <1>5 DEF IInv, OneOpenAssignmentPerMember
<1>11. ASSUME taskStatus' = taskStatus PROVE LiveDispatchIsCurrent'
    <2>1. ASSUME NEW x \in DOMAIN dispatch', Live(x)'
          PROVE  /\ taskStatus' = "running"
                 /\ attempt'[dispatch'[x].attempt].status = "running"
                 /\ attempt'[dispatch'[x].attempt].dispatch = x
        <3>1. x \in DOMAIN dispatch /\ Live(x) /\ x # d /\ dispatch'[x].attempt = dispatch[x].attempt
            BY <1>2, <1>3, <2>1
        <3>2. dispatch[x].attempt # a /\ dispatch[x].attempt \in DOMAIN attempt
            BY <1>1, <3>1, DispatchFacts
        <3>3. QED
            BY <1>4, <1>11, <3>1, <3>2 DEF IInv, LiveDispatchIsCurrent
    <2>2. ASSUME NEW x \in DOMAIN attempt', attempt'[x].dispatch # None
          PROVE  /\ attempt'[x].dispatch \in DOMAIN dispatch'
                 /\ dispatch'[attempt'[x].dispatch].attempt = x
                 /\ dispatch'[attempt'[x].dispatch].status \in {"starting", "open"}
        <3> DEFINE y == attempt[x].dispatch
        <3>1. x \in DOMAIN attempt /\ x # a /\ attempt'[x].dispatch = y
            BY <1>2, <1>4, <2>2
        <3>2. y \in DOMAIN dispatch /\ dispatch[y].attempt = x /\ Live(y)
            BY <2>2, <3>1 DEF IInv, LiveDispatchIsCurrent
        <3>3. QED
            BY <1>2, <1>3, <3>1, <3>2 DEF Live
    <2>3. QED
        BY <2>1, <2>2 DEF LiveDispatchIsCurrent, Live
<1>12. QED
    BY <1>2, <1>3, <1>4, <1>6, <1>7, <1>8, <1>9, <1>10, <1>11

LEMMA ReturnToParentStep ==
    ASSUME IInv, NEW d \in DOMAIN dispatch, NEW outcome \in {"green", "blocked"},
           ReturnToParent(d, outcome)
    PROVE  IInv'
<1>1. NodeAuthority(d)
    BY DEF ReturnToParent, MayCheckpoint
<1>2. /\ EndsLane(d, outcome)
      /\ UNCHANGED <<taskRow, turns, preparing, resuming, faults>>
    BY DEF ReturnToParent, EndsLane
<1>3. PICK w \in DOMAIN wave :
        /\ attempt[dispatch[d].attempt].assignment \in DOMAIN wave[w].member
        /\ wave' = [wave EXCEPT ![w].member[attempt[dispatch[d].attempt].assignment] = "settled"]
        /\ signals' = signals \cup {[kind |-> "WaveMemberSettled", wave |-> w]}
    BY DEF ReturnToParent
<1>4. DOMAIN wave' = DOMAIN wave /\ WaveTypeOK'
    BY <1>3, ZenonT(60) DEF IInv, TypeOK, WaveTypeOK, WaveRowOf
<1>5. /\ LaneTypeOK' /\ KeysOK' /\ RowsAreNumbered' /\ LaneKeepsMember'
      /\ RunningIsCurrent' /\ OneOpenAssignmentPerMember' /\ PlanHasOneSourcePerMember'
      /\ DOMAIN dispatch' = DOMAIN dispatch
      /\ DOMAIN boundary' = DOMAIN boundary \cup {d}
      /\ LiveDispatchIsCurrent'
    BY <1>1, <1>2, <1>4, LaneEnded DEF taskRow
<1>6. TaskTypeOK'
    BY <1>2, <1>5 DEF IInv, TypeOK, TaskTypeOK, taskRow
<1>7. SignalsOK'
    <2>1. w \in DispatchId
        BY DEF IInv, TypeOK, KeysOK
    <2>2. QED
        BY <1>2, <1>3, <1>4, <1>5, <2>1 DEF IInv, TypeOK, SignalsOK, Signal
<1>8. QED
    BY <1>4, <1>5, <1>6, <1>7 DEF IInv, TypeOK

\* Only the root's Attempt runs when the Task may complete, so no Dispatch
\* stays live.
LEMMA CompleteTaskStep ==
    ASSUME IInv, NEW d \in DOMAIN dispatch, NEW outcome \in {"green", "blocked"},
           CompleteTask(d, outcome)
    PROVE  IInv'
<1> DEFINE a == dispatch[d].attempt
           asg == attempt[a].assignment
<1>1. NodeAuthority(d) /\ RootMayFinish /\ assignment[asg].source = None
    BY DEF CompleteTask, MayCheckpoint
<1>2. /\ EndsLane(d, outcome)
      /\ UNCHANGED <<controlRevision, wave, turns, volatile, faults>>
      /\ taskStatus' = "completed"
      /\ resultBoundary' = d
    BY DEF CompleteTask, EndsLane, volatile
<1>3. /\ LaneTypeOK' /\ KeysOK' /\ RowsAreNumbered' /\ LaneKeepsMember'
      /\ RunningIsCurrent' /\ OneOpenAssignmentPerMember' /\ PlanHasOneSourcePerMember'
      /\ DOMAIN dispatch' = DOMAIN dispatch
      /\ DOMAIN boundary' = DOMAIN boundary \cup {d}
      /\ \A x \in DOMAIN dispatch : Live(x)' <=> Live(x) /\ x # d
      /\ \A x \in DOMAIN attempt :
            attempt'[x].dispatch = IF x = a THEN None ELSE attempt[x].dispatch
    BY <1>1, <1>2, LaneEnded
<1>4. TaskTypeOK'
    BY <1>2, <1>3 DEF IInv, TypeOK, TaskTypeOK, TaskStatus
<1>5. WaveTypeOK' /\ SignalsOK'
    BY <1>2, <1>3 DEF IInv, TypeOK, WaveTypeOK, SignalsOK, volatile
<1>6. \A x \in RunningAttempts : x = a
    <2> SUFFICES ASSUME NEW x \in RunningAttempts PROVE x = a
        OBVIOUS
    <2>1. assignment[attempt[x].assignment].source = None
        BY <1>1 DEF RootMayFinish
    <2>2. attempt[x].assignment \in DOMAIN assignment /\ asg \in DOMAIN assignment
        BY <1>1, AttemptFacts, AuthorityFacts DEF RunningAttempts
    <2>3. attempt[x].assignment = asg
        BY <1>1, <2>1, <2>2 DEF IInv, LaneKeepsMember
    <2>4. QED
        BY <1>1, <2>3, AuthorityFacts
<1>7. LiveDispatchIsCurrent'
    <2>1. DOMAIN attempt' = DOMAIN attempt
        BY <1>2 DEF EndsLane, EndAttempt
    <2>2. ASSUME NEW x \in DOMAIN dispatch', Live(x)' PROVE FALSE
        <3>1. x \in DOMAIN dispatch /\ Live(x) /\ x # d
            BY <1>3, <2>2
        <3>2. dispatch[x].attempt \in RunningAttempts
            BY <3>1, DispatchFacts DEF IInv, LiveDispatchIsCurrent, RunningAttempts
        <3>3. QED
            BY <1>1, <1>6, <3>1, <3>2, AuthorityFacts
    <2>3. ASSUME NEW x \in DOMAIN attempt', attempt'[x].dispatch # None PROVE FALSE
        <3>1. x \in DOMAIN attempt /\ x # a /\ attempt[x].dispatch # None
            BY <1>3, <2>1, <2>3
        <3>2. x \in RunningAttempts
            <4>1. attempt[x].dispatch \in DOMAIN dispatch /\ dispatch[attempt[x].dispatch].attempt = x
                  /\ Live(attempt[x].dispatch)
                BY <3>1 DEF IInv, LiveDispatchIsCurrent
            <4>2. QED
                BY <3>1, <4>1 DEF IInv, LiveDispatchIsCurrent, RunningAttempts
        <3>3. QED
            BY <1>6, <3>1, <3>2
    <2>4. QED
        BY <2>2, <2>3 DEF LiveDispatchIsCurrent
<1>8. QED
    BY <1>3, <1>4, <1>5, <1>7 DEF IInv, TypeOK

LEMMA RetryAttemptStep ==
    ASSUME IInv, NEW d \in DOMAIN dispatch, RetryAttempt(d)
    PROVE  IInv'
<1> DEFINE a == dispatch[d].attempt
           asg == attempt[a].assignment
           i == NextDispatch(d[1])
<1>1. /\ NodeAuthority(d)
      /\ Covers(assignment[asg].retries, 1)
      /\ UNCHANGED <<taskRow, wave, volatile, faults>>
      /\ turns' = [turns EXCEPT ![d[1]] = @ + 1]
    BY DEF RetryAttempt
<1>2. /\ d \in DispatchId /\ d # None /\ d[1] \in Members
      /\ a \in DOMAIN attempt /\ a \in RunningAttempts /\ attempt[a] \in AttemptRow
      /\ asg \in DOMAIN assignment /\ asg \in DispatchId /\ asg[1] = d[1]
      /\ assignment[asg] \in AssignmentRow
      /\ \A x \in RunningAttempts : attempt[x].assignment = asg => x = a
      /\ \A x \in DOMAIN dispatch : Live(x) /\ dispatch[x].attempt = a => x = d
    BY <1>1, AuthorityFacts
<1>3. /\ i \in DispatchId /\ i # None /\ i[1] = d[1] /\ i[2] = turns[d[1]] + 1
      /\ i \notin DOMAIN dispatch /\ i \notin DOMAIN attempt /\ i \notin DOMAIN assignment
    BY <1>2, NextIsNew DEF IInv, TypeOK, KeysOK
<1>4. /\ dispatch' = [x \in DOMAIN dispatch \cup {i} |-> dispatch'[x]]
      /\ attempt' = [x \in DOMAIN attempt \cup {i} |-> attempt'[x]]
      /\ assignment' = [x \in DOMAIN assignment |-> assignment'[x]]
      /\ DOMAIN boundary' = DOMAIN boundary \cup {d}
      /\ dispatch'[i] = NewDispatch(i, None)
      /\ attempt'[i] = NewAttempt(asg, i)
    BY <1>3 DEF RetryAttempt, Close, EndAttempt, Accept, Upsert
<1>5. ASSUME NEW x \in DOMAIN dispatch
      PROVE  /\ dispatch'[x] \in DispatchRow
             /\ dispatch'[x].attempt = dispatch[x].attempt
             /\ Live(x)' <=> Live(x) /\ x # d
    <2>1. dispatch[x] \in DispatchRow
        BY DispatchFacts
    <2>2. dispatch'[x] = IF x = d THEN [dispatch[d] EXCEPT !.status = "closed", !.reason = "boundary"]
                         ELSE dispatch[x]
        BY <1>3 DEF RetryAttempt, Close, Upsert
    <2>3. CASE x = d
        BY <2>1, <2>2, <2>3 DEF DispatchRow, CloseReason, Live
    <2>4. CASE x # d
        BY <2>1, <2>2, <2>4 DEF Live
    <2>5. QED
        BY <2>3, <2>4
<1>6. ASSUME NEW x \in DOMAIN attempt
      PROVE  /\ attempt'[x] \in AttemptRow
             /\ attempt'[x].assignment = attempt[x].assignment
             /\ attempt'[x].wait = attempt[x].wait
             /\ attempt'[x].status = IF x = a THEN "completed" ELSE attempt[x].status
             /\ attempt'[x].dispatch = IF x = a THEN None ELSE attempt[x].dispatch
    <2>1. attempt[x] \in AttemptRow
        BY AttemptFacts
    <2>2. attempt'[x] = IF x = a THEN [attempt[a] EXCEPT !.status = "completed", !.dispatch = None]
                        ELSE attempt[x]
        BY <1>3 DEF RetryAttempt, EndAttempt, Upsert
    <2>3. CASE x = a
        BY <2>1, <2>2, <2>3 DEF AttemptRow
    <2>4. CASE x # a
        BY <2>1, <2>2, <2>4
    <2>5. QED
        BY <2>3, <2>4
<1>7. ASSUME NEW x \in DOMAIN assignment
      PROVE  /\ assignment'[x] \in AssignmentRow
             /\ assignment'[x].attempt = IF x = asg THEN i ELSE assignment[x].attempt
             /\ assignment'[x].source = assignment[x].source
             /\ assignment'[x].outcome = assignment[x].outcome
    <2>1. assignment[x] \in AssignmentRow
        BY DEF IInv, TypeOK, LaneTypeOK
    <2>2. assignment'[x] = IF x = asg
                           THEN [assignment[asg] EXCEPT !.attempt = i,
                                                        !.retries = Spend(assignment[asg].retries, 1)]
                           ELSE assignment[x]
        BY DEF RetryAttempt
    <2>3. CASE x = asg
        <3>1. Spend(assignment[asg].retries, 1) \in Budget
            BY <1>1, <1>2, SpendType DEF AssignmentRow
        <3>2. assignment'[asg] = [outcome |-> assignment[asg].outcome, attempt |-> i,
                                  source |-> assignment[asg].source, kids |-> assignment[asg].kids,
                                  retries |-> Spend(assignment[asg].retries, 1)]
            BY <1>2, <2>2, <2>3 DEF AssignmentRow
        <3>3. QED
            BY <1>2, <1>3, <2>3, <3>1, <3>2 DEF AssignmentRow
    <2>4. CASE x # asg
        BY <2>1, <2>2, <2>4
    <2>5. QED
        BY <2>3, <2>4
<1>8. /\ dispatch'[i] \in DispatchRow /\ dispatch'[i].attempt = i /\ dispatch'[i].status = "starting"
      /\ attempt'[i] \in AttemptRow /\ attempt'[i].assignment = asg /\ attempt'[i].dispatch = i
      /\ attempt'[i].wait = None /\ attempt'[i].status = "running"
    BY <1>2, <1>3, <1>4, NewRows
<1>9. turns' \in [Members -> Nat] /\ \A m \in Members : turns[m] <= turns'[m]
    BY <1>1, <1>2 DEF IInv, TypeOK, TaskTypeOK
<1>10. TaskTypeOK' /\ WaveTypeOK'
    BY <1>1, <1>4, <1>9 DEF IInv, TypeOK, TaskTypeOK, WaveTypeOK, taskRow
<1>11. LaneTypeOK'
    <2>1. boundary' \in [DOMAIN boundary' -> {"green", "blocked", "retry"}]
        BY DEF RetryAttempt, Accept, Upsert, IInv, TypeOK, LaneTypeOK
    <2>2. QED
        BY <1>4, <1>5, <1>6, <1>7, <1>8, <2>1 DEF LaneTypeOK
<1>12. KeysOK' /\ SignalsOK'
    <2>1. /\ DOMAIN dispatch' = DOMAIN dispatch \cup {i}
          /\ DOMAIN attempt' = DOMAIN attempt \cup {i}
          /\ DOMAIN assignment' = DOMAIN assignment
          /\ DOMAIN wave' = DOMAIN wave
        BY <1>1, <1>4
    <2>2. SignalsOK'
        BY <1>1, <2>1 DEF IInv, TypeOK, SignalsOK, volatile
    <2>3. \A x \in DOMAIN dispatch' : dispatch'[x].attempt \in DOMAIN attempt'
        BY <1>5, <1>8, <2>1 DEF IInv, TypeOK, KeysOK
    <2>4. \A x \in DOMAIN attempt' : attempt'[x].assignment \in DOMAIN assignment'
        BY <1>2, <1>6, <1>8, <2>1 DEF IInv, TypeOK, KeysOK
    <2>5. KeysOK'
        BY <1>3, <1>4, <2>1, <2>3, <2>4 DEF IInv, TypeOK, KeysOK
    <2>6. QED
        BY <2>2, <2>5
<1>13. RowsAreNumbered'
    <2>1. i[2] <= turns'[i[1]]
        BY <1>1, <1>2, <1>3, <1>9 DEF IInv, TypeOK, TaskTypeOK
    <2>2. QED
        BY <1>2, <1>3, <1>4, <1>9, <2>1, NumberingKept
<1>14. LaneKeepsMember' /\ OneOpenAssignmentPerMember' /\ PlanHasOneSourcePerMember'
    <2>1. \A x \in DOMAIN dispatch' : dispatch'[x].attempt[1] = x[1]
        BY <1>4, <1>5, <1>8 DEF IInv, LaneKeepsMember
    <2>2. \A x \in DOMAIN attempt' : attempt'[x].assignment[1] = x[1]
        BY <1>2, <1>3, <1>4, <1>6, <1>8 DEF IInv, LaneKeepsMember
    <2>3. \A x \in DOMAIN assignment' : assignment'[x].source = None => x = <<Root, 1>>
        BY <1>4, <1>7 DEF IInv, LaneKeepsMember
    <2>4. OneOpenAssignmentPerMember'
        BY <1>4, <1>7 DEF IInv, OneOpenAssignmentPerMember
    <2>5. PlanHasOneSourcePerMember'
        BY <1>1 DEF IInv, PlanHasOneSourcePerMember, volatile
    <2>6. QED
        BY <2>1, <2>2, <2>3, <2>4, <2>5 DEF LaneKeepsMember
<1>15. RunningIsCurrent'
    <2> SUFFICES ASSUME NEW x \in DOMAIN attempt', attempt'[x].status = "running"
                 PROVE  /\ assignment'[attempt'[x].assignment].outcome = "open"
                        /\ assignment'[attempt'[x].assignment].attempt = x
                        /\ attempt'[x].wait # None => attempt'[x].dispatch = None
        BY DEF RunningIsCurrent, RunningAttempts
    <2>1. CASE x = i
        BY <1>1, <1>2, <1>7, <1>8, <2>1 DEF NodeAuthority
    <2>2. CASE x # i
        <3>1. x \in DOMAIN attempt /\ x # a /\ x \in RunningAttempts
            BY <1>4, <1>6, <2>2 DEF RunningAttempts
        <3>2. attempt[x].assignment # asg /\ attempt[x].assignment \in DOMAIN assignment
            BY <1>2, <3>1, AttemptFacts
        <3>3. QED
            BY <1>6, <1>7, <3>1, <3>2 DEF IInv, RunningIsCurrent
    <2>3. QED
        BY <2>1, <2>2
<1>16. LiveDispatchIsCurrent'
    <2>1. ASSUME NEW x \in DOMAIN dispatch', Live(x)'
          PROVE  /\ taskStatus' = "running"
                 /\ attempt'[dispatch'[x].attempt].status = "running"
                 /\ attempt'[dispatch'[x].attempt].dispatch = x
        <3>1. CASE x = i
            BY <1>1, <1>8, <3>1 DEF NodeAuthority, taskRow
        <3>2. CASE x # i
            <4>1. x \in DOMAIN dispatch /\ Live(x) /\ x # d /\ dispatch'[x].attempt = dispatch[x].attempt
                BY <1>4, <1>5, <2>1, <3>2
            <4>2. dispatch[x].attempt # a /\ dispatch[x].attempt \in DOMAIN attempt
                BY <1>2, <4>1, DispatchFacts
            <4>3. QED
                BY <1>1, <1>6, <4>1, <4>2 DEF IInv, LiveDispatchIsCurrent, taskRow
        <3>3. QED
            BY <3>1, <3>2
    <2>2. ASSUME NEW x \in DOMAIN attempt', attempt'[x].dispatch # None
          PROVE  /\ attempt'[x].dispatch \in DOMAIN dispatch'
                 /\ dispatch'[attempt'[x].dispatch].attempt = x
                 /\ dispatch'[attempt'[x].dispatch].status \in {"starting", "open"}
        <3>1. CASE x = i
            BY <1>4, <1>8, <3>1
        <3>2. CASE x # i
            <4> DEFINE y == attempt[x].dispatch
            <4>1. x \in DOMAIN attempt /\ x # a /\ attempt'[x].dispatch = y
                BY <1>4, <1>6, <2>2, <3>2
            <4>2. y \in DOMAIN dispatch /\ dispatch[y].attempt = x /\ Live(y)
                BY <2>2, <4>1 DEF IInv, LiveDispatchIsCurrent
            <4>3. QED
                BY <1>4, <1>5, <4>1, <4>2 DEF Live
        <3>3. QED
            BY <3>1, <3>2
    <2>3. QED
        BY <2>1, <2>2 DEF LiveDispatchIsCurrent, Live
<1>17. QED
    BY <1>10, <1>11, <1>12, <1>13, <1>14, <1>15, <1>16 DEF IInv, TypeOK

\* Every child lane is new, and its member had no open Assignment.
LEMMA DelegateStep ==
    ASSUME IInv, NEW d \in DOMAIN dispatch, NEW S \in SUBSET Children(d[1]), Delegate(d, S)
    PROVE  IInv'
<1> DEFINE a == dispatch[d].attempt
           asg == attempt[a].assignment
           ids == {NextDispatch(c) : c \in S}
<1>1. /\ NodeAuthority(d)
      /\ d \notin DOMAIN wave
      /\ \A c \in S : Available(c)
      /\ Covers(assignment[asg].kids, Cardinality(S))
      /\ S \subseteq Members /\ Cardinality(S) \in Nat
      /\ UNCHANGED <<taskRow, boundary, volatile, faults>>
      /\ turns' = [m \in Members |-> IF m \in S THEN turns[m] + 1 ELSE turns[m]]
    BY ChildrenFinite DEF Delegate
<1>2. /\ d \in DispatchId /\ d # None /\ d[1] \in Members
      /\ a \in DOMAIN attempt /\ a \in RunningAttempts /\ attempt[a] \in AttemptRow
      /\ asg \in DOMAIN assignment /\ asg \in DispatchId /\ asg[1] = d[1]
      /\ assignment[asg] \in AssignmentRow
      /\ \A x \in DOMAIN dispatch : Live(x) /\ dispatch[x].attempt = a => x = d
    BY <1>1, AuthorityFacts
<1>3. ASSUME NEW j \in ids
      PROVE  /\ j \in DispatchId /\ j # None /\ j[1] \in S /\ j[2] = turns[j[1]] + 1
             /\ j = NextDispatch(j[1])
             /\ j \notin DOMAIN dispatch /\ j \notin DOMAIN attempt /\ j \notin DOMAIN assignment
    <2>1. PICK c \in S : j = NextDispatch(c)
        OBVIOUS
    <2>2. /\ j \in DispatchId /\ j # None /\ j[1] = c /\ j[2] = turns[c] + 1
          /\ j \notin DOMAIN dispatch
        BY <1>1, <2>1, NextIsNew DEF IInv, TypeOK
    <2>3. QED
        BY <2>1, <2>2 DEF IInv, TypeOK, KeysOK
<1>4. /\ dispatch' = [x \in DOMAIN dispatch \cup ids |-> dispatch'[x]]
      /\ attempt' = [x \in DOMAIN attempt \cup ids |-> attempt'[x]]
      /\ assignment' = [x \in DOMAIN assignment \cup ids |-> assignment'[x]]
      /\ wave' = [x \in DOMAIN wave \cup {d} |-> wave'[x]]
    <2>1. dispatch' = Upsert(Close(d, "delegation"), [j \in ids |-> NewDispatch(j, None)])
        BY DEF Delegate
    <2>2. attempt' = Upsert([attempt EXCEPT ![a].dispatch = None, ![a].wait = d],
                            [j \in ids |-> NewAttempt(j, j)])
        BY DEF Delegate
    <2>3. assignment' = Upsert([assignment EXCEPT ![asg].kids = Spend(@, Cardinality(S))],
                               [j \in ids |-> NewAssignment(j, d)])
        BY DEF Delegate
    <2>4. wave' = Upsert(wave, [w \in {d} |-> [status |-> "open",
                                               member |-> [j \in ids |-> "pending"],
                                               succ |-> None]])
        BY DEF Delegate
    <2>5. dispatch' = [x \in DOMAIN dispatch \cup ids |-> dispatch'[x]]
        BY <2>1 DEF Upsert, Close
    <2>6. attempt' = [x \in DOMAIN attempt \cup ids |-> attempt'[x]]
        BY <2>2 DEF Upsert
    <2>7. assignment' = [x \in DOMAIN assignment \cup ids |-> assignment'[x]]
        BY <2>3 DEF Upsert
    <2>8. wave' = [x \in DOMAIN wave \cup {d} |-> wave'[x]]
        BY <2>4 DEF Upsert
    <2>9. QED
        BY <2>5, <2>6, <2>7, <2>8
<1>5. ASSUME NEW j \in ids
      PROVE  /\ dispatch'[j] = NewDispatch(j, None)
             /\ attempt'[j] = NewAttempt(j, j)
             /\ assignment'[j] = NewAssignment(j, d)
    BY DEF Delegate, Upsert
<1>6. ASSUME NEW x \in DOMAIN dispatch
      PROVE  /\ dispatch'[x] \in DispatchRow
             /\ dispatch'[x].attempt = dispatch[x].attempt
             /\ Live(x)' <=> Live(x) /\ x # d
    <2>1. dispatch[x] \in DispatchRow
        BY DispatchFacts
    <2>2. x \notin ids
        BY <1>3
    <2>3. dispatch'[x] = IF x = d THEN [dispatch[d] EXCEPT !.status = "closed", !.reason = "delegation"]
                         ELSE dispatch[x]
        BY <2>2 DEF Delegate, Close, Upsert
    <2>4. CASE x = d
        BY <2>1, <2>3, <2>4 DEF DispatchRow, CloseReason, Live
    <2>5. CASE x # d
        BY <2>1, <2>3, <2>5 DEF Live
    <2>6. QED
        BY <2>4, <2>5
<1>7. ASSUME NEW x \in DOMAIN attempt
      PROVE  /\ attempt'[x] \in AttemptRow
             /\ attempt'[x].assignment = attempt[x].assignment
             /\ attempt'[x].status = attempt[x].status
             /\ attempt'[x].dispatch = IF x = a THEN None ELSE attempt[x].dispatch
             /\ attempt'[x].wait = IF x = a THEN d ELSE attempt[x].wait
    <2>1. attempt[x] \in AttemptRow
        BY AttemptFacts
    <2>2. x \notin ids
        BY <1>3
    <2>3. attempt'[x] = IF x = a THEN [attempt[a] EXCEPT !.dispatch = None, !.wait = d]
                        ELSE attempt[x]
        BY <2>2 DEF Delegate, Upsert
    <2>4. CASE x = a
        BY <1>2, <2>1, <2>3, <2>4 DEF AttemptRow
    <2>5. CASE x # a
        BY <2>1, <2>3, <2>5
    <2>6. QED
        BY <2>4, <2>5
<1>8. ASSUME NEW x \in DOMAIN assignment
      PROVE  /\ assignment'[x] \in AssignmentRow
             /\ assignment'[x].attempt = assignment[x].attempt
             /\ assignment'[x].source = assignment[x].source
             /\ assignment'[x].outcome = assignment[x].outcome
    <2>1. assignment[x] \in AssignmentRow
        BY DEF IInv, TypeOK, LaneTypeOK
    <2>2. x \notin ids
        BY <1>3
    <2>3. assignment'[x] = IF x = asg
                           THEN [assignment[asg] EXCEPT !.kids = Spend(@, Cardinality(S))]
                           ELSE assignment[x]
        BY <2>2 DEF Delegate, Upsert
    <2>4. Spend(assignment[asg].kids, Cardinality(S)) \in Budget
        BY <1>1, <1>2, SpendType DEF AssignmentRow
    <2>5. CASE x = asg
        BY <2>1, <2>3, <2>4, <2>5 DEF AssignmentRow
    <2>6. CASE x # asg
        BY <2>1, <2>3, <2>6
    <2>7. QED
        BY <2>5, <2>6
<1>9. ASSUME NEW j \in ids
      PROVE  /\ dispatch'[j] \in DispatchRow /\ dispatch'[j].attempt = j /\ dispatch'[j].status = "starting"
             /\ attempt'[j] \in AttemptRow /\ attempt'[j].assignment = j /\ attempt'[j].dispatch = j
             /\ attempt'[j].wait = None /\ attempt'[j].status = "running"
             /\ assignment'[j] \in AssignmentRow /\ assignment'[j].attempt = j
             /\ assignment'[j].outcome = "open" /\ assignment'[j].source = d
    <2>1. j \in DispatchId
        BY <1>3
    <2>2. QED
        BY <1>2, <1>5, <2>1, NewRows
<1>10. turns' \in [Members -> Nat] /\ \A m \in Members : turns[m] <= turns'[m]
    BY <1>1 DEF IInv, TypeOK, TaskTypeOK
<1>11. TaskTypeOK'
    BY <1>1, <1>10 DEF IInv, TypeOK, TaskTypeOK, taskRow
<1>12. LaneTypeOK'
    <2>1. boundary' \in [DOMAIN boundary' -> {"green", "blocked", "retry"}]
        BY <1>1 DEF IInv, TypeOK, LaneTypeOK
    <2>2. QED
        BY <1>4, <1>6, <1>7, <1>8, <1>9, <2>1 DEF LaneTypeOK
<1>13. WaveTypeOK'
    <2>1. wave'[d] = [status |-> "open", member |-> [j \in ids |-> "pending"], succ |-> None]
        BY DEF Delegate, Upsert
    <2>2. wave'[d] \in WaveRowOf(DOMAIN wave'[d].member)
        BY <2>1 DEF WaveRowOf
    <2>3. \A w \in DOMAIN wave : wave'[w] = wave[w]
        BY <1>1 DEF Delegate, Upsert
    <2>4. QED
        BY <1>4, <2>2, <2>3 DEF IInv, TypeOK, WaveTypeOK
<1>14. KeysOK' /\ SignalsOK'
    <2>1. /\ DOMAIN dispatch' = DOMAIN dispatch \cup ids
          /\ DOMAIN attempt' = DOMAIN attempt \cup ids
          /\ DOMAIN assignment' = DOMAIN assignment \cup ids
          /\ DOMAIN wave' = DOMAIN wave \cup {d}
        BY <1>4
    <2>2. SignalsOK'
        BY <1>1, <2>1 DEF IInv, TypeOK, SignalsOK, volatile
    <2>3. \A x \in DOMAIN dispatch' : dispatch'[x].attempt \in DOMAIN attempt'
        BY <1>6, <1>9, <2>1 DEF IInv, TypeOK, KeysOK
    <2>4. \A x \in DOMAIN attempt' : attempt'[x].assignment \in DOMAIN assignment'
        BY <1>7, <1>9, <2>1 DEF IInv, TypeOK, KeysOK
    <2>5. KeysOK'
        BY <1>1, <1>3, <2>1, <2>3, <2>4 DEF IInv, TypeOK, KeysOK
    <2>6. QED
        BY <2>2, <2>5
<1>15. RowsAreNumbered'
    <2>1. \A j \in ids : j[1] \in Members /\ j[2] <= turns'[j[1]]
        BY <1>1, <1>3, <1>10 DEF IInv, TypeOK, TaskTypeOK
    <2>2. QED
        BY <1>4, <1>10, <2>1, NumberingKept
<1>16. LaneKeepsMember' /\ PlanHasOneSourcePerMember'
    <2>1. \A x \in DOMAIN dispatch' : dispatch'[x].attempt[1] = x[1]
        BY <1>4, <1>6, <1>9 DEF IInv, LaneKeepsMember
    <2>2. \A x \in DOMAIN attempt' : attempt'[x].assignment[1] = x[1]
        BY <1>4, <1>7, <1>9 DEF IInv, LaneKeepsMember
    <2>3. \A x \in DOMAIN assignment' : assignment'[x].source = None => x = <<Root, 1>>
        BY <1>2, <1>4, <1>8, <1>9 DEF IInv, LaneKeepsMember
    <2>4. PlanHasOneSourcePerMember'
        BY <1>1 DEF IInv, PlanHasOneSourcePerMember, volatile
    <2>5. QED
        BY <2>1, <2>2, <2>3, <2>4 DEF LaneKeepsMember
<1>17. OneOpenAssignmentPerMember'
    <2> SUFFICES ASSUME NEW x \in DOMAIN assignment', NEW y \in DOMAIN assignment',
                        x[1] = y[1], assignment'[x].outcome = "open", assignment'[y].outcome = "open"
                 PROVE  x = y
        BY DEF OneOpenAssignmentPerMember
    <2>1. ASSUME NEW u \in DOMAIN assignment, NEW v \in ids,
                 u[1] = v[1], assignment[u].outcome = "open"
          PROVE  FALSE
        BY <1>1, <1>3, <2>1 DEF Available
    <2>2. CASE x \in ids /\ y \in ids
        BY <1>3, <2>2
    <2>3. CASE x \in DOMAIN assignment /\ y \in DOMAIN assignment
        BY <1>8, <2>3 DEF IInv, OneOpenAssignmentPerMember
    <2>4. CASE x \in DOMAIN assignment /\ y \in ids
        BY <1>8, <2>1, <2>4
    <2>5. CASE x \in ids /\ y \in DOMAIN assignment
        BY <1>8, <2>1, <2>5
    <2>6. QED
        BY <1>4, <2>2, <2>3, <2>4, <2>5
<1>18. RunningIsCurrent'
    <2> SUFFICES ASSUME NEW x \in DOMAIN attempt', attempt'[x].status = "running"
                 PROVE  /\ assignment'[attempt'[x].assignment].outcome = "open"
                        /\ assignment'[attempt'[x].assignment].attempt = x
                        /\ attempt'[x].wait # None => attempt'[x].dispatch = None
        BY DEF RunningIsCurrent, RunningAttempts
    <2>1. CASE x \in ids
        BY <1>9, <2>1
    <2>2. CASE x \notin ids
        <3>1. x \in DOMAIN attempt /\ x \in RunningAttempts
            BY <1>4, <1>7, <2>2 DEF RunningAttempts
        <3>2. attempt[x].assignment \in DOMAIN assignment
            BY <3>1, AttemptFacts
        <3>3. QED
            BY <1>7, <1>8, <3>1, <3>2 DEF IInv, RunningIsCurrent
    <2>3. QED
        BY <2>1, <2>2
<1>19. LiveDispatchIsCurrent'
    <2>1. ASSUME NEW x \in DOMAIN dispatch', Live(x)'
          PROVE  /\ taskStatus' = "running"
                 /\ attempt'[dispatch'[x].attempt].status = "running"
                 /\ attempt'[dispatch'[x].attempt].dispatch = x
        <3>1. CASE x \in ids
            BY <1>1, <1>9, <3>1 DEF NodeAuthority, taskRow
        <3>2. CASE x \notin ids
            <4>1. x \in DOMAIN dispatch /\ Live(x) /\ x # d /\ dispatch'[x].attempt = dispatch[x].attempt
                BY <1>4, <1>6, <2>1, <3>2
            <4>2. dispatch[x].attempt # a /\ dispatch[x].attempt \in DOMAIN attempt
                BY <1>2, <4>1, DispatchFacts
            <4>3. QED
                BY <1>1, <1>7, <4>1, <4>2 DEF IInv, LiveDispatchIsCurrent, taskRow
        <3>3. QED
            BY <3>1, <3>2
    <2>2. ASSUME NEW x \in DOMAIN attempt', attempt'[x].dispatch # None
          PROVE  /\ attempt'[x].dispatch \in DOMAIN dispatch'
                 /\ dispatch'[attempt'[x].dispatch].attempt = x
                 /\ dispatch'[attempt'[x].dispatch].status \in {"starting", "open"}
        <3>1. CASE x \in ids
            BY <1>4, <1>9, <3>1
        <3>2. CASE x \notin ids
            <4> DEFINE y == attempt[x].dispatch
            <4>1. x \in DOMAIN attempt /\ x # a /\ attempt'[x].dispatch = y
                BY <1>4, <1>7, <2>2, <3>2
            <4>2. y \in DOMAIN dispatch /\ dispatch[y].attempt = x /\ Live(y)
                BY <2>2, <4>1 DEF IInv, LiveDispatchIsCurrent
            <4>3. y # d
                BY <1>2, <4>1, <4>2
            <4>4. QED
                BY <1>4, <1>6, <4>1, <4>2, <4>3 DEF Live
        <3>3. QED
            BY <3>1, <3>2
    <2>3. QED
        BY <2>1, <2>2 DEF LiveDispatchIsCurrent, Live
<1>20. QED
    BY <1>11, <1>12, <1>13, <1>14, <1>15, <1>16, <1>17, <1>18, <1>19 DEF IInv, TypeOK

\* The sources of a plan have distinct idle lanes, so each successor has a
\* lane of its own.
LEMMA CommitResumeStep ==
    ASSUME IInv, NEW p \in resuming, CommitResume(p)
    PROVE  IInv'
<1> DEFINE Q == p.sources
           opened == [s \in Q |-> NextDispatch(s[1])]
           pred(i) == CHOOSE s \in Q : opened[s] = i
           ids == {opened[s] : s \in Q}
           source(a) == CHOOSE s \in Q : dispatch[s].attempt = a
           lane(s) == dispatch[s].attempt
<1>1. /\ ResumeCurrent(p)
      /\ taskStatus' = "running"
      /\ controlRevision' = controlRevision + 1
      /\ resuming' = resuming \ {p}
      /\ turns' = [m \in Members |-> IF \E s \in Q : s[1] = m THEN turns[m] + 1 ELSE turns[m]]
      /\ UNCHANGED <<resultBoundary, assignment, boundary, signals, preparing, faults>>
    BY DEF CommitResume
<1>2. wave' = [w \in DOMAIN wave |->
                IF w \in Q THEN [wave[w] EXCEPT !.succ = opened[w]] ELSE wave[w]]
    BY DEF CommitResume
<1>3. attempt' = [a \in DOMAIN attempt |->
                    [attempt[a] EXCEPT
                        !.dispatch = IF \E s \in Q : dispatch[s].attempt = a
                                     THEN opened[source(a)] ELSE @,
                        !.replaced = IF a \in RunningAttempts THEN 0 ELSE @]]
    BY DEF CommitResume
<1>4. dispatch' = Upsert(dispatch, [i \in ids |-> NewDispatch(dispatch[pred(i)].attempt, pred(i))])
    BY DEF CommitResume
<1>5. ASSUME NEW s \in Q
      PROVE  /\ s \in DOMAIN dispatch /\ s \in DispatchId /\ s # None /\ s[1] \in Members
             /\ lane(s) \in DOMAIN attempt /\ lane(s) \in DispatchId /\ lane(s)[1] = s[1]
             /\ LaneIdle(lane(s))
    <2>1. s \in DOMAIN dispatch
        BY DEF IInv, TypeOK, SignalsOK
    <2>2. LaneIdle(lane(s))
        BY <1>1 DEF ResumeCurrent, SourceClaimable, ContextCurrent
    <2>3. QED
        BY <2>1, <2>2, DispatchFacts, AttemptFacts
<1>6. \A s, t \in Q : s[1] = t[1] => s = t
    BY DEF IInv, PlanHasOneSourcePerMember
<1>7. ASSUME NEW s \in Q
      PROVE  /\ opened[s] \in DispatchId /\ opened[s] # None
             /\ opened[s][1] = s[1] /\ opened[s][2] = turns[s[1]] + 1
             /\ opened[s] \notin DOMAIN dispatch /\ opened[s] \notin DOMAIN attempt
    BY <1>5, NextIsNew DEF IInv, TypeOK, KeysOK
<1>8. ASSUME NEW s \in Q
      PROVE  pred(opened[s]) = s
    <2>1. \A t \in Q : opened[t] = opened[s] => t = s
        BY <1>6, <1>7
    <2> HIDE DEF opened
    <2>2. QED
        BY <2>1
<1>9. ASSUME NEW s \in Q
      PROVE  source(lane(s)) = s
    <2>1. \A t \in Q : dispatch[t].attempt = lane(s) => t = s
        BY <1>5, <1>6
    <2>2. QED
        BY <2>1
<1>10. /\ dispatch' = [x \in DOMAIN dispatch \cup ids |-> dispatch'[x]]
       /\ DOMAIN attempt' = DOMAIN attempt
       /\ DOMAIN wave' = DOMAIN wave
    <2>1. DOMAIN [i \in ids |-> NewDispatch(dispatch[pred(i)].attempt, pred(i))] = ids
        OBVIOUS
    <2> HIDE DEF ids, pred, opened, source
    <2>2. dispatch' = [x \in DOMAIN dispatch \cup ids |-> dispatch'[x]]
        BY <1>4, <2>1 DEF Upsert
    <2>3. DOMAIN attempt' = DOMAIN attempt
        BY <1>3
    <2>4. DOMAIN wave' = DOMAIN wave
        BY <1>2
    <2>5. QED
        BY <2>2, <2>3, <2>4
<1>11. ASSUME NEW x \in DOMAIN dispatch
       PROVE  dispatch'[x] = dispatch[x]
    <2>1. x \notin ids
        BY <1>7
    <2>2. QED
        BY <1>4, <2>1 DEF Upsert
<1>12. ASSUME NEW s \in Q
       PROVE  dispatch'[opened[s]] = NewDispatch(lane(s), s)
    <2>1. opened[s] \in ids
        OBVIOUS
    <2>2. dispatch'[opened[s]] = NewDispatch(dispatch[pred(opened[s])].attempt, pred(opened[s]))
        BY <1>4, <2>1 DEF Upsert
    <2>3. QED
        BY <1>8, <2>2
<1>13. ASSUME NEW s \in Q
       PROVE  /\ dispatch'[opened[s]] \in DispatchRow
              /\ dispatch'[opened[s]].attempt = lane(s)
              /\ dispatch'[opened[s]].status = "starting"
    <2>1. lane(s) \in DispatchId /\ s \in DispatchId \cup {None}
        BY <1>5
    <2>2. dispatch'[opened[s]] = NewDispatch(lane(s), s)
        BY <1>12
    <2> HIDE DEF lane, opened
    <2>3. QED
        BY <2>1, <2>2, NewRows
<1>14. ASSUME NEW x \in DOMAIN attempt
       PROVE  /\ attempt'[x] = [attempt[x] EXCEPT !.dispatch = attempt'[x].dispatch,
                                                  !.replaced = attempt'[x].replaced]
              /\ attempt'[x].replaced \in Nat
              /\ (\A s \in Q : lane(s) # x) => attempt'[x].dispatch = attempt[x].dispatch
              /\ \A s \in Q : lane(s) = x => attempt'[x].dispatch = opened[s]
    <2>1. attempt[x] \in AttemptRow
        BY AttemptFacts
    <2> DEFINE ptr == IF \E s \in Q : dispatch[s].attempt = x THEN opened[source(x)] ELSE attempt[x].dispatch
               count == IF x \in RunningAttempts THEN 0 ELSE attempt[x].replaced
    <2>2. attempt'[x] = [attempt[x] EXCEPT !.dispatch = ptr, !.replaced = count]
        BY <1>3
    <2>3. count \in Nat
        BY <2>1 DEF AttemptRow
    <2>4. (\A s \in Q : lane(s) # x) => ptr = attempt[x].dispatch
        OBVIOUS
    <2>5. ASSUME NEW s \in Q, lane(s) = x
          PROVE  ptr = opened[s]
        <3>1. ptr = opened[source(x)]
            BY <2>5
        <3>2. source(x) = s
            BY <1>9, <2>5
        <3> HIDE DEF source, opened, ptr
        <3>3. QED
            BY <3>1, <3>2
    <2> HIDE DEF ptr, count
    <2>6. attempt'[x] = [assignment |-> attempt[x].assignment, status |-> attempt[x].status,
                         dispatch |-> ptr, wait |-> attempt[x].wait, replaced |-> count]
        BY <2>1, <2>2 DEF AttemptRow
    <2>7. attempt'[x].dispatch = ptr /\ attempt'[x].replaced = count
        BY <2>6
    <2>8. QED
        BY <2>2, <2>3, <2>4, <2>5, <2>7
<1>15. ASSUME NEW x \in DOMAIN attempt
       PROVE  /\ attempt'[x] \in AttemptRow
              /\ attempt'[x].assignment = attempt[x].assignment
              /\ attempt'[x].status = attempt[x].status
              /\ attempt'[x].wait = attempt[x].wait
    <2>1. attempt[x] \in AttemptRow
        BY AttemptFacts
    <2>2. attempt'[x].dispatch \in DispatchId \cup {None}
        <3>1. CASE \A s \in Q : lane(s) # x
            BY <1>14, <2>1, <3>1 DEF AttemptRow
        <3>2. CASE \E s \in Q : lane(s) = x
            BY <1>7, <1>14, <3>2
        <3>3. QED
            BY <3>1, <3>2
    <2>3. QED
        BY <1>14, <2>1, <2>2 DEF AttemptRow
<1> HIDE DEF opened, pred, ids, source
<1>16. \A i \in ids : \E s \in Q : i = opened[s]
    BY DEF ids
<1>17. turns' \in [Members -> Nat] /\ \A m \in Members : turns[m] <= turns'[m]
    BY <1>1 DEF IInv, TypeOK, TaskTypeOK
<1>18. TaskTypeOK'
    BY <1>1, <1>17 DEF IInv, TypeOK, TaskTypeOK, TaskStatus
<1>19. LaneTypeOK'
    <2>1. assignment' \in [DOMAIN assignment' -> AssignmentRow]
          /\ boundary' \in [DOMAIN boundary' -> {"green", "blocked", "retry"}]
        BY <1>1 DEF IInv, TypeOK, LaneTypeOK
    <2>2. dispatch' \in [DOMAIN dispatch' -> DispatchRow]
        <3>1. \A x \in DOMAIN dispatch : dispatch'[x] \in DispatchRow
            BY <1>11, DispatchFacts
        <3>2. \A i \in ids : dispatch'[i] \in DispatchRow
            BY <1>13, <1>16
        <3>3. QED
            BY <1>10, <3>1, <3>2
    <2>3. attempt' \in [DOMAIN attempt' -> AttemptRow]
        <3>1. attempt' = [x \in DOMAIN attempt |-> attempt'[x]]
            BY <1>3
        <3>2. QED
            BY <1>15, <3>1
    <2>4. QED
        BY <2>1, <2>2, <2>3 DEF LaneTypeOK
<1>20. WaveTypeOK'
    <2>1. ASSUME NEW w \in DOMAIN wave
          PROVE  wave'[w] \in WaveRowOf(DOMAIN wave'[w].member)
        <3>1. wave[w] \in WaveRowOf(DOMAIN wave[w].member)
            BY DEF IInv, TypeOK, WaveTypeOK
        <3>2. CASE w \in Q
            <4>1. opened[w] \in DispatchId
                BY <1>7, <3>2
            <4>2. wave'[w] = [wave[w] EXCEPT !.succ = opened[w]]
                BY <1>2, <3>2
            <4>3. QED
                BY <3>1, <4>1, <4>2 DEF WaveRowOf
        <3>3. CASE w \notin Q
            BY <1>2, <3>1, <3>3
        <3>4. QED
            BY <3>2, <3>3
    <2>2. wave' = [w \in DOMAIN wave |-> wave'[w]]
        BY <1>2
    <2>3. QED
        BY <1>10, <2>1, <2>2 DEF WaveTypeOK
<1>21. KeysOK' /\ SignalsOK'
    <2>1. DOMAIN dispatch' = DOMAIN dispatch \cup ids
        BY <1>10
    <2>2. SignalsOK'
        BY <1>1, <1>10, <2>1 DEF IInv, TypeOK, SignalsOK
    <2>3. \A x \in DOMAIN dispatch' : dispatch'[x].attempt \in DOMAIN attempt'
        <3>1. \A x \in DOMAIN dispatch : dispatch'[x].attempt \in DOMAIN attempt'
            BY <1>10, <1>11, DispatchFacts
        <3>2. \A i \in ids : dispatch'[i].attempt \in DOMAIN attempt'
            BY <1>5, <1>10, <1>13, <1>16
        <3>3. QED
            BY <2>1, <3>1, <3>2
    <2>4. \A x \in DOMAIN attempt' : attempt'[x].assignment \in DOMAIN assignment'
        BY <1>1, <1>10, <1>15, AttemptFacts
    <2>5. ids \subseteq DispatchId
        BY <1>7, <1>16
    <2>6. QED
        BY <1>1, <1>10, <2>1, <2>2, <2>3, <2>4, <2>5 DEF IInv, TypeOK, KeysOK
<1>22. RowsAreNumbered'
    <2>1. \A i \in ids : i[1] \in Members /\ i[2] <= turns'[i[1]]
        BY <1>1, <1>5, <1>7, <1>16, <1>17 DEF IInv, TypeOK, TaskTypeOK
    <2>2. QED
        BY <1>10, <1>17, <2>1, NumberingKept
<1>23. LaneKeepsMember'
    <2>1. \A x \in DOMAIN dispatch' : dispatch'[x].attempt[1] = x[1]
        <3>1. \A x \in DOMAIN dispatch : dispatch'[x].attempt[1] = x[1]
            BY <1>11 DEF IInv, LaneKeepsMember
        <3>2. \A i \in ids : dispatch'[i].attempt[1] = i[1]
            BY <1>5, <1>7, <1>13, <1>16
        <3>3. QED
            BY <1>10, <3>1, <3>2
    <2>2. QED
        BY <1>1, <1>10, <1>15, <2>1 DEF IInv, LaneKeepsMember
<1>24. OneOpenAssignmentPerMember' /\ PlanHasOneSourcePerMember'
    BY <1>1 DEF IInv, OneOpenAssignmentPerMember, PlanHasOneSourcePerMember
<1>25. RunningIsCurrent'
    <2> SUFFICES ASSUME NEW x \in DOMAIN attempt, attempt'[x].status = "running"
                 PROVE  /\ assignment'[attempt'[x].assignment].outcome = "open"
                        /\ assignment'[attempt'[x].assignment].attempt = x
                        /\ attempt'[x].wait # None => attempt'[x].dispatch = None
        BY <1>10 DEF RunningIsCurrent, RunningAttempts
    <2>1. x \in RunningAttempts
        BY <1>15 DEF RunningAttempts
    <2>2. attempt'[x].wait # None => attempt'[x].dispatch = None
        <3>1. CASE \A s \in Q : lane(s) # x
            BY <1>14, <1>15, <2>1, <3>1 DEF IInv, RunningIsCurrent
        <3>2. CASE \E s \in Q : lane(s) = x
            BY <1>5, <1>15, <3>2 DEF LaneIdle
        <3>3. QED
            BY <3>1, <3>2
    <2>3. QED
        BY <1>1, <1>15, <2>1, <2>2 DEF IInv, RunningIsCurrent
<1>26. LiveDispatchIsCurrent'
    <2>1. \A x \in DOMAIN dispatch : ~Live(x)
        BY <1>1 DEF ResumeCurrent, IInv, LiveDispatchIsCurrent
    <2>2. ASSUME NEW x \in DOMAIN dispatch', Live(x)'
          PROVE  /\ taskStatus' = "running"
                 /\ attempt'[dispatch'[x].attempt].status = "running"
                 /\ attempt'[dispatch'[x].attempt].dispatch = x
        <3>1. x \notin DOMAIN dispatch
            BY <1>11, <2>1, <2>2 DEF Live
        <3>2. PICK s \in Q : x = opened[s]
            BY <1>10, <1>16, <3>1
        <3>3. dispatch'[x].attempt = lane(s)
            BY <1>13, <3>2
        <3>4. attempt'[lane(s)].status = "running"
            BY <1>5, <1>15 DEF LaneIdle
        <3>5. attempt'[lane(s)].dispatch = opened[s]
            BY <1>5, <1>14
        <3>6. QED
            BY <1>1, <3>2, <3>3, <3>4, <3>5
    <2>3. ASSUME NEW x \in DOMAIN attempt', attempt'[x].dispatch # None
          PROVE  /\ attempt'[x].dispatch \in DOMAIN dispatch'
                 /\ dispatch'[attempt'[x].dispatch].attempt = x
                 /\ dispatch'[attempt'[x].dispatch].status \in {"starting", "open"}
        <3>1. attempt[x].dispatch = None
            BY <1>10, <2>1 DEF IInv, LiveDispatchIsCurrent
        <3>2. PICK s \in Q : lane(s) = x
            BY <1>10, <1>14, <2>3, <3>1
        <3>3. attempt'[x].dispatch = opened[s]
            BY <1>10, <1>14, <3>2
        <3>4. opened[s] \in ids
            BY DEF opened, ids
        <3>5. QED
            BY <1>10, <1>13, <3>2, <3>3, <3>4
    <2>4. QED
        BY <2>2, <2>3 DEF LiveDispatchIsCurrent, Live
<1>27. QED
    BY <1>18, <1>19, <1>20, <1>21, <1>22, <1>23, <1>24, <1>25, <1>26 DEF IInv, TypeOK

-----------------------------------------------------------------------------
(* The theorems                                                             *)

\* Every action of the specification keeps the inductive invariant.
LEMMA NextIInv ==
    IInv /\ [Next]_vars => IInv'
<1> SUFFICES ASSUME IInv, [Next]_vars PROVE IInv'
    OBVIOUS
<1>1. CASE UNCHANGED vars
    BY <1>1, StutterStep
<1>2. CASE NodeOperation
    <2>1. PICK d \in DOMAIN dispatch :
            \/ \E S \in (SUBSET Children(d[1])) \ {{}} : Delegate(d, S)
            \/ \E outcome \in {"green", "blocked"} : ReturnToParent(d, outcome)
            \/ \E outcome \in {"green", "blocked"} : CompleteTask(d, outcome)
            \/ RetryAttempt(d)
        BY <1>2 DEF NodeOperation
    <2>2. QED
        BY <2>1, DelegateStep, ReturnToParentStep, CompleteTaskStep, RetryAttemptStep
<1>3. CASE Provider
    <2>1. PICK d \in DOMAIN dispatch :
            AcceptProviderStart(d) \/ PauseInvalidStart(d) \/ WatchdogReplace(d) \/ WatchdogPause(d)
        BY <1>3 DEF Provider
    <2>2. QED
        BY <2>1, AcceptProviderStartStep, WatchdogReplaceStep, PauseSteps
<1>4. CASE WaveHandler
    BY <1>4, JoinWaveStep, OpenContinuationStep, SkipSteps DEF WaveHandler
<1>5. CASE Control
    BY <1>5, PlanResumeStep, CommitResumeStep, CancelTaskStep, PauseSteps, SkipSteps DEF Control
<1>6. CASE Failure
    BY <1>6, PauseSteps, SkipSteps DEF Failure
<1>7. QED
    BY <1>1, <1>2, <1>3, <1>4, <1>5, <1>6 DEF Next

\* The lane pointers' inductive invariant holds in every reachable state.
THEOREM Inductive == Spec => []IInv
BY InitIInv, NextIInv, PTL DEF Spec

\* Every reachable state has typed rows, keyed by Dispatches that exist and
\* referring to rows that exist: what the schema's foreign keys demand.
THEOREM TypeCorrect == Spec => []TypeOK
<1>1. IInv => TypeOK
    BY DEF IInv
<1>2. QED
    BY <1>1, Inductive, PTL

\* Whatever order members, handlers, the watchdog and operators commit in, a
\* Dispatch that may still act is its running Attempt's pointer in a running
\* Task, and a pointer names a live Dispatch of its own lane.
THEOREM LiveDispatchCurrent == Spec => []LiveDispatchIsCurrent
<1>1. IInv => LiveDispatchIsCurrent
    BY DEF IInv
<1>2. QED
    BY <1>1, Inductive, PTL

\* No member ever works on two open Assignments, for any team and any number
\* of Waves, retries, pauses and restarts.
THEOREM OneOpenAssignment == Spec => []OneOpenAssignmentPerMember
<1>1. IInv => OneOpenAssignmentPerMember
    BY DEF IInv
<1>2. QED
    BY <1>1, Inductive, PTL
=============================================================================
