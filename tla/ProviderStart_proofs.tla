------------------------- MODULE ProviderStart_proofs -------------------------
(***************************************************************************)
(* What holds of provider starts for every number of Attempts, Dispatches, *)
(* failures and restarts: rows stay typed, no start is forgotten, no start *)
(* revision begins two turns, and every turn and binding is accounted for. *)
(***************************************************************************)
EXTENDS ProviderStart, TLAPS

-----------------------------------------------------------------------------
(* Types                                                                    *)

LEMMA GenerationsTyped ==
    /\ \A d \in Dispatches, n \in Nat : Gen(d, n) \in Generation
    /\ \A d \in Dispatches, n \in Nat : StartDue(d, n) \in HintType
    /\ \A d \in Dispatches, n \in Nat : StartLater(d, n) \in HintType
    /\ \A d \in Dispatches : Cleanup(d) \in HintType
  BY DEF Gen, StartDue, StartLater, Cleanup, Generation, HintType

LEMMA HandlerRev ==
    ASSUME TypeOK, NEW d \in Dispatches
    PROVE  /\ handler[d] \in HandlerType /\ handler[d].rev \in Nat
           /\ row[d] \in RowType /\ row[d].rev \in Nat
           /\ turn[d] \in TurnType
  BY DEF TypeOK, HandlerType, RowType, TurnType

LEMMA IdleTyped == Idle \in HandlerType
  BY DEF Idle, HandlerType, Step

LEMMA OpenedTyped ==
    ASSUME NEW p \in Dispatches \cup {None}
    PROVE  Opened(p) \in RowType
  BY DEF Opened, RowType, CloseReason

LEMMA ClosedTyped ==
    ASSUME NEW r \in RowType, NEW reason \in CloseReason
    PROVE  Closed(r, reason) \in RowType
  BY DEF Closed, RowType

RowsTyped == row \in [Dispatches -> RowType] /\ last \in [Attempts -> Dispatches]
TaskTyped == task \in {"running", "paused", "cancelled"} /\ control \in Nat
HandlersTyped == handler \in [Dispatches -> HandlerType]
TurnsTyped == turn \in [Dispatches -> TurnType]
SetsTyped ==
    /\ bindings \subseteq Generation /\ recovered \subseteq Generation /\ timers \subseteq Generation
    /\ hints \subseteq HintType /\ cleaning \subseteq Dispatches
FaultsTyped == faults \in 0..MaxFaults /\ restarts \in 0..MaxRestarts /\ lossy \in BOOLEAN

LEMMA TypeParts ==
    TypeOK <=> TaskTyped /\ RowsTyped /\ HandlersTyped /\ TurnsTyped /\ SetsTyped /\ FaultsTyped
  BY DEF TypeOK, TaskTyped, RowsTyped, HandlersTyped, TurnsTyped, SetsTyped, FaultsTyped

LEMMA TypePartsNext ==
    ASSUME TaskTyped', RowsTyped', HandlersTyped', TurnsTyped', SetsTyped', FaultsTyped'
    PROVE  TypeOK'
  BY DEF TypeOK, TaskTyped, RowsTyped, HandlersTyped, TurnsTyped, SetsTyped, FaultsTyped

LEMMA Unchanged ==
    ASSUME TypeOK
    PROVE  /\ UNCHANGED taskVars => TaskTyped'
           /\ UNCHANGED rows => RowsTyped'
           /\ UNCHANGED handler => HandlersTyped'
           /\ UNCHANGED turn => TurnsTyped'
           /\ UNCHANGED faultVars => FaultsTyped'
  BY DEF TypeOK, TaskTyped, RowsTyped, HandlersTyped, TurnsTyped, FaultsTyped, taskVars, rows, faultVars

LEMMA TypeInit == Init => TypeOK
<1> SUFFICES ASSUME Init PROVE TypeOK
    OBVIOUS
<1>1. First \in [Attempts -> Dispatches]
  BY DispatchesAssumption DEF First
<1>2. RowsTyped
  <2>1. \A d \in Dispatches : row[d] = [Opened(None) EXCEPT !.status = "starting"]
                                \/ row[d] = [Opened(None) EXCEPT !.status = "unused"]
    BY DEF Init
  <2>2. [Opened(None) EXCEPT !.status = "starting"] \in RowType
    BY OpenedTyped DEF RowType
  <2>3. [Opened(None) EXCEPT !.status = "unused"] \in RowType
    BY OpenedTyped DEF RowType
  <2> QED
    BY <1>1, <2>1, <2>2, <2>3 DEF Init, RowsTyped
<1>3. HandlersTyped
  BY IdleTyped DEF Init, HandlersTyped
<1>4. TurnsTyped
  BY DEF Init, TurnsTyped, TurnType
<1>5. SetsTyped
  <2>1. \A a \in Attempts : StartDue(First[a], 0) \in HintType
    BY <1>1, GenerationsTyped
  <2> QED
    BY <2>1 DEF Init, SetsTyped
<1>6. FaultsTyped
  <2>1. 0 \in 0..MaxFaults /\ 0 \in 0..MaxRestarts
    BY BoundsAssumption
  <2> QED
    BY <2>1 DEF Init, FaultsTyped
<1>7. TaskTyped
  BY DEF Init, TaskTyped
<1> QED
  BY <1>2, <1>3, <1>4, <1>5, <1>6, <1>7, TypeParts

LEMMA FailingTyped ==
    ASSUME TypeOK, ProviderFails \/ ControllerFails
    PROVE  FaultsTyped'
<1>1. faults' \in 0..MaxFaults
  <2>1. faults \in 0..MaxFaults /\ faults < MaxFaults /\ faults' = faults + 1
    BY DEF TypeOK, ProviderFails, ControllerFails, Failing
  <2> QED
    BY <2>1, BoundsAssumption
<1>2. restarts' \in 0..MaxRestarts /\ lossy' \in BOOLEAN
  BY DEF TypeOK, ProviderFails, ControllerFails, Failing
<1> QED
  BY <1>1, <1>2 DEF FaultsTyped

LEMMA StopTyped ==
    ASSUME TypeOK, NEW d, StopTurn(d) \/ NoStop
    PROVE  TurnsTyped' /\ FaultsTyped'
<1>1. CASE NoStop
  BY <1>1 DEF TypeOK, NoStop, TurnsTyped, FaultsTyped, faultVars
<1>2. CASE StopTurn(d) /\ ControllerFails /\ UNCHANGED turn
  BY <1>2, FailingTyped DEF TypeOK, TurnsTyped
<1>3. CASE UNCHANGED faultVars /\ turn' = IF turn[d].state = "running" THEN [turn EXCEPT ![d].state = "none"] ELSE turn
  BY <1>3 DEF TypeOK, TurnsTyped, TurnType, FaultsTyped, faultVars
<1> QED
  BY <1>1, <1>2, <1>3 DEF StopTurn

LEMMA RegisteredTyped ==
    ASSUME TypeOK, NEW g \in Generation
    PROVE  Registered(g) \subseteq Generation
  BY DEF TypeOK, Registered

\* What a step of the handler of d does to handler: any of the three ways.
LEMMA StepTyped ==
    ASSUME TypeOK, NEW d \in Dispatches,
           \/ Ends(d)
           \/ \E step \in Step : Goes(d, step)
           \/ \E uncertain \in BOOLEAN : Fails(d, uncertain)
           \/ UNCHANGED handler
    PROVE  HandlersTyped'
<1>1. CASE Ends(d)
  BY <1>1, IdleTyped DEF TypeOK, Ends, HandlersTyped
<1>2. CASE \E step \in Step : Goes(d, step)
  BY <1>2 DEF TypeOK, Goes, HandlersTyped, HandlerType
<1>3. CASE \E uncertain \in BOOLEAN : Fails(d, uncertain)
  <2>1. PICK uncertain \in BOOLEAN :
          handler' = [handler EXCEPT ![d] = [handler[d] EXCEPT !.step = "failing", !.uncertain = uncertain]]
    BY <1>3 DEF TypeOK, Fails, HandlerType
  <2>2. [handler[d] EXCEPT !.step = "failing", !.uncertain = uncertain] \in HandlerType
    BY HandlerRev DEF HandlerType, Step
  <2> QED
    BY <2>1, <2>2 DEF TypeOK, HandlersTyped
<1> QED
  BY <1>1, <1>2, <1>3 DEF TypeOK, HandlersTyped

LEMMA ReceiveTyped ==
    ASSUME TypeOK, NEW d \in Dispatches, NEW n \in Nat, ReceiveStart(d, n) \/ DeferStart(d, n)
    PROVE  TypeOK'
<1>1. CASE ReceiveStart(d, n)
  <2>1. HandlersTyped'
    <3> DEFINE step == IF Recovering(StartDue(d, n).gen) THEN "recovering" ELSE "read"
               new == [Idle EXCEPT !.rev = n, !.control = control, !.step = step]
    <3>1. step \in Step
      BY DEF Step
    <3>2. new \in HandlerType
      BY <3>1, IdleTyped DEF TypeOK, HandlerType, Idle
    <3>3. handler' = handler \/ handler' = [handler EXCEPT ![d] = new]
      BY <1>1 DEF ReceiveStart
    <3> HIDE DEF new
    <3> QED
      BY <3>2, <3>3 DEF TypeOK, HandlersTyped
  <2>2. SetsTyped'
    BY <1>1 DEF TypeOK, ReceiveStart, SetsTyped
  <2> QED
    BY <1>1, <2>1, <2>2, TypePartsNext, Unchanged DEF ReceiveStart
<1>2. CASE DeferStart(d, n)
  <2>1. SetsTyped'
    BY <1>2, GenerationsTyped, RegisteredTyped DEF TypeOK, DeferStart, SetsTyped, memory, StartLater
  <2> QED
    BY <1>2, <2>1, TypePartsNext, Unchanged DEF DeferStart, memory
<1> QED
  BY <1>1, <1>2

LEMMA SignalledTyped ==
    ASSUME TypeOK, NEW d \in Dispatches, Signalled(d)
    PROVE  TypeOK'
<1>1. PICK h \in hints : h.gen.dispatch = d /\ (ReceiveStart(d, h.gen.rev) \/ DeferStart(d, h.gen.rev))
  BY DEF Signalled
<1>2. h.gen.rev \in Nat
  BY DEF TypeOK, HintType, Generation
<1> QED
  BY <1>1, <1>2, ReceiveTyped

LEMMA StarterTyped ==
    ASSUME TypeOK, NEW d \in Dispatches, StarterStep(d)
    PROVE  TypeOK'
<1> USE DEF Step
<1>1. CASE RecoverStart(d)
  <2>1. HandlersTyped'
    <3>1. Fails(d, TRUE)
      BY <1>1 DEF RecoverStart, Fails
    <3> QED
      BY <3>1, StepTyped
  <2>2. StopTurn(row[d].superseded) \/ NoStop
    BY <1>1 DEF RecoverStart
  <2>3. SetsTyped'
    BY <1>1 DEF TypeOK, RecoverStart, SetsTyped
  <2> QED
    BY <1>1, <2>1, <2>2, <2>3, StopTyped, TypePartsNext, Unchanged DEF RecoverStart
<1>2. CASE PrepareStart(d)
  <2>1. SetsTyped'
    BY <1>2, GenerationsTyped, HandlerRev DEF TypeOK, PrepareStart, SetsTyped
  <2> QED
    BY <1>2, <2>1, StepTyped, TypePartsNext, Unchanged DEF PrepareStart
<1>3. CASE StopPredecessor(d)
  <2>1. StopTurn(row[d].superseded) \/ NoStop
    BY <1>3 DEF StopPredecessor, StopPredecessorOf
  <2>2. SetsTyped'
    BY <1>3 DEF TypeOK, StopPredecessor, StopPredecessorOf, SetsTyped
  <2> QED
    BY <1>3, <2>1, <2>2, StepTyped, StopTyped, TypePartsNext, Unchanged DEF StopPredecessor
<1>4. CASE RecheckStart(d)
  <2>1. SetsTyped'
    BY <1>4 DEF TypeOK, RecheckStart, SetsTyped, Revoked
  <2> QED
    BY <1>4, <2>1, StepTyped, TypePartsNext, Unchanged DEF RecheckStart
<1>5. CASE ReserveStart(d)
  <2>1. SetsTyped'
    BY <1>5 DEF TypeOK, ReserveStart, SetsTyped
  <2> QED
    BY <1>5, <2>1, StepTyped, TypePartsNext, Unchanged DEF ReserveStart
<1>6. CASE BeginTurn(d)
  <2>1. SetsTyped'
    BY <1>6 DEF TypeOK, BeginTurn, SetsTyped
  <2>2. TurnsTyped'
    BY <1>6, HandlerRev DEF TypeOK, BeginTurn, TurnsTyped, TurnType
  <2> QED
    BY <1>6, <2>1, <2>2, TypePartsNext, Unchanged DEF BeginTurn
<1>7. CASE RegisterTurn(d)
  <2>1. SetsTyped'
    BY <1>7 DEF TypeOK, RegisterTurn, SetsTyped
  <2>2. TurnsTyped'
    BY <1>7 DEF TypeOK, RegisterTurn, TurnsTyped, TurnType
  <2> QED
    BY <1>7, <2>1, <2>2, StepTyped, TypePartsNext, Unchanged DEF RegisterTurn
<1>8. CASE AcceptStart(d)
  <2>1. SetsTyped'
    BY <1>8 DEF TypeOK, AcceptStart, SetsTyped, Revoked
  <2>2. RowsTyped'
    BY <1>8 DEF TypeOK, AcceptStart, Accepted, RowsTyped, RowType
  <2> QED
    BY <1>8, <2>1, <2>2, StepTyped, TypePartsNext, Unchanged DEF AcceptStart
<1>9. CASE StopLost(d)
  <2>1. SetsTyped'
    BY <1>9 DEF TypeOK, StopLost, SetsTyped
  <2> QED
    BY <1>9, <2>1, StepTyped, StopTyped, TypePartsNext, Unchanged DEF StopLost
<1>10. CASE ReconcileStart(d)
  <2>1. SetsTyped'
    BY <1>10 DEF TypeOK, ReconcileStart, SetsTyped
  <2> QED
    BY <1>10, <2>1, StepTyped, TypePartsNext, Unchanged DEF ReconcileStart
<1>11. CASE RotateStart(d)
  <2>1. SetsTyped'
    BY <1>11 DEF TypeOK, RotateStart, SetsTyped
  <2>2. HandlersTyped'
    <3> DEFINE e == Exact(d, handler[d].rev)
               new == [handler[d] EXCEPT !.step = "failed", !.rotated = e]
    <3>1. e \in BOOLEAN
      BY DEF Exact
    <3>2. handler' = [handler EXCEPT ![d] = new]
      BY <1>11 DEF RotateStart, TypeOK, HandlerType
    <3> HIDE DEF e
    <3>3. new \in HandlerType
      BY <3>1, HandlerRev DEF HandlerType
    <3> HIDE DEF new
    <3> QED
      BY <3>2, <3>3 DEF TypeOK, HandlersTyped
  <2>3. RowsTyped'
    <3>1. row' = row \/ row' = [row EXCEPT ![d].rev = @ + 1]
      BY <1>11 DEF RotateStart
    <3>2. [row[d] EXCEPT !.rev = @ + 1] \in RowType
      BY HandlerRev DEF RowType
    <3> QED
      BY <1>11, <3>1, <3>2 DEF RotateStart, TypeOK, RowsTyped
  <2> QED
    BY <1>11, <2>1, <2>2, <2>3, TypePartsNext, Unchanged DEF RotateStart
<1>12. CASE ScheduleRetry(d)
  <2>1. SetsTyped'
    <3>1. NextRetrySignal(d) \in Generation
      BY HandlerRev, GenerationsTyped DEF NextRetrySignal
    <3> QED
      BY <1>12, <3>1, RegisteredTyped DEF TypeOK, ScheduleRetry, SetsTyped, Revoked
  <2>2. StopTurn(d) \/ NoStop
    BY <1>12 DEF ScheduleRetry
  <2> QED
    BY <1>12, <2>1, <2>2, StepTyped, StopTyped, TypePartsNext, Unchanged DEF ScheduleRetry
<1> QED
  BY <1>1, <1>2, <1>3, <1>4, <1>5, <1>6, <1>7, <1>8, <1>9, <1>10, <1>11, <1>12 DEF StarterStep

LEMMA FailureTyped ==
    ASSUME TypeOK, NEW d \in Dispatches, StarterFailure(d)
    PROVE  TypeOK'
<1> USE DEF Step
<1>1. CASE InvalidStart(d)
  <2>1. SetsTyped'
    BY <1>1, GenerationsTyped DEF TypeOK, InvalidStart, SetsTyped
  <2>2. TaskTyped'
    BY <1>1 DEF TypeOK, InvalidStart, TaskTyped, taskVars
  <2>3. RowsTyped'
    <3>1. \A e \in Dispatches : Closed(row[e], "control_failed") \in RowType /\ Closed(row[e], "paused") \in RowType
      BY HandlerRev, ClosedTyped DEF CloseReason, StopReasons
    <3> QED
      BY <1>1, <3>1 DEF TypeOK, InvalidStart, RowsTyped
  <2> QED
    BY <1>1, <2>1, <2>2, <2>3, StepTyped, TypePartsNext, Unchanged DEF InvalidStart
<1>2. CASE FailStart(d)
  <2>1. SetsTyped'
    BY <1>2 DEF TypeOK, FailStart, SetsTyped
  <2>2. TurnsTyped'
    BY <1>2 DEF TypeOK, FailStart, TurnsTyped, TurnType
  <2>3. (turn[d].state = "begun") \in BOOLEAN
    OBVIOUS
  <2> QED
    BY <1>2, <2>1, <2>2, <2>3, StepTyped, FailingTyped, TypePartsNext, Unchanged DEF FailStart
<1>3. CASE FailAccept(d)
  <2>1. SetsTyped'
    BY <1>3 DEF TypeOK, FailAccept, SetsTyped
  <2>2. RowsTyped'
    BY <1>3 DEF TypeOK, FailAccept, Accepted, RowsTyped, RowType
  <2> QED
    BY <1>3, <2>1, <2>2, StepTyped, FailingTyped, TypePartsNext, Unchanged DEF FailAccept
<1>4. CASE FailRotate(d)
  <2>1. SetsTyped'
    BY <1>4 DEF TypeOK, FailRotate, SetsTyped, Revoked
  <2>2. TurnsTyped'
    BY <1>4 DEF TypeOK, FailRotate, TurnsTyped, TurnType
  <2> QED
    BY <1>4, <2>1, <2>2, StepTyped, FailingTyped, TypePartsNext, Unchanged DEF FailRotate
<1>5. CASE FailHandler(d)
  <2>1. SetsTyped'
    BY <1>5 DEF TypeOK, FailHandler, SetsTyped
  <2> QED
    BY <1>5, <2>1, StepTyped, FailingTyped, TypePartsNext, Unchanged DEF FailHandler
<1> QED
  BY <1>1, <1>2, <1>3, <1>4, <1>5 DEF StarterFailure

LEMMA DispatchTyped ==
    ASSUME TypeOK, NEW d \in Dispatches,
           CleanupStep(d) \/ EndTurn(d) \/ NodeCloses(d) \/ \E e \in Dispatches : WatchdogReplace(d, e)
    PROVE  TypeOK'
<1>1. CASE RevokeClosed(d)
  <2>1. SetsTyped'
    BY <1>1 DEF TypeOK, RevokeClosed, SetsTyped
  <2> QED
    BY <1>1, <2>1, TypePartsNext, Unchanged DEF RevokeClosed
<1>2. CASE StopClosed(d)
  <2>1. SetsTyped'
    BY <1>2 DEF TypeOK, StopClosed, SetsTyped
  <2>2. StopTurn(d) \/ NoStop
    BY <1>2 DEF StopClosed
  <2> QED
    BY <1>2, <2>1, <2>2, StopTyped, TypePartsNext, Unchanged DEF StopClosed
<1>3. CASE EndTurn(d)
  <2>1. SetsTyped'
    BY <1>3 DEF TypeOK, EndTurn, SetsTyped
  <2>2. TurnsTyped'
    BY <1>3 DEF TypeOK, EndTurn, TurnsTyped, TurnType
  <2> QED
    BY <1>3, <2>1, <2>2, TypePartsNext, Unchanged DEF EndTurn
<1>4. CASE NodeCloses(d)
  <2>1. SetsTyped'
    BY <1>4 DEF TypeOK, NodeCloses, SetsTyped, memory
  <2>2. RowsTyped'
    BY <1>4, HandlerRev, ClosedTyped DEF TypeOK, NodeCloses, RowsTyped, CloseReason
  <2> QED
    BY <1>4, <2>1, <2>2, TypePartsNext, Unchanged DEF NodeCloses, memory
<1>5. ASSUME NEW e \in Dispatches, WatchdogReplace(d, e) PROVE TypeOK'
  <2>1. SetsTyped'
    BY <1>5, GenerationsTyped DEF TypeOK, WatchdogReplace, SetsTyped, memory
  <2>2. RowsTyped'
    <3>1. Closed(row[d], "watchdog_superseded") \in RowType /\ Opened(d) \in RowType
      BY HandlerRev, ClosedTyped, OpenedTyped DEF CloseReason
    <3>2. row' \in [Dispatches -> RowType]
      BY <1>5, <3>1 DEF TypeOK, WatchdogReplace
    <3> QED
      BY <1>5, <3>2 DEF TypeOK, WatchdogReplace, RowsTyped
  <2> QED
    BY <1>5, <2>1, <2>2, TypePartsNext, Unchanged DEF WatchdogReplace, memory
<1> QED
  BY <1>1, <1>2, <1>3, <1>4, <1>5 DEF CleanupStep

LEMMA ControlTyped ==
    ASSUME TypeOK, PauseTask \/ CancelTask \/ ResumeTask
    PROVE  TypeOK'
<1>1. ASSUME NEW status \in {"paused", "cancelled"}, NEW reason \in {"paused", "cancelled"},
             StopTask(status, reason)
      PROVE  TypeOK'
  <2>1. SetsTyped'
    BY <1>1, GenerationsTyped DEF TypeOK, StopTask, SetsTyped, memory
  <2>2. RowsTyped'
    <3>1. \A e \in Dispatches : Closed(row[e], reason) \in RowType
      BY HandlerRev, ClosedTyped DEF CloseReason, StopReasons
    <3> QED
      BY <1>1, <3>1 DEF TypeOK, StopTask, CloseLive, RowsTyped
  <2>3. TaskTyped'
    BY <1>1 DEF TypeOK, StopTask, TaskTyped
  <2> QED
    BY <1>1, <2>1, <2>2, <2>3, TypePartsNext, Unchanged DEF StopTask, memory
<1>2. CASE ResumeTask
  <2> DEFINE idle == {a \in Attempts : row[last[a]].reason \in {"paused", "control_failed"}}
  <2>1. PICK next \in [idle -> {d \in Dispatches : row[d].status = "unused"}] :
           /\ last' = [a \in Attempts |-> IF a \in idle THEN next[a] ELSE last[a]]
           /\ row' = [d \in Dispatches |-> IF \E a \in idle : next[a] = d THEN Opened(None) ELSE row[d]]
           /\ hints' = hints \cup {StartDue(next[a], 0) : a \in idle}
    BY <1>2 DEF ResumeTask
  <2>2. Opened(None) \in RowType
    BY OpenedTyped
  <2>3. \A a \in idle : next[a] \in Dispatches
    BY <2>1
  <2> HIDE DEF idle
  <2>4. SetsTyped'
    BY <1>2, <2>1, <2>3, GenerationsTyped DEF TypeOK, ResumeTask, SetsTyped, memory
  <2>5. RowsTyped'
    BY <2>1, <2>2, <2>3 DEF TypeOK, RowsTyped
  <2>6. TaskTyped'
    BY <1>2 DEF TypeOK, ResumeTask, TaskTyped
  <2> QED
    BY <1>2, <2>4, <2>5, <2>6, TypePartsNext, Unchanged DEF ResumeTask, memory
<1> QED
  BY <1>1, <1>2 DEF PauseTask, CancelTask

LEMMA FaultTyped ==
    ASSUME TypeOK,
           (\E h \in hints : LoseHint(h)) \/ (\E g \in timers : FireTimer(g)) \/ Restart
    PROVE  TypeOK'
<1>1. ASSUME NEW h \in hints, LoseHint(h) PROVE TypeOK'
  <2>1. SetsTyped'
    BY <1>1 DEF TypeOK, LoseHint, SetsTyped, memory
  <2> QED
    BY <1>1, <2>1, FailingTyped, TypePartsNext, Unchanged DEF LoseHint, memory
<1>2. ASSUME NEW g \in timers, FireTimer(g) PROVE TypeOK'
  <2>1. g.dispatch \in Dispatches /\ g.rev \in Nat
    BY DEF TypeOK, Generation
  <2>2. SetsTyped'
    BY <1>2, <2>1, GenerationsTyped DEF TypeOK, FireTimer, SetsTyped, memory
  <2> QED
    BY <1>2, <2>2, TypePartsNext, Unchanged DEF FireTimer, memory
<1>3. CASE Restart
  <2>1. HandlersTyped'
    BY <1>3, IdleTyped DEF Restart, HandlersTyped
  <2>2. TurnsTyped'
    BY <1>3 DEF Restart, TypeOK, TurnsTyped, TurnType
  <2>3. SetsTyped'
    <3>1. \A d \in Startable : /\ StartDue(d, row[d].rev) \in HintType /\ StartLater(d, row[d].rev) \in HintType
                               /\ Gen(d, row[d].rev) \in Generation
      BY HandlerRev, GenerationsTyped DEF Startable
    <3>2. hints' \subseteq HintType
      BY <1>3, <3>1 DEF Restart
    <3>3. recovered' \subseteq Generation
      BY <1>3, <3>1 DEF Restart
    <3> QED
      BY <1>3, <3>2, <3>3 DEF Restart, SetsTyped
  <2>4. FaultsTyped'
    <3>1. restarts' \in 0..MaxRestarts
      <4>1. restarts \in 0..MaxRestarts /\ restarts < MaxRestarts /\ restarts' = restarts + 1
        BY <1>3 DEF TypeOK, Restart
      <4> QED
        BY <4>1, BoundsAssumption
    <3> QED
      BY <1>3, <3>1 DEF TypeOK, Restart, FaultsTyped
  <2> QED
    BY <1>3, <2>1, <2>2, <2>3, <2>4, TypePartsNext, Unchanged DEF Restart
<1> QED
  BY <1>1, <1>2, <1>3

LEMMA TypeNext == TypeOK /\ [Next]_vars => TypeOK'
<1> SUFFICES ASSUME TypeOK, [Next]_vars PROVE TypeOK'
    OBVIOUS
<1>1. CASE UNCHANGED vars
  BY <1>1 DEF TypeOK, vars, taskVars, rows, memory, faultVars
<1>2. CASE Next
  BY <1>2, SignalledTyped, StarterTyped, FailureTyped, DispatchTyped, ControlTyped, FaultTyped DEF Next
<1> QED
  BY <1>1, <1>2

\* Every row, start, turn, binding and signal keeps its type, for every number
\* of Attempts, Dispatches, failures and restarts (the DispatchStarter's
\* handler, the adapters and the cleanup).
THEOREM TypeCorrect == Spec => []TypeOK
  BY TypeInit, TypeNext, PTL DEF Spec

-----------------------------------------------------------------------------
(* Starts: what each Dispatch's row, handler, turn and signals agree on     *)

Due(d, n) == StartDue(d, n) \in hints
Later(d, n) == StartLater(d, n) \in hints
Armed(d, n) == Gen(d, n) \in timers
Marked(d, n) == Gen(d, n) \in recovered
Signal(d, n) == Due(d, n) \/ Later(d, n) \/ Armed(d, n)

\* A Dispatch that was never opened has left no trace.
Untouched(d) == row[d].status = "unused" =>
    /\ row[d].rev = 0 /\ row[d].superseded = None
    /\ handler[d].step = "idle" /\ turn[d].state = "none" /\ turn[d].rev = -1
    /\ \A n \in Nat : ~Signal(d, n)

\* A handler is about its row's revision, or the one before it that it rotated;
\* and what it read of the Task is current while its Dispatch still starts.
HandlerMatchesRow(d) ==
    /\ handler[d].rotated => handler[d].step = "failed"
    /\ InFlight(d) =>
          /\ row[d].rev = IF handler[d].rotated THEN handler[d].rev + 1 ELSE handler[d].rev
          /\ row[d].status = "starting" =>
                handler[d].control = control /\ handler[d].step # "lost"
                /\ (handler[d].step = "failed" => handler[d].rotated)
          /\ row[d].status = "open" => handler[d].step = "reconciling"

StoppedHasNoLive(d) == Live(d) => task = "running"

\* A revision is signalled once, never ahead of the row, never again once a
\* handler has it, and only before its turn unless the startup audit marked it.
SignalsAreOnce(d) ==
    \A n \in Nat :
        /\ Signal(d, n) => n <= row[d].rev /\ (InFlight(d) => n < handler[d].rev)
        /\ ~(Due(d, n) /\ Later(d, n)) /\ ~(Due(d, n) /\ Armed(d, n)) /\ ~(Later(d, n) /\ Armed(d, n))
        /\ Signal(d, n) /\ n = row[d].rev => Marked(d, n) \/ turn[d].rev < n

TurnIsOfStart(d) ==
    /\ turn[d].rev <= row[d].rev
    /\ InFlight(d) => turn[d].rev <= handler[d].rev
    /\ turn[d].state = "begun" => handler[d].step = "starting" /\ turn[d].rev = handler[d].rev
    /\ handler[d].step \in {"read", "prepared", "ready", "checked"} => turn[d].rev < handler[d].rev
    /\ handler[d].step = "starting" =>
          turn[d].state # "running" /\ (turn[d].state = "begun" \/ turn[d].rev < handler[d].rev)
    /\ handler[d].step \in {"accepting", "reconciling"} => turn[d].rev = handler[d].rev

Driven(d) ==
    row[d].status = "starting" => Signal(d, row[d].rev) \/ InFlight(d) \/ lossy

Sound(d) ==
    /\ Untouched(d) /\ HandlerMatchesRow(d) /\ StoppedHasNoLive(d)
    /\ SignalsAreOnce(d) /\ TurnIsOfStart(d) /\ Driven(d)
StartInv == TypeOK /\ \A d \in Dispatches : Sound(d)

-----------------------------------------------------------------------------
(* How a step may look to one Dispatch                                      *)

LEMMA SignalsDiffer ==
    /\ \A d, e, m, n : Gen(d, m) = Gen(e, n) <=> d = e /\ m = n
    /\ \A d, e, m, n : StartDue(d, m) = StartDue(e, n) <=> d = e /\ m = n
    /\ \A d, e, m, n : StartLater(d, m) = StartLater(e, n) <=> d = e /\ m = n
    /\ \A d, e, m, n : StartDue(d, m) # StartLater(e, n)
    /\ \A d, e, m : StartDue(d, m) # Cleanup(e) /\ StartLater(d, m) # Cleanup(e)
    /\ \A d, e : Cleanup(d) = Cleanup(e) <=> d = e
  BY DEF Gen, StartDue, StartLater, Cleanup

SameSignals(x) == \A n \in Nat :
    /\ Due(x, n)' <=> Due(x, n)
    /\ Later(x, n)' <=> Later(x, n)
    /\ Armed(x, n)' <=> Armed(x, n)
    /\ Marked(x, n)' <=> Marked(x, n)

LEMMA KeptSignals ==
    ASSUME UNCHANGED <<hints, timers, recovered>>, NEW x
    PROVE  SameSignals(x)
  BY DEF SameSignals, Due, Later, Armed, Marked

KeepsLossy == lossy => lossy'

\* A turn is as it was, or it ended.
TurnMayEnd(x) ==
    /\ turn'[x].rev = turn[x].rev
    /\ turn'[x].state = turn[x].state \/ (turn[x].state = "running" /\ turn'[x].state = "none")

\* The step leaves x alone, except that its turn may end.
Frame(x) ==
    /\ row'[x] = row[x] /\ handler'[x] = handler[x] /\ TurnMayEnd(x)
    /\ UNCHANGED taskVars /\ KeepsLossy /\ SameSignals(x)

LEMMA FrameSound ==
    ASSUME StartInv, NEW x \in Dispatches, Frame(x)
    PROVE  Sound(x)'
<1>0. Sound(x)
  BY DEF StartInv
<1>1. row'[x] = row[x] /\ handler'[x] = handler[x] /\ task' = task /\ control' = control
  BY DEF Frame, taskVars
<1>2. \A n \in Nat : Signal(x, n)' <=> Signal(x, n)
  BY DEF Frame, SameSignals, Signal
<1>3. Untouched(x)'
  BY <1>0, <1>1, <1>2 DEF Sound, Untouched, Frame, TurnMayEnd
<1>4. HandlerMatchesRow(x)'
  BY <1>0, <1>1 DEF Sound, HandlerMatchesRow, InFlight
<1>5. StoppedHasNoLive(x)'
  BY <1>0, <1>1 DEF Sound, StoppedHasNoLive, Live
<1>6. SignalsAreOnce(x)'
  BY <1>0, <1>1, <1>2 DEF Sound, SignalsAreOnce, InFlight, Frame, SameSignals, TurnMayEnd
<1>7. TurnIsOfStart(x)'
  BY <1>0, <1>1 DEF Sound, TurnIsOfStart, InFlight, Frame, TurnMayEnd
<1>8. Driven(x)'
  <2>1. row[x].rev \in Nat
    BY HandlerRev DEF StartInv
  <2> QED
    BY <1>0, <1>1, <1>2, <2>1 DEF Sound, Driven, InFlight, Frame, KeepsLossy
<1> QED
  BY <1>3, <1>4, <1>5, <1>6, <1>7, <1>8 DEF Sound

\* The step closes x, whatever else it does to the Task.
Closes(x) ==
    /\ row[x].status # "unused" /\ row'[x].status = "closed" /\ row'[x].rev = row[x].rev
    /\ handler'[x] = handler[x] /\ turn'[x] = turn[x] /\ SameSignals(x)

LEMMA ClosesSound ==
    ASSUME StartInv, NEW x \in Dispatches, Closes(x)
    PROVE  Sound(x)'
<1>0. Sound(x)
  BY DEF StartInv
<1>1. row'[x].status = "closed" /\ row'[x].rev = row[x].rev /\ handler'[x] = handler[x] /\ turn'[x] = turn[x]
  BY DEF Closes
<1>2. \A n \in Nat : Signal(x, n)' <=> Signal(x, n)
  BY DEF Closes, SameSignals, Signal
<1>3. Untouched(x)' /\ StoppedHasNoLive(x)' /\ Driven(x)'
  BY <1>1 DEF Untouched, StoppedHasNoLive, Live, Driven
<1>4. HandlerMatchesRow(x)'
  BY <1>0, <1>1 DEF Sound, HandlerMatchesRow, InFlight
<1>6. SignalsAreOnce(x)'
  BY <1>0, <1>1, <1>2 DEF Sound, SignalsAreOnce, InFlight, Closes, SameSignals
<1>7. TurnIsOfStart(x)'
  BY <1>0, <1>1 DEF Sound, TurnIsOfStart, InFlight
<1> QED
  BY <1>3, <1>4, <1>6, <1>7 DEF Sound

\* x is not live and stays what it was while the Task's control changes.
KeepsDead(x) ==
    /\ ~Live(x) /\ row'[x] = row[x] /\ handler'[x] = handler[x] /\ turn'[x] = turn[x]
    /\ SameSignals(x)

LEMMA DeadSound ==
    ASSUME StartInv, NEW x \in Dispatches, KeepsDead(x)
    PROVE  Sound(x)'
<1>0. Sound(x)
  BY DEF StartInv
<1>1. row'[x] = row[x] /\ handler'[x] = handler[x] /\ turn'[x] = turn[x] /\ row[x].status \notin {"starting", "open"}
  BY DEF KeepsDead, Live
<1>2. \A n \in Nat : Signal(x, n)' <=> Signal(x, n)
  BY DEF KeepsDead, SameSignals, Signal
<1>3. Untouched(x)'
  BY <1>0, <1>1, <1>2 DEF Sound, Untouched
<1>4. HandlerMatchesRow(x)'
  BY <1>0, <1>1 DEF Sound, HandlerMatchesRow, InFlight
<1>5. StoppedHasNoLive(x)' /\ Driven(x)'
  BY <1>1 DEF StoppedHasNoLive, Live, Driven
<1>6. SignalsAreOnce(x)'
  BY <1>0, <1>1, <1>2 DEF Sound, SignalsAreOnce, InFlight, KeepsDead, SameSignals
<1>7. TurnIsOfStart(x)'
  BY <1>0, <1>1 DEF Sound, TurnIsOfStart, InFlight
<1> QED
  BY <1>3, <1>4, <1>5, <1>6, <1>7 DEF Sound

\* x is opened in a running Task, and signalled once.
Opens(x) ==
    /\ row[x].status = "unused" /\ row'[x].status = "starting" /\ row'[x].rev = 0
    /\ handler'[x] = handler[x] /\ turn'[x] = turn[x] /\ task' = "running"
    /\ \A n \in Nat : /\ Due(x, n)' <=> n = 0
                      /\ ~Later(x, n)' /\ ~Armed(x, n)'

LEMMA OpensSound ==
    ASSUME StartInv, NEW x \in Dispatches, Opens(x)
    PROVE  Sound(x)'
<1>0. Sound(x)
  BY DEF StartInv
<1>1. /\ row'[x].status = "starting" /\ row'[x].rev = 0 /\ task' = "running"
      /\ handler'[x] = handler[x] /\ turn'[x] = turn[x]
      /\ handler[x].step = "idle" /\ turn[x].state = "none" /\ turn[x].rev = -1
  BY <1>0 DEF Opens, Sound, Untouched
<1>2. \A n \in Nat : (Signal(x, n)' <=> n = 0)
  BY DEF Opens, Signal
<1>3. Untouched(x)' /\ StoppedHasNoLive(x)'
  BY <1>1 DEF Untouched, StoppedHasNoLive
<1>4. HandlerMatchesRow(x)'
  BY <1>0, <1>1 DEF Sound, HandlerMatchesRow, InFlight
<1>5. Driven(x)'
  BY <1>1, <1>2 DEF Driven
<1>6. SignalsAreOnce(x)'
  BY <1>1, <1>2 DEF SignalsAreOnce, InFlight, Opens
<1>7. TurnIsOfStart(x)'
  BY <1>1 DEF TurnIsOfStart, InFlight
<1> QED
  BY <1>3, <1>4, <1>5, <1>6, <1>7 DEF Sound

LEMMA InFlightOpened ==
    ASSUME StartInv, NEW d \in Dispatches, InFlight(d)
    PROVE  row[d].status # "unused" /\ (row[d].status = "open" => handler[d].step = "reconciling")
  BY DEF StartInv, Sound, Untouched, InFlight, HandlerMatchesRow

\* The handler of d goes on.
Advances(d) ==
    /\ InFlight(d) /\ handler'[d].step # "idle" /\ handler'[d].rev = handler[d].rev
    /\ row'[d] = row[d] /\ UNCHANGED taskVars /\ SameSignals(d)

LEMMA AdvancesSound ==
    ASSUME StartInv, NEW d \in Dispatches, Advances(d), HandlerMatchesRow(d)', TurnIsOfStart(d)'
    PROVE  Sound(d)'
<1>0. Sound(d)
  BY DEF StartInv
<1>1. /\ handler[d].step # "idle" /\ handler'[d].step # "idle" /\ handler'[d].rev = handler[d].rev
      /\ row'[d] = row[d] /\ task' = task /\ row[d].status # "unused"
  BY InFlightOpened DEF Advances, InFlight, taskVars
<1>2. \A n \in Nat : Signal(d, n)' <=> Signal(d, n)
  BY DEF Advances, SameSignals, Signal
<1>3. Untouched(d)' /\ StoppedHasNoLive(d)' /\ Driven(d)'
  BY <1>0, <1>1 DEF Sound, Untouched, StoppedHasNoLive, Live, Driven, InFlight
<1>4. SignalsAreOnce(d)'
  <2>1. handler[d].rev \in Nat /\ row[d].rev \in Nat /\ handler[d].rev <= row[d].rev
    BY <1>0, <1>1, HandlerRev DEF StartInv, Sound, HandlerMatchesRow, InFlight
  <2>2. \A n \in Nat : Signal(d, n) => n < handler[d].rev /\ n # row[d].rev
    BY <1>0, <1>1, <2>1 DEF Sound, SignalsAreOnce, InFlight
  <2> QED
    BY <1>0, <1>1, <1>2, <2>2 DEF Sound, SignalsAreOnce, InFlight, Advances, SameSignals
<1> QED
  BY <1>3, <1>4 DEF Sound

\* The handler of d ends: the start is settled, or this controller lost it.
Finishes(d) ==
    /\ InFlight(d) /\ handler'[d] = Idle
    /\ row'[d].rev = row[d].rev /\ row'[d].status # "unused"
    /\ row'[d].status = "starting" => lossy'
    /\ row'[d].status \in {"starting", "open"} => task' = "running"
    /\ turn'[d].rev = turn[d].rev /\ turn'[d].state # "begun"
    /\ SameSignals(d)

LEMMA FinishesSound ==
    ASSUME StartInv, NEW d \in Dispatches, Finishes(d)
    PROVE  Sound(d)'
<1>0. Sound(d)
  BY DEF StartInv
<1>1. /\ handler[d].step # "idle" /\ handler'[d].step = "idle" /\ ~handler'[d].rotated
      /\ row'[d].rev = row[d].rev /\ row'[d].status # "unused"
      /\ turn'[d].rev = turn[d].rev /\ turn'[d].state # "begun"
  BY DEF Finishes, InFlight, Idle
<1>2. \A n \in Nat : Signal(d, n)' <=> Signal(d, n)
  BY DEF Finishes, SameSignals, Signal
<1>3. Untouched(d)' /\ StoppedHasNoLive(d)' /\ Driven(d)'
  BY <1>1 DEF Finishes, Untouched, StoppedHasNoLive, Live, Driven
<1>4. SignalsAreOnce(d)'
  <2>1. handler[d].rev \in Nat /\ row[d].rev \in Nat /\ handler[d].rev <= row[d].rev
    BY <1>0, <1>1, HandlerRev DEF StartInv, Sound, HandlerMatchesRow, InFlight
  <2>2. \A n \in Nat : Signal(d, n) => n < handler[d].rev /\ n # row[d].rev
    BY <1>0, <1>1, <2>1 DEF Sound, SignalsAreOnce, InFlight
  <2> QED
    BY <1>0, <1>1, <1>2, <2>2 DEF Sound, SignalsAreOnce, InFlight, Finishes, SameSignals
<1>5. HandlerMatchesRow(d)'
  BY <1>1 DEF HandlerMatchesRow, InFlight
<1>6. TurnIsOfStart(d)'
  BY <1>0, <1>1 DEF Sound, TurnIsOfStart, InFlight
<1> QED
  BY <1>3, <1>4, <1>5, <1>6 DEF Sound

LEMMA StopEnds ==
    ASSUME TypeOK, NEW p, StopTurn(p) \/ NoStop
    PROVE  KeepsLossy /\ \A x \in Dispatches : TurnMayEnd(x)
<1>1. CASE NoStop
  BY <1>1 DEF NoStop, faultVars, KeepsLossy, TurnMayEnd
<1>2. CASE StopTurn(p)
  <2>1. CASE ControllerFails /\ UNCHANGED turn
    BY <2>1 DEF ControllerFails, KeepsLossy, TurnMayEnd
  <2>2. CASE UNCHANGED faultVars /\ turn' = IF turn[p].state = "running" THEN [turn EXCEPT ![p].state = "none"] ELSE turn
    BY <2>2 DEF TypeOK, TurnType, faultVars, KeepsLossy, TurnMayEnd
  <2> QED
    BY <1>2, <2>1, <2>2 DEF StopTurn
<1> QED
  BY <1>1, <1>2

LEMMA FaultsKeepLossy ==
    ASSUME UNCHANGED faultVars \/ ProviderFails \/ ControllerFails
    PROVE  KeepsLossy
  BY DEF faultVars, ProviderFails, ControllerFails, KeepsLossy

\* What the steps that change nothing but the handler, the turns and the
\* bindings leave of a Dispatch that is not theirs.
LEMMA OthersFrame ==
    ASSUME TypeOK, NEW d \in Dispatches, NEW x \in Dispatches \ {d},
           \A e \in Dispatches \ {d} : handler'[e] = handler[e],
           row'[x] = row[x], UNCHANGED <<taskVars, hints, timers, recovered>>,
           TurnMayEnd(x), KeepsLossy
    PROVE  Frame(x)
  BY KeptSignals DEF Frame

LEMMA HandlerOf ==
    ASSUME TypeOK, NEW d \in Dispatches
    PROVE  /\ \A s : Goes(d, s) => /\ handler'[d].step = s /\ handler'[d].rev = handler[d].rev
                                   /\ handler'[d].control = handler[d].control
                                   /\ handler'[d].rotated = handler[d].rotated
                                   /\ handler'[d].uncertain = handler[d].uncertain
                                   /\ \A e \in Dispatches \ {d} : handler'[e] = handler[e]
           /\ \A u : Fails(d, u) => /\ handler'[d].step = "failing" /\ handler'[d].rev = handler[d].rev
                                    /\ handler'[d].control = handler[d].control
                                    /\ handler'[d].rotated = handler[d].rotated
                                    /\ handler'[d].uncertain = u
                                    /\ \A e \in Dispatches \ {d} : handler'[e] = handler[e]
           /\ Ends(d) => handler'[d] = Idle /\ \A e \in Dispatches \ {d} : handler'[e] = handler[e]
<1>1. \A s : Goes(d, s) => /\ handler'[d].step = s /\ handler'[d].rev = handler[d].rev
                           /\ handler'[d].control = handler[d].control
                           /\ handler'[d].rotated = handler[d].rotated
                           /\ handler'[d].uncertain = handler[d].uncertain
                           /\ \A e \in Dispatches \ {d} : handler'[e] = handler[e]
  BY DEF TypeOK, HandlerType, Goes
<1>2. ASSUME NEW u, Fails(d, u)
      PROVE  /\ handler'[d].step = "failing" /\ handler'[d].rev = handler[d].rev
             /\ handler'[d].control = handler[d].control
             /\ handler'[d].rotated = handler[d].rotated
             /\ handler'[d].uncertain = u
             /\ \A e \in Dispatches \ {d} : handler'[e] = handler[e]
  BY <1>2 DEF TypeOK, HandlerType, Fails
<1>3. Ends(d) => handler'[d] = Idle /\ \A e \in Dispatches \ {d} : handler'[e] = handler[e]
  BY DEF TypeOK, Ends
<1> QED
  BY <1>1, <1>2, <1>3

-----------------------------------------------------------------------------
(* The steps of the start handler                                           *)

\* Past the reading of the row and up to the provider's answer.
LEMMA ForwardSound ==
    ASSUME StartInv, NEW d \in Dispatches, NEW x \in Dispatches,
           \/ RecoverStart(d) \/ PrepareStart(d) \/ StopPredecessor(d)
           \/ ReserveStart(d) \/ BeginTurn(d) \/ RegisterTurn(d)
           \/ FailStart(d)
    PROVE  Sound(x)'
<1>0. TypeOK /\ Sound(d) /\ Sound(x)
  BY DEF StartInv
<1>1. handler[d].rev \in Nat /\ turn[d] \in TurnType /\ handler[d] \in HandlerType
  BY <1>0, HandlerRev
<1>2. CASE x # d
  <2>1. /\ \A e \in Dispatches \ {d} : handler'[e] = handler[e]
        /\ row' = row /\ UNCHANGED <<taskVars, hints, timers, recovered>>
        /\ TurnMayEnd(x) /\ KeepsLossy
    <3>1. CASE RecoverStart(d)
      <4>1. StopTurn(row[d].superseded) \/ NoStop
        BY <3>1 DEF RecoverStart
      <4> QED
        BY <1>0, <3>1, <4>1, StopEnds DEF RecoverStart, rows, TypeOK
    <3>2. CASE PrepareStart(d)
      BY <1>0, <3>2, HandlerOf, FaultsKeepLossy DEF PrepareStart, rows, TurnMayEnd
    <3>3. CASE StopPredecessor(d)
      <4>1. StopTurn(row[d].superseded) \/ NoStop
        BY <3>3 DEF StopPredecessor, StopPredecessorOf
      <4> QED
        BY <1>0, <3>3, <4>1, HandlerOf, StopEnds DEF StopPredecessor, rows
    <3>4. CASE ReserveStart(d)
      BY <1>0, <3>4, HandlerOf, FaultsKeepLossy DEF ReserveStart, rows, TurnMayEnd
    <3>5. CASE BeginTurn(d)
      BY <1>0, <1>2, <3>5, FaultsKeepLossy DEF BeginTurn, rows, TurnMayEnd, TypeOK
    <3>6. CASE RegisterTurn(d)
      BY <1>0, <1>2, <3>6, HandlerOf, FaultsKeepLossy DEF RegisterTurn, rows, TurnMayEnd, TypeOK
    <3>7. CASE FailStart(d)
      BY <1>0, <1>2, <3>7, HandlerOf, FaultsKeepLossy DEF FailStart, rows, TurnMayEnd, TypeOK
    <3> QED
      BY <3>1, <3>2, <3>3, <3>4, <3>5, <3>6, <3>7
  <2> QED
    BY <1>0, <1>2, <2>1, OthersFrame, FrameSound
<1>3. CASE x = d
  <2>1. /\ row' = row /\ UNCHANGED <<taskVars, hints, timers, recovered>>
        /\ InFlight(d)
    BY DEF RecoverStart, PrepareStart, StopPredecessor, ReserveStart, BeginTurn, RegisterTurn,
           FailStart, rows, InFlight
  <2>2. /\ handler'[d].rev = handler[d].rev /\ handler'[d].control = handler[d].control
        /\ handler'[d].rotated = handler[d].rotated
        /\ \/ /\ handler'[d].step \in {"failing", "prepared", "ready", "checked"}
              /\ handler[d].step \in {"recovering", "read", "prepared", "ready", "checked", "starting"}
              /\ turn'[d].rev = turn[d].rev
              /\ turn'[d].state # "begun"
              /\ handler[d].step = "recovering" => handler'[d].step = "failing"
              /\ handler[d].step = "starting" => handler'[d].step = "failing"
           \/ /\ handler[d].step = "checked" /\ handler'[d].step = "starting"
              /\ turn[d].state # "running" /\ turn'[d] = turn[d]
           \/ /\ handler[d].step = "starting" /\ handler'[d].step = "starting"
              /\ turn'[d].state = "begun" /\ turn'[d].rev = handler[d].rev
           \/ /\ handler[d].step = "starting" /\ handler'[d].step = "accepting"
              /\ turn[d].state = "begun" /\ turn'[d].state = "running" /\ turn'[d].rev = turn[d].rev
    <3>1. CASE RecoverStart(d)
      <4>1. StopTurn(row[d].superseded) \/ NoStop
        BY <3>1 DEF RecoverStart
      <4>2. TurnMayEnd(d)
        BY <1>0, <4>1, StopEnds
      <4>3. Fails(d, TRUE)
        BY <3>1 DEF RecoverStart, Fails
      <4> QED
        BY <1>0, <3>1, <4>2, <4>3, HandlerOf DEF RecoverStart, TurnMayEnd, Sound, TurnIsOfStart
    <3>2. CASE PrepareStart(d)
      BY <1>0, <3>2, HandlerOf DEF PrepareStart, Sound, TurnIsOfStart
    <3>3. CASE StopPredecessor(d)
      <4>1. StopTurn(row[d].superseded) \/ NoStop
        BY <3>3 DEF StopPredecessor, StopPredecessorOf
      <4>2. TurnMayEnd(d)
        BY <1>0, <4>1, StopEnds
      <4> QED
        BY <1>0, <3>3, <4>2, HandlerOf DEF StopPredecessor, TurnMayEnd, Sound, TurnIsOfStart
    <3>4. CASE ReserveStart(d)
      BY <1>0, <3>4, HandlerOf DEF ReserveStart, Sound, TurnIsOfStart
    <3>5. CASE BeginTurn(d)
      BY <1>0, <1>1, <3>5 DEF BeginTurn, TypeOK
    <3>6. CASE RegisterTurn(d)
      BY <1>0, <1>1, <3>6, HandlerOf DEF RegisterTurn, TypeOK, TurnType
    <3>7. CASE FailStart(d)
      <4>1. turn'[d].rev = turn[d].rev /\ turn'[d].state # "begun"
        BY <1>0, <1>1, <3>7 DEF FailStart, TypeOK, TurnType
      <4> QED
        BY <1>0, <3>7, <4>1, HandlerOf DEF FailStart
    <3> QED
      BY <3>1, <3>2, <3>3, <3>4, <3>5, <3>6, <3>7
  <2>3. HandlerMatchesRow(d)'
    BY <1>0, <2>1, <2>2 DEF Sound, HandlerMatchesRow, InFlight, taskVars
  <2>4. TurnIsOfStart(d)'
    BY <1>0, <1>1, <2>1, <2>2 DEF Sound, TurnIsOfStart, InFlight, TurnType, HandlerMatchesRow
  <2>5. Advances(d)
    BY <2>1, <2>2, KeptSignals DEF Advances
  <2> QED
    BY <1>3, <2>3, <2>4, <2>5, AdvancesSound
<1> QED
  BY <1>2, <1>3

\* What a handler knows when it is not rotated: its revision is the row's, and
\* the row starts exactly if it may still write.
LEMMA ExactMeansStarting ==
    ASSUME StartInv, NEW d \in Dispatches, InFlight(d), ~handler[d].rotated
    PROVE  /\ row[d].rev = handler[d].rev
           /\ Exact(d, handler[d].rev) <=> row[d].status = "starting"
           /\ row[d].status = "open" => task = "running"
  BY DEF StartInv, Sound, HandlerMatchesRow, StoppedHasNoLive, Live, Exact

\* The decisions of the controller about a start that the provider answered.
LEMMA DecisionSound ==
    ASSUME StartInv, NEW d \in Dispatches, NEW x \in Dispatches,
           \/ RecheckStart(d) \/ AcceptStart(d) \/ StopLost(d) \/ FailAccept(d)
           \/ ReconcileStart(d) \/ FailRotate(d) \/ FailHandler(d)
    PROVE  Sound(x)'
<1>0. TypeOK /\ Sound(d) /\ Sound(x)
  BY DEF StartInv
<1>1. handler[d].rev \in Nat /\ turn[d] \in TurnType /\ handler[d] \in HandlerType /\ row[d] \in RowType
  BY <1>0, HandlerRev
<1>2. /\ UNCHANGED <<taskVars, hints, timers, recovered>> /\ InFlight(d) /\ KeepsLossy
      /\ \A e \in Dispatches : TurnMayEnd(e)
  <2>1. CASE RecheckStart(d) \/ AcceptStart(d) \/ ReconcileStart(d)
    BY <2>1, FaultsKeepLossy
       DEF RecheckStart, AcceptStart, ReconcileStart, rows, InFlight, TurnMayEnd
  <2>2. CASE StopLost(d)
    BY <1>0, <2>2, StopEnds DEF StopLost, InFlight
  <2>3. CASE FailAccept(d) \/ FailHandler(d)
    BY <2>3, FaultsKeepLossy DEF FailAccept, FailHandler, InFlight, TurnMayEnd
  <2>4. CASE FailRotate(d)
    <3>1. turn' = turn \/ (turn[d].state = "running" /\ turn' = [turn EXCEPT ![d].state = "none"])
      BY <2>4 DEF FailRotate
    <3> QED
      BY <1>0, <2>4, <3>1, FaultsKeepLossy DEF FailRotate, InFlight, TurnMayEnd, TypeOK, TurnType
  <2> QED
    BY <2>1, <2>2, <2>3, <2>4
<1>3. ~handler[d].rotated
  BY <1>0 DEF Sound, HandlerMatchesRow, RecheckStart, AcceptStart, StopLost, FailAccept, ReconcileStart,
              FailRotate, FailHandler
<1>4. /\ row[d].rev = handler[d].rev
      /\ Exact(d, handler[d].rev) <=> row[d].status = "starting"
      /\ row[d].status = "open" => task = "running"
  BY <1>2, <1>3, ExactMeansStarting
<1>5. CASE x # d
  <2>1. \A e \in Dispatches \ {d} : handler'[e] = handler[e]
    BY <1>0, HandlerOf DEF RecheckStart, AcceptStart, StopLost, FailAccept, ReconcileStart, FailRotate, FailHandler
  <2>2. row'[x] = row[x]
    BY <1>0, <1>5 DEF RecheckStart, AcceptStart, StopLost, FailAccept, ReconcileStart, FailRotate, FailHandler,
                rows, Accepted, TypeOK
  <2> QED
    BY <1>0, <1>2, <1>5, <2>1, <2>2, OthersFrame, FrameSound
<1>6. CASE x = d
  <2>0. SameSignals(d)
    BY <1>2, KeptSignals
  <2>1. row'[d].rev = row[d].rev /\ row[d].status # "unused"
    <3>1. row' = row \/ Accepted(d)
      BY DEF RecheckStart, AcceptStart, StopLost, FailAccept, ReconcileStart, FailRotate, FailHandler, rows
    <3>2. Accepted(d) => row'[d].rev = row[d].rev
      BY <1>0 DEF Accepted, TypeOK, RowType
    <3> QED
      BY <1>2, <3>1, <3>2, InFlightOpened
  <2>2. CASE Ends(d)
    <3>1. handler[d].step # "starting"
      BY <1>0, <1>2, <2>2, HandlerOf
         DEF Idle, RecheckStart, AcceptStart, StopLost, FailAccept, ReconcileStart, FailRotate, FailHandler
    <3>2. turn'[d].rev = turn[d].rev /\ turn'[d].state # "begun"
      BY <1>0, <1>2, <3>1 DEF Sound, TurnIsOfStart, TurnMayEnd
    <3>3. row'[d].status # "unused" /\ (row'[d].status = "starting" => lossy')
      <4>1. CASE RecheckStart(d)
        BY <1>0, <1>4, <2>1, <2>2, <4>1, HandlerOf DEF RecheckStart, rows, Idle
      <4>2. CASE AcceptStart(d)
        BY <1>0, <1>1, <1>4, <2>1, <2>2, <4>2, HandlerOf
           DEF AcceptStart, Accepted, Idle, TypeOK, RowType
      <4>3. CASE StopLost(d)
        BY <1>0, <1>2, <2>1, <4>3 DEF StopLost, rows, Sound, HandlerMatchesRow
      <4>4. CASE FailAccept(d)
        BY <1>0, <2>2, <4>4, HandlerOf DEF FailAccept, Idle
      <4>5. CASE ReconcileStart(d)
        <5>1. handler'[d].step = "idle"
          BY <1>0, <2>2, HandlerOf DEF Idle
        <5>2. ~Fails(d, TRUE)
          BY <1>0, <5>1, HandlerOf
        <5> QED
          BY <2>1, <4>5, <5>2 DEF ReconcileStart, rows
      <4>6. CASE FailRotate(d) \/ FailHandler(d)
        BY <2>1, <4>6 DEF FailRotate, FailHandler, ControllerFails, rows
      <4> QED
        BY <4>1, <4>2, <4>3, <4>4, <4>5, <4>6
    <3>4. row'[d].status \in {"starting", "open"} => task' = "running"
      <4>1. row'[d].status \in {"starting", "open"} => row[d].status \in {"starting", "open"}
        BY <1>0, <1>1, <1>4
           DEF RecheckStart, AcceptStart, StopLost, FailAccept, ReconcileStart, FailRotate, FailHandler,
               rows, Accepted, TypeOK, RowType
      <4> QED
        BY <1>0, <1>2, <4>1 DEF Sound, StoppedHasNoLive, Live, taskVars
    <3> QED
      BY <1>0, <1>2, <1>6, <2>0, <2>1, <2>2, <3>2, <3>3, <3>4, HandlerOf, FinishesSound DEF Finishes
  <2>3. CASE RecheckStart(d) /\ Goes(d, "checked")
    <3>1. Advances(d)
      BY <1>0, <1>2, <2>0, <2>3, HandlerOf DEF Advances, RecheckStart, rows
    <3>2. HandlerMatchesRow(d)'
      BY <1>0, <1>2, <1>4, <2>3, HandlerOf DEF Sound, HandlerMatchesRow, InFlight, RecheckStart, rows, taskVars
    <3>3. TurnIsOfStart(d)'
      BY <1>0, <1>2, <2>3, HandlerOf DEF Sound, TurnIsOfStart, InFlight, RecheckStart, rows
    <3> QED
      BY <1>6, <3>1, <3>2, <3>3, AdvancesSound
  <2>4. CASE AcceptStart(d) /\ Goes(d, "lost") /\ UNCHANGED row /\ ~Exact(d, handler[d].rev)
    <3>1. Advances(d)
      BY <1>0, <1>2, <2>0, <2>4, HandlerOf DEF Advances
    <3>2. HandlerMatchesRow(d)'
      BY <1>0, <1>2, <1>3, <1>4, <2>4, HandlerOf
         DEF Sound, HandlerMatchesRow, InFlight, AcceptStart, taskVars
    <3>3. TurnIsOfStart(d)'
      BY <1>0, <1>2, <2>4, HandlerOf DEF Sound, TurnIsOfStart, InFlight, AcceptStart
    <3> QED
      BY <1>6, <3>1, <3>2, <3>3, AdvancesSound
  <2>5. CASE ReconcileStart(d) /\ Fails(d, TRUE) /\ row[d].status # "open"
    <3>1. Advances(d)
      BY <1>0, <1>2, <2>0, <2>5, HandlerOf DEF Advances, ReconcileStart, rows
    <3>2. HandlerMatchesRow(d)'
      BY <1>0, <1>2, <1>3, <1>4, <2>5, HandlerOf
         DEF Sound, HandlerMatchesRow, InFlight, ReconcileStart, rows, taskVars
    <3>3. TurnIsOfStart(d)'
      BY <1>0, <1>2, <2>5, HandlerOf DEF Sound, TurnIsOfStart, InFlight, ReconcileStart, rows
    <3> QED
      BY <1>6, <3>1, <3>2, <3>3, AdvancesSound
  <2>6. CASE FailAccept(d) /\ UNCHANGED row
    <3>1. Advances(d)
      BY <1>0, <1>2, <2>0, <2>6, HandlerOf DEF Advances, FailAccept
    <3>2. HandlerMatchesRow(d)'
      BY <1>0, <1>2, <1>3, <1>4, <2>6, HandlerOf
         DEF Sound, HandlerMatchesRow, InFlight, FailAccept, taskVars
    <3>3. TurnIsOfStart(d)'
      BY <1>0, <1>2, <2>6, HandlerOf DEF Sound, TurnIsOfStart, InFlight, FailAccept
    <3> QED
      BY <1>6, <3>1, <3>2, <3>3, AdvancesSound
  <2>7. CASE FailAccept(d) /\ Exact(d, handler[d].rev) /\ Accepted(d)
    <3>1. /\ row'[d].status = "open" /\ row'[d].rev = row[d].rev /\ task' = "running"
          /\ turn'[d] = turn[d]
      BY <1>0, <1>2, <2>7 DEF FailAccept, Exact, Accepted, TypeOK, RowType, taskVars
    <3>2. handler'[d].step = "reconciling" /\ handler'[d].rev = handler[d].rev /\ ~handler'[d].rotated
      BY <1>0, <1>3, <2>7, HandlerOf DEF FailAccept
    <3>3. \A n \in Nat : Signal(d, n)' <=> Signal(d, n)
      BY <2>0 DEF SameSignals, Signal
    <3>4. Untouched(d)' /\ StoppedHasNoLive(d)' /\ Driven(d)' /\ HandlerMatchesRow(d)'
      BY <1>4, <3>1, <3>2 DEF Untouched, StoppedHasNoLive, Driven, HandlerMatchesRow
    <3>5. SignalsAreOnce(d)'
      BY <1>0, <1>2, <2>0, <3>1, <3>2, <3>3 DEF Sound, SignalsAreOnce, InFlight, SameSignals
    <3>6. TurnIsOfStart(d)'
      BY <1>0, <1>2, <2>7, <3>1, <3>2 DEF Sound, TurnIsOfStart, InFlight, FailAccept
    <3> QED
      BY <1>6, <3>4, <3>5, <3>6 DEF Sound
  <2>8. \/ Ends(d)
        \/ RecheckStart(d) /\ Goes(d, "checked")
        \/ AcceptStart(d) /\ Goes(d, "lost") /\ UNCHANGED row /\ ~Exact(d, handler[d].rev)
        \/ ReconcileStart(d) /\ Fails(d, TRUE) /\ row[d].status # "open"
        \/ FailAccept(d) /\ UNCHANGED row
        \/ FailAccept(d) /\ Exact(d, handler[d].rev) /\ Accepted(d)
    BY <1>4 DEF RecheckStart, AcceptStart, StopLost, FailAccept, ReconcileStart, FailRotate, FailHandler
  <2> QED
    BY <2>2, <2>3, <2>4, <2>5, <2>6, <2>7, <2>8
<1> QED
  BY <1>5, <1>6

LEMMA RotateSound ==
    ASSUME StartInv, NEW d \in Dispatches, NEW x \in Dispatches, RotateStart(d)
    PROVE  Sound(x)'
<1>0. TypeOK /\ Sound(d) /\ Sound(x)
  BY DEF StartInv
<1>1. /\ handler[d].rev \in Nat /\ row[d].rev \in Nat /\ turn[d] \in TurnType
      /\ handler[d] \in HandlerType /\ row[d] \in RowType
  BY <1>0, HandlerRev
<1>2. /\ UNCHANGED <<taskVars, hints, timers, recovered, turn, faultVars>> /\ InFlight(d)
      /\ handler[d].step = "failing" /\ ~handler[d].rotated
  BY <1>0 DEF RotateStart, InFlight, Sound, HandlerMatchesRow
<1>3. /\ row[d].rev = handler[d].rev /\ row[d].status \notin {"unused", "open"}
      /\ Exact(d, handler[d].rev) <=> row[d].status = "starting"
  BY <1>2, ExactMeansStarting, InFlightOpened
<1>4. CASE x # d
  <2>1. \A e \in Dispatches \ {d} : handler'[e] = handler[e]
    BY <1>0 DEF RotateStart, TypeOK
  <2>2. row'[x] = row[x]
    BY <1>0, <1>4 DEF RotateStart, TypeOK
  <2> QED
    BY <1>0, <1>2, <1>4, <2>1, <2>2, OthersFrame, FrameSound, FaultsKeepLossy DEF TurnMayEnd
<1>5. CASE x = d
  <2>0. SameSignals(d)
    BY <1>2, KeptSignals
  <2>1. \A n \in Nat : Signal(d, n)' <=> Signal(d, n)
    BY <2>0 DEF SameSignals, Signal
  <2>2. /\ handler'[d].step = "failed" /\ handler'[d].rev = handler[d].rev
        /\ handler'[d].control = handler[d].control
        /\ handler'[d].rotated <=> row[d].status = "starting"
    BY <1>0, <1>1, <1>3 DEF RotateStart, TypeOK, HandlerType
  <2>3. /\ row'[d].status = row[d].status
        /\ row'[d].rev = IF row[d].status = "starting" THEN row[d].rev + 1 ELSE row[d].rev
    BY <1>0, <1>1, <1>3 DEF RotateStart, TypeOK, RowType
  <2>4. Untouched(d)' /\ Driven(d)'
    BY <1>3, <2>2, <2>3 DEF Untouched, Driven, InFlight
  <2>5. StoppedHasNoLive(d)'
    BY <1>0, <1>2, <2>3 DEF Sound, StoppedHasNoLive, Live, taskVars
  <2>6. HandlerMatchesRow(d)'
    BY <1>0, <1>2, <1>3, <2>2, <2>3 DEF Sound, HandlerMatchesRow, InFlight, taskVars
  <2>7. SignalsAreOnce(d)'
    <3>1. \A n \in Nat : Signal(d, n) => n < handler[d].rev
      BY <1>0, <1>2 DEF Sound, SignalsAreOnce
    <3> QED
      BY <1>0, <1>1, <1>3, <2>0, <2>1, <2>2, <2>3, <3>1 DEF Sound, SignalsAreOnce, SameSignals
  <2>8. TurnIsOfStart(d)'
    BY <1>0, <1>1, <1>2, <2>2, <2>3 DEF Sound, TurnIsOfStart, InFlight, TurnType
  <2> QED
    BY <1>5, <2>4, <2>5, <2>6, <2>7, <2>8 DEF Sound
<1> QED
  BY <1>4, <1>5

\* The scheduler forgets only what the new signal replaces.
LEMMA RegisteredArms ==
    ASSUME TypeOK, NEW d \in Dispatches, NEW n \in Nat
    PROVE  /\ \A x \in Dispatches, m \in Nat :
                 Gen(x, m) \in Registered(Gen(d, n)) => Gen(x, m) \in timers \/ (x = d /\ m = n)
           /\ \A x \in Dispatches \ {d}, m \in Nat : Gen(x, m) \in Registered(Gen(d, n)) <=> Gen(x, m) \in timers
           /\ \A m \in Nat : m >= n /\ Gen(d, m) \in timers => Gen(d, m) \in Registered(Gen(d, n))
           /\ \E m \in Nat : m >= n /\ Gen(d, m) \in Registered(Gen(d, n)) /\ (m = n \/ Gen(d, m) \in timers)
<1>1. CASE \E t \in timers : t.dispatch = d /\ t.rev >= n
  <2>1. PICK t \in timers : t.dispatch = d /\ t.rev >= n
    BY <1>1
  <2>2. t.rev \in Nat /\ t = Gen(d, t.rev)
    BY <2>1 DEF TypeOK, Generation, Gen
  <2>3. Registered(Gen(d, n)) = timers
    BY <2>1 DEF Registered, Gen
  <2> QED
    BY <2>1, <2>2, <2>3
<1>2. CASE ~ \E t \in timers : t.dispatch = d /\ t.rev >= n
  <2>1. Registered(Gen(d, n)) = {t \in timers : t.dispatch # d} \cup {Gen(d, n)}
    BY <1>2 DEF Registered, Gen
  <2>2. \A x, m : Gen(x, m).dispatch = x /\ Gen(x, m).rev = m
    BY DEF Gen
  <2> HIDE DEF Gen
  <2> QED
    BY <1>2, <2>1, <2>2, SignalsDiffer
<1> QED
  BY <1>1, <1>2

LEMMA RetrySound ==
    ASSUME StartInv, NEW d \in Dispatches, NEW x \in Dispatches, ScheduleRetry(d)
    PROVE  Sound(x)'
<1>0. TypeOK /\ Sound(d) /\ Sound(x)
  BY DEF StartInv
<1>1. /\ handler[d].rev \in Nat /\ row[d].rev \in Nat /\ turn[d] \in TurnType
      /\ handler[d] \in HandlerType /\ row[d] \in RowType
  BY <1>0, HandlerRev
<1>2. /\ UNCHANGED <<taskVars, hints, recovered, row>> /\ InFlight(d)
      /\ handler[d].step = "failed" /\ Ends(d)
      /\ timers' = IF handler[d].rotated THEN Registered(Gen(d, handler[d].rev + 1)) ELSE timers
      /\ KeepsLossy /\ \A e \in Dispatches : TurnMayEnd(e)
  BY <1>0, StopEnds DEF ScheduleRetry, InFlight, rows, NextRetrySignal
<1>3. handler'[d] = Idle /\ \A e \in Dispatches \ {d} : handler'[e] = handler[e]
  BY <1>0, <1>2, HandlerOf
<1>4. CASE ~handler[d].rotated
  <2>1. UNCHANGED <<taskVars, hints, timers, recovered>>
    BY <1>2, <1>4
  <2>2. CASE x # d
    BY <1>0, <1>2, <1>3, <2>1, <2>2, OthersFrame, FrameSound
  <2>3. CASE x = d
    <3>1. turn'[d].rev = turn[d].rev /\ turn'[d].state # "begun"
      BY <1>0, <1>2 DEF Sound, TurnIsOfStart, TurnMayEnd
    <3>2. row[d].status \notin {"unused", "starting"}
      BY <1>0, <1>2, <1>4, InFlightOpened DEF Sound, HandlerMatchesRow
    <3>3. Finishes(d)
      BY <1>0, <1>2, <1>3, <2>1, <3>1, <3>2, KeptSignals
         DEF Finishes, Sound, StoppedHasNoLive, Live, taskVars
    <3> QED
      BY <2>3, <3>3, FinishesSound
  <2> QED
    BY <2>2, <2>3
<1>5. CASE handler[d].rotated
  <2>0. PICK k \in Nat : k = row[d].rev
    BY <1>1
  <2>1. row[d].rev = handler[d].rev + 1
    BY <1>0, <1>2, <1>5 DEF Sound, HandlerMatchesRow
  <2>9. timers' = Registered(Gen(d, k))
    BY <1>2, <1>5, <2>0, <2>1 DEF Registered
  <2>2. \A n \in Nat : Signal(d, n) => n < handler[d].rev
    BY <1>0, <1>2 DEF Sound, SignalsAreOnce
  <2>3. CASE x # d
    <3>1. \A n \in Nat : Armed(x, n)' <=> Armed(x, n)
      BY <1>0, <2>3, <2>9, RegisteredArms DEF Armed
    <3>2. SameSignals(x)
      BY <1>2, <3>1 DEF SameSignals, Due, Later, Marked
    <3> QED
      BY <1>2, <1>3, <2>3, <3>2, FrameSound DEF Frame
  <2>4. CASE x = d
    <3>1. \A n \in Nat : Armed(d, n)' => Armed(d, n) \/ n = row[d].rev
      <4>1. \A m \in Nat : Gen(d, m) \in Registered(Gen(d, k)) => Gen(d, m) \in timers \/ m = k
        BY <1>0, RegisteredArms
      <4> QED
        BY <2>0, <2>9, <4>1 DEF Armed
    <3>2. Armed(d, k)'
      <4>1. \E m \in Nat : /\ m >= k /\ Gen(d, m) \in Registered(Gen(d, k))
                           /\ m = k \/ Gen(d, m) \in timers
        BY <1>0, RegisteredArms
      <4>2. PICK m \in Nat : m >= row[d].rev /\ Gen(d, m) \in timers' /\ (m = row[d].rev \/ Gen(d, m) \in timers)
        BY <2>0, <2>9, <4>1
      <4>3. Gen(d, m) \in timers => m < handler[d].rev
        BY <2>2 DEF Signal, Armed
      <4>4. m = row[d].rev
        BY <1>1, <2>1, <4>2, <4>3
      <4> QED
        BY <2>0, <4>2, <4>4 DEF Armed
    <3>3. \A n \in Nat : (Due(d, n)' <=> Due(d, n)) /\ (Later(d, n)' <=> Later(d, n))
      BY <1>2 DEF Due, Later
    <3>4. row'[d] = row[d] /\ turn'[d].rev = turn[d].rev /\ turn'[d].state # "begun"
      BY <1>0, <1>2 DEF Sound, TurnIsOfStart, TurnMayEnd
    <3>5. handler'[d].step = "idle" /\ ~handler'[d].rotated
      BY <1>3 DEF Idle
    <3>6. Untouched(d)'
      BY <1>2, <3>4, InFlightOpened DEF Untouched
    <3>7. HandlerMatchesRow(d)' /\ StoppedHasNoLive(d)'
      BY <1>0, <1>2, <3>4, <3>5 DEF Sound, HandlerMatchesRow, StoppedHasNoLive, Live, InFlight, taskVars
    <3>8. Driven(d)'
      BY <2>0, <3>2, <3>4 DEF Driven, Signal, Armed
    <3>9. TurnIsOfStart(d)'
      BY <1>0, <3>4, <3>5 DEF Sound, TurnIsOfStart, InFlight
    <3>10. SignalsAreOnce(d)'
      <4>1. turn[d].rev < row[d].rev
        BY <1>0, <1>1, <1>2, <2>1 DEF Sound, TurnIsOfStart, TurnType
      <4>2. \A n \in Nat : Signal(d, n)' => n < handler[d].rev \/ (n = row[d].rev /\ ~Due(d, n)' /\ ~Later(d, n)')
        BY <1>1, <2>1, <2>2, <3>1, <3>3 DEF Signal
      <4>3. \A n \in Nat : n < handler[d].rev =>
               (Armed(d, n)' => Armed(d, n))
        BY <1>1, <2>1, <3>1
      <4> QED
        BY <1>0, <1>1, <2>1, <3>3, <3>4, <3>5, <4>1, <4>2, <4>3
           DEF Sound, SignalsAreOnce, InFlight, Signal
    <3> QED
      BY <2>4, <3>6, <3>7, <3>8, <3>9, <3>10 DEF Sound
  <2> QED
    BY <2>3, <2>4
<1> QED
  BY <1>4, <1>5

-----------------------------------------------------------------------------
(* Signals                                                                  *)

\* x loses signals and nothing else changes.
Drops(x) ==
    /\ row'[x] = row[x] /\ handler'[x] = handler[x] /\ turn'[x] = turn[x] /\ UNCHANGED taskVars
    /\ \A n \in Nat : /\ Due(x, n)' => Due(x, n)
                      /\ Later(x, n)' => Later(x, n)
                      /\ Armed(x, n)' => Armed(x, n)
                      /\ Signal(x, n)' => (Marked(x, n)' <=> Marked(x, n))

LEMMA DropsSound ==
    ASSUME StartInv, NEW x \in Dispatches, Drops(x), Driven(x)'
    PROVE  Sound(x)'
<1>0. Sound(x)
  BY DEF StartInv
<1>1. row'[x] = row[x] /\ handler'[x] = handler[x] /\ turn'[x] = turn[x] /\ task' = task /\ control' = control
  BY DEF Drops, taskVars
<1>2. \A n \in Nat : Signal(x, n)' => Signal(x, n)
  BY DEF Drops, Signal
<1>3. Untouched(x)'
  BY <1>0, <1>1, <1>2 DEF Sound, Untouched
<1>4. HandlerMatchesRow(x)' /\ StoppedHasNoLive(x)'
  BY <1>0, <1>1 DEF Sound, HandlerMatchesRow, StoppedHasNoLive, Live, InFlight
<1>6. SignalsAreOnce(x)'
  BY <1>0, <1>1, <1>2 DEF Sound, SignalsAreOnce, InFlight, Drops
<1>7. TurnIsOfStart(x)'
  BY <1>0, <1>1 DEF Sound, TurnIsOfStart, InFlight
<1> QED
  BY <1>3, <1>4, <1>6, <1>7 DEF Sound

LEMMA ReceiveSound ==
    ASSUME StartInv, NEW d \in Dispatches, NEW n \in Nat, NEW x \in Dispatches, ReceiveStart(d, n)
    PROVE  Sound(x)'
<1>0. TypeOK /\ Sound(d) /\ Sound(x)
  BY DEF StartInv
<1>1. /\ row[d].rev \in Nat /\ turn[d] \in TurnType /\ handler[d] \in HandlerType /\ row[d] \in RowType
  BY <1>0, HandlerRev
<1>2. /\ row' = row /\ turn' = turn /\ UNCHANGED <<taskVars, timers, faultVars>>
      /\ Due(d, n) /\ hints' = hints \ {StartDue(d, n)}
      /\ IF InFlight(d) THEN UNCHANGED <<handler, recovered>>
         ELSE /\ recovered' = recovered \ {Gen(d, n)}
              /\ handler' = IF ~Exact(d, n) THEN handler
                            ELSE [handler EXCEPT ![d] =
                                    [Idle EXCEPT !.rev = n, !.control = control,
                                         !.step = IF Marked(d, n) THEN "recovering" ELSE "read"]]
  BY DEF ReceiveStart, rows, Due, StartDue, Recovering, Marked
<1>3. \A y \in Dispatches, m \in Nat :
         /\ Due(y, m)' <=> Due(y, m) /\ ~(y = d /\ m = n)
         /\ Later(y, m)' <=> Later(y, m)
         /\ Armed(y, m)' <=> Armed(y, m)
  BY <1>2, SignalsDiffer DEF Due, Later, Armed
<1>4. \A y \in Dispatches, m \in Nat : ~(y = d /\ m = n) => (Marked(y, m)' <=> Marked(y, m))
  BY <1>2, SignalsDiffer DEF Marked
<1>5. ~Signal(d, n)'
  BY <1>0, <1>2, <1>3 DEF Signal, Sound, SignalsAreOnce
<1>6. CASE x # d
  <2>1. handler'[x] = handler[x]
    BY <1>0, <1>2, <1>6 DEF TypeOK
  <2>2. SameSignals(x)
    BY <1>3, <1>4, <1>6 DEF SameSignals
  <2>3. Frame(x)
    BY <1>2, <2>1, <2>2, FaultsKeepLossy DEF Frame, TurnMayEnd
  <2> QED
    BY <2>3, FrameSound
<1>7. CASE x = d /\ handler' = handler /\ (InFlight(d) \/ ~Exact(d, n))
  <2>1. Drops(d)
    BY <1>2, <1>3, <1>4, <1>5, <1>7 DEF Drops
  <2>2. row[d].status = "starting" => task = "running" /\ (n # row[d].rev \/ InFlight(d))
    BY <1>0, <1>7 DEF Exact, Sound, StoppedHasNoLive, Live
  <2>3. n # row[d].rev /\ Signal(d, row[d].rev) => Signal(d, row[d].rev)'
    <3>1. PICK k \in Nat : k = row[d].rev
      BY <1>1
    <3>2. n # k /\ Signal(d, k) => Signal(d, k)'
      BY <1>3 DEF Signal
    <3> QED
      BY <1>2, <3>1, <3>2 DEF Signal, Due, Later, Armed
  <2>4. Driven(d)'
    BY <1>0, <1>2, <1>7, <2>2, <2>3 DEF Sound, Driven, InFlight, faultVars
  <2> QED
    BY <1>7, <2>1, <2>4, DropsSound
<1>8. CASE x = d /\ ~InFlight(d) /\ Exact(d, n)
  <2>1. /\ row[d].rev = n /\ row[d].status = "starting" /\ task = "running"
        /\ row'[d] = row[d] /\ turn'[d] = turn[d] /\ task' = task /\ control' = control
    BY <1>2, <1>8 DEF Exact, taskVars
  <2>2. /\ handler'[d].rev = n /\ handler'[d].control = control /\ ~handler'[d].rotated
        /\ handler'[d].step = IF Marked(d, n) THEN "recovering" ELSE "read"
    <3>1. handler'[d] = [Idle EXCEPT !.rev = n, !.control = control,
                              !.step = IF Marked(d, n) THEN "recovering" ELSE "read"]
      BY <1>0, <1>2, <1>8 DEF TypeOK
    <3> QED
      BY <3>1 DEF Idle
  <2>3. Untouched(d)' /\ HandlerMatchesRow(d)' /\ StoppedHasNoLive(d)' /\ Driven(d)'
    BY <2>1, <2>2 DEF Untouched, HandlerMatchesRow, StoppedHasNoLive, Driven, InFlight
  <2>4. SignalsAreOnce(d)'
    <3>1. \A m \in Nat : Signal(d, m)' => Signal(d, m) /\ m # n
      BY <1>3, <1>5 DEF Signal
    <3>2. \A m \in Nat : Signal(d, m)' => m < n
      BY <1>0, <1>1, <2>1, <3>1 DEF Sound, SignalsAreOnce
    <3> QED
      BY <1>0, <1>1, <1>3, <2>1, <2>2, <3>2 DEF Sound, SignalsAreOnce
  <2>5. TurnIsOfStart(d)'
    <3>1. turn[d].rev <= n /\ (Marked(d, n) \/ turn[d].rev < n)
      BY <1>0, <1>1, <1>2, <2>1 DEF Sound, TurnIsOfStart, SignalsAreOnce, Signal
    <3>2. turn[d].state # "begun"
      BY <1>0, <1>8 DEF Sound, TurnIsOfStart, InFlight
    <3> QED
      BY <2>1, <2>2, <3>1, <3>2 DEF TurnIsOfStart
  <2> QED
    BY <1>8, <2>3, <2>4, <2>5 DEF Sound
<1> QED
  BY <1>2, <1>6, <1>7, <1>8

LEMMA DeferSound ==
    ASSUME StartInv, NEW d \in Dispatches, NEW n \in Nat, NEW x \in Dispatches, DeferStart(d, n)
    PROVE  Sound(x)'
<1>0. TypeOK /\ Sound(d) /\ Sound(x)
  BY DEF StartInv
<1>1. row[d].rev \in Nat
  BY <1>0, HandlerRev
<1>2. /\ row' = row /\ turn' = turn /\ handler' = handler /\ UNCHANGED <<taskVars, recovered, faultVars>>
      /\ Later(d, n) /\ hints' = hints \ {StartLater(d, n)} /\ timers' = Registered(Gen(d, n))
  BY DEF DeferStart, rows, memory, Later, StartLater
<1>3. \A y \in Dispatches, m \in Nat :
         /\ Due(y, m)' <=> Due(y, m)
         /\ Later(y, m)' <=> Later(y, m) /\ ~(y = d /\ m = n)
         /\ Marked(y, m)' <=> Marked(y, m)
  BY <1>2, SignalsDiffer DEF Due, Later, Marked
<1>4. CASE x # d
  <2>1. \A m \in Nat : Armed(x, m)' <=> Armed(x, m)
    BY <1>0, <1>2, <1>4, RegisteredArms DEF Armed
  <2>2. SameSignals(x)
    BY <1>3, <1>4, <2>1 DEF SameSignals
  <2>3. Frame(x)
    BY <1>2, <2>2, FaultsKeepLossy DEF Frame, TurnMayEnd
  <2> QED
    BY <2>3, FrameSound
<1>5. CASE x = d
  <2>1. \A m \in Nat : /\ Armed(d, m)' => Armed(d, m) \/ m = n
                       /\ Armed(d, m) /\ m >= n => Armed(d, m)'
    BY <1>0, <1>2, RegisteredArms DEF Armed
  <2>2. \E m \in Nat : m >= n /\ Armed(d, m)' /\ (m = n \/ Armed(d, m))
    BY <1>0, <1>2, RegisteredArms DEF Armed
  <2>3. \A m \in Nat : Signal(d, m)' => Signal(d, m)
    BY <1>2, <1>3, <2>1 DEF Signal
  <2>4. n <= row[d].rev
    BY <1>0, <1>2 DEF Sound, SignalsAreOnce, Signal
  <2>5. PICK k \in Nat : k = row[d].rev
    BY <1>1
  <2>6. Signal(d, k) => Signal(d, k)'
    <3>1. CASE Due(d, k) \/ (Later(d, k) /\ k # n)
      BY <1>3, <3>1 DEF Signal
    <3>2. CASE Armed(d, k)
      BY <2>1, <2>4, <2>5, <3>2 DEF Signal
    <3>3. CASE k = n
      <4>1. PICK m \in Nat : m >= n /\ Armed(d, m)' /\ (m = n \/ Armed(d, m))
        BY <2>2
      <4>2. Armed(d, m) => m <= k
        BY <1>0, <2>5 DEF Sound, SignalsAreOnce, Signal
      <4>3. m = k
        BY <3>3, <4>1, <4>2
      <4> QED
        BY <4>1, <4>3 DEF Signal
    <3> QED
      BY <3>1, <3>2, <3>3 DEF Signal
  <2>7. Driven(d)'
    BY <1>0, <1>2, <2>5, <2>6 DEF Sound, Driven, InFlight, faultVars, Signal, Due, Later, Armed
  <2>8. Untouched(d)'
    BY <1>0, <1>2, <2>3 DEF Sound, Untouched
  <2>9. HandlerMatchesRow(d)' /\ StoppedHasNoLive(d)' /\ TurnIsOfStart(d)'
    BY <1>0, <1>2 DEF Sound, HandlerMatchesRow, StoppedHasNoLive, TurnIsOfStart, Live, InFlight, taskVars
  <2>10. SignalsAreOnce(d)'
    <3>1. ~Due(d, n) /\ ~Armed(d, n)
      BY <1>0, <1>2 DEF Sound, SignalsAreOnce
    <3> QED
      BY <1>0, <1>2, <1>3, <2>1, <2>3, <3>1 DEF Sound, SignalsAreOnce, InFlight
  <2> QED
    BY <1>5, <2>7, <2>8, <2>9, <2>10 DEF Sound
<1> QED
  BY <1>4, <1>5

LEMMA FireSound ==
    ASSUME StartInv, NEW g \in timers, NEW x \in Dispatches, FireTimer(g)
    PROVE  Sound(x)'
<1>0. TypeOK /\ Sound(x)
  BY DEF StartInv
<1>1. PICK d \in Dispatches, n \in Nat : g = Gen(d, n)
  BY <1>0 DEF TypeOK, Generation, Gen
<1>2. /\ row' = row /\ turn' = turn /\ handler' = handler /\ UNCHANGED <<taskVars, recovered, faultVars>>
      /\ Armed(d, n) /\ hints' = hints \cup {StartDue(d, n)} /\ timers' = timers \ {Gen(d, n)}
  BY <1>1 DEF FireTimer, rows, memory, Armed, Gen
<1>3. \A y \in Dispatches, m \in Nat :
         /\ Due(y, m)' <=> Due(y, m) \/ (y = d /\ m = n)
         /\ Later(y, m)' <=> Later(y, m)
         /\ Armed(y, m)' <=> Armed(y, m) /\ ~(y = d /\ m = n)
         /\ Marked(y, m)' <=> Marked(y, m)
  BY <1>2, SignalsDiffer DEF Due, Later, Armed, Marked
<1>4. \A m \in Nat : Signal(x, m)' <=> Signal(x, m)
  BY <1>2, <1>3 DEF Signal
<1>5. PICK k \in Nat : k = row[x].rev
  BY <1>0, HandlerRev
<1>6. Driven(x)'
  BY <1>0, <1>2, <1>4, <1>5 DEF Sound, Driven, InFlight, faultVars, Signal, Due, Later, Armed
<1>7. Untouched(x)'
  BY <1>0, <1>2, <1>4 DEF Sound, Untouched
<1>8. HandlerMatchesRow(x)' /\ StoppedHasNoLive(x)' /\ TurnIsOfStart(x)'
  BY <1>0, <1>2 DEF Sound, HandlerMatchesRow, StoppedHasNoLive, TurnIsOfStart, Live, InFlight, taskVars
<1>9. SignalsAreOnce(x)'
  BY <1>0, <1>2, <1>3, <1>4 DEF Sound, SignalsAreOnce, InFlight
<1> QED
  BY <1>6, <1>7, <1>8, <1>9 DEF Sound

LEMMA LoseSound ==
    ASSUME StartInv, NEW h \in hints, NEW x \in Dispatches, LoseHint(h)
    PROVE  Sound(x)'
<1>1. Drops(x)
  BY DEF LoseHint, rows, memory, Drops, Due, Later, Armed, Marked
<1>2. Driven(x)'
  BY DEF LoseHint, ControllerFails, Driven
<1> QED
  BY <1>1, <1>2, DropsSound

-----------------------------------------------------------------------------
(* What closes and opens Dispatches                                         *)

\* Hints for the cleanup are not signals.
LEMMA CleanupsSignalNothing ==
    ASSUME NEW C \in SUBSET Dispatches, hints' = hints \cup {Cleanup(e) : e \in C},
           UNCHANGED <<timers, recovered>>, NEW x
    PROVE  SameSignals(x)
  BY SignalsDiffer DEF SameSignals, Due, Later, Armed, Marked

LEMMA ClosedStatus ==
    ASSUME NEW r \in RowType, NEW reason
    PROVE  Closed(r, reason).status = "closed" /\ Closed(r, reason).rev = r.rev
           /\ Closed(r, reason).superseded = r.superseded /\ Closed(r, reason).reason = reason
  BY DEF Closed, RowType

LEMMA InvalidSound ==
    ASSUME StartInv, NEW d \in Dispatches, NEW x \in Dispatches, InvalidStart(d)
    PROVE  Sound(x)'
<1>0. TypeOK /\ Sound(d) /\ Sound(x)
  BY DEF StartInv
<1>1. /\ UNCHANGED <<turn, timers, recovered, faultVars>> /\ InFlight(d) /\ Ends(d) /\ ~handler[d].rotated
      /\ handler[d].step \in {"read", "recovering"} /\ row[x] \in RowType /\ row[d] \in RowType
  BY <1>0, HandlerRev DEF InvalidStart, InFlight, Sound, HandlerMatchesRow
<1>2. handler'[d] = Idle /\ \A e \in Dispatches \ {d} : handler'[e] = handler[e]
  BY <1>0, <1>1, HandlerOf
<1>3. /\ row[d].rev = handler[d].rev /\ row[d].status \notin {"unused", "open"}
      /\ Exact(d, handler[d].rev) <=> row[d].status = "starting"
  BY <1>1, ExactMeansStarting, InFlightOpened
<1>4. turn[d].state # "begun" /\ KeepsLossy /\ TurnMayEnd(x)
  BY <1>0, <1>1, FaultsKeepLossy DEF Sound, TurnIsOfStart, TurnMayEnd
<1>5. CASE ~(Exact(d, handler[d].rev) /\ control = handler[d].control)
  <2>1. UNCHANGED <<taskVars, row, hints>>
    BY <1>5 DEF InvalidStart
  <2>2. CASE x # d
    BY <1>0, <1>1, <1>2, <1>4, <2>1, <2>2, OthersFrame, FrameSound
  <2>3. CASE x = d
    <3>1. row[d].status # "starting"
      BY <1>0, <1>1, <1>3, <1>5 DEF Sound, HandlerMatchesRow
    <3>2. Finishes(d)
      BY <1>1, <1>2, <1>3, <1>4, <2>1, <3>1, KeptSignals DEF Finishes
    <3> QED
      BY <2>3, <3>2, FinishesSound
  <2> QED
    BY <2>2, <2>3
<1>6. CASE Exact(d, handler[d].rev) /\ control = handler[d].control
  <2>0. /\ row' = [e \in Dispatches |-> IF e = d THEN Closed(row[e], "control_failed")
                                        ELSE IF Live(e) THEN Closed(row[e], "paused") ELSE row[e]]
        /\ hints' = hints \cup {Cleanup(e) : e \in {y \in Dispatches \ {d} : Live(y)}}
    BY <1>6 DEF InvalidStart
  <2>1. SameSignals(x)
    BY <1>1, <2>0, CleanupsSignalNothing
  <2>2. CASE x = d
    <3>1. row'[d].status = "closed" /\ row'[d].rev = row[d].rev
      BY <1>1, <2>0, ClosedStatus
    <3>2. Finishes(d)
      BY <1>1, <1>2, <1>4, <2>1, <2>2, <3>1 DEF Finishes
    <3> QED
      BY <2>2, <3>2, FinishesSound
  <2>3. CASE x # d /\ Live(x)
    <3>1. Closes(x)
      BY <1>1, <1>2, <2>0, <2>1, <2>3, ClosedStatus DEF Closes, Live
    <3> QED
      BY <3>1, ClosesSound
  <2>4. CASE x # d /\ ~Live(x)
    <3>1. KeepsDead(x)
      BY <1>1, <1>2, <2>0, <2>1, <2>4 DEF KeepsDead
    <3> QED
      BY <3>1, DeadSound
  <2> QED
    BY <2>2, <2>3, <2>4
<1> QED
  BY <1>5, <1>6

LEMMA CleanupSound ==
    ASSUME StartInv, NEW d \in Dispatches, NEW x \in Dispatches, CleanupStep(d) \/ EndTurn(d)
    PROVE  Sound(x)'
<1>0. TypeOK
  BY DEF StartInv
<1>1. CASE RevokeClosed(d)
  <2>1. SameSignals(x)
    BY <1>1, SignalsDiffer DEF RevokeClosed, SameSignals, Due, Later, Armed, Marked
  <2> QED
    BY <1>1, <2>1, FrameSound, FaultsKeepLossy DEF RevokeClosed, Frame, rows, TurnMayEnd
<1>2. CASE StopClosed(d)
  <2>1. KeepsLossy /\ TurnMayEnd(x)
    BY <1>0, <1>2, StopEnds DEF StopClosed
  <2> QED
    BY <1>2, <2>1, FrameSound, KeptSignals DEF StopClosed, Frame, rows
<1>3. CASE EndTurn(d)
  BY <1>0, <1>3, FrameSound, KeptSignals, FaultsKeepLossy
     DEF EndTurn, Frame, rows, TurnMayEnd, TypeOK, TurnType
<1> QED
  BY <1>1, <1>2, <1>3 DEF CleanupStep

LEMMA NodeSound ==
    ASSUME StartInv, NEW d \in Dispatches, NEW x \in Dispatches, NodeCloses(d)
    PROVE  Sound(x)'
<1>0. TypeOK /\ row[d] \in RowType
  BY HandlerRev DEF StartInv
<1>1. /\ UNCHANGED <<taskVars, handler, turn, hints, timers, recovered, faultVars>> /\ Live(d)
      /\ row' = [row EXCEPT ![d] = Closed(@, "boundary")]
  BY DEF NodeCloses, MayCall, memory
<1>2. SameSignals(x)
  BY <1>1, KeptSignals
<1>3. CASE x = d
  BY <1>0, <1>1, <1>2, <1>3, ClosedStatus, ClosesSound DEF Closes, Live, TypeOK
<1>4. CASE x # d
  BY <1>0, <1>1, <1>2, <1>4, FrameSound, FaultsKeepLossy DEF Frame, TurnMayEnd, TypeOK
<1> QED
  BY <1>3, <1>4

LEMMA WatchdogSound ==
    ASSUME StartInv, NEW d \in Dispatches, NEW e \in Dispatches, NEW x \in Dispatches,
           WatchdogReplace(d, e)
    PROVE  Sound(x)'
<1>0. TypeOK /\ row[d] \in RowType /\ Sound(e)
  BY HandlerRev DEF StartInv
<1>1. /\ UNCHANGED <<taskVars, handler, turn, timers, recovered, faultVars>>
      /\ task = "running" /\ row[d].status = "open" /\ row[e].status = "unused" /\ d # e
      /\ row' = [row EXCEPT ![d] = Closed(@, "watchdog_superseded"), ![e] = Opened(d)]
      /\ hints' = hints \cup {Cleanup(d), StartDue(e, 0)}
  BY DEF WatchdogReplace, memory
<1>2. \A n \in Nat : /\ Due(x, n)' <=> Due(x, n) \/ (x = e /\ n = 0)
                     /\ Later(x, n)' <=> Later(x, n)
                     /\ Armed(x, n)' <=> Armed(x, n)
                     /\ Marked(x, n)' <=> Marked(x, n)
  BY <1>1, SignalsDiffer DEF Due, Later, Armed, Marked
<1>3. x # e => SameSignals(x)
  BY <1>2 DEF SameSignals
<1>4. CASE x = d
  BY <1>0, <1>1, <1>3, <1>4, ClosedStatus, ClosesSound DEF Closes, TypeOK
<1>5. CASE x = e
  <2>1. \A n \in Nat : ~Signal(e, n)
    BY <1>0, <1>1 DEF Sound, Untouched
  <2>2. row'[e].status = "starting" /\ row'[e].rev = 0
    BY <1>0, <1>1 DEF TypeOK, Opened
  <2>3. Opens(e)
    BY <1>1, <1>2, <1>5, <2>1, <2>2 DEF Opens, Signal, taskVars
  <2> QED
    BY <1>5, <2>3, OpensSound
<1>6. CASE x \notin {d, e}
  BY <1>0, <1>1, <1>3, <1>6, FrameSound, FaultsKeepLossy DEF Frame, TurnMayEnd, TypeOK
<1> QED
  BY <1>4, <1>5, <1>6

LEMMA ControlSound ==
    ASSUME StartInv, NEW x \in Dispatches, PauseTask \/ CancelTask \/ ResumeTask
    PROVE  Sound(x)'
<1>0. TypeOK /\ row[x] \in RowType /\ Sound(x)
  BY HandlerRev DEF StartInv
<1>1. ASSUME NEW status, NEW reason, StopTask(status, reason) PROVE Sound(x)'
  <2>1. /\ UNCHANGED <<handler, turn, timers, recovered, faultVars>>
        /\ row' = [d \in Dispatches |-> IF Live(d) THEN Closed(row[d], reason) ELSE row[d]]
        /\ hints' = hints \cup {Cleanup(d) : d \in {y \in Dispatches : Live(y)}}
    BY <1>1 DEF StopTask, CloseLive, memory
  <2>2. SameSignals(x)
    BY <2>1, CleanupsSignalNothing
  <2>3. CASE Live(x)
    <3>1. Closes(x)
      BY <1>0, <2>1, <2>2, <2>3, ClosedStatus DEF Closes, Live
    <3> QED
      BY <3>1, ClosesSound
  <2>4. CASE ~Live(x)
    BY <2>1, <2>2, <2>4, DeadSound DEF KeepsDead
  <2> QED
    BY <2>3, <2>4
<1>2. CASE ResumeTask
  <2> DEFINE idle == {a \in Attempts : row[last[a]].reason \in {"paused", "control_failed"}}
  <2>1. PICK next \in [idle -> {d \in Dispatches : row[d].status = "unused"}] :
           /\ row' = [d \in Dispatches |-> IF \E a \in idle : next[a] = d THEN Opened(None) ELSE row[d]]
           /\ hints' = hints \cup {StartDue(next[a], 0) : a \in idle}
    BY <1>2 DEF ResumeTask
  <2>2. task = "paused" /\ task' = "running" /\ UNCHANGED <<handler, turn, timers, recovered, faultVars>>
    BY <1>2 DEF ResumeTask, memory
  <2>3. ~Live(x)
    BY <1>0, <2>2 DEF Sound, StoppedHasNoLive
  <2> HIDE DEF idle
  <2>4. \A n \in Nat : /\ Due(x, n)' <=> Due(x, n) \/ (n = 0 /\ \E a \in idle : next[a] = x)
                       /\ Later(x, n)' <=> Later(x, n)
                       /\ Armed(x, n)' <=> Armed(x, n)
                       /\ Marked(x, n)' <=> Marked(x, n)
    BY <2>1, <2>2, SignalsDiffer DEF Due, Later, Armed, Marked
  <2>5. CASE \E a \in idle : next[a] = x
    <3>1. row[x].status = "unused"
      BY <2>1, <2>5
    <3>2. \A n \in Nat : ~Signal(x, n)
      BY <1>0, <3>1 DEF Sound, Untouched
    <3>3. row'[x].status = "starting" /\ row'[x].rev = 0
      BY <2>1, <2>5 DEF Opened
    <3>4. Opens(x)
      BY <2>2, <2>4, <2>5, <3>1, <3>2, <3>3 DEF Opens, Signal
    <3> QED
      BY <3>4, OpensSound
  <2>6. CASE ~ \E a \in idle : next[a] = x
    <3>1. KeepsDead(x)
      BY <2>1, <2>2, <2>3, <2>4, <2>6 DEF KeepsDead, SameSignals
    <3> QED
      BY <3>1, DeadSound
  <2> QED
    BY <2>5, <2>6
<1> QED
  BY <1>1, <1>2 DEF PauseTask, CancelTask

LEMMA RestartSound ==
    ASSUME StartInv, NEW x \in Dispatches, Restart
    PROVE  Sound(x)'
<1>0. TypeOK /\ Sound(x) /\ row[x].rev \in Nat /\ turn[x] \in TurnType
  BY HandlerRev DEF StartInv
<1>1. /\ row' = row /\ UNCHANGED taskVars /\ handler'[x] = Idle
      /\ turn'[x].rev = turn[x].rev /\ turn'[x].state = "none" /\ timers' = {}
  BY <1>0 DEF Restart, rows, TypeOK, TurnType
<1>2. PICK later \in SUBSET Startable :
         /\ hints' = {StartDue(d, row[d].rev) : d \in Startable \ later}
                        \cup {StartLater(d, row[d].rev) : d \in later}
         /\ recovered' = {Gen(d, row[d].rev) : d \in Startable}
  BY DEF Restart
<1>3. \A n \in Nat : /\ Due(x, n)' <=> n = row[x].rev /\ x \in Startable \ later
                     /\ Later(x, n)' <=> n = row[x].rev /\ x \in later
                     /\ ~Armed(x, n)'
                     /\ Marked(x, n)' <=> n = row[x].rev /\ x \in Startable
  <2>1. \A n \in Nat : Due(x, n)' <=> n = row[x].rev /\ x \in Startable \ later
    BY <1>2, SignalsDiffer DEF Due
  <2>2. \A n \in Nat : Later(x, n)' <=> n = row[x].rev /\ x \in later
    BY <1>2, SignalsDiffer DEF Later
  <2>3. \A n \in Nat : Marked(x, n)' <=> n = row[x].rev /\ x \in Startable
    BY <1>2, SignalsDiffer DEF Marked
  <2> QED
    BY <1>1, <2>1, <2>2, <2>3 DEF Armed
<1>4. x \in Startable <=> row[x].status = "starting" /\ task = "running"
  BY DEF Startable
<1>5. \A n \in Nat : Signal(x, n)' <=> n = row[x].rev /\ x \in Startable
  BY <1>2, <1>3 DEF Signal
<1>6. handler'[x].step = "idle" /\ ~handler'[x].rotated
  BY <1>1 DEF Idle
<1>7. Untouched(x)'
  BY <1>0, <1>1, <1>4, <1>5, <1>6 DEF Sound, Untouched
<1>8. HandlerMatchesRow(x)' /\ StoppedHasNoLive(x)'
  BY <1>0, <1>1, <1>6 DEF Sound, HandlerMatchesRow, StoppedHasNoLive, Live, InFlight, taskVars
<1>9. SignalsAreOnce(x)'
  BY <1>0, <1>1, <1>3, <1>5, <1>6 DEF SignalsAreOnce, InFlight
<1>10. TurnIsOfStart(x)'
  BY <1>0, <1>1, <1>6 DEF Sound, TurnIsOfStart, InFlight
<1>11. Driven(x)'
  <2>1. PICK k \in Nat : k = row[x].rev
    BY <1>0
  <2>2. row[x].status = "starting" => Signal(x, k)'
    BY <1>0, <1>4, <1>5, <2>1 DEF Sound, StoppedHasNoLive, Live
  <2> QED
    BY <1>1, <2>1, <2>2 DEF Driven, Signal, Due, Later, Armed
<1> QED
  BY <1>7, <1>8, <1>9, <1>10, <1>11 DEF Sound

-----------------------------------------------------------------------------
(* The invariant of starts                                                  *)

LEMMA StartInit == Init => StartInv
<1> SUFFICES ASSUME Init, NEW x \in Dispatches PROVE Sound(x)
    BY TypeInit DEF StartInv
<1>1. /\ row[x].rev = 0 /\ row[x].superseded = None /\ task = "running"
      /\ row[x].status = IF \E a \in Attempts : First[a] = x THEN "starting" ELSE "unused"
      /\ handler[x] = Idle /\ turn[x].state = "none" /\ turn[x].rev = -1
      /\ timers = {} /\ hints = {StartDue(First[a], 0) : a \in Attempts}
  BY DEF Init, Opened
<1>2. handler[x].step = "idle" /\ ~handler[x].rotated
  BY <1>1 DEF Idle
<1>3. \A n \in Nat : /\ Due(x, n) <=> n = 0 /\ row[x].status = "starting"
                     /\ ~Later(x, n) /\ ~Armed(x, n)
  BY <1>1, SignalsDiffer DEF Due, Later, Armed
<1>4. \A n \in Nat : Signal(x, n) <=> n = 0 /\ row[x].status = "starting"
  BY <1>3 DEF Signal
<1>5. Untouched(x) /\ HandlerMatchesRow(x) /\ StoppedHasNoLive(x) /\ TurnIsOfStart(x)
  BY <1>1, <1>2, <1>4 DEF Untouched, HandlerMatchesRow, StoppedHasNoLive, TurnIsOfStart, InFlight
<1>6. SignalsAreOnce(x) /\ Driven(x)
  BY <1>1, <1>2, <1>3, <1>4 DEF SignalsAreOnce, Driven, InFlight
<1> QED
  BY <1>5, <1>6 DEF Sound

LEMMA StartNext == StartInv /\ [Next]_vars => StartInv'
<1> SUFFICES ASSUME StartInv, [Next]_vars PROVE StartInv'
    OBVIOUS
<1>0. TypeOK /\ TypeOK'
  BY TypeNext DEF StartInv
<1> SUFFICES ASSUME NEW x \in Dispatches PROVE Sound(x)'
    BY <1>0 DEF StartInv
<1>1. CASE UNCHANGED vars
  <2>1. Frame(x)
    BY <1>1, KeptSignals, FaultsKeepLossy
       DEF Frame, vars, rows, memory, TurnMayEnd
  <2> QED
    BY <2>1, FrameSound
<1>2. ASSUME NEW d \in Dispatches, Signalled(d) PROVE Sound(x)'
  <2>1. PICK h \in hints : h.gen.dispatch = d /\ (ReceiveStart(d, h.gen.rev) \/ DeferStart(d, h.gen.rev))
    BY <1>2 DEF Signalled
  <2>2. h.gen.rev \in Nat
    BY <1>0 DEF TypeOK, HintType, Generation
  <2> QED
    BY <2>1, <2>2, ReceiveSound, DeferSound
<1>3. ASSUME NEW d \in Dispatches, StarterStep(d) \/ StarterFailure(d) PROVE Sound(x)'
  BY <1>3, ForwardSound, DecisionSound, RotateSound, RetrySound, InvalidSound DEF StarterStep, StarterFailure
<1>4. ASSUME NEW d \in Dispatches, CleanupStep(d) \/ EndTurn(d) PROVE Sound(x)'
  BY <1>4, CleanupSound
<1>5. CASE \E d \in Dispatches : NodeCloses(d) \/ \E e \in Dispatches : WatchdogReplace(d, e)
  BY <1>5, NodeSound, WatchdogSound
<1>6. CASE (\E h \in hints : LoseHint(h)) \/ (\E g \in timers : FireTimer(g))
  BY <1>6, LoseSound, FireSound
<1>7. CASE PauseTask \/ CancelTask \/ ResumeTask
  BY <1>7, ControlSound
<1>8. CASE Restart
  BY <1>8, RestartSound
<1> QED
  BY <1>1, <1>2, <1>3, <1>4, <1>5, <1>6, <1>7, <1>8 DEF Next

LEMMA StartInductive == Spec => []StartInv
  BY StartInit, StartNext, PTL DEF Spec

\* A starting Dispatch of a running Task is never forgotten, in whatever order
\* its signals, its handler, its retries, a restart and the operator's control
\* commit: it is signalled, timed or in flight unless this controller lost it
\* (_handle_due, _record_provider_failure, the startup audit).
THEOREM StartsDriven == Spec => []StartIsDriven
<1>1. StartInv => StartIsDriven
  <2> SUFFICES ASSUME StartInv, NEW d \in Dispatches, Exact(d, row[d].rev)
               PROVE  \/ \E h \in hints : h.kind # "DispatchCleanupRequested" /\ h.gen = Gen(d, row[d].rev)
                      \/ Gen(d, row[d].rev) \in timers
                      \/ InFlight(d) /\ (handler[d].rev = row[d].rev \/ handler[d].rotated)
                      \/ lossy
      BY DEF StartIsDriven
  <2>1. Sound(d) /\ row[d].status = "starting"
    BY DEF StartInv, Exact
  <2>2. Due(d, row[d].rev) \/ Later(d, row[d].rev) \/ Armed(d, row[d].rev) \/ InFlight(d) \/ lossy
    BY <2>1 DEF Sound, Driven, Signal
  <2>3. CASE Due(d, row[d].rev) \/ Later(d, row[d].rev)
    BY <2>3 DEF Due, Later, StartDue, StartLater
  <2>4. CASE InFlight(d)
    BY <2>1, <2>4 DEF Sound, HandlerMatchesRow
  <2> QED
    BY <2>2, <2>3, <2>4 DEF Armed
<1> QED
  BY <1>1, StartInductive, PTL

-----------------------------------------------------------------------------
(* Turns begin in one place and closed rows stay                            *)

\* Only the start handler that has called the provider begins a turn.
LEMMA TurnsOnlyEnd ==
    ASSUME TypeOK, NEW x \in Dispatches, [Next]_vars, HasTurn(x)'
    PROVE  HasTurn(x) \/ BeginTurn(x)
<1>1. CASE \/ UNCHANGED turn
           \/ \E p : StopTurn(p)
           \/ \E d \in Dispatches : \E s : turn' = [turn EXCEPT ![d].state = s] /\ HasTurn(d)
           \/ \E d \in Dispatches : BeginTurn(d)
           \/ Restart
  <2>1. CASE UNCHANGED turn
    BY <2>1 DEF HasTurn
  <2>2. ASSUME NEW p, StopTurn(p) PROVE HasTurn(x)
    <3>1. TurnMayEnd(x)
      BY <2>2, StopEnds
    <3> QED
      BY <3>1 DEF TurnMayEnd, HasTurn
  <2>3. ASSUME NEW d \in Dispatches, NEW s, turn' = [turn EXCEPT ![d].state = s], HasTurn(d) PROVE HasTurn(x)
    BY <2>3 DEF HasTurn, TypeOK
  <2>4. ASSUME NEW d \in Dispatches, BeginTurn(d) PROVE HasTurn(x) \/ BeginTurn(x)
    BY <2>4 DEF BeginTurn, HasTurn, TypeOK
  <2>5. CASE Restart
    BY <2>5 DEF Restart, HasTurn, TypeOK, TurnType
  <2> QED
    BY <1>1, <2>1, <2>2, <2>3, <2>4, <2>5
<1>2. CASE \E d \in Dispatches : StarterStep(d)
  <2>1. PICK d \in Dispatches : StarterStep(d)
    BY <1>2
  <2>2. CASE RecoverStart(d) \/ StopPredecessor(d) \/ StopLost(d) \/ ScheduleRetry(d)
    BY <1>1, <2>2 DEF RecoverStart, StopPredecessor, StopPredecessorOf, StopLost, ScheduleRetry, NoStop
  <2>3. CASE \/ PrepareStart(d) \/ RecheckStart(d) \/ ReserveStart(d) \/ AcceptStart(d)
             \/ ReconcileStart(d) \/ RotateStart(d)
    BY <1>1, <2>3 DEF PrepareStart, RecheckStart, ReserveStart, AcceptStart, ReconcileStart, RotateStart
  <2>4. CASE BeginTurn(d)
    BY <1>1, <2>4
  <2>5. CASE RegisterTurn(d)
    BY <1>1, <2>5 DEF RegisterTurn, HasTurn
  <2> QED
    BY <2>1, <2>2, <2>3, <2>4, <2>5 DEF StarterStep
<1>3. CASE \E d \in Dispatches : StarterFailure(d)
  <2>1. PICK d \in Dispatches : StarterFailure(d)
    BY <1>3
  <2>2. CASE InvalidStart(d) \/ FailAccept(d) \/ FailHandler(d)
    BY <1>1, <2>2 DEF InvalidStart, FailAccept, FailHandler
  <2>3. CASE FailStart(d) \/ FailRotate(d)
    BY <1>1, <2>3 DEF FailStart, FailRotate, HasTurn
  <2> QED
    BY <2>1, <2>2, <2>3 DEF StarterFailure
<1>4. CASE \E d \in Dispatches : CleanupStep(d)
  BY <1>1, <1>4 DEF CleanupStep, RevokeClosed, StopClosed, NoStop
<1>5. CASE \E d \in Dispatches : EndTurn(d)
  BY <1>1, <1>5 DEF EndTurn, HasTurn
<1>6. CASE \E d \in Dispatches : Signalled(d) \/ NodeCloses(d) \/ \E e \in Dispatches : WatchdogReplace(d, e)
  BY <1>1, <1>6 DEF Signalled, ReceiveStart, DeferStart, NodeCloses, WatchdogReplace, memory
<1>7. CASE \/ UNCHANGED vars
           \/ \E h \in hints : LoseHint(h)
           \/ \E g \in timers : FireTimer(g)
           \/ PauseTask \/ CancelTask \/ ResumeTask
  BY <1>1, <1>7 DEF vars, LoseHint, FireTimer, PauseTask, CancelTask, StopTask, ResumeTask, memory
<1> QED
  BY <1>1, <1>2, <1>3, <1>4, <1>5, <1>6, <1>7 DEF Next

\* No start revision ever has a second turn: a turn that failed, or whose
\* outcome a restart left unknown, is followed only by a turn of a later
\* revision (_handle_recovered_due, _reserve_start, the rotation).
THEOREM TurnsAreNew == Spec => OneTurnPerGeneration
<1>1. ASSUME StartInv, [Next]_vars, NEW d \in Dispatches, ~HasTurn(d), HasTurn(d)'
      PROVE  turn[d]'.rev > turn[d].rev
  <2>1. TypeOK /\ Sound(d) /\ turn[d] \in TurnType /\ handler[d].rev \in Nat
    BY <1>1, HandlerRev DEF StartInv
  <2>2. BeginTurn(d)
    BY <1>1, <2>1, TurnsOnlyEnd
  <2>3. turn'[d].rev = handler[d].rev
    BY <2>1, <2>2 DEF BeginTurn, TypeOK
  <2>4. turn[d].rev < handler[d].rev
    BY <1>1, <2>1, <2>2 DEF BeginTurn, Sound, TurnIsOfStart, HasTurn
  <2> QED
    BY <2>1, <2>3, <2>4 DEF TurnType
<1>2. StartInv /\ [Next]_vars =>
         [\A d \in Dispatches : (~HasTurn(d) /\ HasTurn(d)') => turn[d]'.rev > turn[d].rev]_vars
  BY <1>1
<1> QED
  BY <1>2, StartInductive, PTL DEF Spec, OneTurnPerGeneration

LEMMA ClosedStays ==
    ASSUME StartInv, NEW p \in Dispatches, row[p].status = "closed", [Next]_vars
    PROVE  row'[p] = row[p]
<1>0. TypeOK
  BY DEF StartInv
<1>1. CASE \/ UNCHANGED row
           \/ \E d \in Dispatches : \E r : row' = [row EXCEPT ![d] = r] /\ row[d].status # "closed"
           \/ \E d \in Dispatches, e \in Dispatches : WatchdogReplace(d, e)
  BY <1>0, <1>1 DEF WatchdogReplace, TypeOK
<1>2. CASE \E d \in Dispatches : StarterStep(d)
  <2>1. PICK d \in Dispatches : StarterStep(d)
    BY <1>2
  <2>2. CASE AcceptStart(d) \/ RotateStart(d)
    BY <1>0, <2>2 DEF AcceptStart, RotateStart, Accepted, Exact, TypeOK
  <2>3. CASE ~(AcceptStart(d) \/ RotateStart(d))
    BY <1>1, <2>1, <2>3
       DEF StarterStep, RecoverStart, PrepareStart, StopPredecessor, RecheckStart, ReserveStart, BeginTurn,
           RegisterTurn, StopLost, ReconcileStart, ScheduleRetry, rows
  <2> QED
    BY <2>2, <2>3
<1>3. CASE \E d \in Dispatches : StarterFailure(d)
  <2>1. PICK d \in Dispatches : StarterFailure(d)
    BY <1>3
  <2>2. CASE InvalidStart(d)
    BY <1>0, <2>2 DEF InvalidStart, Exact, Live, TypeOK
  <2>3. CASE FailAccept(d)
    BY <1>0, <2>3 DEF FailAccept, Accepted, Exact, TypeOK
  <2>4. CASE FailStart(d) \/ FailRotate(d) \/ FailHandler(d)
    BY <1>1, <2>4 DEF FailStart, FailRotate, FailHandler, rows
  <2> QED
    BY <2>1, <2>2, <2>3, <2>4 DEF StarterFailure
<1>4. CASE \E d \in Dispatches : CleanupStep(d) \/ EndTurn(d)
  BY <1>1, <1>4 DEF CleanupStep, RevokeClosed, StopClosed, EndTurn, rows
<1>5. CASE \E d \in Dispatches : NodeCloses(d)
  BY <1>0, <1>5 DEF NodeCloses, MayCall, Live, TypeOK
<1>6. CASE \E d \in Dispatches : Signalled(d) \/ \E e \in Dispatches : WatchdogReplace(d, e)
  BY <1>1, <1>6 DEF Signalled, ReceiveStart, DeferStart, rows
<1>7. CASE UNCHANGED vars \/ Restart \/ (\E h \in hints : LoseHint(h)) \/ (\E g \in timers : FireTimer(g))
  BY <1>1, <1>7 DEF vars, LoseHint, FireTimer, Restart, rows
<1>8. CASE PauseTask \/ CancelTask
  BY <1>0, <1>8 DEF PauseTask, CancelTask, StopTask, CloseLive, Live
<1>9. CASE ResumeTask
  <2> DEFINE idle == {a \in Attempts : row[last[a]].reason \in {"paused", "control_failed"}}
  <2>1. PICK next \in [idle -> {d \in Dispatches : row[d].status = "unused"}] :
           row' = [d \in Dispatches |-> IF \E a \in idle : next[a] = d THEN Opened(None) ELSE row[d]]
    BY <1>9 DEF ResumeTask
  <2>2. \A a \in idle : row[next[a]].status = "unused"
    BY <2>1
  <2> HIDE DEF idle
  <2> QED
    BY <2>1, <2>2
<1> QED
  BY <1>1, <1>2, <1>3, <1>4, <1>5, <1>6, <1>7, <1>8, <1>9 DEF Next

-----------------------------------------------------------------------------
(* Turns and bindings: what keeps each of them                              *)

Bound(d, n) == Gen(d, n) \in bindings
CleanupDue(d) == Cleanup(d) \in hints

\* A row is closed by the Watchdog only once it was open, so no start of it is
\* on its way to the provider any more.
ReasonIsOfClose(d) ==
    /\ row[d].status # "closed" => row[d].reason = "none"
    /\ row[d].reason = "watchdog_superseded" =>
          handler[d].step \in {"idle", "reconciling", "failing", "failed"}

\* The binding is issued before the provider is called.
IssuedFirst(d) ==
    /\ row[d].status = "starting"
    /\ handler[d].step \in {"prepared", "ready", "checked", "starting", "accepting", "reconciling"}
    => \A n \in Nat : n = handler[d].rev => Bound(d, n)

OpenTurnIsOwn(d) ==
    row[d].status = "open" /\ HasTurn(d) =>
        /\ turn[d].state = "running" /\ turn[d].rev = row[d].rev
        /\ \A n \in Nat : n = row[d].rev => Bound(d, n)

\* A turn has a start that will settle it, an open Dispatch, or a cleanup to
\* come, unless a node's own call closed its Dispatch.
TurnIsKept(d) ==
    ~lossy /\ HasTurn(d) =>
        \/ handler[d].step \in {"starting", "accepting", "lost", "reconciling"}
        \/ handler[d].step \in {"failing", "failed"} /\ handler[d].uncertain
        \/ handler[d].step = "idle" /\ row[d].status = "open"
        \/ /\ handler[d].step = "idle" /\ row[d].status = "closed"
           /\ CleanupDue(d) \/ d \in cleaning \/ row[d].reason \notin StopReasons

BindingIsKept(d) ==
    \A n \in Nat : ~lossy /\ Bound(d, n) =>
        \/ handler[d].step \notin {"idle", "read", "recovering", "lost"} /\ n = handler[d].rev
        \/ handler[d].step = "idle" /\ row[d].status = "open"
        \/ /\ handler[d].step = "idle" /\ row[d].status = "closed"
           /\ CleanupDue(d) \/ row[d].reason \notin {"paused", "cancelled", "watchdog_superseded"}

Held(d) ==
    /\ ReasonIsOfClose(d) /\ IssuedFirst(d) /\ OpenTurnIsOwn(d)
    /\ TurnIsKept(d) /\ BindingIsKept(d)

\* What a replacement replaced was closed by the Watchdog.
ReplacesSuperseded(d) ==
    row[d].superseded # None =>
        /\ row[d].superseded \in Dispatches /\ row[row[d].superseded].status = "closed"
        /\ row[row[d].superseded].reason = "watchdog_superseded"

\* The first start of a replacement is past the stop of its predecessor.
PastStop(d) ==
    \/ row[d].rev > 0 \/ HasTurn(d)
    \/ handler[d].step \notin {"idle", "read", "recovering", "prepared"}
PredecessorIsStopped(d) ==
    ~lossy /\ row[d].superseded # None /\ PastStop(d) => ~HasTurn(row[d].superseded)

\* The first two hold of every Dispatch; the last is about a pair of them.
TurnInv ==
    /\ StartInv
    /\ \A d \in Dispatches : Held(d) /\ ReplacesSuperseded(d) /\ PredecessorIsStopped(d)

-----------------------------------------------------------------------------
(* How a step may look to the turn and the bindings of one Dispatch         *)

\* The step leaves x alone, except that its turn may end, that a closed x may
\* lose bindings, and that x may get a cleanup.
Leaves(x) ==
    /\ row'[x] = row[x] /\ handler'[x] = handler[x] /\ TurnMayEnd(x) /\ KeepsLossy
    /\ \A n \in Nat : Bound(x, n)' => Bound(x, n)
    /\ row[x].status # "closed" => \A n \in Nat : Bound(x, n) => Bound(x, n)'
    /\ ~lossy' => (CleanupDue(x) => CleanupDue(x)') /\ (x \in cleaning => x \in cleaning')

LEMMA LeavesHeld ==
    ASSUME TurnInv, NEW x \in Dispatches, Leaves(x)
    PROVE  Held(x)'
<1>0. Held(x) /\ TypeOK
  BY DEF TurnInv, StartInv
<1>1. /\ row'[x] = row[x] /\ handler'[x] = handler[x] /\ turn'[x].rev = turn[x].rev
      /\ HasTurn(x)' => HasTurn(x) /\ turn'[x].state = turn[x].state
      /\ ~lossy' => ~lossy
  BY DEF Leaves, TurnMayEnd, HasTurn, KeepsLossy
<1>2. ReasonIsOfClose(x)'
  BY <1>0, <1>1 DEF Held, ReasonIsOfClose
<1>3. IssuedFirst(x)'
  BY <1>0, <1>1 DEF Held, IssuedFirst, Leaves
<1>4. OpenTurnIsOwn(x)'
  BY <1>0, <1>1 DEF Held, OpenTurnIsOwn, Leaves
<1>5. TurnIsKept(x)'
  BY <1>0, <1>1 DEF Held, TurnIsKept, Leaves
<1>6. BindingIsKept(x)'
  BY <1>0, <1>1 DEF Held, BindingIsKept, Leaves
<1> QED
  BY <1>2, <1>3, <1>4, <1>5, <1>6 DEF Held

\* The step closes a live x, and asks for its cleanup unless a node's own call
\* closed it.
ClosesLive(x) ==
    /\ Live(x) /\ row'[x].status = "closed" /\ row'[x].rev = row[x].rev
    /\ handler'[x] = handler[x] /\ turn'[x] = turn[x] /\ KeepsLossy
    /\ \A n \in Nat : Bound(x, n)' <=> Bound(x, n)
    /\ \/ row'[x].reason = "boundary"
       \/ row'[x].reason \in {"paused", "cancelled", "watchdog_superseded"} /\ CleanupDue(x)'
    /\ row'[x].reason = "watchdog_superseded" => row[x].status = "open"

LEMMA ClosesHeld ==
    ASSUME TurnInv, NEW x \in Dispatches, ClosesLive(x)
    PROVE  Held(x)'
<1>0. Held(x) /\ Sound(x)
  BY DEF TurnInv, StartInv
<1>1. /\ row'[x].status = "closed" /\ row'[x].rev = row[x].rev /\ handler'[x] = handler[x]
      /\ turn'[x] = turn[x] /\ row[x].status \in {"starting", "open"}
      /\ HasTurn(x)' <=> HasTurn(x)
      /\ ~lossy' => ~lossy
  BY DEF ClosesLive, Live, HasTurn, KeepsLossy
<1>2. ReasonIsOfClose(x)'
  BY <1>0, <1>1 DEF Sound, HandlerMatchesRow, InFlight, ReasonIsOfClose, ClosesLive
<1>3. IssuedFirst(x)' /\ OpenTurnIsOwn(x)'
  BY <1>1 DEF IssuedFirst, OpenTurnIsOwn
<1>4. TurnIsKept(x)'
  BY <1>0, <1>1 DEF Held, TurnIsKept, ClosesLive, StopReasons
<1>5. BindingIsKept(x)'
  BY <1>0, <1>1 DEF Held, BindingIsKept, ClosesLive
<1> QED
  BY <1>2, <1>3, <1>4, <1>5 DEF Held

\* The step opens an unused x.
OpensFresh(x) ==
    /\ row[x].status = "unused" /\ row'[x].status = "starting" /\ row'[x].reason = "none"
    /\ handler'[x] = handler[x] /\ turn'[x] = turn[x] /\ KeepsLossy
    /\ \A n \in Nat : Bound(x, n)' <=> Bound(x, n)

LEMMA OpensHeld ==
    ASSUME TurnInv, NEW x \in Dispatches, OpensFresh(x)
    PROVE  Held(x)'
<1>0. Held(x) /\ Sound(x)
  BY DEF TurnInv, StartInv
<1>1. /\ row'[x].status = "starting" /\ row'[x].reason = "none" /\ handler'[x].step = "idle"
      /\ ~HasTurn(x)' /\ (~lossy' => ~lossy)
      /\ handler[x].step = "idle" /\ row[x].status = "unused"
  BY <1>0 DEF OpensFresh, Sound, Untouched, HasTurn, KeepsLossy
<1>2. ReasonIsOfClose(x)' /\ IssuedFirst(x)' /\ OpenTurnIsOwn(x)' /\ TurnIsKept(x)'
  BY <1>1 DEF ReasonIsOfClose, IssuedFirst, OpenTurnIsOwn, TurnIsKept
<1>3. BindingIsKept(x)'
  BY <1>0, <1>1 DEF Held, BindingIsKept, OpensFresh
<1> QED
  BY <1>2, <1>3 DEF Held

\* What the steps of a handler leave of the Dispatches that are not theirs.
LEMMA OthersLeft ==
    ASSUME TypeOK, NEW d \in Dispatches, NEW x \in Dispatches \ {d},
           \A e \in Dispatches \ {d} : handler'[e] = handler[e],
           row'[x] = row[x], UNCHANGED <<hints, cleaning>>, TurnMayEnd(x), KeepsLossy,
           \A n \in Nat : Bound(x, n)' => Bound(x, n),
           row[x].status # "closed" => \A n \in Nat : Bound(x, n) => Bound(x, n)'
    PROVE  Leaves(x)
  BY DEF Leaves, CleanupDue

LEMMA RevokedBound ==
    ASSUME TypeOK, NEW d \in Dispatches, bindings' = bindings \/ bindings' = Revoked(d)
    PROVE  /\ \A x \in Dispatches \ {d}, n \in Nat : Bound(x, n)' <=> Bound(x, n)
           /\ \A n \in Nat : Bound(d, n)' => Bound(d, n)
           /\ bindings' = Revoked(d) => \A n \in Nat : Bound(d, n)' => n # handler[d].rev
  BY SignalsDiffer DEF Revoked, Bound

-----------------------------------------------------------------------------
(* The start handler keeps them                                             *)

LEMMA PredecessorClosed ==
    ASSUME TurnInv, NEW d \in Dispatches, InFlight(d), handler[d].step \notin {"reconciling", "failing", "failed"}
    PROVE  /\ row[d].superseded # d
           /\ \A x \in Dispatches : x = row[d].superseded => row[x].status = "closed"
<1>1. \A x \in Dispatches : x # None
  BY NoneAssumption
<1>2. handler[d].step \notin {"idle", "reconciling", "failing", "failed"}
  BY DEF InFlight
<1>3. ReplacesSuperseded(d) /\ ReasonIsOfClose(d)
  BY DEF TurnInv, Held
<1> QED
  BY <1>1, <1>2, <1>3 DEF ReplacesSuperseded, ReasonIsOfClose

LEMMA PreparingLeaves ==
    ASSUME TurnInv, NEW d \in Dispatches, NEW x \in Dispatches \ {d},
           RecoverStart(d) \/ PrepareStart(d) \/ StopPredecessor(d)
    PROVE  Leaves(x)
<1>0. TypeOK /\ InFlight(d) /\ handler[d].step \in {"recovering", "read", "prepared"}
  BY DEF TurnInv, StartInv, RecoverStart, PrepareStart, StopPredecessor, InFlight
<1>1. \A e \in Dispatches : \A n : Gen(e, n).dispatch = e
  BY DEF Gen
<1>2. x = row[d].superseded => row[x].status = "closed"
  BY <1>0, PredecessorClosed
<1>3. CASE RecoverStart(d)
  <2>1. StopTurn(row[d].superseded) \/ NoStop
    BY <1>3 DEF RecoverStart
  <2>2. \A n \in Nat : /\ Bound(x, n)' => Bound(x, n)
                       /\ row[x].status # "closed" => (Bound(x, n) => Bound(x, n)')
    BY <1>1, <1>2, <1>3 DEF RecoverStart, Bound
  <2> QED
    BY <1>0, <1>3, <2>1, <2>2, StopEnds, OthersLeft DEF RecoverStart, rows, TypeOK
<1>4. CASE PrepareStart(d)
  <2>1. \A n \in Nat : Bound(x, n)' <=> Bound(x, n)
    BY <1>4, SignalsDiffer DEF PrepareStart, Bound
  <2> QED
    BY <1>0, <1>4, <2>1, HandlerOf, FaultsKeepLossy, OthersLeft DEF PrepareStart, rows, TurnMayEnd
<1>5. CASE StopPredecessor(d)
  <2>1. StopTurn(row[d].superseded) \/ NoStop
    BY <1>5 DEF StopPredecessor, StopPredecessorOf
  <2>2. \A n \in Nat : /\ Bound(x, n)' => Bound(x, n)
                       /\ row[x].status # "closed" => (Bound(x, n) => Bound(x, n)')
    BY <1>1, <1>2, <1>5 DEF StopPredecessor, StopPredecessorOf, Bound
  <2> QED
    BY <1>0, <1>5, <2>1, <2>2, HandlerOf, StopEnds, OthersLeft DEF StopPredecessor, rows
<1> QED
  BY <1>3, <1>4, <1>5

LEMMA StartingLeaves ==
    ASSUME TurnInv, NEW d \in Dispatches, NEW x \in Dispatches \ {d},
           \/ RecheckStart(d) \/ ReserveStart(d) \/ BeginTurn(d) \/ RegisterTurn(d) \/ FailStart(d)
           \/ AcceptStart(d) \/ StopLost(d) \/ FailAccept(d) \/ ReconcileStart(d)
           \/ RotateStart(d) \/ FailRotate(d) \/ ScheduleRetry(d) \/ FailHandler(d)
    PROVE  Leaves(x)
<1>0. TypeOK
  BY DEF TurnInv, StartInv
<1>1. \A e \in Dispatches \ {d} : handler'[e] = handler[e]
  BY <1>0, HandlerOf
     DEF RecheckStart, ReserveStart, BeginTurn, RegisterTurn, FailStart, AcceptStart, StopLost, FailAccept,
         ReconcileStart, RotateStart, FailRotate, ScheduleRetry, FailHandler, TypeOK
<1>2. row'[x] = row[x]
  BY <1>0
     DEF RecheckStart, ReserveStart, BeginTurn, RegisterTurn, FailStart, AcceptStart, StopLost, FailAccept,
         ReconcileStart, RotateStart, FailRotate, ScheduleRetry, FailHandler, TypeOK, rows, Accepted
<1>3. UNCHANGED <<hints, cleaning>>
  BY DEF RecheckStart, ReserveStart, BeginTurn, RegisterTurn, FailStart, AcceptStart, StopLost, FailAccept,
         ReconcileStart, RotateStart, FailRotate, ScheduleRetry, FailHandler
<1>4. \A n \in Nat : Bound(x, n)' <=> Bound(x, n)
  <2>1. bindings' = bindings \/ bindings' = Revoked(d)
    BY DEF RecheckStart, ReserveStart, BeginTurn, RegisterTurn, FailStart, AcceptStart, StopLost, FailAccept,
           ReconcileStart, RotateStart, FailRotate, ScheduleRetry, FailHandler
  <2> QED
    BY <1>0, <2>1, RevokedBound
<1>5. TurnMayEnd(x) /\ KeepsLossy
  <2>1. CASE \/ RecheckStart(d) \/ ReserveStart(d) \/ AcceptStart(d) \/ FailAccept(d) \/ ReconcileStart(d)
             \/ RotateStart(d) \/ FailHandler(d)
    BY <2>1, FaultsKeepLossy
       DEF RecheckStart, ReserveStart, AcceptStart, FailAccept, ReconcileStart, RotateStart, FailHandler,
           TurnMayEnd
  <2>2. CASE StopLost(d) \/ ScheduleRetry(d)
    <3>1. StopTurn(d) \/ NoStop
      BY <2>2 DEF StopLost, ScheduleRetry
    <3> QED
      BY <1>0, <3>1, StopEnds
  <2>3. CASE BeginTurn(d) \/ RegisterTurn(d) \/ FailStart(d)
    BY <1>0, <2>3, FaultsKeepLossy DEF BeginTurn, RegisterTurn, FailStart, TurnMayEnd, TypeOK
  <2>4. CASE FailRotate(d)
    <3>1. turn'[x] = turn[x]
      BY <1>0, <2>4 DEF FailRotate, TypeOK
    <3> QED
      BY <2>4, <3>1, FaultsKeepLossy DEF FailRotate, TurnMayEnd
  <2> QED
    BY <2>1, <2>2, <2>3, <2>4
<1> QED
  BY <1>0, <1>1, <1>2, <1>3, <1>4, <1>5, OthersLeft

\* A handler before the provider's answer has no turn, and only the binding of
\* its own revision once it issued it.
LEMMA HandlerHolds ==
    ASSUME TurnInv, NEW d \in Dispatches, InFlight(d)
    PROVE  /\ row[d].status = "open" => handler[d].step = "reconciling"
           /\ row[d].status # "unused"
           /\ row[d].reason = "watchdog_superseded" => handler[d].step \in {"reconciling", "failing", "failed"}
           /\ ~lossy => \A n \in Nat : Bound(d, n) =>
                 n = handler[d].rev /\ handler[d].step \notin {"read", "recovering", "lost"}
           /\ ~lossy /\ HasTurn(d) =>
                 \/ handler[d].step \in {"starting", "accepting", "lost", "reconciling"}
                 \/ handler[d].step \in {"failing", "failed"} /\ handler[d].uncertain
           /\ handler[d].step # "starting" => turn[d].state # "begun"
  BY InFlightOpened
     DEF TurnInv, Held, StartInv, Sound, TurnIsOfStart, InFlight, ReasonIsOfClose, BindingIsKept, TurnIsKept

LEMMA PreparingHeld ==
    ASSUME TurnInv, NEW d \in Dispatches, RecoverStart(d) \/ PrepareStart(d) \/ StopPredecessor(d)
    PROVE  Held(d)'
<1>0. TypeOK /\ Held(d) /\ handler[d].rev \in Nat
  BY HandlerRev DEF TurnInv, StartInv
<1>1. /\ row' = row /\ InFlight(d) /\ handler[d].step \in {"recovering", "read", "prepared"}
  BY DEF RecoverStart, PrepareStart, StopPredecessor, InFlight, rows
<1>2. /\ row[d].status \notin {"unused", "open"} /\ row[d].reason # "watchdog_superseded"
      /\ ~lossy => \A n \in Nat : Bound(d, n) => n = handler[d].rev /\ handler[d].step = "prepared"
      /\ ~lossy => ~HasTurn(d)
  BY <1>1, HandlerHolds
<1>3. \A n \in Nat : Gen(d, n).dispatch = d
  BY DEF Gen
<1>4. TurnMayEnd(d) /\ KeepsLossy
  <2>1. CASE RecoverStart(d) \/ StopPredecessor(d)
    <3>1. StopTurn(row[d].superseded) \/ NoStop
      BY <2>1 DEF RecoverStart, StopPredecessor, StopPredecessorOf
    <3> QED
      BY <1>0, <3>1, StopEnds
  <2>2. CASE PrepareStart(d)
    BY <2>2, FaultsKeepLossy DEF PrepareStart, TurnMayEnd
  <2> QED
    BY <2>1, <2>2
<1>5. /\ ~lossy' => ~lossy /\ ~HasTurn(d)'
      /\ row'[d].status \notin {"unused", "open"} /\ row'[d].reason # "watchdog_superseded"
  BY <1>1, <1>2, <1>4 DEF TurnMayEnd, KeepsLossy, HasTurn
<1>6. ReasonIsOfClose(d)' /\ OpenTurnIsOwn(d)' /\ TurnIsKept(d)'
  BY <1>0, <1>1, <1>5 DEF Held, ReasonIsOfClose, OpenTurnIsOwn, TurnIsKept
<1>7. CASE RecoverStart(d)
  <2>1. handler'[d].step = "failing"
    BY <1>0, <1>7 DEF RecoverStart, TypeOK, HandlerType
  <2>2. \A n \in Nat : ~Bound(d, n)'
    BY <1>3, <1>7 DEF RecoverStart, Bound
  <2>3. IssuedFirst(d)' /\ BindingIsKept(d)'
    BY <2>1, <2>2 DEF IssuedFirst, BindingIsKept
  <2> QED
    BY <1>6, <2>3 DEF Held
<1>8. CASE PrepareStart(d)
  <2>1. handler'[d].step = "prepared" /\ handler'[d].rev = handler[d].rev
    BY <1>0, <1>8, HandlerOf DEF PrepareStart
  <2>2. \A n \in Nat : Bound(d, n)' <=> Bound(d, n) \/ n = handler[d].rev
    BY <1>8, SignalsDiffer DEF PrepareStart, Bound
  <2>3. IssuedFirst(d)'
    BY <2>1, <2>2 DEF IssuedFirst
  <2>4. BindingIsKept(d)'
    BY <1>2, <1>5, <2>1, <2>2 DEF BindingIsKept
  <2> QED
    BY <1>6, <2>3, <2>4 DEF Held
<1>9. CASE StopPredecessor(d)
  <2>1. handler'[d].step = "ready" /\ handler'[d].rev = handler[d].rev /\ handler[d].step = "prepared"
    BY <1>0, <1>9, HandlerOf DEF StopPredecessor
  <2>2. \A n \in Nat : Bound(d, n)' <=> Bound(d, n)
    <3>1. row[d].superseded # d
      BY <1>1, PredecessorClosed
    <3> QED
      BY <1>3, <1>9, <3>1 DEF StopPredecessor, StopPredecessorOf, Bound
  <2>3. IssuedFirst(d)'
    BY <1>0, <1>1, <2>1, <2>2 DEF Held, IssuedFirst
  <2>4. BindingIsKept(d)'
    BY <1>2, <1>5, <2>1, <2>2 DEF BindingIsKept
  <2> QED
    BY <1>6, <2>3, <2>4 DEF Held
<1> QED
  BY <1>7, <1>8, <1>9

\* Between the recheck and the provider's answer.
LEMMA CallingHeld ==
    ASSUME TurnInv, NEW d \in Dispatches,
           \/ RecheckStart(d) \/ ReserveStart(d) \/ BeginTurn(d) \/ RegisterTurn(d) \/ FailStart(d)
    PROVE  Held(d)'
<1>0. /\ TypeOK /\ Held(d) /\ handler[d].rev \in Nat /\ StartInv
      /\ turn[d] \in TurnType /\ handler[d] \in HandlerType
  BY HandlerRev DEF TurnInv, StartInv
<1>1. /\ row' = row /\ InFlight(d) /\ handler[d].step \in {"ready", "checked", "starting"}
  BY DEF RecheckStart, ReserveStart, BeginTurn, RegisterTurn, FailStart, InFlight, rows
<1>2. /\ row[d].status \notin {"unused", "open"} /\ row[d].reason # "watchdog_superseded"
      /\ ~lossy => \A n \in Nat : Bound(d, n) => n = handler[d].rev
      /\ ~lossy /\ HasTurn(d) => handler[d].step = "starting"
  BY <1>1, HandlerHolds
<1>3. ReasonIsOfClose(d)' /\ OpenTurnIsOwn(d)'
  BY <1>0, <1>1, <1>2 DEF Held, ReasonIsOfClose, OpenTurnIsOwn
<1>4. ~lossy' => ~lossy
  BY FaultsKeepLossy DEF RecheckStart, ReserveStart, BeginTurn, RegisterTurn, FailStart, KeepsLossy
<1>5. CASE RecheckStart(d) /\ Ends(d)
  <2>1. handler'[d].step = "idle" /\ HasTurn(d)' = HasTurn(d) /\ handler[d].step = "ready"
    BY <1>0, <1>5, HandlerOf DEF RecheckStart, HasTurn, Idle
  <2>2. bindings' = Revoked(d)
    <3>1. ~Goes(d, "checked")
      BY <1>0, <2>1, HandlerOf
    <3> QED
      BY <1>5, <3>1 DEF RecheckStart
  <2>3. ~lossy => \A n \in Nat : ~Bound(d, n)'
    BY <1>0, <1>2, <2>2, RevokedBound
  <2>4. IssuedFirst(d)' /\ TurnIsKept(d)' /\ BindingIsKept(d)'
    BY <1>2, <1>4, <2>1, <2>3 DEF IssuedFirst, TurnIsKept, BindingIsKept
  <2> QED
    BY <1>3, <2>4 DEF Held
<1>6. CASE ~(RecheckStart(d) /\ Ends(d))
  <2>1. bindings' = bindings
    BY <1>6 DEF RecheckStart, ReserveStart, BeginTurn, RegisterTurn, FailStart
  <2>2. \A n \in Nat : Bound(d, n)' <=> Bound(d, n)
    BY <2>1 DEF Bound
  <2>3. /\ handler'[d].rev = handler[d].rev
        /\ handler'[d].step \in {"checked", "starting", "accepting", "failing"}
        /\ ~lossy' /\ HasTurn(d)' =>
              \/ handler'[d].step \in {"starting", "accepting"}
              \/ handler'[d].step = "failing" /\ handler'[d].uncertain
    <3>1. CASE RecheckStart(d)
      BY <1>0, <1>2, <1>4, <1>6, <3>1, HandlerOf DEF RecheckStart, HasTurn
    <3>2. CASE ReserveStart(d)
      BY <1>0, <3>2, HandlerOf DEF ReserveStart, HasTurn
    <3>3. CASE BeginTurn(d)
      BY <1>0, <3>3 DEF BeginTurn
    <3>4. CASE RegisterTurn(d)
      BY <1>0, <3>4, HandlerOf DEF RegisterTurn
    <3>5. CASE FailStart(d)
      <4>1. Sound(d)
        BY <1>0 DEF StartInv
      <4>2. ~lossy /\ HasTurn(d) => turn[d].state = "begun"
        BY <1>0, <1>2, <3>5, <4>1 DEF Sound, TurnIsOfStart, HasTurn, TurnType
      <4>3. ~lossy' => ~HasTurn(d)'
        BY <1>0, <1>4, <3>5, <4>2 DEF FailStart, HasTurn, TypeOK
      <4> QED
        BY <1>0, <3>5, <4>3, HandlerOf DEF FailStart
    <3> QED
      BY <3>1, <3>2, <3>3, <3>4, <3>5
  <2>4. IssuedFirst(d)'
    BY <1>0, <1>1, <2>2, <2>3 DEF Held, IssuedFirst
  <2>5. TurnIsKept(d)' /\ BindingIsKept(d)'
    BY <1>2, <1>4, <2>2, <2>3 DEF TurnIsKept, BindingIsKept
  <2> QED
    BY <1>3, <2>4, <2>5 DEF Held
<1> QED
  BY <1>5, <1>6

\* From the provider's answer to the acceptance.
LEMMA AcceptingHeld ==
    ASSUME TurnInv, NEW d \in Dispatches, AcceptStart(d) \/ FailAccept(d) \/ ReconcileStart(d) \/ StopLost(d)
    PROVE  Held(d)'
<1>0. /\ TypeOK /\ Held(d) /\ Sound(d) /\ handler[d].rev \in Nat /\ StartInv
      /\ turn[d] \in TurnType /\ handler[d] \in HandlerType /\ row[d] \in RowType
  BY HandlerRev DEF TurnInv, StartInv
<1>1. InFlight(d) /\ handler[d].step \in {"accepting", "reconciling", "lost"} /\ ~handler[d].rotated
  BY <1>0 DEF AcceptStart, FailAccept, ReconcileStart, StopLost, InFlight, Sound, HandlerMatchesRow
<1>2. /\ row[d].rev = handler[d].rev
      /\ Exact(d, handler[d].rev) <=> row[d].status = "starting"
      /\ row[d].status = "open" => task = "running"
  BY <1>0, <1>1, ExactMeansStarting
<1>3. /\ row[d].status = "open" => handler[d].step = "reconciling"
      /\ row[d].status # "unused" /\ turn[d].state # "begun"
      /\ row[d].reason = "watchdog_superseded" => handler[d].step = "reconciling"
      /\ ~lossy => \A n \in Nat : Bound(d, n) => n = handler[d].rev /\ handler[d].step # "lost"
      /\ handler[d].step # "lost" => turn[d].rev = handler[d].rev
  BY <1>0, <1>1, HandlerHolds DEF Sound, TurnIsOfStart
<1>4. CASE (AcceptStart(d) \/ FailAccept(d)) /\ Exact(d, handler[d].rev) /\ Accepted(d)
  <2>1. /\ row'[d].status = "open" /\ row'[d].rev = row[d].rev /\ row'[d].reason = "none"
        /\ row[d].status = "starting"
    BY <1>0, <1>4 DEF Accepted, Exact, TypeOK, RowType, Held, ReasonIsOfClose
  <2>2. /\ \A n \in Nat : Bound(d, n)' <=> Bound(d, n)
        /\ turn' = turn /\ (~lossy' => ~lossy)
    <3>1. bindings' = bindings
      BY <1>4 DEF AcceptStart, FailAccept
    <3> QED
      BY <1>4, <3>1, FaultsKeepLossy DEF AcceptStart, FailAccept, Bound, KeepsLossy
  <2>3. handler[d].step = "accepting"
    BY <1>4 DEF AcceptStart, FailAccept
  <2>4. handler'[d].step = "idle" \/ (handler'[d].step = "reconciling" /\ handler'[d].rev = handler[d].rev)
    BY <1>0, <1>4, HandlerOf DEF AcceptStart, FailAccept, Idle
  <2>5. ReasonIsOfClose(d)' /\ IssuedFirst(d)' /\ TurnIsKept(d)'
    BY <2>1, <2>4 DEF ReasonIsOfClose, IssuedFirst, TurnIsKept
  <2>6. OpenTurnIsOwn(d)'
    <3>1. \A n \in Nat : n = row[d].rev => Bound(d, n)'
      BY <1>0, <1>2, <2>1, <2>2, <2>3 DEF Held, IssuedFirst
    <3>2. HasTurn(d)' => turn'[d].state = "running" /\ turn'[d].rev = row[d].rev
      BY <1>0, <1>2, <1>3, <2>2, <2>3 DEF HasTurn, TurnType
    <3> QED
      BY <2>1, <3>1, <3>2 DEF OpenTurnIsOwn
  <2>7. BindingIsKept(d)'
    BY <1>3, <2>1, <2>2, <2>4 DEF BindingIsKept
  <2> QED
    BY <2>5, <2>6, <2>7 DEF Held
<1>5. CASE AcceptStart(d) /\ ~Exact(d, handler[d].rev)
  <2>1. handler'[d].step = "lost" /\ row' = row /\ turn' = turn /\ lossy' = lossy
    BY <1>0, <1>5, HandlerOf DEF AcceptStart, faultVars
  <2>2. ~lossy => \A n \in Nat : ~Bound(d, n)'
    BY <1>0, <1>3, <1>5, RevokedBound DEF AcceptStart
  <2>3. handler[d].step = "accepting"
    BY <1>5 DEF AcceptStart
  <2>4. ReasonIsOfClose(d)' /\ IssuedFirst(d)' /\ OpenTurnIsOwn(d)' /\ TurnIsKept(d)' /\ BindingIsKept(d)'
    BY <1>0, <1>3, <2>1, <2>2, <2>3
       DEF Held, ReasonIsOfClose, IssuedFirst, OpenTurnIsOwn, TurnIsKept, BindingIsKept
  <2> QED
    BY <2>4 DEF Held
<1>6. CASE FailAccept(d) /\ UNCHANGED row
  <2>1. /\ handler'[d].step = "reconciling" /\ handler'[d].rev = handler[d].rev /\ row' = row /\ turn' = turn
        /\ handler[d].step = "accepting" /\ (~lossy' => ~lossy) /\ bindings' = bindings
    BY <1>0, <1>6, HandlerOf, FaultsKeepLossy DEF FailAccept, KeepsLossy
  <2>2. \A n \in Nat : Bound(d, n)' <=> Bound(d, n)
    BY <2>1 DEF Bound
  <2>3. ReasonIsOfClose(d)' /\ OpenTurnIsOwn(d)' /\ TurnIsKept(d)' /\ BindingIsKept(d)'
    BY <1>0, <1>3, <2>1, <2>2 DEF Held, ReasonIsOfClose, OpenTurnIsOwn, TurnIsKept, BindingIsKept
  <2>4. IssuedFirst(d)'
    BY <1>0, <2>1, <2>2 DEF Held, IssuedFirst
  <2> QED
    BY <2>3, <2>4 DEF Held
<1>7. CASE ReconcileStart(d)
  <2>1. /\ row' = row /\ turn' = turn /\ lossy' = lossy /\ handler[d].step = "reconciling"
        /\ HasTurn(d)' <=> HasTurn(d)
        /\ bindings' = bindings
    BY <1>7 DEF ReconcileStart, rows, faultVars, HasTurn
  <2>2. \A n \in Nat : Bound(d, n)' <=> Bound(d, n)
    BY <2>1 DEF Bound
  <2>3. \/ handler'[d].step = "idle" /\ row[d].status = "open"
        \/ /\ handler'[d].step = "failing" /\ handler'[d].uncertain /\ row[d].status # "open"
           /\ handler'[d].rev = handler[d].rev
    <3>1. CASE row[d].status = "open"
      <4>1. Ends(d)
        BY <1>2, <1>7, <3>1 DEF ReconcileStart
      <4> QED
        BY <1>0, <3>1, <4>1, HandlerOf DEF Idle
    <3>2. CASE row[d].status # "open"
      <4>1. Fails(d, TRUE)
        BY <1>7, <3>2 DEF ReconcileStart
      <4> QED
        BY <1>0, <3>2, <4>1, HandlerOf
    <3> QED
      BY <3>1, <3>2
  <2>4. ReasonIsOfClose(d)' /\ IssuedFirst(d)'
    BY <1>0, <2>1, <2>3 DEF Held, ReasonIsOfClose, IssuedFirst
  <2>5. OpenTurnIsOwn(d)' /\ TurnIsKept(d)' /\ BindingIsKept(d)'
    BY <1>0, <1>3, <2>1, <2>2, <2>3 DEF Held, OpenTurnIsOwn, TurnIsKept, BindingIsKept
  <2> QED
    BY <2>4, <2>5 DEF Held
<1>8. CASE StopLost(d)
  <2>1. /\ row' = row /\ bindings' = bindings /\ handler[d].step = "lost" /\ handler'[d].step = "idle"
        /\ StopTurn(d)
    BY <1>0, <1>8, HandlerOf DEF StopLost, rows, Idle
  <2>2. (~lossy' => ~lossy) /\ (~lossy' => ~HasTurn(d)')
    <3>1. KeepsLossy
      BY <1>0, <2>1, StopEnds
    <3>2. lossy' \/ ~HasTurn(d)'
      BY <1>0, <1>3, <2>1 DEF StopTurn, ControllerFails, HasTurn, TypeOK, TurnType
    <3> QED
      BY <3>1, <3>2 DEF KeepsLossy
  <2>3. \A n \in Nat : Bound(d, n)' <=> Bound(d, n)
    BY <2>1 DEF Bound
  <2>4. row[d].status # "open"
    BY <1>3, <2>1
  <2>5. ReasonIsOfClose(d)' /\ IssuedFirst(d)' /\ OpenTurnIsOwn(d)' /\ TurnIsKept(d)' /\ BindingIsKept(d)'
    BY <1>0, <1>3, <2>1, <2>2, <2>3, <2>4
       DEF Held, ReasonIsOfClose, IssuedFirst, OpenTurnIsOwn, TurnIsKept, BindingIsKept
  <2> QED
    BY <2>5 DEF Held
<1> QED
  BY <1>4, <1>5, <1>6, <1>7, <1>8 DEF AcceptStart, FailAccept

\* After a failed start.
LEMMA FailingHeld ==
    ASSUME TurnInv, NEW d \in Dispatches, RotateStart(d) \/ FailRotate(d) \/ ScheduleRetry(d)
    PROVE  Held(d)'
<1>0. /\ TypeOK /\ Held(d) /\ handler[d].rev \in Nat /\ StartInv
      /\ turn[d] \in TurnType /\ handler[d] \in HandlerType /\ row[d] \in RowType
  BY HandlerRev DEF TurnInv, StartInv
<1>1. InFlight(d) /\ handler[d].step \in {"failing", "failed"}
  BY DEF RotateStart, FailRotate, ScheduleRetry, InFlight
<1>2. /\ row[d].status \notin {"open", "unused"} /\ turn[d].state # "begun"
      /\ ~lossy => \A n \in Nat : Bound(d, n) => n = handler[d].rev
      /\ ~lossy /\ HasTurn(d) => handler[d].uncertain
  BY <1>1, HandlerHolds
<1>3. row'[d].status = row[d].status /\ row'[d].reason = row[d].reason
  BY <1>0 DEF RotateStart, FailRotate, ScheduleRetry, rows, TypeOK, RowType
<1>4. handler'[d].step \in {"idle", "failed"}
  BY <1>0, HandlerOf DEF RotateStart, FailRotate, ScheduleRetry, Idle, TypeOK, HandlerType
<1>5. ReasonIsOfClose(d)' /\ IssuedFirst(d)' /\ OpenTurnIsOwn(d)'
  BY <1>0, <1>2, <1>3, <1>4 DEF Held, ReasonIsOfClose, IssuedFirst, OpenTurnIsOwn
<1>6. CASE RotateStart(d)
  <2>1. /\ handler'[d].step = "failed" /\ handler'[d].rev = handler[d].rev
        /\ handler'[d].uncertain = handler[d].uncertain
    BY <1>0, <1>6 DEF RotateStart, TypeOK, HandlerType
  <2>2. turn' = turn /\ bindings' = bindings /\ lossy' = lossy
    BY <1>6 DEF RotateStart, faultVars
  <2>3. (\A n \in Nat : Bound(d, n)' <=> Bound(d, n)) /\ (HasTurn(d)' <=> HasTurn(d))
    BY <2>2 DEF Bound, HasTurn
  <2>4. TurnIsKept(d)' /\ BindingIsKept(d)'
    BY <1>2, <2>1, <2>2, <2>3 DEF TurnIsKept, BindingIsKept
  <2> QED
    BY <1>5, <2>4 DEF Held
<1>7. CASE FailRotate(d)
  <2>1. lossy'
    BY <1>7 DEF FailRotate, ControllerFails
  <2> QED
    BY <1>5, <2>1 DEF Held, TurnIsKept, BindingIsKept
<1>8. CASE ScheduleRetry(d)
  <2>1. IF handler[d].uncertain THEN StopTurn(d) ELSE NoStop
    BY <1>8 DEF ScheduleRetry
  <2>2. ~lossy' => ~lossy
    BY <1>0, <2>1, StopEnds DEF KeepsLossy
  <2>3. ~lossy' => ~HasTurn(d)'
    <3>1. CASE handler[d].uncertain
      BY <1>0, <1>2, <2>1, <3>1 DEF StopTurn, ControllerFails, HasTurn, TypeOK, TurnType
    <3>2. CASE ~handler[d].uncertain
      BY <1>2, <2>1, <2>2, <3>2 DEF NoStop, HasTurn
    <3> QED
      BY <3>1, <3>2
  <2>4. ~lossy => \A n \in Nat : ~Bound(d, n)'
    BY <1>0, <1>2, <1>8, RevokedBound DEF ScheduleRetry
  <2>5. TurnIsKept(d)' /\ BindingIsKept(d)'
    BY <2>2, <2>3, <2>4 DEF TurnIsKept, BindingIsKept
  <2> QED
    BY <1>5, <2>5 DEF Held
<1> QED
  BY <1>6, <1>7, <1>8

LEMMA RaisingHeld ==
    ASSUME TurnInv, NEW d \in Dispatches, FailHandler(d)
    PROVE  Held(d)'
<1>0. TypeOK /\ Held(d)
  BY DEF TurnInv, StartInv
<1>1. row' = row /\ turn' = turn /\ bindings' = bindings /\ lossy' /\ handler'[d].step = "idle"
  BY <1>0, HandlerOf DEF FailHandler, rows, ControllerFails, Idle
<1>2. (\A n \in Nat : Bound(d, n)' <=> Bound(d, n)) /\ (HasTurn(d)' <=> HasTurn(d))
  BY <1>1 DEF Bound, HasTurn
<1> QED
  BY <1>0, <1>1, <1>2 DEF Held, ReasonIsOfClose, IssuedFirst, OpenTurnIsOwn, TurnIsKept, BindingIsKept

-----------------------------------------------------------------------------
(* So do the signals, the cleanup and what opens and closes Dispatches      *)

LEMMA SignalHeld ==
    ASSUME TurnInv, NEW d \in Dispatches, NEW n \in Nat, NEW x \in Dispatches,
           ReceiveStart(d, n) \/ DeferStart(d, n)
    PROVE  Held(x)'
<1>0. TypeOK /\ Held(x)
  BY DEF TurnInv, StartInv
<1>1. /\ row' = row /\ turn' = turn /\ bindings' = bindings /\ cleaning' = cleaning /\ lossy' = lossy
      /\ CleanupDue(x) => CleanupDue(x)'
  BY SignalsDiffer DEF ReceiveStart, DeferStart, rows, memory, faultVars, CleanupDue, StartDue, StartLater, Cleanup
<1>2. CASE handler'[x] = handler[x]
  <2>1. Leaves(x)
    BY <1>1, <1>2 DEF Leaves, TurnMayEnd, KeepsLossy, Bound
  <2> QED
    BY <2>1, LeavesHeld
<1>3. CASE handler'[x] # handler[x]
  <2>1. x = d /\ ReceiveStart(d, n) /\ ~InFlight(d) /\ Exact(d, n)
    BY <1>0, <1>3 DEF ReceiveStart, DeferStart, memory, TypeOK
  <2>2. handler'[d].step \in {"read", "recovering"}
    <3>1. handler'[d] = [Idle EXCEPT !.rev = n, !.control = control,
                              !.step = IF Recovering(StartDue(d, n).gen) THEN "recovering" ELSE "read"]
      BY <1>0, <2>1 DEF ReceiveStart, TypeOK
    <3> QED
      BY <3>1 DEF Idle
  <2>3. row[d].status = "starting" /\ handler[d].step = "idle"
    BY <2>1 DEF Exact, InFlight
  <2>4. /\ \A m \in Nat : Bound(d, m)' <=> Bound(d, m)
        /\ HasTurn(d)' <=> HasTurn(d)
    BY <1>1 DEF Bound, HasTurn
  <2>5. ReasonIsOfClose(d)' /\ IssuedFirst(d)' /\ OpenTurnIsOwn(d)'
    BY <1>0, <1>1, <2>1, <2>2, <2>3 DEF Held, ReasonIsOfClose, IssuedFirst, OpenTurnIsOwn
  <2>6. TurnIsKept(d)' /\ BindingIsKept(d)'
    BY <1>0, <1>1, <2>1, <2>3, <2>4 DEF Held, TurnIsKept, BindingIsKept
  <2> QED
    BY <2>1, <2>5, <2>6 DEF Held
<1> QED
  BY <1>2, <1>3

LEMMA CleanupsStay ==
    ASSUME NEW D, hints' = hints \cup {Cleanup(e) : e \in D}
    PROVE  /\ \A x \in Dispatches : CleanupDue(x) => CleanupDue(x)'
           /\ \A x \in D : CleanupDue(x)'
  BY DEF CleanupDue

LEMMA CleanupHeld ==
    ASSUME TurnInv, NEW d \in Dispatches, NEW x \in Dispatches, CleanupStep(d) \/ EndTurn(d)
    PROVE  Held(x)'
<1>0. TypeOK /\ Held(x) /\ Sound(x) /\ turn[x] \in TurnType
  BY HandlerRev DEF TurnInv, StartInv
<1>1. /\ row' = row /\ handler' = handler
      /\ \A e \in Dispatches \ {d}, n \in Nat : Bound(e, n)' <=> Bound(e, n)
      /\ \A e \in Dispatches \ {d} : CleanupDue(e)' <=> CleanupDue(e)
      /\ \A e \in Dispatches \ {d} : e \in cleaning' <=> e \in cleaning
  <2>1. row' = row /\ handler' = handler
    BY DEF CleanupStep, RevokeClosed, StopClosed, EndTurn, rows
  <2>2. \A e \in Dispatches \ {d}, n \in Nat : Bound(e, n)' <=> Bound(e, n)
    BY DEF CleanupStep, RevokeClosed, StopClosed, EndTurn, Bound, Gen
  <2>3. \A e \in Dispatches \ {d} : CleanupDue(e)' <=> CleanupDue(e)
    BY SignalsDiffer DEF CleanupStep, RevokeClosed, StopClosed, EndTurn, CleanupDue
  <2>4. \A e \in Dispatches \ {d} : e \in cleaning' <=> e \in cleaning
    BY DEF CleanupStep, RevokeClosed, StopClosed, EndTurn
  <2> QED
    BY <2>1, <2>2, <2>3, <2>4
<1>2. KeepsLossy /\ TurnMayEnd(x)
  <2>1. CASE RevokeClosed(d)
    BY <2>1, FaultsKeepLossy DEF RevokeClosed, TurnMayEnd
  <2>2. CASE StopClosed(d)
    BY <1>0, <2>2, StopEnds DEF StopClosed
  <2>3. CASE EndTurn(d)
    BY <1>0, <2>3, FaultsKeepLossy DEF EndTurn, TurnMayEnd, TypeOK, TurnType
  <2> QED
    BY <2>1, <2>2, <2>3 DEF CleanupStep
<1>3. CASE x # d
  <2>1. Leaves(x)
    BY <1>1, <1>2, <1>3 DEF Leaves
  <2> QED
    BY <2>1, LeavesHeld
<1>4. CASE x = d /\ EndTurn(d)
  <2>1. Leaves(d)
    BY <1>1, <1>2, <1>4 DEF Leaves, EndTurn, Bound, CleanupDue
  <2> QED
    BY <1>4, <2>1, LeavesHeld
<1>5. /\ ~lossy' => ~lossy
      /\ HasTurn(x)' => HasTurn(x) /\ turn'[x].state = turn[x].state
      /\ turn'[x].rev = turn[x].rev
  BY <1>2 DEF KeepsLossy, TurnMayEnd, HasTurn
<1>6. CASE x = d /\ RevokeClosed(d)
  <2>1. \A n \in Nat : Bound(d, n)' <=> Bound(d, n) /\ row[d].status # "closed"
    BY <1>6 DEF RevokeClosed, Bound, Gen
  <2>2. d \in cleaning'
    BY <1>6 DEF RevokeClosed
  <2>3. ReasonIsOfClose(d)' /\ IssuedFirst(d)' /\ OpenTurnIsOwn(d)'
    BY <1>0, <1>1, <1>5, <1>6, <2>1 DEF Held, ReasonIsOfClose, IssuedFirst, OpenTurnIsOwn
  <2>4. TurnIsKept(d)' /\ BindingIsKept(d)'
    BY <1>0, <1>1, <1>5, <1>6, <2>1, <2>2 DEF Held, TurnIsKept, BindingIsKept
  <2> QED
    BY <1>6, <2>3, <2>4 DEF Held
<1>7. CASE x = d /\ StopClosed(d)
  <2>1. (\A n \in Nat : Bound(d, n)' <=> Bound(d, n)) /\ (CleanupDue(d)' <=> CleanupDue(d))
    BY <1>7 DEF StopClosed, Bound, CleanupDue
  <2>2. ReasonIsOfClose(d)' /\ IssuedFirst(d)' /\ OpenTurnIsOwn(d)' /\ BindingIsKept(d)'
    BY <1>0, <1>1, <1>5, <1>7, <2>1
       DEF Held, ReasonIsOfClose, IssuedFirst, OpenTurnIsOwn, BindingIsKept
  <2>3. TurnIsKept(d)'
    <3>1. CASE row[d].status = "closed" /\ row[d].reason \in StopReasons
      <4>1. lossy' \/ ~HasTurn(d)' \/ turn[d].state = "begun"
        BY <1>0, <1>7, <3>1 DEF StopClosed, StopTurn, ControllerFails, HasTurn, TypeOK, TurnType
      <4>2. turn[d].state = "begun" => handler[d].step = "starting"
        BY <1>0, <1>7 DEF Sound, TurnIsOfStart
      <4> QED
        BY <1>1, <4>1, <4>2 DEF TurnIsKept
    <3>2. CASE ~(row[d].status = "closed" /\ row[d].reason \in StopReasons)
      BY <1>0, <1>1, <1>5, <1>7, <2>1, <3>2 DEF Held, TurnIsKept
    <3> QED
      BY <3>1, <3>2
  <2> QED
    BY <1>7, <2>2, <2>3 DEF Held
<1> QED
  BY <1>3, <1>4, <1>6, <1>7 DEF CleanupStep

LEMMA ClosedRow ==
    ASSUME NEW r \in RowType, NEW reason
    PROVE  /\ Closed(r, reason).status = "closed" /\ Closed(r, reason).reason = reason
           /\ Closed(r, reason).rev = r.rev /\ Closed(r, reason).superseded = r.superseded
  BY DEF Closed, RowType

LEMMA InvalidHeld ==
    ASSUME TurnInv, NEW d \in Dispatches, NEW x \in Dispatches, InvalidStart(d)
    PROVE  Held(x)'
<1>0. /\ TypeOK /\ Held(x) /\ row[x] \in RowType /\ Sound(x) /\ Sound(d)
  BY HandlerRev DEF TurnInv, StartInv
<1>1. /\ UNCHANGED <<bindings, turn, cleaning, faultVars>> /\ InFlight(d)
      /\ handler[d].step \in {"read", "recovering"}
      /\ handler'[d].step = "idle" /\ \A e \in Dispatches \ {d} : handler'[e] = handler[e]
  BY <1>0, HandlerOf DEF InvalidStart, InFlight, Idle
<1>2. /\ \A e \in Dispatches, n \in Nat : Bound(e, n)' <=> Bound(e, n)
      /\ \A e \in Dispatches : HasTurn(e)' <=> HasTurn(e)
      /\ KeepsLossy /\ lossy' = lossy
  BY <1>1 DEF Bound, HasTurn, KeepsLossy, faultVars
<1>3. CASE x = d
  <2>1. ~lossy => ~HasTurn(d) /\ \A n \in Nat : ~Bound(d, n)
    BY <1>1, HandlerHolds
  <2>2. row'[d] = row[d] \/ (row'[d].status = "closed" /\ row'[d].reason = "control_failed")
    BY <1>0, <1>3, ClosedRow DEF InvalidStart
  <2>3. row[d].status # "open" /\ row[d].reason # "watchdog_superseded"
    BY <1>1, HandlerHolds
  <2>4. ReasonIsOfClose(d)' /\ IssuedFirst(d)' /\ OpenTurnIsOwn(d)'
    BY <1>0, <1>1, <1>3, <2>2, <2>3 DEF Held, ReasonIsOfClose, IssuedFirst, OpenTurnIsOwn
  <2>5. TurnIsKept(d)' /\ BindingIsKept(d)'
    BY <1>2, <2>1 DEF TurnIsKept, BindingIsKept
  <2> QED
    BY <1>3, <2>4, <2>5 DEF Held
<1>4. CASE x # d /\ UNCHANGED <<row, hints>>
  <2>1. Leaves(x)
    BY <1>1, <1>2, <1>4 DEF Leaves, TurnMayEnd, CleanupDue
  <2> QED
    BY <2>1, LeavesHeld
<1>5. CASE x # d /\ ~UNCHANGED <<row, hints>>
  <2>1. /\ row'[x] = IF Live(x) THEN Closed(row[x], "paused") ELSE row[x]
        /\ hints' = hints \cup {Cleanup(e) : e \in {y \in Dispatches \ {d} : Live(y)}}
    BY <1>5 DEF InvalidStart
  <2>2. (CleanupDue(x) => CleanupDue(x)') /\ (Live(x) => CleanupDue(x)')
    BY <1>5, <2>1, CleanupsStay
  <2>3. CASE Live(x)
    <3>1. ClosesLive(x)
      BY <1>0, <1>1, <1>2, <1>5, <2>1, <2>2, <2>3, ClosedRow DEF ClosesLive
    <3> QED
      BY <3>1, ClosesHeld
  <2>4. CASE ~Live(x)
    <3>1. Leaves(x)
      BY <1>1, <1>2, <1>5, <2>1, <2>2, <2>4 DEF Leaves, TurnMayEnd
    <3> QED
      BY <3>1, LeavesHeld
  <2> QED
    BY <2>3, <2>4
<1> QED
  BY <1>3, <1>4, <1>5

LEMMA NodeHeld ==
    ASSUME TurnInv, NEW d \in Dispatches, NEW x \in Dispatches, NodeCloses(d)
    PROVE  Held(x)'
<1>0. TypeOK /\ row[d] \in RowType
  BY HandlerRev DEF TurnInv, StartInv
<1>1. UNCHANGED <<memory, hints, faultVars>> /\ row' = [row EXCEPT ![d] = Closed(@, "boundary")] /\ Live(d)
  BY DEF NodeCloses, MayCall
<1>2. /\ handler' = handler /\ turn' = turn /\ KeepsLossy /\ cleaning' = cleaning
      /\ \A n \in Nat : Bound(x, n)' <=> Bound(x, n)
      /\ CleanupDue(x)' <=> CleanupDue(x)
  BY <1>1, FaultsKeepLossy DEF memory, Bound, CleanupDue
<1>3. CASE x = d
  <2>1. ClosesLive(d)
    BY <1>0, <1>1, <1>2, <1>3, ClosedRow DEF ClosesLive, TypeOK
  <2> QED
    BY <1>3, <2>1, ClosesHeld
<1>4. CASE x # d
  <2>1. row'[x] = row[x]
    BY <1>0, <1>1, <1>4 DEF TypeOK
  <2>2. Leaves(x)
    BY <1>2, <2>1 DEF Leaves, TurnMayEnd
  <2> QED
    BY <2>2, LeavesHeld
<1> QED
  BY <1>3, <1>4

LEMMA ReplaceHeld ==
    ASSUME TurnInv, NEW d \in Dispatches, NEW e \in Dispatches, NEW x \in Dispatches, WatchdogReplace(d, e)
    PROVE  Held(x)'
<1>0. TypeOK /\ row[d] \in RowType
  BY HandlerRev DEF TurnInv, StartInv
<1>1. /\ UNCHANGED <<memory, faultVars>> /\ row[d].status = "open" /\ row[e].status = "unused"
      /\ row' = [row EXCEPT ![d] = Closed(@, "watchdog_superseded"), ![e] = Opened(d)]
      /\ hints' = hints \cup {Cleanup(d), StartDue(e, 0)}
  BY DEF WatchdogReplace
<1>2. /\ handler' = handler /\ turn' = turn /\ KeepsLossy /\ cleaning' = cleaning
      /\ \A n \in Nat : Bound(x, n)' <=> Bound(x, n)
      /\ (CleanupDue(x) => CleanupDue(x)') /\ CleanupDue(d)'
  BY <1>1, FaultsKeepLossy DEF memory, Bound, CleanupDue
<1>3. CASE x = d
  <2>1. row'[d] = Closed(row[d], "watchdog_superseded")
    BY <1>0, <1>1 DEF TypeOK
  <2>2. ClosesLive(d)
    BY <1>0, <1>1, <1>2, <1>3, <2>1, ClosedRow DEF ClosesLive, Live
  <2> QED
    BY <1>3, <2>2, ClosesHeld
<1>4. CASE x = e
  <2>1. row'[e] = Opened(d)
    BY <1>0, <1>1 DEF TypeOK
  <2>2. OpensFresh(e)
    BY <1>1, <1>2, <1>4, <2>1 DEF OpensFresh, Opened
  <2> QED
    BY <1>4, <2>2, OpensHeld
<1>5. CASE x \notin {d, e}
  <2>1. row'[x] = row[x]
    BY <1>0, <1>1, <1>5 DEF TypeOK
  <2>2. Leaves(x)
    BY <1>2, <2>1 DEF Leaves, TurnMayEnd
  <2> QED
    BY <2>2, LeavesHeld
<1> QED
  BY <1>3, <1>4, <1>5

LEMMA ControlHeld ==
    ASSUME TurnInv, NEW x \in Dispatches, PauseTask \/ CancelTask \/ ResumeTask
    PROVE  Held(x)'
<1>0. TypeOK /\ row[x] \in RowType
  BY HandlerRev DEF TurnInv, StartInv
<1>1. /\ handler' = handler /\ turn' = turn /\ KeepsLossy /\ cleaning' = cleaning
      /\ \A n \in Nat : Bound(x, n)' <=> Bound(x, n)
  BY FaultsKeepLossy DEF PauseTask, CancelTask, StopTask, ResumeTask, memory, Bound
<1>2. ASSUME NEW status, NEW reason \in {"paused", "cancelled"}, StopTask(status, reason)
      PROVE  Held(x)'
  <2>1. row'[x] = IF Live(x) THEN Closed(row[x], reason) ELSE row[x]
    BY <1>2 DEF StopTask, CloseLive
  <2>2. hints' = hints \cup {Cleanup(e) : e \in {y \in Dispatches : Live(y)}}
    BY <1>2 DEF StopTask
  <2>3. (CleanupDue(x) => CleanupDue(x)') /\ (Live(x) => CleanupDue(x)')
    BY <2>2, CleanupsStay
  <2>4. CASE Live(x)
    <3>1. ClosesLive(x)
      BY <1>0, <1>1, <1>2, <2>1, <2>3, <2>4, ClosedRow DEF ClosesLive
    <3> QED
      BY <3>1, ClosesHeld
  <2>5. CASE ~Live(x)
    <3>1. Leaves(x)
      BY <1>1, <2>1, <2>3, <2>5 DEF Leaves, TurnMayEnd
    <3> QED
      BY <3>1, LeavesHeld
  <2> QED
    BY <2>4, <2>5
<1>3. CASE ResumeTask
  <2> DEFINE idle == {a \in Attempts : row[last[a]].reason \in {"paused", "control_failed"}}
  <2>1. PICK next \in [idle -> {d \in Dispatches : row[d].status = "unused"}] :
           /\ row' = [d \in Dispatches |-> IF \E a \in idle : next[a] = d THEN Opened(None) ELSE row[d]]
           /\ hints' = hints \cup {StartDue(next[a], 0) : a \in idle}
    BY <1>3 DEF ResumeTask
  <2> HIDE DEF idle
  <2>2. CleanupDue(x) => CleanupDue(x)'
    BY <2>1 DEF CleanupDue
  <2>3. CASE \E a \in idle : next[a] = x
    <3>1. row[x].status = "unused"
      BY <2>1, <2>3
    <3>2. row'[x] = Opened(None)
      BY <2>1, <2>3
    <3>3. OpensFresh(x)
      BY <1>1, <3>1, <3>2 DEF OpensFresh, Opened
    <3> QED
      BY <3>3, OpensHeld
  <2>4. CASE ~ \E a \in idle : next[a] = x
    <3>1. row'[x] = row[x]
      BY <2>1, <2>4
    <3>2. Leaves(x)
      BY <1>1, <2>2, <3>1 DEF Leaves, TurnMayEnd
    <3> QED
      BY <3>2, LeavesHeld
  <2> QED
    BY <2>3, <2>4
<1> QED
  BY <1>2, <1>3 DEF PauseTask, CancelTask

LEMMA FaultHeld ==
    ASSUME TurnInv, NEW x \in Dispatches,
           (\E h \in hints : LoseHint(h)) \/ (\E g \in timers : FireTimer(g)) \/ Restart
    PROVE  Held(x)'
<1>0. TypeOK /\ Held(x)
  BY DEF TurnInv, StartInv
<1>1. ASSUME NEW h \in hints, LoseHint(h) PROVE Held(x)'
  <2>1. /\ row' = row /\ handler' = handler /\ turn' = turn /\ lossy' /\ bindings' = bindings
    BY <1>1 DEF LoseHint, ControllerFails, rows, memory
  <2>2. Leaves(x)
    BY <2>1 DEF Leaves, TurnMayEnd, KeepsLossy, Bound
  <2> QED
    BY <2>2, LeavesHeld
<1>2. ASSUME NEW g \in timers, FireTimer(g) PROVE Held(x)'
  <2>1. /\ row' = row /\ handler' = handler /\ turn' = turn /\ lossy' = lossy /\ bindings' = bindings
        /\ cleaning' = cleaning /\ (CleanupDue(x) => CleanupDue(x)')
    BY <1>2 DEF FireTimer, rows, memory, faultVars, CleanupDue
  <2>2. Leaves(x)
    BY <2>1 DEF Leaves, TurnMayEnd, KeepsLossy, Bound
  <2> QED
    BY <2>2, LeavesHeld
<1>3. CASE Restart
  <2>1. row' = row /\ handler'[x].step = "idle" /\ ~HasTurn(x)' /\ \A n \in Nat : ~Bound(x, n)'
    BY <1>0, <1>3 DEF Restart, rows, Idle, HasTurn, Bound, TypeOK, TurnType
  <2> QED
    BY <1>0, <2>1 DEF Held, ReasonIsOfClose, IssuedFirst, OpenTurnIsOwn, TurnIsKept, BindingIsKept
<1> QED
  BY <1>1, <1>2, <1>3

LEMMA HeldNext ==
    ASSUME TurnInv, NEW x \in Dispatches, [Next]_vars
    PROVE  Held(x)'
<1>0. TypeOK /\ Held(x)
  BY DEF TurnInv, StartInv
<1>1. CASE UNCHANGED vars
  <2>1. Leaves(x)
    BY <1>1 DEF Leaves, vars, rows, memory, faultVars, TurnMayEnd, KeepsLossy, Bound, CleanupDue
  <2> QED
    BY <2>1, LeavesHeld
<1>2. ASSUME NEW d \in Dispatches, Signalled(d) PROVE Held(x)'
  <2>1. PICK h \in hints : h.gen.dispatch = d /\ (ReceiveStart(d, h.gen.rev) \/ DeferStart(d, h.gen.rev))
    BY <1>2 DEF Signalled
  <2>2. h.gen.rev \in Nat
    BY <1>0 DEF TypeOK, HintType, Generation
  <2> QED
    BY <2>1, <2>2, SignalHeld
<1>3. ASSUME NEW d \in Dispatches, StarterStep(d) \/ StarterFailure(d) PROVE Held(x)'
  <2>1. CASE InvalidStart(d)
    BY <2>1, InvalidHeld
  <2>2. CASE x = d /\ ~InvalidStart(d)
    BY <1>3, <2>2, PreparingHeld, CallingHeld, AcceptingHeld, FailingHeld, RaisingHeld
       DEF StarterStep, StarterFailure
  <2>3. CASE x # d /\ ~InvalidStart(d)
    <3>1. Leaves(x)
      BY <1>3, <2>3, PreparingLeaves, StartingLeaves DEF StarterStep, StarterFailure
    <3> QED
      BY <3>1, LeavesHeld
  <2> QED
    BY <2>1, <2>2, <2>3
<1>4. ASSUME NEW d \in Dispatches, CleanupStep(d) \/ EndTurn(d) PROVE Held(x)'
  BY <1>4, CleanupHeld
<1>5. CASE \E d \in Dispatches : NodeCloses(d) \/ \E e \in Dispatches : WatchdogReplace(d, e)
  BY <1>5, NodeHeld, ReplaceHeld
<1>6. CASE PauseTask \/ CancelTask \/ ResumeTask
  BY <1>6, ControlHeld
<1>7. CASE (\E h \in hints : LoseHint(h)) \/ (\E g \in timers : FireTimer(g)) \/ Restart
  BY <1>7, FaultHeld
<1> QED
  BY <1>1, <1>2, <1>3, <1>4, <1>5, <1>6, <1>7 DEF Next

-----------------------------------------------------------------------------
(* A replacement and the turn it replaces                                   *)

LEMMA RowSteps ==
    ASSUME TypeOK, NEW x \in Dispatches, [Next]_vars
    PROVE  \/ /\ row'[x].superseded = row[x].superseded
              /\ row'[x].rev = row[x].rev \/ RotateStart(x)
           \/ row'[x] = Opened(None)
           \/ \E p \in Dispatches : WatchdogReplace(p, x)
<1>0. row[x] \in RowType
  BY HandlerRev
<1>1. CASE row'[x] = row[x]
  BY <1>1
<1>2. CASE \E reason : row'[x] = Closed(row[x], reason)
  BY <1>0, <1>2, ClosedRow
<1>3. CASE \E d \in Dispatches : StarterStep(d)
  <2>1. PICK d \in Dispatches : StarterStep(d)
    BY <1>3
  <2>2. CASE AcceptStart(d)
    BY <2>2, <1>0 DEF AcceptStart, Accepted, TypeOK, RowType
  <2>3. CASE RotateStart(d)
    <3>1. CASE x = d
      BY <1>0, <2>3, <3>1 DEF RotateStart, TypeOK, RowType
    <3>2. CASE x # d
      BY <1>1, <2>3, <3>2 DEF RotateStart, TypeOK
    <3> QED
      BY <3>1, <3>2
  <2>4. CASE ~(AcceptStart(d) \/ RotateStart(d))
    BY <1>1, <2>1, <2>4
       DEF StarterStep, RecoverStart, PrepareStart, StopPredecessor, RecheckStart, ReserveStart, BeginTurn,
           RegisterTurn, StopLost, ReconcileStart, ScheduleRetry, rows
  <2> QED
    BY <2>2, <2>3, <2>4
<1>4. CASE \E d \in Dispatches : StarterFailure(d)
  <2>1. PICK d \in Dispatches : StarterFailure(d)
    BY <1>4
  <2>2. CASE InvalidStart(d)
    BY <1>1, <1>2, <2>2 DEF InvalidStart
  <2>3. CASE FailAccept(d)
    BY <2>3, <1>0 DEF FailAccept, Accepted, TypeOK, RowType
  <2>4. CASE FailStart(d) \/ FailRotate(d) \/ FailHandler(d)
    BY <1>1, <2>4 DEF FailStart, FailRotate, FailHandler, rows
  <2> QED
    BY <2>1, <2>2, <2>3, <2>4 DEF StarterFailure
<1>5. CASE \E d \in Dispatches : Signalled(d) \/ CleanupStep(d) \/ EndTurn(d)
  BY <1>1, <1>5 DEF Signalled, ReceiveStart, DeferStart, CleanupStep, RevokeClosed, StopClosed, EndTurn, rows
<1>6. CASE \E d \in Dispatches : NodeCloses(d)
  BY <1>1, <1>2, <1>6 DEF NodeCloses, TypeOK
<1>7. ASSUME NEW d \in Dispatches, NEW e \in Dispatches, WatchdogReplace(d, e)
      PROVE  row'[x] = row[x] \/ (\E reason : row'[x] = Closed(row[x], reason)) \/ WatchdogReplace(d, x)
  BY <1>7 DEF WatchdogReplace, TypeOK
<1>8. CASE UNCHANGED vars \/ Restart \/ (\E h \in hints : LoseHint(h)) \/ (\E g \in timers : FireTimer(g))
  BY <1>1, <1>8 DEF vars, LoseHint, FireTimer, Restart, rows
<1>9. CASE PauseTask \/ CancelTask
  BY <1>1, <1>2, <1>9 DEF PauseTask, CancelTask, StopTask, CloseLive
<1>10. CASE ResumeTask
  <2> DEFINE idle == {a \in Attempts : row[last[a]].reason \in {"paused", "control_failed"}}
  <2>1. PICK next \in [idle -> {d \in Dispatches : row[d].status = "unused"}] :
           row' = [d \in Dispatches |-> IF \E a \in idle : next[a] = d THEN Opened(None) ELSE row[d]]
    BY <1>10 DEF ResumeTask
  <2> HIDE DEF idle
  <2> QED
    BY <1>1, <2>1
<1> QED
  BY <1>1, <1>2, <1>3, <1>4, <1>5, <1>6, <1>7, <1>8, <1>9, <1>10 DEF Next

Early == {"idle", "read", "recovering", "prepared"}

\* Only two steps take a start past the stop of what it replaces.
LEMMA HandlerSteps ==
    ASSUME TypeOK, NEW x \in Dispatches, [Next]_vars, handler[x].step \in Early, handler'[x].step \notin Early
    PROVE  StopPredecessor(x) \/ RecoverStart(x)
<1>1. handler'[x] # handler[x] /\ handler'[x] # Idle
  BY DEF Early, Idle
<1>2. ASSUME NEW d \in Dispatches, StarterStep(d) \/ StarterFailure(d) PROVE x = d
  <2>1. CASE RecoverStart(d) \/ RotateStart(d) \/ BeginTurn(d)
    BY <1>1, <2>1 DEF RecoverStart, RotateStart, BeginTurn, TypeOK
  <2>2. CASE ~(RecoverStart(d) \/ RotateStart(d) \/ BeginTurn(d))
    BY <1>1, <1>2, <2>2, HandlerOf
       DEF StarterStep, StarterFailure, PrepareStart, StopPredecessor, RecheckStart, ReserveStart, RegisterTurn,
           AcceptStart, StopLost, ReconcileStart, ScheduleRetry, InvalidStart, FailStart, FailAccept,
           FailRotate, FailHandler
  <2> QED
    BY <2>1, <2>2
<1>3. CASE StarterStep(x)
  <2>1. ~PrepareStart(x)
    BY HandlerOf DEF PrepareStart, Early
  <2>2. StopPredecessor(x) \/ RecoverStart(x)
    BY <1>3, <2>1 DEF StarterStep, RecheckStart, ReserveStart, BeginTurn, RegisterTurn, AcceptStart, StopLost,
                      ReconcileStart, RotateStart, ScheduleRetry, Early
  <2> QED
    BY <2>2
<1>4. ~StarterFailure(x)
  <2>1. ~Ends(x)
    BY <1>1, HandlerOf
  <2> QED
    BY <2>1 DEF StarterFailure, InvalidStart, FailStart, FailAccept, FailRotate, FailHandler, Early
<1>5. ASSUME NEW d \in Dispatches, Signalled(d) PROVE FALSE
  <2>1. PICK h \in hints : h.gen.dispatch = d /\ (ReceiveStart(d, h.gen.rev) \/ DeferStart(d, h.gen.rev))
    BY <1>5 DEF Signalled
  <2>2. ReceiveStart(d, h.gen.rev)
    BY <1>1, <2>1 DEF DeferStart, memory
  <2>3. x = d /\ handler'[d] = [Idle EXCEPT !.rev = h.gen.rev, !.control = control,
                                   !.step = IF Recovering(StartDue(d, h.gen.rev).gen) THEN "recovering" ELSE "read"]
    BY <1>1, <2>2 DEF ReceiveStart, TypeOK
  <2>4. handler'[d].step \in {"recovering", "read"}
    BY <2>3 DEF Idle
  <2> QED
    BY <2>3, <2>4 DEF Early
<1>6. ~ \E d \in Dispatches : \/ CleanupStep(d) \/ EndTurn(d) \/ NodeCloses(d)
                              \/ \E e \in Dispatches : WatchdogReplace(d, e)
  BY <1>1 DEF CleanupStep, RevokeClosed, StopClosed, EndTurn, NodeCloses, WatchdogReplace, memory
<1>7. ~(\/ UNCHANGED vars \/ Restart \/ (\E h \in hints : LoseHint(h)) \/ (\E g \in timers : FireTimer(g))
        \/ PauseTask \/ CancelTask \/ ResumeTask)
  BY <1>1 DEF vars, Restart, LoseHint, FireTimer, PauseTask, CancelTask, StopTask, ResumeTask, memory
<1> QED
  BY <1>2, <1>3, <1>4, <1>5, <1>6, <1>7 DEF Next

LEMMA OnlyRestartForgives ==
    ASSUME TypeOK, [Next]_vars
    PROVE  KeepsLossy \/ Restart
<1>1. CASE \/ UNCHANGED faultVars \/ ProviderFails \/ ControllerFails
           \/ \E p : StopTurn(p) \/ NoStop
  BY <1>1, FaultsKeepLossy, StopEnds
<1>2. CASE \E d \in Dispatches : StarterStep(d)
  BY <1>1, <1>2
     DEF StarterStep, RecoverStart, PrepareStart, StopPredecessor, StopPredecessorOf, RecheckStart, ReserveStart,
         BeginTurn, RegisterTurn, AcceptStart, StopLost, ReconcileStart, RotateStart, ScheduleRetry
<1>3. CASE \E d \in Dispatches : StarterFailure(d)
  BY <1>1, <1>3 DEF StarterFailure, InvalidStart, FailStart, FailAccept, FailRotate, FailHandler
<1>4. CASE \E d \in Dispatches : \/ Signalled(d) \/ CleanupStep(d) \/ EndTurn(d) \/ NodeCloses(d)
                                 \/ \E e \in Dispatches : WatchdogReplace(d, e)
  BY <1>1, <1>4 DEF Signalled, ReceiveStart, DeferStart, CleanupStep, RevokeClosed, StopClosed, EndTurn,
                    NodeCloses, WatchdogReplace
<1>5. CASE \/ UNCHANGED vars \/ (\E h \in hints : LoseHint(h)) \/ (\E g \in timers : FireTimer(g))
           \/ PauseTask \/ CancelTask \/ ResumeTask
  BY <1>1, <1>5 DEF vars, LoseHint, FireTimer, PauseTask, CancelTask, StopTask, ResumeTask
<1> QED
  BY <1>2, <1>3, <1>4, <1>5 DEF Next

LEMMA ReplacesNext ==
    ASSUME TurnInv, NEW x \in Dispatches, [Next]_vars
    PROVE  ReplacesSuperseded(x)'
<1>0. TypeOK /\ ReplacesSuperseded(x)
  BY DEF TurnInv, StartInv
<1>1. CASE row'[x].superseded = row[x].superseded
  <2> SUFFICES ASSUME row[x].superseded # None PROVE ReplacesSuperseded(x)'
    BY <1>1 DEF ReplacesSuperseded
  <2>1. PICK p \in Dispatches : p = row[x].superseded
    BY <1>0 DEF ReplacesSuperseded
  <2>2. row[p].status = "closed" /\ row[p].reason = "watchdog_superseded"
    BY <1>0, <2>1 DEF ReplacesSuperseded
  <2>3. row'[p] = row[p]
    BY <2>2, ClosedStays DEF TurnInv
  <2> QED
    BY <1>1, <2>1, <2>2, <2>3 DEF ReplacesSuperseded
<1>2. CASE row'[x] = Opened(None)
  BY <1>2 DEF Opened, ReplacesSuperseded
<1>3. ASSUME NEW p \in Dispatches, WatchdogReplace(p, x) PROVE ReplacesSuperseded(x)'
  <2>0. row[p] \in RowType
    BY <1>0, HandlerRev
  <2>1. row'[x] = Opened(p) /\ row'[p] = Closed(row[p], "watchdog_superseded")
    BY <1>0, <1>3 DEF WatchdogReplace, TypeOK
  <2>2. row'[x].superseded = p
    BY <2>1 DEF Opened
  <2> QED
    BY <2>0, <2>1, <2>2, ClosedRow DEF ReplacesSuperseded
<1> QED
  BY <1>0, <1>1, <1>2, <1>3, RowSteps

LEMMA PredecessorNext ==
    ASSUME TurnInv, NEW x \in Dispatches, [Next]_vars
    PROVE  PredecessorIsStopped(x)'
<1>0. /\ TypeOK /\ StartInv /\ Sound(x) /\ ReplacesSuperseded(x) /\ PredecessorIsStopped(x)
      /\ row[x].rev \in Nat /\ handler[x].rev \in Nat /\ turn[x] \in TurnType
  BY HandlerRev DEF TurnInv, StartInv
<1>1. CASE row'[x] = Opened(None)
  BY <1>1 DEF Opened, PredecessorIsStopped
<1>2. ASSUME NEW p \in Dispatches, WatchdogReplace(p, x) PROVE PredecessorIsStopped(x)'
  <2>1. /\ row'[x] = Opened(p) /\ row[x].status = "unused" /\ handler' = handler /\ turn' = turn
    BY <1>0, <1>2 DEF WatchdogReplace, TypeOK, memory
  <2>2. row'[x].rev = 0
    BY <2>1 DEF Opened
  <2>3. ~PastStop(x)'
    BY <1>0, <2>1, <2>2 DEF Sound, Untouched, PastStop, HasTurn
  <2> QED
    BY <2>3 DEF PredecessorIsStopped
<1>3. CASE Restart
  <2>1. \A p \in Dispatches : ~HasTurn(p)'
    BY <1>0, <1>3 DEF Restart, HasTurn, TypeOK, TurnType
  <2>2. row' = row
    BY <1>3 DEF Restart, rows
  <2> QED
    BY <1>0, <2>1, <2>2 DEF PredecessorIsStopped, ReplacesSuperseded, HasTurn
<1>4. CASE /\ row'[x].superseded = row[x].superseded
           /\ row'[x].rev = row[x].rev \/ RotateStart(x)
           /\ KeepsLossy
  <2> SUFFICES ASSUME ~lossy', row[x].superseded # None, PastStop(x)'
               PROVE  ~HasTurn(row[x].superseded)'
    BY <1>4 DEF PredecessorIsStopped, HasTurn
  <2>1. PICK p \in Dispatches : p = row[x].superseded
    BY <1>0 DEF ReplacesSuperseded
  <2>2. /\ row[p].reason = "watchdog_superseded" /\ Held(p) /\ Sound(p) /\ turn[p] \in TurnType
    BY <1>0, <2>1, HandlerRev DEF ReplacesSuperseded, TurnInv, StartInv
  <2>3. handler[p].step # "starting" /\ turn[p].state # "begun"
    BY <2>2 DEF Held, ReasonIsOfClose, Sound, TurnIsOfStart
  <2>4. HasTurn(p)' => HasTurn(p)
    BY <1>0, <2>3, TurnsOnlyEnd DEF BeginTurn
  <2>5. CASE PastStop(x)
    <3>1. ~HasTurn(p)
      BY <1>0, <1>4, <2>1, <2>5 DEF PredecessorIsStopped, KeepsLossy
    <3> QED
      BY <1>4, <2>1, <2>4, <3>1 DEF HasTurn
  <2>6. CASE ~PastStop(x)
    <3>1. row[x].rev = 0 /\ ~HasTurn(x) /\ handler[x].step \in Early
      BY <1>0, <2>6 DEF PastStop, Early
    <3>2. ~RotateStart(x) /\ ~BeginTurn(x)
      BY <3>1 DEF RotateStart, BeginTurn, Early
    <3>3. row'[x].rev = 0 /\ ~HasTurn(x)'
      BY <1>0, <1>4, <3>1, <3>2, TurnsOnlyEnd
    <3>4. handler'[x].step \notin Early
      BY <3>3 DEF PastStop, Early
    <3>5. StopPredecessor(x) \/ RecoverStart(x)
      BY <1>0, <3>1, <3>4, HandlerSteps
    <3>6. InitialWatchdog(x)
      <4>1. handler[x].step \in {"prepared", "recovering"}
        BY <3>5 DEF StopPredecessor, RecoverStart
      <4>2. handler[x].rev = 0
        BY <1>0, <3>1, <4>1 DEF Sound, HandlerMatchesRow, InFlight
      <4> QED
        BY <4>2 DEF InitialWatchdog
    <3>7. StopTurn(p)
      BY <2>1, <3>5, <3>6 DEF StopPredecessor, StopPredecessorOf, RecoverStart
    <3>8. ~HasTurn(p)'
      BY <1>0, <2>2, <2>3, <3>7 DEF StopTurn, ControllerFails, HasTurn, TypeOK, TurnType
    <3> QED
      BY <1>4, <2>1, <3>8 DEF HasTurn
  <2> QED
    BY <2>5, <2>6
<1> QED
  BY <1>0, <1>1, <1>2, <1>3, <1>4, RowSteps, OnlyRestartForgives

LEMMA TurnInit == Init => TurnInv
<1> SUFFICES ASSUME Init, NEW x \in Dispatches
             PROVE  Held(x) /\ ReplacesSuperseded(x) /\ PredecessorIsStopped(x)
    BY StartInit DEF TurnInv
<1>1. /\ row[x].superseded = None /\ row[x].reason = "none" /\ row[x].status \in {"starting", "unused"}
      /\ handler[x] = Idle /\ ~HasTurn(x) /\ bindings = {}
  BY DEF Init, Opened, HasTurn
<1>2. handler[x].step = "idle" /\ \A n \in Nat : ~Bound(x, n)
  BY <1>1 DEF Idle, Bound
<1>3. Held(x)
  BY <1>1, <1>2 DEF Held, ReasonIsOfClose, IssuedFirst, OpenTurnIsOwn, TurnIsKept, BindingIsKept
<1> QED
  BY <1>1, <1>3 DEF ReplacesSuperseded, PredecessorIsStopped

LEMMA TurnInductive == Spec => []TurnInv
<1>1. TurnInv /\ [Next]_vars => TurnInv'
  <2> SUFFICES ASSUME TurnInv, [Next]_vars PROVE TurnInv'
    OBVIOUS
  <2>1. StartInv'
    BY StartNext DEF TurnInv
  <2> QED
    BY <2>1, HeldNext, ReplacesNext, PredecessorNext DEF TurnInv
<1> QED
  BY <1>1, TurnInit, PTL DEF Spec

\* In whatever order acceptances, rotations, retries, cleanups and the
\* operator's control commit, the turn of an open Dispatch is the accepted one
\* and may call back, a turn that lost its Dispatch or its generation is on its
\* way to be stopped, and a Dispatch closed by the operator or the Watchdog is
\* on its way to lose its bindings (_record_acceptance,
\* _record_provider_failure, the provider cleanup).
THEOREM TurnsAccounted == Spec => []TurnsAreAccounted
<1>1. TurnInv => OpenTurnIsAccepted
  <2> SUFFICES ASSUME TurnInv, NEW d \in Dispatches, row[d].status = "open", HasTurn(d)
               PROVE  turn[d].state = "running" /\ MayCall(d)
      BY DEF OpenTurnIsAccepted
  <2>1. Held(d) /\ Sound(d) /\ row[d].rev \in Nat
    BY HandlerRev DEF TurnInv, StartInv
  <2>2. turn[d].state = "running" /\ turn[d].rev = row[d].rev
    BY <2>1 DEF Held, OpenTurnIsOwn
  <2>3. PICK n \in Nat : n = row[d].rev
    BY <2>1
  <2>4. Bound(d, n)
    BY <2>1, <2>3 DEF Held, OpenTurnIsOwn
  <2>5. Live(d) /\ task = "running"
    BY <2>1 DEF Live, Sound, StoppedHasNoLive
  <2> QED
    BY <2>2, <2>3, <2>4, <2>5 DEF MayCall, Bound
<1>2. TurnInv => DoomedTurnIsStopped
  <2> SUFFICES ASSUME TurnInv, NEW d \in Dispatches, Doomed(d)
               PROVE  Cleanup(d) \in hints \/ d \in cleaning \/ InFlight(d) \/ lossy
      BY DEF DoomedTurnIsStopped
  <2>1. TurnIsKept(d)
    BY DEF TurnInv, Held
  <2> QED
    BY <2>1 DEF Doomed, TurnIsKept, InFlight, CleanupDue
<1>3. TurnInv => ClosedDispatchIsRevoked
  <2> SUFFICES ASSUME TurnInv, NEW b \in bindings,
                      row[b.dispatch].reason \in {"paused", "cancelled", "watchdog_superseded"}
               PROVE  Cleanup(b.dispatch) \in hints \/ InFlight(b.dispatch) \/ lossy
      BY DEF ClosedDispatchIsRevoked
  <2>1. b \in Generation
    BY DEF TurnInv, StartInv, TypeOK
  <2>2. PICK d \in Dispatches, n \in Nat : d = b.dispatch /\ n = b.rev /\ b = Gen(d, n)
    BY <2>1 DEF Generation, Gen
  <2>3. Held(d) /\ Bound(d, n)
    BY <2>2 DEF TurnInv, Bound
  <2> QED
    BY <2>2, <2>3 DEF Held, ReasonIsOfClose, BindingIsKept, InFlight, CleanupDue
<1> QED
  BY <1>1, <1>2, <1>3, TurnInductive, PTL DEF TurnsAreAccounted

\* The turn that a watchdog replacement replaces is gone before the
\* replacement's own begins, unless this controller failed to stop it
\* (_stop_watchdog_predecessor, _handle_recovered_due).
THEOREM PredecessorStops == Spec => []PredecessorStopsFirst
<1>1. TurnInv => PredecessorStopsFirst
  BY DEF TurnInv, PredecessorIsStopped, PastStop, PredecessorStopsFirst
<1> QED
  BY <1>1, TurnInductive, PTL
=============================================================================
