------------------------- MODULE ExternalWaits_proofs -------------------------
(***************************************************************************)
(* What holds of Human Requests and Command Runs for every number of       *)
(* Attempts, sources, faults and restarts: rows stay typed, waits, sources *)
(* and successors agree, processes are owned, recorded ends are true and   *)
(* final, the startup audit finds whatever is unfinished, and a controller *)
(* that has lost nothing holds what moves every source on.                 *)
(***************************************************************************)
EXTENDS ExternalWaits, TLAPS

-----------------------------------------------------------------------------
(* Types                                                                    *)

LEMMA HintsTyped ==
    /\ \A k \in HintKind, s \in Sources : Hint(k, s) \in HintType
    /\ \A k \in HintKind, s \in Sources, v \in {0, 1} : OwnedHint(k, s, v) \in HintType
  BY DEF Hint, OwnedHint, HintType

LEMMA WithoutWaitTyped ==
    ASSUME TypeOK, NEW s \in Sources
    PROVE  WithoutWait(s) \in [Attempts -> LaneType]
  BY DEF WithoutWait, TypeOK, LanesTypeOK, LaneType

LEMMA TerminatingTyped ==
    ASSUME TypeOK, NEW r \in Runs, NEW c \in Cause
    PROVE  /\ Terminating(r, c) \in OwnerType
           /\ [Terminating(r, c) EXCEPT !.phase = "resolved"] \in OwnerType
  BY DEF TypeOK, OwnerType, Terminating, Phase

\* What every step leaves typed, by the variables it touches.
LaneVarsTyped ==
    /\ task \in {"running", "paused", "cancelled"} /\ control \in Nat
    /\ lane \in [Attempts -> LaneType]
    /\ opened \in [Attempts -> Seq(Sources \cup {"start", "resume"})]
PostTyped ==
    /\ hints \subseteq HintType /\ timers \subseteq Sources
    /\ audit \in Nat /\ audit \in 0..Len(Families) /\ faults \in 0..MaxFaults /\ restarts \in 0..MaxRestarts
    /\ lossy \in BOOLEAN
RequestTyped == request \in [Requests -> RequestType]
CommandTyped ==
    run \in [Runs -> RunType] /\ owner \in [Runs -> OwnerType] /\ process \in [Runs -> ProcessState]

LEMMA TypeParts == TypeOK <=> LaneVarsTyped /\ PostTyped /\ RequestTyped /\ CommandTyped
  BY DEF TypeOK, LanesTypeOK, LaneVarsTyped, PostTyped, RequestTyped, CommandTyped

LEMMA TypeInit == Init => TypeOK
<1> SUFFICES ASSUME Init PROVE TypeOK
    OBVIOUS
<1>1. LaneVarsTyped
  <2>1. <<"start">> \in Seq(Sources \cup {"start", "resume"})
    OBVIOUS
  <2>2. [status |-> "running", dispatch |-> 1, wait |-> None] \in LaneType
    BY DEF LaneType
  <2> QED
    BY <2>1, <2>2 DEF Init, LanesInit, LaneVarsTyped
<1>2. PostTyped
  <2>1. Len(Families) \in Nat /\ Len(Families) \in 0..Len(Families)
    BY DEF Families
  <2>2. 0 \in 0..MaxFaults /\ 0 \in 0..MaxRestarts
    BY BoundsAssumption
  <2> QED
    BY <2>1, <2>2 DEF Init, LanesInit, PostTyped
<1>3. RequestTyped
  BY DEF Init, HumanInit, RequestTyped, RequestType
<1>4. CommandTyped
  BY DEF Init, CommandInit, CommandTyped, RunType, RunState, OwnerType, NoOwner, Cause, Phase,
         ProcessState
<1> QED
  BY <1>1, <1>2, <1>3, <1>4, TypeParts

LEMMA HandledTyped ==
    ASSUME TypeOK, NEW h, NEW new \in SUBSET HintType, Handled(h, new)
    PROVE  hints' \subseteq HintType
  BY DEF TypeOK, LanesTypeOK, Handled

LEMMA LanesTyped ==
    ASSUME TypeOK, NEW A \in SUBSET Attempts, NEW origin,
           \A a \in A : origin[a] \in Sources \cup {"resume"},
           WithDispatches(A, origin)
    PROVE  lane' \in [Attempts -> LaneType] /\ opened' \in [Attempts -> Seq(Sources \cup {"start", "resume"})]
<1>1. \A a \in Attempts : Len(opened[a]) + 1 \in Nat
  BY DEF TypeOK, LanesTypeOK
<1>2. \A a \in A : Append(opened[a], origin[a]) \in Seq(Sources \cup {"start", "resume"})
  BY DEF TypeOK, LanesTypeOK
<1> QED
  BY <1>1, <1>2 DEF TypeOK, LanesTypeOK, LaneType, WithDispatches

LEMMA ClaimTyped ==
    ASSUME TypeOK, NEW S \in SUBSET {s \in Sources : Used(s)}, ClaimSources(S)
    PROVE  request' \in [Requests -> RequestType] /\ run' \in [Runs -> RunType]
<1>1. \A a \in Attempts : Len(opened[a]) + 1 \in Nat
  BY DEF TypeOK, LanesTypeOK
<1>2. \A q \in Requests : q \in S => request[q].attempt \in Attempts
  BY DEF TypeOK, RequestType, Used, AttemptOf
<1>3. \A r \in Runs : r \in S => run[r].attempt \in Attempts
  BY SourcesAssumption DEF TypeOK, RunType, Used, AttemptOf
<1>4. request' \in [Requests -> RequestType]
  BY <1>1, <1>2 DEF TypeOK, RequestType, ClaimSources
<1>5. run' \in [Runs -> RunType]
  BY <1>1, <1>3 DEF TypeOK, RunType, ClaimSources
<1> QED
  BY <1>4, <1>5

LEMMA HumanTypes ==
    ASSUME TypeOK, NEW q \in Requests,
           \/ \E a \in Attempts : OpenHumanRequest(a, q)
           \/ AnswerHumanRequest(q) \/ HumanHandler(q),
           UNCHANGED commandVars
    PROVE  TypeOK'
<1> USE DEF taskVars, laneVars, faultVars, commandVars, TypeOK, LanesTypeOK
<1> q \in Sources
  BY DEF Sources
<1>2. ASSUME NEW a \in Attempts, OpenHumanRequest(a, q) PROVE TypeOK'
  <2>1. lane' \in [Attempts -> LaneType]
    BY <1>2 DEF OpenHumanRequest, Suspend, LaneType
  <2>2. request' \in [Requests -> RequestType]
    BY <1>2 DEF OpenHumanRequest, RequestType
  <2>3. hints' \subseteq HintType
    BY <1>2, HintsTyped DEF OpenHumanRequest, HintKind
  <2> QED
    BY <1>2, <2>1, <2>2, <2>3 DEF OpenHumanRequest
<1>3. ASSUME NEW end \in RequestEnds, PersistResolution(q, end)
      PROVE  lane' \in [Attempts -> LaneType] /\ request' \in [Requests -> RequestType]
  BY <1>3, WithoutWaitTyped DEF PersistResolution, RequestType
<1>4. CASE AnswerHumanRequest(q)
  <2>1. lane' \in [Attempts -> LaneType] /\ request' \in [Requests -> RequestType]
    BY <1>3, <1>4 DEF AnswerHumanRequest, RequestEnds
  <2>2. hints' \subseteq HintType
    BY <1>4, HintsTyped DEF AnswerHumanRequest, HintKind
  <2> QED
    BY <1>4, <2>1, <2>2 DEF AnswerHumanRequest
<1>5. CASE RegisterHumanDeadline(q)
  <2>1. hints' \subseteq HintType
    BY <1>5, HandledTyped DEF RegisterHumanDeadline
  <2> QED
    BY <1>5, <2>1 DEF RegisterHumanDeadline
<1>6. CASE ExpireHumanRequest(q)
  <2>1. lane' \in [Attempts -> LaneType] /\ request' \in [Requests -> RequestType]
    BY <1>3, <1>6 DEF ExpireHumanRequest, RequestEnds
  <2>2. {Hint("HumanRequestTerminal", q)} \in SUBSET HintType
    BY HintsTyped DEF HintKind
  <2>3. hints' \subseteq HintType
    BY <1>6, <2>2, HandledTyped DEF ExpireHumanRequest
  <2> QED
    BY <1>6, <2>1, <2>3 DEF ExpireHumanRequest
<1> QED
  BY <1>2, <1>4, <1>5, <1>6 DEF HumanHandler

LEMMA EndRunTyped ==
    ASSUME TypeOK, NEW r \in Runs, NEW end \in RunEnds, EndRun(r, end)
    PROVE  lane' \in [Attempts -> LaneType] /\ run' \in [Runs -> RunType]
<1>1. lane' \in [Attempts -> LaneType]
  BY WithoutWaitTyped DEF EndRun, Sources
<1>2. run' \in [Runs -> RunType]
  BY DEF TypeOK, EndRun, RunType, RunState
<1> QED
  BY <1>1, <1>2

LEMMA EndOwnedTyped ==
    ASSUME TypeOK, NEW r \in Runs, NEW end \in RunEnds, EndOwned(r, end)
    PROVE  /\ lane' \in [Attempts -> LaneType] /\ run' \in [Runs -> RunType]
           /\ owner' \in [Runs -> OwnerType] /\ hints' \subseteq HintType
<1>1. NoOwner \in OwnerType
  BY DEF NoOwner, OwnerType, Cause, Phase
<1>2. hints' \subseteq HintType
  BY HintsTyped DEF EndOwned, TypeOK, LanesTypeOK, HintKind, Sources
<1>3. lane' \in [Attempts -> LaneType] /\ run' \in [Runs -> RunType]
  BY EndRunTyped DEF EndOwned
<1>4. owner' \in [Runs -> OwnerType]
  BY <1>1 DEF EndOwned, TypeOK
<1> QED
  BY <1>2, <1>3, <1>4

LEMMA EndUnownedTyped ==
    ASSUME TypeOK, NEW r \in Runs, NEW h, EndUnowned(r, h)
    PROVE  /\ lane' \in [Attempts -> LaneType] /\ run' \in [Runs -> RunType]
           /\ hints' \subseteq HintType
<1>1. UnownedEnd(r) \in RunEnds
  BY DEF UnownedEnd, RunEnds
<1>2. {Hint("CommandRunTerminal", r)} \in SUBSET HintType
  BY HintsTyped DEF HintKind, Sources
<1>3. hints' \subseteq HintType
  BY <1>2, HandledTyped DEF EndUnowned
<1> QED
  BY <1>1, <1>3, EndRunTyped DEF EndUnowned, TypeOK, LanesTypeOK

\* A step of one run that leaves the other variables alone.
RunStep == UNCHANGED <<request, taskVars, opened, audit, restarts>>

LEMMA RunTypes ==
    ASSUME TypeOK, RunStep,
           lane' \in [Attempts -> LaneType], run' \in [Runs -> RunType],
           owner' \in [Runs -> OwnerType], process' \in [Runs -> ProcessState],
           hints' \subseteq HintType, timers' \subseteq Sources,
           faults' \in 0..MaxFaults, lossy' \in BOOLEAN
    PROVE  TypeOK'
  BY DEF TypeOK, LanesTypeOK, RunStep, taskVars

LEMMA CommandTypes ==
    ASSUME TypeOK, NEW r \in Runs,
           \/ \E a \in Attempts : StartCommandRun(a, r)
           \/ RequestRunCancellation(r) \/ CommandHandler(r),
           UNCHANGED request
    PROVE  TypeOK'
<1> USE DEF taskVars, laneVars, faultVars, postCommit, RunStep, TypeOK, LanesTypeOK
<1> r \in Sources
  BY DEF Sources
<1>1. ASSUME NEW a \in Attempts, StartCommandRun(a, r) PROVE TypeOK'
  <2>1. lane' \in [Attempts -> LaneType]
    BY <1>1 DEF StartCommandRun, Suspend, LaneType
  <2>2. run' \in [Runs -> RunType]
    BY <1>1, ZenonT(60) DEF StartCommandRun, RunType, RunState
  <2>3. hints' \subseteq HintType
    BY <1>1, HintsTyped DEF StartCommandRun, HintKind
  <2> QED
    BY <1>1, <2>1, <2>2, <2>3, RunTypes DEF StartCommandRun
<1>2. CASE RequestRunCancellation(r)
  <2>1. run' \in [Runs -> RunType] /\ run[r].rev \in {0, 1}
    BY <1>2 DEF RequestRunCancellation, RunType, RunState
  <2>2. hints' \subseteq HintType
    BY <1>2, <2>1, HintsTyped DEF RequestRunCancellation, HintKind
  <2> QED
    BY <1>2, <2>1, <2>2, RunTypes DEF RequestRunCancellation
<1>3. CASE ClaimLaunch(r)
  <2>1. run' \in [Runs -> RunType]
    BY <1>3 DEF ClaimLaunch, RunType
  <2>2. owner' \in [Runs -> OwnerType]
    BY <1>3 DEF ClaimLaunch, OwnerType, Phase
  <2>3. hints' \subseteq HintType
    BY <1>3 DEF ClaimLaunch, Handled
  <2> QED
    BY <1>3, <2>1, <2>2, <2>3, RunTypes DEF ClaimLaunch
<1>4. CASE RecoverUnowned(r)
  <2>1. hints' \subseteq HintType /\ lane' \in [Attempts -> LaneType] /\ run' \in [Runs -> RunType]
    BY <1>4, EndUnownedTyped DEF RecoverUnowned, Handled
  <2> QED
    BY <1>4, <2>1, RunTypes DEF RecoverUnowned
<1>5. CASE ReadExit(r)
  <2>1. owner' \in [Runs -> OwnerType]
    BY <1>5 DEF ReadExit, OwnerType, RunType
  <2>2. hints' \subseteq HintType
    BY <1>5 DEF ReadExit, Handled
  <2> QED
    BY <1>5, <2>1, <2>2, RunTypes DEF ReadExit
<1>6. ASSUME NEW c \in Cause, NEW h,
             \/ Handled(h, {}) /\ UNCHANGED <<run, lane, owner>>
             \/ /\ owner' = [owner EXCEPT ![r] = Terminating(r, c)]
                /\ Handled(h, {}) /\ UNCHANGED <<run, lane>>
             \/ EndUnowned(r, h) /\ UNCHANGED owner
      PROVE  /\ hints' \subseteq HintType /\ lane' \in [Attempts -> LaneType]
             /\ run' \in [Runs -> RunType] /\ owner' \in [Runs -> OwnerType]
  BY <1>6, EndUnownedTyped, TerminatingTyped, ZenonT(60) DEF Handled
<1>7. CASE EnforceCommandDeadline(r)
  <2>1. "timed_out" \in Cause
    BY DEF Cause
  <2>2. /\ hints' \subseteq HintType /\ lane' \in [Attempts -> LaneType]
        /\ run' \in [Runs -> RunType] /\ owner' \in [Runs -> OwnerType]
    BY <1>6, <1>7, <2>1 DEF EnforceCommandDeadline
  <2> QED
    BY <1>7, <2>2, RunTypes DEF EnforceCommandDeadline
<1>8. CASE TerminateCancelled(r)
  <2>1. "cancelled" \in Cause
    BY DEF Cause
  <2>2. /\ hints' \subseteq HintType /\ lane' \in [Attempts -> LaneType]
        /\ run' \in [Runs -> RunType] /\ owner' \in [Runs -> OwnerType]
    BY <1>6, <1>8, <2>1 DEF TerminateCancelled
  <2> QED
    BY <1>8, <2>2, RunTypes DEF TerminateCancelled
<1> QED
  BY <1>1, <1>2, <1>3, <1>4, <1>5, <1>7, <1>8 DEF CommandHandler

LEMMA PhaseTyped ==
    ASSUME TypeOK, NEW r \in Runs, NEW p \in Phase, owner' = [owner EXCEPT ![r].phase = p]
    PROVE  owner' \in [Runs -> OwnerType]
  BY DEF TypeOK, OwnerType

LEMMA OwnerTypes ==
    ASSUME TypeOK, NEW r \in Runs, OwnerTask(r) \/ OwnerFailure(r)
    PROVE  TypeOK'
<1> USE DEF taskVars, laneVars, faultVars, postCommit, RunStep, TypeOK, LanesTypeOK
<1> r \in Sources
  BY DEF Sources
<1> UNCHANGED request
  BY DEF OwnerTask, OwnerFailure
<1>2. CASE TakeOwnership(r)
  <2>1. owner' \in [Runs -> OwnerType]
    <3>1. "opening" \in Phase /\ owner' = [owner EXCEPT ![r].phase = "opening"]
      BY <1>2 DEF TakeOwnership, Phase
    <3> QED
      BY <3>1, PhaseTyped
  <2> QED
    BY <1>2, <2>1, RunTypes DEF TakeOwnership
<1>3. CASE PrepareLaunch(r)
  <2>1. CASE FinishesUnlaunched(r)
    <3>1. "cancelled" \in RunEnds
      BY DEF RunEnds
    <3> QED
      BY <1>3, <2>1, <3>1, EndOwnedTyped, RunTypes DEF PrepareLaunch
  <2>2. CASE ~FinishesUnlaunched(r)
    <3>1. "spawning" \in Phase /\ owner' = [owner EXCEPT ![r].phase = "spawning"]
      BY <1>3, <2>2 DEF PrepareLaunch, Phase
    <3>2. owner' \in [Runs -> OwnerType]
      BY <3>1, PhaseTyped
    <3> QED
      BY <1>3, <2>2, <3>2, RunTypes DEF PrepareLaunch
  <2> QED
    BY <2>1, <2>2
<1>4. CASE SpawnProcess(r)
  <2>1. owner' \in [Runs -> OwnerType]
    BY <1>4 DEF SpawnProcess, OwnerType, Phase
  <2>2. process' \in [Runs -> ProcessState]
    BY <1>4 DEF SpawnProcess, ProcessState
  <2> QED
    BY <1>4, <2>1, <2>2, RunTypes DEF SpawnProcess
<1>5. CASE RecordStart(r)
  <2>1. CASE MayMarkRunning(r)
    <3>1. /\ run' = [run EXCEPT ![r].state = "running"]
          /\ timers' = IF r \in Timed THEN timers \cup {r} ELSE timers
          /\ owner' = [owner EXCEPT ![r].phase = "resolved",
                                    ![r].killing = @ \/ owner[r].cause # "none"]
      BY <1>5, <2>1 DEF RecordStart
    <3>2. run' \in [Runs -> RunType]
      BY <3>1 DEF RunType, RunState
    <3>3. owner' \in [Runs -> OwnerType]
      <4> DEFINE killing == owner[r].killing \/ owner[r].cause # "none"
      <4>1. killing \in BOOLEAN /\ "resolved" \in Phase
        BY DEF OwnerType, Phase
      <4>2. owner' = [owner EXCEPT ![r].phase = "resolved", ![r].killing = killing]
        BY <3>1
      <4> HIDE DEF killing
      <4> QED
        BY <4>1, <4>2 DEF OwnerType
    <3>4. timers' \subseteq Sources
      BY <3>1
    <3> QED
      BY <1>5, <3>2, <3>3, <3>4, RunTypes DEF RecordStart
  <2>2. CASE ~MayMarkRunning(r)
    <3>1. [Terminating(r, "cancelled") EXCEPT !.phase = "resolved"] \in OwnerType
      BY TerminatingTyped DEF Cause
    <3> QED
      BY <1>5, <2>2, <3>1, RunTypes DEF RecordStart
  <2> QED
    BY <2>1, <2>2
<1>6. CASE KillProcess(r)
  BY <1>6, RunTypes DEF KillProcess, ProcessState
<1>7. CASE ReportExit(r)
  <2>1. owner' \in [Runs -> OwnerType]
    BY <1>7 DEF ReportExit, OwnerType
  <2>2. hints' \subseteq HintType
    BY <1>7, HintsTyped DEF ReportExit, HintKind
  <2> QED
    BY <1>7, <2>1, <2>2, RunTypes DEF ReportExit
<1>8. CASE RecordExit(r)
  <2>1. ExitEnd(owner[r].saw, owner[r].cause, process[r]) \in RunEnds
    BY DEF ExitEnd, RunEnds
  <2>2. NoOwner \in OwnerType
    BY DEF NoOwner, OwnerType, Cause, Phase
  <2> QED
    BY <1>8, <2>1, <2>2, EndOwnedTyped, RunTypes DEF RecordExit
<1>9. CASE FailLaunch(r)
  <2>1. CASE EndOwned(r, "failed") \/ EndOwned(r, "cancelled")
    <3>1. {"failed", "cancelled"} \subseteq RunEnds
      BY DEF RunEnds
    <3> QED
      BY <1>9, <2>1, <3>1, EndOwnedTyped, RunTypes DEF FailLaunch
  <2>2. CASE owner' = [owner EXCEPT ![r].phase = "unlaunched"] /\ UNCHANGED <<run, lane, hints>>
    <3>1. owner' \in [Runs -> OwnerType]
      BY <2>2 DEF OwnerType, Phase
    <3> QED
      BY <1>9, <2>2, <3>1, RunTypes DEF FailLaunch
  <2> QED
    BY <1>9, <2>1, <2>2 DEF FailLaunch
<1>10. CASE FailRecordStart(r)
  <2>1. [Terminating(r, "launch_failed") EXCEPT !.phase = "resolved"] \in OwnerType
    BY TerminatingTyped DEF Cause
  <2>2. faults' \in 0..MaxFaults
    BY <1>10, BoundsAssumption DEF FailRecordStart, Fail
  <2> QED
    BY <1>10, <2>1, <2>2, RunTypes DEF FailRecordStart, Fail
<1>11. CASE FailRecordExit(r)
  <2>1. owner' \in [Runs -> OwnerType]
    BY <1>11 DEF FailRecordExit, OwnerType
  <2> QED
    BY <1>11, <2>1, RunTypes DEF FailRecordExit
<1>12. CASE ExitProcess(r)
  BY <1>12, RunTypes DEF ExitProcess, ProcessState
<1> HIDE DEF taskVars, laneVars, faultVars, postCommit, RunStep, TypeOK, LanesTypeOK
<1> QED
  BY <1>2, <1>3, <1>4, <1>5, <1>6, <1>7, <1>8, <1>9, <1>10, <1>11, <1>12
  DEF OwnerTask, OwnerFailure

LEMMA PauseTyped ==
    ASSUME TypeOK, PauseLanes
    PROVE  task' = "paused" /\ control' \in Nat /\ lane' \in [Attempts -> LaneType]
<1>1. control' \in Nat
  BY DEF TypeOK, LanesTypeOK, PauseLanes
<1>2. lane' \in [Attempts -> LaneType]
  BY DEF TypeOK, LanesTypeOK, LaneType, PauseLanes
<1> QED
  BY <1>1, <1>2 DEF PauseLanes

LEMMA TerminalHintTyped ==
    ASSUME NEW s \in Sources PROVE TerminalHint(s) \in HintType
  BY HintsTyped DEF TerminalHint, HintKind

LEMMA ContinuationTypes ==
    ASSUME TypeOK, NEW s \in Sources, Continuation(s) PROVE TypeOK'
<1> USE DEF taskVars, laneVars, faultVars, commandVars, TypeOK, LanesTypeOK
<1>1. hints' \subseteq HintType /\ timers' \subseteq Sources
  BY DEF Continuation, OpenSuccessor, FailSuccessor, SkipSuccessor, TerminalHandled, Handled
<1>2. CASE OpenSuccessor(s)
  <2>1. AttemptOf(s) \in Attempts /\ Used(s)
    BY <1>2, SourcesAssumption
    DEF OpenSuccessor, SourceContinuable, AttemptOf, Used, RequestType, RunType, Sources
  <2>2. lane' \in [Attempts -> LaneType] /\ opened' \in [Attempts -> Seq(Sources \cup {"start", "resume"})]
    <3>1. \A a \in {AttemptOf(s)} : [b \in {AttemptOf(s)} |-> s][a] \in Sources \cup {"resume"}
      OBVIOUS
    <3>2. {AttemptOf(s)} \in SUBSET Attempts
      BY <2>1
    <3> QED
      BY <1>2, <3>1, <3>2, LanesTyped DEF OpenSuccessor
  <2>3. request' \in [Requests -> RequestType] /\ run' \in [Runs -> RunType]
    <3>1. {s} \in SUBSET {x \in Sources : Used(x)}
      BY <2>1
    <3> QED
      BY <1>2, <3>1, ClaimTyped DEF OpenSuccessor
  <2> QED
    BY <1>1, <1>2, <2>2, <2>3 DEF OpenSuccessor
<1>3. CASE FailSuccessor(s)
  BY <1>1, <1>3, PauseTyped DEF FailSuccessor
<1>4. CASE SkipSuccessor(s)
  BY <1>1, <1>4 DEF SkipSuccessor
<1> QED
  BY <1>2, <1>3, <1>4 DEF Continuation

LEMMA ControlTypes ==
    ASSUME TypeOK, Control PROVE TypeOK'
<1> USE DEF taskVars, laneVars, faultVars, commandVars, postCommit, TypeOK, LanesTypeOK
<1>1. CASE PauseTask
  BY <1>1, PauseTyped DEF PauseTask
<1>2. CASE ResumeTask
  <2> DEFINE idle == {a \in Attempts : Between(a)}
             claimed == {s \in Sources : Used(s) /\ AttemptOf(s) \in idle /\ Unconsumed(s)}
             origin == [a \in idle |-> ContinueOrigin(a)]
  <2>1. WithDispatches(idle, origin) /\ ClaimSources(claimed)
    BY <1>2 DEF ResumeTask
  <2>2. \A a \in idle : origin[a] \in Sources \cup {"resume"}
    BY DEF ContinueOrigin, ContinueSources
  <2>3. lane' \in [Attempts -> LaneType] /\ opened' \in [Attempts -> Seq(Sources \cup {"start", "resume"})]
    <3> HIDE DEF origin
    <3> QED
      BY <2>1, <2>2, LanesTyped
  <2>4. request' \in [Requests -> RequestType] /\ run' \in [Runs -> RunType]
    BY <2>1, ClaimTyped
  <2>5. task' \in {"running", "paused", "cancelled"} /\ control' \in Nat
    BY <1>2 DEF ResumeTask
  <2> QED
    BY <1>2, <2>3, <2>4, <2>5 DEF ResumeTask
<1>3. CASE CancelTask
  <2>1. lane' \in [Attempts -> LaneType]
    BY <1>3 DEF CancelTask, LaneType
  <2>2. request' \in [Requests -> RequestType]
    BY <1>3 DEF CancelTask, CancelHumanWaits, RequestType, RequestEnds
  <2>3. run' \in [Runs -> RunType]
    BY <1>3 DEF CancelTask, CancelCommandWaits, RunType, RunState
  <2>4. CommandCancelHints \subseteq HintType
    BY HintsTyped DEF CommandCancelHints, WaitedRuns, RunType, HintKind, Sources
  <2>5. {TerminalHint(q) : q \in {x \in Requests : WaitingOn(x) # {}}} \subseteq HintType
    BY TerminalHintTyped DEF Sources
  <2> QED
    BY <1>3, <2>1, <2>2, <2>3, <2>4, <2>5 DEF CancelTask
<1> QED
  BY <1>1, <1>2, <1>3 DEF Control

LEMMA PageTyped ==
    ASSUME TypeOK, NEW i \in 1..Len(Families) PROVE Page(Families[i]) \subseteq HintType
<1>1. \A r \in Runs : run[r].rev \in {0, 1} /\ r \in Sources
  BY DEF TypeOK, RunType, Sources
<1>2. \A q \in Requests : q \in Sources
  BY DEF Sources
<1>3. {"HumanRequestOpened", "CommandRunPending", "CommandRunCancellationRequested"} \subseteq HintKind
  BY DEF HintKind
<1> QED
  BY <1>1, <1>2, <1>3, HintsTyped, TerminalHintTyped DEF Page, Families

LEMMA ControllerTypes ==
    ASSUME TypeOK, AuditPage \/ Failure \/ \E s \in Sources : FireTimer(s) PROVE TypeOK'
<1> USE DEF taskVars, laneVars, faultVars, commandVars, TypeOK, LanesTypeOK
<1>1. CASE AuditPage
  <2>1. Len(Families) = 6
    BY DEF Families
  <2>2. audit + 1 \in 1..Len(Families)
    BY <1>1, <2>1 DEF AuditPage, Serving
  <2>3. hints' \subseteq HintType
    BY <1>1, <2>2, PageTyped DEF AuditPage
  <2> QED
    BY <1>1, <2>1, <2>2, <2>3 DEF AuditPage
<1>2. CASE Restart
  <2>1. NoOwner \in OwnerType
    BY DEF NoOwner, OwnerType, Cause, Phase
  <2>2. process' \in [Runs -> ProcessState]
    BY <1>2 DEF Restart, ProcessState
  <2>3. restarts' \in 0..MaxRestarts
    BY <1>2, BoundsAssumption DEF Restart
  <2>4. 0 \in 0..Len(Families)
    BY DEF Families
  <2> QED
    BY <1>2, <2>1, <2>2, <2>3, <2>4 DEF Restart
<1>3. ASSUME NEW h \in hints, LoseHint(h) PROVE TypeOK'
  <2>1. faults' \in 0..MaxFaults /\ lossy' \in BOOLEAN /\ UNCHANGED restarts
    BY <1>3, BoundsAssumption DEF LoseHint, Fail
  <2> QED
    BY <1>3, <2>1 DEF LoseHint
<1>4. ASSUME NEW s \in Sources, FireTimer(s) PROVE TypeOK'
  BY <1>4, HintsTyped DEF FireTimer, HintKind
<1> QED
  BY <1>1, <1>2, <1>3, <1>4 DEF Failure

LEMMA TypeNext == TypeOK /\ [Next]_vars => TypeOK'
<1> SUFFICES ASSUME TypeOK, [Next]_vars PROVE TypeOK'
    OBVIOUS
<1>1. CASE Human
  BY <1>1, HumanTypes DEF Human
<1>2. CASE Command
  BY <1>2, CommandTypes DEF Command
<1>3. CASE Control
  BY <1>3, ControlTypes
<1>4. CASE AuditPage \/ Failure \/ \E s \in Sources : FireTimer(s)
  BY <1>4, ControllerTypes
<1>5. ASSUME NEW q \in Requests, HumanHandler(q) PROVE TypeOK'
  BY <1>5, HumanTypes DEF HumanHandler
<1>6. ASSUME NEW r \in Runs, CommandHandler(r) PROVE TypeOK'
  BY <1>6, CommandTypes DEF CommandHandler
<1>7. ASSUME NEW r \in Runs, OwnerTask(r) \/ OwnerFailure(r) PROVE TypeOK'
  BY <1>7, OwnerTypes
<1>8. ASSUME NEW s \in Sources, Continuation(s) PROVE TypeOK'
  BY <1>8, ContinuationTypes
<1>9. CASE UNCHANGED vars
  BY <1>9 DEF vars, taskVars, laneVars, postCommit, faultVars, commandVars, TypeOK, LanesTypeOK
<1> QED
  BY <1>1, <1>2, <1>3, <1>4, <1>5, <1>6, <1>7, <1>8, <1>9 DEF Next

\* The rows of requests, runs, lanes and Dispatches keep the shapes the schema
\* gives them, whatever commits in whatever order.
THEOREM TypeCorrect == Spec => []TypeOK
  BY TypeInit, TypeNext, PTL DEF Spec


-----------------------------------------------------------------------------
(* Waits, sources and successors                                            *)

Outcome(s) == IF s \in Requests THEN request[s].status ELSE run[s].state
Fresh(s) == Outcome(s) = "unused"
Stopping(s) == s \in Runs /\ run[s].state = "cancellation_requested"

LanesFollowTask ==
    \A a \in Attempts : lane[a].status = IF task = "cancelled" THEN "cancelled" ELSE "running"
WaitOrDispatch == \A a \in Attempts : lane[a].wait # None => lane[a].dispatch = 0
FreshIsUnused == \A s \in Sources : Fresh(s) => ~Used(s)
SuccessorIsOfEnded == \A s \in Sources : Successor(s) # 0 => Ended(s)
CancelledIsStopping ==
    \A s \in Sources : (task = "cancelled" /\ Used(s) /\ ~Ended(s)) => Stopping(s)

\* What makes WaitsAreExact inductive: a lane is as alive as its Task and never
\* holds a Dispatch next to a wait, a row nobody used names no Attempt, only an
\* ended source has a successor, and what a cancelled Task left unended is a
\* command that is being stopped.
WaitsInv ==
    /\ TypeOK
    /\ LanesFollowTask /\ WaitOrDispatch /\ FreshIsUnused
    /\ SuccessorIsOfEnded /\ CancelledIsStopping
    /\ WaitsAreExact

(* What a step can do to lanes and sources.                                 *)

SameSource(s) ==
    /\ AttemptOf(s)' = AttemptOf(s) /\ Successor(s)' = Successor(s)
    /\ Ended(s)' <=> Ended(s)
    /\ Fresh(s)' <=> Fresh(s)
    /\ Ended(s) => Outcome(s)' = Outcome(s)
    /\ Stopping(s) => Stopping(s)'

Nothing == UNCHANGED <<task, lane, opened>> /\ \A s \in Sources : SameSource(s)

Opens(a, s) ==
    /\ Suspend(a, s) /\ UNCHANGED <<task, opened>>
    /\ Fresh(s) /\ AttemptOf(s)' = a /\ Successor(s)' = Successor(s) /\ ~Ended(s)' /\ ~Fresh(s)'
    /\ \A x \in Sources \ {s} : SameSource(x)

Ends(s) ==
    /\ lane' = WithoutWait(s) /\ UNCHANGED <<task, opened>>
    /\ ~Ended(s) /\ (WaitingOn(s) # {} \/ task = "cancelled")
    /\ AttemptOf(s)' = AttemptOf(s) /\ Successor(s)' = Successor(s) /\ Ended(s)' /\ ~Fresh(s)'
    /\ \A x \in Sources \ {s} : SameSource(x)

Continues(A, S, origin) ==
    /\ task \in {"running", "paused"} /\ task' = "running"
    /\ WithDispatches(A, origin)
    /\ \A a \in A : Between(a)
    /\ S = {s \in Sources : Used(s) /\ AttemptOf(s) \in A /\ Unconsumed(s)}
    /\ \A a \in A : \/ origin[a] = "resume"
                    \/ origin[a] \in S /\ AttemptOf(origin[a]) = a
    /\ \A s \in S : origin[AttemptOf(s)] = s
    /\ \A s \in Sources :
          /\ AttemptOf(s)' = AttemptOf(s) /\ Outcome(s)' = Outcome(s)
          /\ Successor(s)' = IF s \in S THEN Len(opened[AttemptOf(s)]) + 1 ELSE Successor(s)

Pauses ==
    PauseLanes /\ UNCHANGED opened /\ \A s \in Sources : SameSource(s)

Cancels ==
    /\ task' = "cancelled" /\ task # "cancelled" /\ UNCHANGED opened
    /\ lane' = [a \in Attempts |-> [status |-> "cancelled", dispatch |-> 0, wait |-> None]]
    /\ \A s \in Sources :
          /\ AttemptOf(s)' = AttemptOf(s) /\ Successor(s)' = Successor(s)
          /\ Ended(s) => Outcome(s)' = Outcome(s)
          /\ Fresh(s)' <=> Fresh(s)
          /\ (Used(s) /\ ~Ended(s)') => Stopping(s)'

\* An outcome says whether a source has ended, is unused, or is being stopped.
LEMMA OutcomeDecides ==
    ASSUME NEW s \in Sources
    PROVE  /\ Outcome(s)' = Outcome(s) => (Ended(s)' <=> Ended(s)) /\ (Fresh(s)' <=> Fresh(s))
                                          /\ (Stopping(s)' <=> Stopping(s))
           /\ Fresh(s) => ~Ended(s)
           /\ Stopping(s) => ~Ended(s) /\ ~Fresh(s)
  BY SourcesAssumption
  DEF Outcome, Ended, RequestEnded, RunEnded, Fresh, Stopping, RequestEnds, RunEnds, Sources

LEMMA NothingKeeps ==
    ASSUME WaitsInv, Nothing, TypeOK' PROVE WaitsInv'
<1> USE DEF WaitsInv, Nothing, SameSource, Used, Unconsumed
<1>1. LanesFollowTask' /\ WaitOrDispatch' /\ FreshIsUnused' /\ SuccessorIsOfEnded' /\ CancelledIsStopping'
  BY DEF LanesFollowTask, WaitOrDispatch, FreshIsUnused, SuccessorIsOfEnded, CancelledIsStopping
<1>2. WaitMatchesSource'
  BY DEF WaitsAreExact, WaitMatchesSource
<1>3. OneSuccessorPerWait'
  BY DEF WaitsAreExact, OneSuccessorPerWait
<1>4. EndedWaitKeepsItsLane'
  <2>1. \A s \in Sources : ContinueSources(AttemptOf(s))' = ContinueSources(AttemptOf(s))
    BY DEF ContinueSources
  <2> QED
    BY <2>1 DEF WaitsAreExact, EndedWaitKeepsItsLane, Between
<1> QED
  BY <1>1, <1>2, <1>3, <1>4 DEF WaitsAreExact

LEMMA PausesKeeps ==
    ASSUME WaitsInv, Pauses, TypeOK' PROVE WaitsInv'
<1> USE DEF WaitsInv, Pauses, SameSource, Used, Unconsumed
<1>1. \A a \in Attempts : lane'[a].status = lane[a].status /\ lane'[a].wait = lane[a].wait /\ lane'[a].dispatch = 0
  BY DEF PauseLanes, TypeOK, LanesTypeOK, LaneType
<1>2. task' # "cancelled" /\ task # "cancelled"
  BY DEF PauseLanes
<1>3. LanesFollowTask' /\ WaitOrDispatch' /\ FreshIsUnused' /\ SuccessorIsOfEnded' /\ CancelledIsStopping'
  BY <1>1, <1>2 DEF LanesFollowTask, WaitOrDispatch, FreshIsUnused, SuccessorIsOfEnded, CancelledIsStopping
<1>4. WaitMatchesSource'
  BY <1>1, <1>2 DEF WaitsAreExact, WaitMatchesSource
<1>5. OneSuccessorPerWait'
  BY DEF WaitsAreExact, OneSuccessorPerWait
<1>6. EndedWaitKeepsItsLane'
  <2>1. \A s \in Sources : ContinueSources(AttemptOf(s))' = ContinueSources(AttemptOf(s))
    BY DEF ContinueSources
  <2>2. \A s \in Sources : (Used(s) /\ Unconsumed(s)) => AttemptOf(s) \in Attempts
    BY SourcesAssumption DEF AttemptOf, TypeOK, RequestType, RunType, Sources
  <2> QED
    BY <1>1, <1>2, <2>1, <2>2 DEF WaitsAreExact, EndedWaitKeepsItsLane, Between
<1> QED
  BY <1>3, <1>4, <1>5, <1>6 DEF WaitsAreExact

LEMMA CancelsKeeps ==
    ASSUME WaitsInv, Cancels, TypeOK' PROVE WaitsInv'
<1> USE DEF WaitsInv, Cancels, Used, Unconsumed
<1>1. \A s \in Sources : Ended(s) => Ended(s)'
  BY OutcomeDecides
<1>2. LanesFollowTask' /\ WaitOrDispatch' /\ FreshIsUnused' /\ SuccessorIsOfEnded' /\ CancelledIsStopping'
  BY <1>1 DEF LanesFollowTask, WaitOrDispatch, FreshIsUnused, SuccessorIsOfEnded, CancelledIsStopping
<1>3. WaitMatchesSource'
  BY SourcesAssumption DEF WaitMatchesSource
<1>4. OneSuccessorPerWait'
  BY <1>1 DEF WaitsAreExact, OneSuccessorPerWait
<1>5. EndedWaitKeepsItsLane'
  BY DEF EndedWaitKeepsItsLane
<1> QED
  BY <1>2, <1>3, <1>4, <1>5 DEF WaitsAreExact


LEMMA OpensKeeps ==
    ASSUME WaitsInv, NEW a \in Attempts, NEW s \in Sources, Opens(a, s), TypeOK' PROVE WaitsInv'
<1> USE DEF WaitsInv, Opens, SameSource, Used, Unconsumed
<1>1. /\ lane[a].dispatch # 0 /\ lane[a].wait = None /\ task = "running"
      /\ lane'[a].dispatch = 0 /\ lane'[a].wait = s /\ lane'[a].status = "running"
      /\ \A b \in Attempts \ {a} : lane'[b] = lane[b]
      /\ a # None /\ s # None
  BY SourcesAssumption DEF Suspend, Working, WaitOrDispatch, TypeOK, LanesTypeOK, LaneType
<1>2. ~Used(s) /\ Successor(s) = 0 /\ Used(s)'
  BY <1>1, OutcomeDecides DEF FreshIsUnused, SuccessorIsOfEnded
<1>3. /\ LanesFollowTask' /\ WaitOrDispatch' /\ FreshIsUnused' /\ SuccessorIsOfEnded'
      /\ CancelledIsStopping'
  <2>1. LanesFollowTask'
    BY <1>1 DEF LanesFollowTask
  <2>2. WaitOrDispatch'
    BY <1>1 DEF WaitOrDispatch
  <2>3. FreshIsUnused' /\ SuccessorIsOfEnded'
    BY <1>2 DEF FreshIsUnused, SuccessorIsOfEnded
  <2> QED
    BY <1>1, <2>1, <2>2, <2>3 DEF CancelledIsStopping
<1>4. \A x \in Sources : (Used(x) /\ AttemptOf(x) = a) => Ended(x) /\ ~Unconsumed(x)
  <2> SUFFICES ASSUME NEW x \in Sources, Used(x), AttemptOf(x) = a PROVE Ended(x) /\ ~Unconsumed(x)
      OBVIOUS
  <2>1. Ended(x)
    BY <1>1, SourcesAssumption DEF WaitsAreExact, WaitMatchesSource
  <2>2. ~Between(a)
    BY <1>1 DEF Between
  <2> QED
    BY <1>1, <2>1, <2>2 DEF WaitsAreExact, EndedWaitKeepsItsLane
<1>5. WaitMatchesSource'
  <2> SUFFICES ASSUME NEW b \in Attempts, NEW x \in Sources
               PROVE (lane[b].wait = x <=> /\ Used(x) /\ AttemptOf(x) = b /\ ~Ended(x)
                                           /\ task # "cancelled")'
      BY DEF WaitMatchesSource
  <2>1. CASE x = s
    BY <1>1, <1>2, <2>1 DEF WaitsAreExact, WaitMatchesSource
  <2>2. CASE x # s
    BY <1>1, <1>4, <2>2 DEF WaitsAreExact, WaitMatchesSource
  <2> QED
    BY <2>1, <2>2
<1>6. OneSuccessorPerWait'
  <2>1. \A x \in Sources : x # s => (Used(x)' <=> Used(x)) /\ (Ended(x)' <=> Ended(x))
    OBVIOUS
  <2> QED
    BY <1>2, <2>1 DEF WaitsAreExact, OneSuccessorPerWait
<1>7. EndedWaitKeepsItsLane'
  <2> SUFFICES ASSUME NEW x \in Sources, Used(x)', Unconsumed(x)'
               PROVE Between(AttemptOf(x))' /\ ContinueSources(AttemptOf(x))' = {x}
      BY DEF EndedWaitKeepsItsLane
  <2>1. x # s /\ Used(x) /\ Unconsumed(x) /\ AttemptOf(x)' = AttemptOf(x)
    OBVIOUS
  <2>2. AttemptOf(x) # a /\ AttemptOf(x) \in Attempts
    BY <1>4, <2>1, SourcesAssumption DEF AttemptOf, TypeOK, RequestType, RunType, Sources
  <2>3. Between(AttemptOf(x)) /\ ContinueSources(AttemptOf(x)) = {x}
    BY <1>1, <2>1 DEF WaitsAreExact, EndedWaitKeepsItsLane
  <2>4. ContinueSources(AttemptOf(x))' = ContinueSources(AttemptOf(x))
    <3>1. AttemptOf(s)' # AttemptOf(x) /\ AttemptOf(s) # AttemptOf(x)
      BY <1>2, <2>2, SourcesAssumption
    <3>2. \A y \in Sources :
             (Unconsumed(y)' /\ AttemptOf(y)' = AttemptOf(x)) <=> (Unconsumed(y) /\ AttemptOf(y) = AttemptOf(x))
      BY <3>1
    <3> QED
      BY <2>1, <3>2 DEF ContinueSources
  <2> QED
    BY <1>1, <2>1, <2>2, <2>3, <2>4 DEF Between
<1> QED
  BY <1>3, <1>5, <1>6, <1>7 DEF WaitsAreExact

LEMMA EndsKeeps ==
    ASSUME WaitsInv, NEW s \in Sources, Ends(s), TypeOK' PROVE WaitsInv'
<1> USE DEF WaitsInv, Ends, SameSource, Used, Unconsumed
<1>1. \A b \in Attempts : /\ lane'[b].status = lane[b].status /\ lane'[b].dispatch = lane[b].dispatch
                          /\ lane'[b].wait = lane[b].wait \/ lane'[b].wait = None
                          /\ lane'[b].wait = None <=> lane[b].wait \in {None, s}
                          /\ lane[b].wait # s => lane'[b] = lane[b]
  BY DEF WithoutWait, WaitingOn, TypeOK, LanesTypeOK, LaneType, LanesFollowTask, WaitsAreExact,
         WaitMatchesSource
<1>2. Successor(s) = 0
  BY DEF SuccessorIsOfEnded
<1>3. /\ LanesFollowTask' /\ WaitOrDispatch' /\ FreshIsUnused' /\ SuccessorIsOfEnded'
      /\ CancelledIsStopping'
  <2>1. LanesFollowTask'
    BY <1>1 DEF LanesFollowTask
  <2>2. WaitOrDispatch'
    BY <1>1 DEF WaitOrDispatch
  <2>3. FreshIsUnused' /\ SuccessorIsOfEnded'
    BY <1>2 DEF FreshIsUnused, SuccessorIsOfEnded
  <2> QED
    BY <2>1, <2>2, <2>3 DEF CancelledIsStopping
<1>4. WaitMatchesSource'
  <2> SUFFICES ASSUME NEW b \in Attempts, NEW x \in Sources
               PROVE (lane[b].wait = x <=> /\ Used(x) /\ AttemptOf(x) = b /\ ~Ended(x)
                                           /\ task # "cancelled")'
      BY DEF WaitMatchesSource
  <2>1. CASE x = s
    BY <1>1, <2>1, SourcesAssumption DEF WaitsAreExact, WaitMatchesSource
  <2>2. CASE x # s
    BY <1>1, <2>2, SourcesAssumption DEF WaitsAreExact, WaitMatchesSource
  <2> QED
    BY <2>1, <2>2
<1>5. OneSuccessorPerWait'
  <2>1. \A x \in Sources : (Used(x)' <=> Used(x)) /\ (Ended(x) => Ended(x)')
    OBVIOUS
  <2> QED
    BY <2>1 DEF WaitsAreExact, OneSuccessorPerWait
<1>6. EndedWaitKeepsItsLane'
  <2> SUFFICES ASSUME NEW x \in Sources, Used(x)', Unconsumed(x)', task # "cancelled"
               PROVE Between(AttemptOf(x))' /\ ContinueSources(AttemptOf(x))' = {x}
      BY DEF EndedWaitKeepsItsLane
  <2>1. PICK b \in Attempts : lane[b].wait = s
    BY DEF WaitingOn
  <2>2. Used(s) /\ AttemptOf(s) = b /\ lane'[b].wait = None /\ lane'[b].dispatch = 0 /\ ~Between(b)
    BY <1>1, <2>1, SourcesAssumption DEF WaitsAreExact, WaitMatchesSource, WaitOrDispatch, Between
  <2>3. \A y \in Sources : (Used(y) /\ Unconsumed(y)) => AttemptOf(y) # b /\ AttemptOf(y) \in Attempts
    BY <2>2, SourcesAssumption
    DEF WaitsAreExact, EndedWaitKeepsItsLane, AttemptOf, TypeOK, RequestType, RunType, Sources
  <2>4. b # None
    BY SourcesAssumption
  <2>5. CASE x = s
    <3>1. Between(b)'
      BY <1>1, <2>2 DEF Between, LanesFollowTask
    <3>2. ContinueSources(b)' = {s}
      BY <1>2, <2>2, <2>3, <2>4 DEF ContinueSources
    <3> QED
      BY <2>2, <2>5, <3>1, <3>2
  <2>6. CASE x # s
    <3>1. Used(x) /\ Unconsumed(x) /\ AttemptOf(x)' = AttemptOf(x) /\ AttemptOf(x) # b
          /\ AttemptOf(x) \in Attempts
      BY <2>3, <2>6
    <3>2. Between(AttemptOf(x)) /\ ContinueSources(AttemptOf(x)) = {x}
      BY <3>1 DEF WaitsAreExact, EndedWaitKeepsItsLane
    <3>3. Between(AttemptOf(x))'
      BY <1>1, <3>1, <3>2, SourcesAssumption DEF Between
    <3>4. ContinueSources(AttemptOf(x))' = ContinueSources(AttemptOf(x))
      BY <2>2, <3>1 DEF ContinueSources
    <3> QED
      BY <3>1, <3>2, <3>3, <3>4
  <2> QED
    BY <2>5, <2>6
<1> QED
  BY <1>3, <1>4, <1>5, <1>6 DEF WaitsAreExact

\* Appending one entry adds at most one position to those of an origin.
LEMMA Positions ==
    ASSUME NEW T, NEW q \in Seq(T), NEW e \in T, NEW s
    PROVE  {n \in DOMAIN Append(q, e) : Append(q, e)[n] = s} =
           {n \in DOMAIN q : q[n] = s} \cup (IF e = s THEN {Len(q) + 1} ELSE {})
<1>1. /\ Append(q, e) \in Seq(T) /\ Len(Append(q, e)) = Len(q) + 1
      /\ \A n \in 1..Len(q) : Append(q, e)[n] = q[n]
      /\ Append(q, e)[Len(q) + 1] = e
      /\ Len(q) \in Nat
  OBVIOUS
<1>2. DOMAIN Append(q, e) = 1..(Len(q) + 1) /\ DOMAIN q = 1..Len(q)
  BY <1>1
<1>3. 1..(Len(q) + 1) = 1..Len(q) \cup {Len(q) + 1}
  BY <1>1
<1>4. CASE e = s
  BY <1>1, <1>2, <1>3, <1>4
<1>5. CASE e # s
  BY <1>1, <1>2, <1>3, <1>5
<1> QED
  BY <1>4, <1>5

LEMMA ContinuesKeeps ==
    ASSUME WaitsInv, NEW A \in SUBSET Attempts, NEW S, NEW origin, Continues(A, S, origin), TypeOK'
    PROVE  WaitsInv'
<1> USE DEF WaitsInv, Continues, Used, Unconsumed
<1>1. \A s \in Sources : /\ (Used(s)' <=> Used(s)) /\ (Ended(s)' <=> Ended(s)) /\ (Fresh(s)' <=> Fresh(s))
                          /\ (Stopping(s)' <=> Stopping(s))
  BY OutcomeDecides
<1>2. \A b \in Attempts : /\ lane'[b].status = lane[b].status /\ lane'[b].wait = lane[b].wait
                          /\ b \in A => lane[b].wait = None
                          /\ b \notin A => lane'[b] = lane[b] /\ opened'[b] = opened[b]
                          /\ b \in A => opened'[b] = Append(opened[b], origin[b])
  BY DEF WithDispatches, TypeOK, LanesTypeOK, LaneType, Between
<1>3. \A b \in Attempts : Len(opened[b]) + 1 # 0 /\ opened[b] \in Seq(Sources \cup {"start", "resume"})
  BY DEF TypeOK, LanesTypeOK
<1>4. \A s \in S : s \in Sources /\ Used(s) /\ AttemptOf(s) \in A /\ Ended(s) /\ Successor(s) = 0
  OBVIOUS
<1>5. /\ LanesFollowTask' /\ WaitOrDispatch' /\ FreshIsUnused' /\ SuccessorIsOfEnded'
      /\ CancelledIsStopping'
  <2>1. LanesFollowTask'
    BY <1>2 DEF LanesFollowTask
  <2>2. WaitOrDispatch'
    BY <1>2 DEF WaitOrDispatch
  <2>3. FreshIsUnused' /\ SuccessorIsOfEnded'
    BY <1>1, <1>4 DEF FreshIsUnused, SuccessorIsOfEnded
  <2> QED
    BY <2>1, <2>2, <2>3 DEF CancelledIsStopping
<1>6. WaitMatchesSource'
  BY <1>1, <1>2 DEF WaitsAreExact, WaitMatchesSource
<1>7. OneSuccessorPerWait'
  <2> SUFFICES ASSUME NEW s \in Sources, NEW b \in Attempts
               PROVE ({n \in DOMAIN opened[b] : opened[b][n] = s} =
                         IF Used(s) /\ AttemptOf(s) = b /\ Successor(s) # 0 THEN {Successor(s)} ELSE {})'
                     /\ ({n \in DOMAIN opened[b] : opened[b][n] = s} # {} => Ended(s))'
      BY DEF OneSuccessorPerWait
  <2>1. /\ {n \in DOMAIN opened[b] : opened[b][n] = s} =
              IF Used(s) /\ AttemptOf(s) = b /\ Successor(s) # 0 THEN {Successor(s)} ELSE {}
        /\ {n \in DOMAIN opened[b] : opened[b][n] = s} # {} => Ended(s)
    BY DEF WaitsAreExact, OneSuccessorPerWait
  <2>2. CASE b \notin A
    <3>1. AttemptOf(s) = b => s \notin S
      BY <1>4, <2>2
    <3> QED
      BY <1>1, <1>2, <2>1, <2>2, <3>1
  <2>3. CASE b \in A
    <3>1. {n \in DOMAIN opened'[b] : opened'[b][n] = s} =
             {n \in DOMAIN opened[b] : opened[b][n] = s}
                \cup (IF origin[b] = s THEN {Len(opened[b]) + 1} ELSE {})
      BY <1>2, <1>3, <2>3, Positions, SMTT(60)
    <3>2. CASE origin[b] = s
      <4>1. s \in S /\ AttemptOf(s) = b /\ Successor(s) = 0
        BY <1>4, <2>3, <3>2, SourcesAssumption
      <4> QED
        BY <1>1, <1>3, <1>4, <2>1, <3>1, <3>2, <4>1
    <3>3. CASE origin[b] # s
      <4>1. AttemptOf(s) = b => s \notin S
        BY <2>3, <3>3
      <4> QED
        BY <1>1, <2>1, <3>1, <3>3, <4>1
    <3> QED
      BY <3>2, <3>3
  <2> QED
    BY <2>2, <2>3
<1>8. EndedWaitKeepsItsLane'
  <2> SUFFICES ASSUME NEW x \in Sources, Used(x)', Unconsumed(x)'
               PROVE Between(AttemptOf(x))' /\ ContinueSources(AttemptOf(x))' = {x}
      BY DEF EndedWaitKeepsItsLane
  <2>1. x \notin S /\ Used(x) /\ Unconsumed(x) /\ AttemptOf(x)' = AttemptOf(x)
    BY <1>1, <1>3, <1>4
  <2>2. AttemptOf(x) \notin A /\ AttemptOf(x) \in Attempts
    BY <2>1, SourcesAssumption DEF AttemptOf, TypeOK, RequestType, RunType, Sources
  <2>3. Between(AttemptOf(x)) /\ ContinueSources(AttemptOf(x)) = {x}
    BY <2>1 DEF WaitsAreExact, EndedWaitKeepsItsLane
  <2>4. ContinueSources(AttemptOf(x))' = ContinueSources(AttemptOf(x))
    <3>1. \A y \in Sources : AttemptOf(y) = AttemptOf(x) =>
                                 (Unconsumed(y)' <=> Unconsumed(y)) /\ AttemptOf(y)' = AttemptOf(y)
      BY <1>1, <1>4, <2>2
    <3> QED
      BY <2>1, <3>1 DEF ContinueSources
  <2> QED
    BY <1>2, <2>1, <2>2, <2>3, <2>4 DEF Between
<1> QED
  BY <1>5, <1>6, <1>7, <1>8 DEF WaitsAreExact


\* A recorded end and a named successor stay.
Settled ==
    \A s \in Sources :
        /\ Ended(s) => Outcome(s)' = Outcome(s)
        /\ (Successor(s) # 0 \/ task = "cancelled") => Successor(s)' = Successor(s)

WaitStep ==
    \/ Nothing
    \/ \E a \in Attempts, s \in Sources : Opens(a, s)
    \/ \E s \in Sources : Ends(s)
    \/ \E A \in SUBSET Attempts, S \in SUBSET Sources :
          \E origin \in [A -> Sources \cup {"resume"}] : Continues(A, S, origin)
    \/ Pauses
    \/ Cancels

LEMMA WaitStepKeeps ==
    ASSUME WaitsInv, WaitStep, TypeOK' PROVE WaitsInv' /\ Settled
<1>1. CASE Nothing
  BY <1>1, NothingKeeps DEF Nothing, SameSource, Settled
<1>2. ASSUME NEW a \in Attempts, NEW s \in Sources, Opens(a, s) PROVE WaitsInv' /\ Settled
  <2>1. ~Ended(s) /\ Successor(s)' = Successor(s)
    BY <1>2, OutcomeDecides DEF Opens
  <2> QED
    BY <1>2, <2>1, OpensKeeps DEF Opens, SameSource, Settled
<1>3. ASSUME NEW s \in Sources, Ends(s) PROVE WaitsInv' /\ Settled
  BY <1>3, EndsKeeps DEF Ends, SameSource, Settled
<1>4. ASSUME NEW A \in SUBSET Attempts, NEW S \in SUBSET Sources,
             NEW origin \in [A -> Sources \cup {"resume"}], Continues(A, S, origin)
      PROVE  WaitsInv' /\ Settled
  <2>1. \A s \in S : Successor(s) = 0
    BY <1>4 DEF Continues, Unconsumed
  <2>2. WaitsInv'
    BY <1>4, ContinuesKeeps
  <2>3. Settled
    <3> SUFFICES ASSUME NEW s \in Sources
                 PROVE  /\ Ended(s) => Outcome(s)' = Outcome(s)
                        /\ (Successor(s) # 0 \/ task = "cancelled") => Successor(s)' = Successor(s)
        BY DEF Settled
    <3>1. /\ Outcome(s)' = Outcome(s) /\ task # "cancelled"
          /\ s \notin S => Successor(s)' = Successor(s)
      BY <1>4 DEF Continues
    <3> QED
      BY <2>1, <3>1
  <2> QED
    BY <2>2, <2>3
<1>5. CASE Pauses
  BY <1>5, PausesKeeps DEF Pauses, SameSource, Settled
<1>6. CASE Cancels
  BY <1>6, CancelsKeeps DEF Cancels, Settled
<1> QED
  BY <1>1, <1>2, <1>3, <1>4, <1>5, <1>6 DEF WaitStep

LEMMA OtherSources ==
    ASSUME NEW s \in Sources,
           \A q \in Requests \ {s} : request'[q] = request[q],
           \A r \in Runs \ {s} : run'[r] = run[r]
    PROVE  \A x \in Sources \ {s} : SameSource(x)
<1> SUFFICES ASSUME NEW x \in Sources \ {s} PROVE SameSource(x)
    OBVIOUS
<1>1. x \in Requests => request'[x] = request[x]
  OBVIOUS
<1>2. x \notin Requests => x \in Runs /\ run'[x] = run[x]
  BY DEF Sources
<1>3. /\ AttemptOf(x)' = AttemptOf(x) /\ Successor(x)' = Successor(x) /\ Outcome(x)' = Outcome(x)
  BY <1>1, <1>2 DEF AttemptOf, Successor, Outcome
<1> QED
  BY <1>3, OutcomeDecides DEF SameSource

LEMMA RowsSame ==
    ASSUME UNCHANGED <<request, run>> PROVE \A x \in Sources : SameSource(x)
<1> SUFFICES ASSUME NEW x \in Sources PROVE SameSource(x)
    OBVIOUS
<1>1. /\ AttemptOf(x)' = AttemptOf(x) /\ Successor(x)' = Successor(x) /\ Outcome(x)' = Outcome(x)
  BY DEF AttemptOf, Successor, Outcome
<1> QED
  BY <1>1, OutcomeDecides DEF SameSource

LEMMA NothingStep ==
    ASSUME UNCHANGED <<task, lane, opened, request, run>> PROVE WaitStep
  BY RowsSame DEF WaitStep, Nothing

LEMMA ResolutionEnds ==
    ASSUME TypeOK, NEW q \in Requests, NEW end \in RequestEnds, PersistResolution(q, end),
           UNCHANGED <<task, opened, run>>
    PROVE  WaitStep
<1> q \in Sources
  BY DEF Sources
<1>1. request' = [request EXCEPT ![q].status = end] /\ request[q].status = "open"
  BY DEF PersistResolution
<1>2. \A x \in Sources \ {q} : SameSource(x)
  BY <1>1, OtherSources DEF TypeOK
<1>3. /\ ~Ended(q) /\ AttemptOf(q)' = AttemptOf(q) /\ Successor(q)' = Successor(q) /\ Ended(q)' /\ ~Fresh(q)'
  BY <1>1 DEF Ended, RequestEnded, AttemptOf, Successor, Fresh, Outcome, RequestEnds, TypeOK, RequestType
<1>4. Ends(q)
  BY <1>2, <1>3 DEF Ends, PersistResolution
<1> QED
  BY <1>4 DEF WaitStep

LEMMA HumanWaits ==
    ASSUME TypeOK, NEW q \in Requests,
           \/ \E a \in Attempts : OpenHumanRequest(a, q)
           \/ AnswerHumanRequest(q) \/ HumanHandler(q),
           UNCHANGED commandVars
    PROVE  WaitStep
<1> USE DEF taskVars, laneVars, commandVars
<1> q \in Sources
  BY DEF Sources
<1>1. ASSUME NEW a \in Attempts, OpenHumanRequest(a, q) PROVE WaitStep
  <2>1. request' = [request EXCEPT ![q].status = "open", ![q].attempt = a] /\ request[q].status = "unused"
    BY <1>1 DEF OpenHumanRequest
  <2>2. \A x \in Sources \ {q} : SameSource(x)
    BY <2>1, OtherSources DEF TypeOK
  <2>3. Fresh(q) /\ AttemptOf(q)' = a /\ Successor(q)' = Successor(q) /\ ~Ended(q)' /\ ~Fresh(q)'
    BY <2>1 DEF Ended, RequestEnded, AttemptOf, Successor, Fresh, Outcome, RequestEnds, TypeOK, RequestType
  <2>4. Opens(a, q)
    BY <1>1, <2>2, <2>3 DEF Opens, OpenHumanRequest
  <2> QED
    BY <2>4 DEF WaitStep
<1>2. CASE AnswerHumanRequest(q)
  BY <1>2, ResolutionEnds DEF AnswerHumanRequest, RequestEnds
<1>3. CASE RegisterHumanDeadline(q)
  BY <1>3, NothingStep DEF RegisterHumanDeadline
<1>4. CASE ExpireHumanRequest(q)
  BY <1>4, ResolutionEnds, NothingStep DEF ExpireHumanRequest, RequestEnds
<1> QED
  BY <1>1, <1>2, <1>3, <1>4 DEF HumanHandler

\* A write to one run that changes its row and neither its Attempt, its
\* successor nor whether it has ended.
LEMMA RunWritten ==
    ASSUME TypeOK, NEW r \in Runs, UNCHANGED <<task, lane, opened, request>>,
           \A x \in Runs \ {r} : run'[x] = run[x],
           run'[r].attempt = run[r].attempt, run'[r].successor = run[r].successor,
           run[r].state # "unused", run'[r].state # "unused",
           ~RunEnded(r), run'[r].state \notin RunEnds,
           Stopping(r) => run'[r].state = "cancellation_requested"
    PROVE  WaitStep
<1> r \in Sources /\ r \notin Requests
  BY SourcesAssumption DEF Sources
<1>1. \A x \in Sources \ {r} : SameSource(x)
  BY OtherSources
<1>2. SameSource(r)
  BY DEF SameSource, AttemptOf, Successor, Ended, RunEnded, Fresh, Outcome, Stopping
<1> QED
  BY <1>1, <1>2 DEF WaitStep, Nothing

LEMMA RunEnding ==
    ASSUME TypeOK, NEW r \in Runs, NEW rev, NEW expected \in SUBSET Unfinished, NEW end \in RunEnds,
           Accepts(r, rev, expected, end), EndRun(r, end), UNCHANGED <<task, opened, request>>
    PROVE  WaitStep
<1> r \in Sources /\ r \notin Requests
  BY SourcesAssumption DEF Sources
<1>1. run' = [run EXCEPT ![r].state = end] /\ run[r].state \in Unfinished
  BY DEF EndRun, Accepts
<1>2. \A x \in Sources \ {r} : SameSource(x)
  BY <1>1, OtherSources DEF TypeOK
<1>3. /\ ~Ended(r) /\ AttemptOf(r)' = AttemptOf(r) /\ Successor(r)' = Successor(r) /\ Ended(r)' /\ ~Fresh(r)'
  BY <1>1 DEF Ended, RunEnded, AttemptOf, Successor, Fresh, Outcome, RunEnds, Unfinished, TypeOK, RunType
<1>4. WaitingOn(r) # {} \/ task = "cancelled"
  BY DEF Accepts, CancelledOwnerAccepts
<1>5. Ends(r)
  BY <1>2, <1>3, <1>4 DEF Ends, EndRun
<1> QED
  BY <1>5 DEF WaitStep

LEMMA UnownedEnding ==
    ASSUME TypeOK, NEW r \in Runs, NEW h, EndUnowned(r, h), UNCHANGED <<task, opened, request>>
    PROVE  WaitStep
<1>1. UnownedEnd(r) \in RunEnds
  BY DEF UnownedEnd, RunEnds
<1>2. CASE Accepts(r, run[r].rev, Unfinished, UnownedEnd(r))
  BY <1>1, <1>2, RunEnding DEF EndUnowned
<1>3. CASE ~Accepts(r, run[r].rev, Unfinished, UnownedEnd(r))
  BY <1>3, NothingStep DEF EndUnowned
<1> QED
  BY <1>2, <1>3

LEMMA CommandWaits ==
    ASSUME TypeOK, NEW r \in Runs,
           \/ \E a \in Attempts : StartCommandRun(a, r)
           \/ RequestRunCancellation(r) \/ CommandHandler(r),
           UNCHANGED request
    PROVE  WaitStep
<1> USE DEF taskVars, laneVars
<1> r \in Sources /\ r \notin Requests
  BY SourcesAssumption DEF Sources
<1>1. ASSUME NEW a \in Attempts, StartCommandRun(a, r) PROVE WaitStep
  <2>1. run' = [run EXCEPT ![r].state = "pending_start", ![r].attempt = a] /\ run[r].state = "unused"
    BY <1>1 DEF StartCommandRun
  <2>2. \A x \in Sources \ {r} : SameSource(x)
    BY <2>1, OtherSources DEF TypeOK
  <2>3. Fresh(r) /\ AttemptOf(r)' = a /\ Successor(r)' = Successor(r) /\ ~Ended(r)' /\ ~Fresh(r)'
    BY <2>1 DEF Ended, RunEnded, AttemptOf, Successor, Fresh, Outcome, RunEnds, TypeOK, RunType
  <2>4. Opens(a, r)
    BY <1>1, <2>2, <2>3 DEF Opens, StartCommandRun
  <2> QED
    BY <2>4 DEF WaitStep
<1>2. CASE RequestRunCancellation(r)
  BY <1>2, RunWritten DEF RequestRunCancellation, Cancellable, RunEnded, RunEnds, TypeOK, RunType
<1>3. CASE ClaimLaunch(r)
  BY <1>3, RunWritten DEF ClaimLaunch, MayClaimLaunch, RunEnded, RunEnds, TypeOK, RunType, Stopping
<1>4. CASE RecoverUnowned(r)
  BY <1>4, UnownedEnding, NothingStep DEF RecoverUnowned
<1>5. CASE ReadExit(r)
  BY <1>5, NothingStep DEF ReadExit
<1>6. CASE EnforceCommandDeadline(r)
  BY <1>6, UnownedEnding, NothingStep DEF EnforceCommandDeadline
<1>7. CASE TerminateCancelled(r)
  BY <1>7, UnownedEnding, NothingStep DEF TerminateCancelled
<1> QED
  BY <1>1, <1>2, <1>3, <1>4, <1>5, <1>6, <1>7 DEF CommandHandler

LEMMA OwnerWaits ==
    ASSUME TypeOK, NEW r \in Runs, OwnerTask(r) \/ OwnerFailure(r)
    PROVE  WaitStep
<1> USE DEF taskVars, laneVars
<1> UNCHANGED request
  BY DEF OwnerTask, OwnerFailure
<1>1. CASE TakeOwnership(r) \/ SpawnProcess(r) \/ KillProcess(r) \/ ReportExit(r)
           \/ FailRecordStart(r) \/ FailRecordExit(r) \/ ExitProcess(r)
  BY <1>1, NothingStep DEF TakeOwnership, SpawnProcess, KillProcess, ReportExit, FailRecordStart,
     FailRecordExit, ExitProcess
<1>2. CASE PrepareLaunch(r)
  <2>1. CASE FinishesUnlaunched(r)
    <3>1. {"cancellation_requested"} \in SUBSET Unfinished /\ "cancelled" \in RunEnds
      BY DEF RunEnds, Unfinished
    <3> QED
      BY <1>2, <2>1, <3>1, RunEnding DEF PrepareLaunch, EndOwned, FinishesUnlaunched
  <2>2. CASE ~FinishesUnlaunched(r)
    BY <1>2, <2>2, NothingStep DEF PrepareLaunch
  <2> QED
    BY <2>1, <2>2
<1>3. CASE RecordStart(r)
  <2>1. CASE MayMarkRunning(r)
    <3>1. run' = [run EXCEPT ![r].state = "running"] /\ run[r].state = "pending_start"
          /\ UNCHANGED <<task, lane, opened>>
      BY <1>3, <2>1 DEF RecordStart, MayMarkRunning
    <3>2. /\ \A x \in Runs \ {r} : run'[x] = run[x]
          /\ run'[r].attempt = run[r].attempt /\ run'[r].successor = run[r].successor
          /\ run'[r].state = "running"
      BY <3>1 DEF TypeOK, RunType
    <3> QED
      BY <3>1, <3>2, RunWritten DEF RunEnded, RunEnds, Stopping
  <2>2. CASE ~MayMarkRunning(r)
    BY <1>3, <2>2, NothingStep DEF RecordStart
  <2> QED
    BY <2>1, <2>2
<1>4. CASE RecordExit(r)
  <2>1. /\ ExitEnd(owner[r].saw, owner[r].cause, process[r]) \in RunEnds
        /\ ExitExpects(owner[r].saw, owner[r].cause) \in SUBSET Unfinished
    BY DEF ExitEnd, ExitExpects, RunEnds, Unfinished
  <2> QED
    BY <1>4, <2>1, RunEnding, NothingStep DEF RecordExit, EndOwned
<1>5. CASE FailLaunch(r)
  <2>1. {"pending_start"} \in SUBSET Unfinished /\ {"cancellation_requested"} \in SUBSET Unfinished
        /\ "failed" \in RunEnds /\ "cancelled" \in RunEnds
    BY DEF RunEnds, Unfinished
  <2>2. CASE Accepts(r, 1, {"pending_start"}, "failed")
    BY <1>5, <2>1, <2>2, RunEnding DEF FailLaunch, EndOwned
  <2>3. CASE ~Accepts(r, 1, {"pending_start"}, "failed") /\ FinishesUnlaunched(r)
    BY <1>5, <2>1, <2>3, RunEnding DEF FailLaunch, EndOwned, FinishesUnlaunched
  <2>4. CASE ~Accepts(r, 1, {"pending_start"}, "failed") /\ ~FinishesUnlaunched(r)
    BY <1>5, <2>4, NothingStep DEF FailLaunch
  <2> QED
    BY <2>2, <2>3, <2>4
<1> QED
  BY <1>1, <1>2, <1>3, <1>4, <1>5 DEF OwnerTask, OwnerFailure

LEMMA ClaimOf ==
    ASSUME TypeOK, NEW S \in SUBSET {s \in Sources : Used(s)}, ClaimSources(S)
    PROVE  \A s \in Sources :
              /\ AttemptOf(s)' = AttemptOf(s) /\ Outcome(s)' = Outcome(s)
              /\ Successor(s)' = IF s \in S THEN Len(opened[AttemptOf(s)]) + 1 ELSE Successor(s)
<1> SUFFICES ASSUME NEW s \in Sources
             PROVE  /\ AttemptOf(s)' = AttemptOf(s) /\ Outcome(s)' = Outcome(s)
                    /\ Successor(s)' = IF s \in S THEN Len(opened[AttemptOf(s)]) + 1 ELSE Successor(s)
    OBVIOUS
<1>1. CASE s \in Requests
  <2>1. request[s] \in RequestType /\ request'[s] = IF s \in S
              THEN [request[s] EXCEPT !.successor = Len(opened[request[s].attempt]) + 1] ELSE request[s]
    BY <1>1 DEF TypeOK, ClaimSources
  <2> QED
    BY <1>1, <2>1 DEF AttemptOf, Outcome, Successor, RequestType
<1>2. CASE s \notin Requests
  <2>1. run[s] \in RunType /\ run'[s] = IF s \in S
              THEN [run[s] EXCEPT !.successor = Len(opened[run[s].attempt]) + 1] ELSE run[s]
    BY <1>2 DEF TypeOK, ClaimSources, Sources
  <2> QED
    BY <1>2, <2>1 DEF AttemptOf, Outcome, Successor, RunType
<1> QED
  BY <1>1, <1>2

LEMMA ContinuationWaits ==
    ASSUME WaitsInv, NEW s \in Sources, Continuation(s) PROVE WaitStep
<1> USE DEF taskVars, laneVars, commandVars, WaitsInv
<1>1. CASE OpenSuccessor(s)
  <2> DEFINE A == {AttemptOf(s)}
             origin == [a \in A |-> s]
  <2>1. Used(s) /\ Unconsumed(s) /\ task = "running" /\ Between(AttemptOf(s))
    BY <1>1 DEF OpenSuccessor, SourceContinuable
  <2>2. AttemptOf(s) \in Attempts
    BY <2>1, SourcesAssumption DEF Used, AttemptOf, TypeOK, RequestType, RunType, Sources
  <2>3. {s} = {x \in Sources : Used(x) /\ AttemptOf(x) \in A /\ Unconsumed(x)}
    BY <2>1 DEF WaitsAreExact, EndedWaitKeepsItsLane, ContinueSources
  <2>4. WithDispatches(A, origin) /\ ClaimSources({s}) /\ UNCHANGED task
    BY <1>1 DEF OpenSuccessor
  <2>5. \A x \in Sources :
              /\ AttemptOf(x)' = AttemptOf(x) /\ Outcome(x)' = Outcome(x)
              /\ Successor(x)' = IF x \in {s} THEN Len(opened[AttemptOf(x)]) + 1 ELSE Successor(x)
    BY <2>1, <2>4, ClaimOf
  <2>6. Continues(A, {s}, origin)
    BY <2>1, <2>3, <2>4, <2>5 DEF Continues
  <2>7. A \in SUBSET Attempts /\ {s} \in SUBSET Sources /\ origin \in [A -> Sources \cup {"resume"}]
    BY <2>2
  <2> QED
    BY <2>6, <2>7 DEF WaitStep
<1>2. CASE FailSuccessor(s)
  <2>1. PauseLanes /\ UNCHANGED <<opened, request, run>>
    BY <1>2 DEF FailSuccessor
  <2> QED
    BY <2>1, RowsSame DEF WaitStep, Pauses
<1>3. CASE SkipSuccessor(s)
  BY <1>3, NothingStep DEF SkipSuccessor
<1> QED
  BY <1>1, <1>2, <1>3 DEF Continuation

LEMMA ControlWaits ==
    ASSUME WaitsInv, Control PROVE WaitStep
<1> USE DEF taskVars, laneVars, commandVars, postCommit, WaitsInv
<1>1. CASE PauseTask
  <2>1. PauseLanes /\ UNCHANGED <<opened, request, run>>
    BY <1>1 DEF PauseTask
  <2> QED
    BY <2>1, RowsSame DEF WaitStep, Pauses
<1>2. CASE ResumeTask
  <2> DEFINE A == {a \in Attempts : Between(a)}
             S == {s \in Sources : Used(s) /\ AttemptOf(s) \in A /\ Unconsumed(s)}
             origin == [a \in A |-> ContinueOrigin(a)]
  <2>1. WithDispatches(A, origin) /\ ClaimSources(S) /\ task = "paused" /\ task' = "running"
    BY <1>2 DEF ResumeTask
  <2>2. \A s \in Sources :
              /\ AttemptOf(s)' = AttemptOf(s) /\ Outcome(s)' = Outcome(s)
              /\ Successor(s)' = IF s \in S THEN Len(opened[AttemptOf(s)]) + 1 ELSE Successor(s)
    BY <2>1, ClaimOf
  <2>3. \A a \in A : \/ ContinueOrigin(a) = "resume"
                     \/ ContinueOrigin(a) \in S /\ AttemptOf(ContinueOrigin(a)) = a
    <3> SUFFICES ASSUME NEW a \in A, ContinueSources(a) # {}
                 PROVE  ContinueOrigin(a) \in S /\ AttemptOf(ContinueOrigin(a)) = a
        BY DEF ContinueOrigin
    <3>1. ContinueOrigin(a) \in ContinueSources(a)
      BY DEF ContinueOrigin
    <3> QED
      BY <3>1, SourcesAssumption DEF ContinueSources, Used
  <2>4. \A s \in S : ContinueOrigin(AttemptOf(s)) = s
    <3> SUFFICES ASSUME NEW s \in S PROVE ContinueOrigin(AttemptOf(s)) = s
        OBVIOUS
    <3>1. ContinueSources(AttemptOf(s)) = {s}
      BY <2>1 DEF WaitsAreExact, EndedWaitKeepsItsLane
    <3> QED
      BY <3>1 DEF ContinueOrigin
  <2>5. Continues(A, S, origin)
    BY <2>1, <2>2, <2>3, <2>4 DEF Continues
  <2>6. A \in SUBSET Attempts /\ S \in SUBSET Sources /\ origin \in [A -> Sources \cup {"resume"}]
    BY <2>3
  <2> QED
    BY <2>5, <2>6 DEF WaitStep
<1>3. CASE CancelTask
  <2>1. CancelHumanWaits /\ CancelCommandWaits /\ task # "cancelled"
    BY <1>3 DEF CancelTask
  <2>2. \A s \in Sources : (Used(s) /\ ~Ended(s)) => WaitingOn(s) # {}
    <3> SUFFICES ASSUME NEW s \in Sources, Used(s), ~Ended(s) PROVE WaitingOn(s) # {}
        OBVIOUS
    <3>1. AttemptOf(s) \in Attempts
      BY SourcesAssumption DEF Used, AttemptOf, TypeOK, RequestType, RunType, Sources
    <3>2. lane[AttemptOf(s)].wait = s /\ lane[AttemptOf(s)].status = "running"
      BY <2>1, <3>1 DEF WaitsAreExact, WaitMatchesSource, LanesFollowTask
    <3> QED
      BY <3>1, <3>2 DEF WaitingOn
  <2>3. \A s \in Sources : WaitingOn(s) # {} => ~Ended(s) /\ Used(s)
    BY <2>1, SourcesAssumption DEF WaitingOn, WaitsAreExact, WaitMatchesSource
  <2>4. \A s \in Sources :
          /\ AttemptOf(s)' = AttemptOf(s) /\ Successor(s)' = Successor(s)
          /\ Ended(s) => Outcome(s)' = Outcome(s)
          /\ Fresh(s)' <=> Fresh(s)
          /\ (Used(s) /\ ~Ended(s)') => Stopping(s)'
    <3> SUFFICES ASSUME NEW s \in Sources
                 PROVE  /\ AttemptOf(s)' = AttemptOf(s) /\ Successor(s)' = Successor(s)
                        /\ Ended(s) => Outcome(s)' = Outcome(s)
                        /\ Fresh(s)' <=> Fresh(s)
                        /\ (Used(s) /\ ~Ended(s)') => Stopping(s)'
        OBVIOUS
    <3>1. Fresh(s) => WaitingOn(s) = {}
      BY <2>3 DEF FreshIsUnused
    <3>2. CASE s \in Requests
      <4>1. request[s] \in RequestType
            /\ request'[s] = IF WaitingOn(s) # {} THEN [request[s] EXCEPT !.status = "cancelled"] ELSE request[s]
        BY <2>1, <3>2 DEF CancelHumanWaits, TypeOK
      <4> QED
        BY <2>2, <2>3, <3>1, <3>2, <4>1
        DEF AttemptOf, Successor, Outcome, Ended, RequestEnded, RequestEnds, Fresh, RequestType
    <3>3. CASE s \notin Requests
      <4>1. s \in Runs /\ run[s] \in RunType
            /\ run'[s] = IF WaitingOn(s) # {} /\ Cancellable(s)
                         THEN [run[s] EXCEPT !.state = "cancellation_requested"] ELSE run[s]
        BY <2>1, <3>3 DEF CancelCommandWaits, WaitedRuns, TypeOK, Sources
      <4>2. AttemptOf(s)' = AttemptOf(s) /\ Successor(s)' = Successor(s)
        BY <3>3, <4>1 DEF AttemptOf, Successor, RunType
      <4>3. CASE WaitingOn(s) # {} /\ Cancellable(s)
        BY <2>3, <3>1, <3>3, <4>1, <4>2, <4>3
        DEF Outcome, Ended, RunEnded, RunEnds, Fresh, Stopping, RunType
      <4>4. CASE ~(WaitingOn(s) # {} /\ Cancellable(s))
        <5>1. run'[s] = run[s]
          BY <4>1, <4>4
        <5>2. (Used(s) /\ ~Ended(s)) => Stopping(s)
          BY <2>2, <3>3, <4>1, <4>4
          DEF FreshIsUnused, Fresh, Outcome, Ended, RunEnded, RunEnds, Stopping, Cancellable, RunType, RunState
        <5> QED
          BY <3>3, <4>1, <4>2, <5>1, <5>2 DEF Outcome, Ended, RunEnded, Fresh, Stopping
      <4> QED
        BY <4>3, <4>4
    <3> QED
      BY <3>2, <3>3
  <2>5. Cancels
    BY <1>3, <2>4 DEF Cancels, CancelTask
  <2> QED
    BY <2>5 DEF WaitStep
<1> QED
  BY <1>1, <1>2, <1>3 DEF Control

LEMMA WaitsInit == Init => WaitsInv
<1> SUFFICES ASSUME Init PROVE WaitsInv
    OBVIOUS
<1> USE DEF Init, LanesInit, HumanInit, CommandInit
<1>1. TypeOK
  BY TypeInit
<1>2. \A s \in Sources : ~Used(s) /\ ~Ended(s) /\ Successor(s) = 0
  BY DEF Used, AttemptOf, Ended, RequestEnded, RunEnded, RequestEnds, RunEnds, Successor, Sources
<1>3. \A a \in Attempts : lane[a].status = "running" /\ lane[a].wait = None
  OBVIOUS
<1>4. LanesFollowTask /\ WaitOrDispatch /\ FreshIsUnused /\ SuccessorIsOfEnded /\ CancelledIsStopping
  BY <1>2, <1>3 DEF LanesFollowTask, WaitOrDispatch, FreshIsUnused, SuccessorIsOfEnded, CancelledIsStopping
<1>5. WaitMatchesSource
  BY <1>2, <1>3, SourcesAssumption DEF WaitMatchesSource
<1>6. OneSuccessorPerWait
  <2>1. \A a \in Attempts, s \in Sources : {n \in DOMAIN opened[a] : opened[a][n] = s} = {}
    BY SourcesAssumption
  <2> QED
    BY <1>2, <2>1 DEF OneSuccessorPerWait
<1>7. EndedWaitKeepsItsLane
  BY <1>2 DEF EndedWaitKeepsItsLane
<1> QED
  BY <1>1, <1>4, <1>5, <1>6, <1>7 DEF WaitsInv, WaitsAreExact

LEMMA WaitsNext == WaitsInv /\ [Next]_vars => WaitsInv' /\ Settled
<1> SUFFICES ASSUME WaitsInv, [Next]_vars PROVE WaitsInv' /\ Settled
    OBVIOUS
<1>1. TypeOK /\ TypeOK'
  BY TypeNext DEF WaitsInv
<1>2. CASE Human
  BY <1>1, <1>2, HumanWaits, WaitStepKeeps DEF Human
<1>3. CASE Command
  BY <1>1, <1>3, CommandWaits, WaitStepKeeps DEF Command
<1>4. CASE Control
  BY <1>1, <1>4, ControlWaits, WaitStepKeeps
<1>5. CASE AuditPage \/ Failure \/ \E s \in Sources : FireTimer(s)
  <2>1. UNCHANGED <<task, lane, opened, request, run>>
    BY <1>5 DEF AuditPage, Failure, Restart, LoseHint, FireTimer, taskVars, laneVars, commandVars
  <2> QED
    BY <1>1, <2>1, NothingStep, WaitStepKeeps
<1>6. ASSUME NEW q \in Requests, HumanHandler(q) PROVE WaitsInv' /\ Settled
  BY <1>1, <1>6, HumanWaits, WaitStepKeeps DEF HumanHandler
<1>7. ASSUME NEW r \in Runs, CommandHandler(r) PROVE WaitsInv' /\ Settled
  BY <1>1, <1>7, CommandWaits, WaitStepKeeps DEF CommandHandler
<1>8. ASSUME NEW r \in Runs, OwnerTask(r) \/ OwnerFailure(r) PROVE WaitsInv' /\ Settled
  BY <1>1, <1>8, OwnerWaits, WaitStepKeeps
<1>9. ASSUME NEW s \in Sources, Continuation(s) PROVE WaitsInv' /\ Settled
  BY <1>1, <1>9, ContinuationWaits, WaitStepKeeps
<1>10. CASE UNCHANGED vars
  <2>1. UNCHANGED <<task, lane, opened, request, run>>
    BY <1>10 DEF vars, taskVars, laneVars, commandVars
  <2> QED
    BY <1>1, <2>1, NothingStep, WaitStepKeeps
<1> QED
  BY <1>2, <1>3, <1>4, <1>5, <1>6, <1>7, <1>8, <1>9, <1>10 DEF Next

\* Whatever is unfinished is on a page of the startup audit (startup_audit.py):
\* an open source by its exact wait, an ended one by its idle lane, and a
\* cancelled Task's command by its state alone.
LEMMA WaitsAreFound == WaitsInv => StartupFindsEverySource
<1> SUFFICES ASSUME WaitsInv, NEW s \in Sources, Used(s), ~Ended(s) \/ (Successor(s) = 0 /\ task # "cancelled")
             PROVE  \E h \in Pages : h.source = s
    BY DEF StartupFindsEverySource
<1>1. /\ \A f \in {"open_human_request", "terminal_human_request", "terminal_command_run",
                   "pending_command_run", "running_command_run", "cancellation_requested_command_run"} :
             Page(f) \subseteq Pages
  <2>1. /\ DOMAIN Families = 1..6
        /\ Families[1] = "open_human_request" /\ Families[2] = "terminal_human_request"
        /\ Families[3] = "terminal_command_run" /\ Families[4] = "pending_command_run"
        /\ Families[5] = "running_command_run" /\ Families[6] = "cancellation_requested_command_run"
    BY DEF Families
  <2>2. \A i \in 1..6 : Page(Families[i]) \subseteq Pages
    BY <2>1 DEF Pages
  <2> QED
    BY <2>1, <2>2
<1>2. AttemptOf(s) \in Attempts
  BY SourcesAssumption DEF WaitsInv, Used, AttemptOf, TypeOK, RequestType, RunType, Sources
<1>3. (~Ended(s) /\ task # "cancelled") => WaitIsCurrent(s)
  BY <1>2 DEF WaitsInv, WaitsAreExact, WaitMatchesSource, LanesFollowTask, WaitIsCurrent, WaitingOn
<1>4. (Unconsumed(s) /\ task # "cancelled") => LaneIsIdle(s)
  BY DEF WaitsInv, WaitsAreExact, EndedWaitKeepsItsLane, LaneIsIdle
<1>5. CASE s \in Requests /\ ~Ended(s)
  <2>1. request[s].status = "open" /\ task # "cancelled"
    BY <1>5, SourcesAssumption
    DEF WaitsInv, FreshIsUnused, CancelledIsStopping, Stopping, Fresh, Outcome, Ended, RequestEnded, TypeOK,
        RequestType, RequestEnds
  <2>2. Hint("HumanRequestOpened", s) \in Page("open_human_request")
    BY <1>3, <1>5, <2>1 DEF Page
  <2> QED
    BY <1>1, <2>2 DEF Hint
<1>6. CASE s \in Requests /\ Ended(s)
  <2>1. TerminalHint(s) \in Page("terminal_human_request")
    BY <1>4, <1>6 DEF Page, Unconsumed
  <2> QED
    BY <1>1, <2>1 DEF TerminalHint, Hint
<1>7. CASE s \notin Requests /\ Ended(s)
  <2>1. TerminalHint(s) \in Page("terminal_command_run")
    BY <1>4, <1>7 DEF Page, Unconsumed, Sources
  <2> QED
    BY <1>1, <2>1 DEF TerminalHint, Hint
<1>8. CASE s \notin Requests /\ ~Ended(s)
  <2>1. s \in Runs /\ run[s].state \in {"pending_start", "running", "cancellation_requested"}
    BY <1>8 DEF WaitsInv, FreshIsUnused, Fresh, Outcome, Ended, RunEnded, TypeOK, RunType, RunState, Sources
  <2>2. task = "cancelled" => run[s].state = "cancellation_requested"
    BY <1>8 DEF WaitsInv, CancelledIsStopping, Stopping
  <2>3. CASE run[s].state = "pending_start"
    <3>1. Hint("CommandRunPending", s) \in Page("pending_command_run")
      BY <1>3, <1>8, <2>1, <2>2, <2>3 DEF Page
    <3> QED
      BY <1>1, <3>1 DEF Hint
  <2>4. CASE run[s].state = "running"
    <3>1. Hint("CommandRunPending", s) \in Page("running_command_run")
      BY <1>3, <1>8, <2>1, <2>2, <2>4 DEF Page
    <3> QED
      BY <1>1, <3>1 DEF Hint
  <2>5. CASE run[s].state = "cancellation_requested"
    <3>1. OwnedHint("CommandRunCancellationRequested", s, run[s].rev)
             \in Page("cancellation_requested_command_run")
      BY <2>1, <2>5 DEF Page
    <3> QED
      BY <1>1, <3>1 DEF OwnedHint
  <2> QED
    BY <2>1, <2>3, <2>4, <2>5
<1> QED
  BY <1>5, <1>6, <1>7, <1>8

\* Whatever order an answer, a deadline, an exit, a cancellation and the
\* operator's control commit in, wait, source and successor agree
\* (persist_human_request_resolution, terminalize_command_run,
\* claim_*_continuation).
THEOREM WaitsExact == Spec => []WaitsAreExact
<1>1. WaitsInv => WaitsAreExact
  BY DEF WaitsInv
<1>2. WaitsInv /\ [Next]_vars => WaitsInv'
  BY WaitsNext
<1> QED
  BY WaitsInit, <1>1, <1>2, PTL DEF Spec

\* The startup audit finds every source a lost hint left behind.
THEOREM StartupFinds == Spec => []StartupFindsEverySource
<1>1. WaitsInv /\ [Next]_vars => WaitsInv'
  BY WaitsNext
<1> QED
  BY WaitsInit, WaitsAreFound, <1>1, PTL DEF Spec


-----------------------------------------------------------------------------
(* Processes and their ends                                                 *)

Unstarted == {"claiming", "opening", "spawning", "unlaunched"}

\* What makes ProcessesAreOwned and EndingIsTruthful inductive: only a claimed
\* run has an owner or a process, a launch that has not spawned has no process,
\* an exit is read after the process exited, and a run ends as cancelled or
\* failed either after its process or with no launch left to start one.
LaunchIsTrue(r) ==
    /\ owner[r].phase # "none" \/ process[r] # "none" => run[r].rev = 1
    /\ owner[r].phase \in Unstarted => process[r] = "none"
    /\ process[r] = "alive" => owner[r].phase \in {"recording", "resolved"}
    /\ owner[r].saw # "nothing" => Exited(r)
    /\ owner[r].cause = "timed_out" => r \in Timed
    /\ run[r].state = "succeeded" => process[r] = "zero"
    /\ run[r].state = "timed_out" => Exited(r) /\ r \in Timed
    /\ run[r].state \in {"cancelled", "failed"} =>
          Exited(r) \/ (process[r] = "none" /\ owner[r].phase = "none")
    /\ (process[r] = "alive" /\ RunEnded(r)) => owner[r].killing \/ owner[r].phase = "recording"

HintsAreTrue ==
    \A h \in hints : /\ h.kind = "CommandProcessExited" => h.source \in Runs /\ Exited(h.source)
                     /\ h.kind = "CommandRunDue" => h.source \in Timed
TimersAreTrue == \A r \in Runs \cap timers : r \in Timed

ProcessInv == TypeOK /\ HintsAreTrue /\ TimersAreTrue /\ \A r \in Runs : LaunchIsTrue(r)

\* A process never starts a second time and an exit is never taken back.
ProcessIsFinal ==
    \A r \in Runs :
        /\ process[r] # "none" => process'[r] \in {process[r], "orphan", "zero", "nonzero"}
        /\ Exited(r) => process'[r] = process[r]

\* A step that writes at most the row, the entry and the process of one run.
LEMMA OneRun ==
    ASSUME ProcessInv, TypeOK', NEW r \in Runs,
           \A x \in Runs \ {r} : run'[x] = run[x] /\ owner'[x] = owner[x] /\ process'[x] = process[x],
           LaunchIsTrue(r)', HintsAreTrue', TimersAreTrue'
    PROVE  ProcessInv'
<1>1. ASSUME NEW x \in Runs \ {r} PROVE LaunchIsTrue(x)'
  <2>1. LaunchIsTrue(x) /\ run'[x] = run[x] /\ owner'[x] = owner[x] /\ process'[x] = process[x]
    BY DEF ProcessInv
  <2> QED
    BY <2>1 DEF LaunchIsTrue, Exited, RunEnded
<1> QED
  BY <1>1 DEF ProcessInv

\* A row may change as long as it neither ends nor loses its owner.
LEMMA RowMoves ==
    ASSUME NEW r \in Runs, LaunchIsTrue(r), owner'[r] = owner[r], process'[r] = process[r],
           run'[r].rev = run[r].rev,
           run'[r].state = run[r].state \/ run'[r].state \notin RunEnds
    PROVE  LaunchIsTrue(r)'
  BY DEF LaunchIsTrue, Exited, RunEnded, RunEnds

LEMMA HintsKept ==
    ASSUME HintsAreTrue, NEW new, hints' \subseteq hints \cup new,
           \A h \in new : h.kind \notin {"CommandProcessExited", "CommandRunDue"},
           \A r \in Runs : Exited(r) => Exited(r)'
    PROVE  HintsAreTrue'
<1> SUFFICES ASSUME NEW h \in hints'
             PROVE  /\ h.kind = "CommandProcessExited" => h.source \in Runs /\ Exited(h.source)'
                    /\ h.kind = "CommandRunDue" => h.source \in Timed
    BY DEF HintsAreTrue, Exited
<1>1. h \in new \/ h \in hints
  OBVIOUS
<1> QED
  BY <1>1 DEF HintsAreTrue, Exited

LEMMA FewerHints ==
    ASSUME HintsAreTrue, hints' \subseteq hints, \A r \in Runs : Exited(r) => Exited(r)'
    PROVE  HintsAreTrue'
  BY DEF HintsAreTrue, Exited

LEMMA RunsKept ==
    ASSUME ProcessInv, TypeOK', UNCHANGED <<owner, process>>,
           \A r \in Runs : /\ run'[r].rev = run[r].rev
                           /\ run'[r].state = run[r].state \/ run'[r].state \notin RunEnds,
           TimersAreTrue', HintsAreTrue'
    PROVE  ProcessInv'
<1>1. ASSUME NEW r \in Runs PROVE LaunchIsTrue(r)'
  BY RowMoves DEF ProcessInv
<1> QED
  BY <1>1 DEF ProcessInv

\* Which hints a handler or a process's own step leaves.
LEMMA HandledHints ==
    ASSUME NEW h, NEW new, Handled(h, new) PROVE hints' \subseteq hints \cup new
  BY DEF Handled

LEMMA HintKinds ==
    /\ \A k, s : Hint(k, s).kind = k /\ Hint(k, s).source = s
    /\ \A k, s, v : OwnedHint(k, s, v).kind = k /\ OwnedHint(k, s, v).source = s
    /\ \A s : TerminalHint(s).kind \in {"HumanRequestTerminal", "CommandRunTerminal"}
  BY DEF Hint, OwnedHint, TerminalHint

LEMMA HumanProcesses ==
    ASSUME ProcessInv, TypeOK', NEW q \in Requests,
           \/ \E a \in Attempts : OpenHumanRequest(a, q)
           \/ AnswerHumanRequest(q) \/ HumanHandler(q),
           UNCHANGED commandVars
    PROVE  ProcessInv' /\ ProcessIsFinal
<1> USE DEF commandVars
<1>1. q \notin Runs
  BY SourcesAssumption
<1>2. TimersAreTrue'
  <2>1. timers' \subseteq timers \cup {q}
    BY DEF OpenHumanRequest, AnswerHumanRequest, HumanHandler, RegisterHumanDeadline, ExpireHumanRequest
  <2> QED
    BY <1>1, <2>1 DEF TimersAreTrue, ProcessInv
<1>3. hints' \subseteq hints \cup {Hint("HumanRequestOpened", q), Hint("HumanRequestTerminal", q)}
  BY DEF OpenHumanRequest, AnswerHumanRequest, HumanHandler, RegisterHumanDeadline, ExpireHumanRequest,
         Handled
<1>4. HintsAreTrue'
  <2> DEFINE new == {Hint("HumanRequestOpened", q), Hint("HumanRequestTerminal", q)}
  <2>1. \A h \in new : h.kind \notin {"CommandProcessExited", "CommandRunDue"}
    BY HintKinds
  <2>2. \A r \in Runs : Exited(r) => Exited(r)'
    BY DEF Exited
  <2> HIDE DEF new
  <2>3. hints' \subseteq hints \cup new
    BY <1>3 DEF new
  <2> QED
    BY <2>1, <2>2, <2>3, HintsKept DEF ProcessInv
<1> QED
  BY <1>2, <1>4, RunsKept DEF ProcessIsFinal

LEMMA EndUnownedTrue ==
    ASSUME ProcessInv, NEW r \in Runs, NEW h, EndUnowned(r, h), ~Owned(r) \/ run[r].rev # 1,
           owner'[r] = owner[r], process' = process
    PROVE  /\ LaunchIsTrue(r)'
           /\ \A x \in Runs \ {r} : run'[x] = run[x]
           /\ hints' \subseteq hints \cup {Hint("CommandRunTerminal", r)}
<1>1. LaunchIsTrue(r) /\ run[r] \in RunType
  BY DEF ProcessInv, TypeOK
<1>2. hints' \subseteq hints \cup {Hint("CommandRunTerminal", r)}
  BY DEF EndUnowned, Handled
<1>3. CASE run' = run
  BY <1>1, <1>2, <1>3, RowMoves
<1>4. CASE run' = [run EXCEPT ![r].state = UnownedEnd(r)]
  <2>1. /\ \A x \in Runs \ {r} : run'[x] = run[x]
        /\ run'[r].rev = run[r].rev /\ run'[r].state = UnownedEnd(r)
    BY <1>1, <1>4 DEF ProcessInv, TypeOK, RunType
  <2>2. process[r] # "alive" \/ run[r].rev # 1
    BY <1>1 DEF LaunchIsTrue, Owned
  <2>3. process[r] # "alive"
    BY <1>1, <2>2 DEF LaunchIsTrue
  <2>4. UnownedEnd(r) = "abandoned" \/ (process[r] = "none" /\ owner[r].phase = "none")
    BY <1>1 DEF UnownedEnd, LaunchIsTrue
  <2>5. UnownedEnd(r) \in {"cancelled", "abandoned"}
    BY DEF UnownedEnd
  <2> QED
    BY <1>1, <1>2, <2>1, <2>3, <2>4, <2>5 DEF LaunchIsTrue, Exited
<1> QED
  BY <1>3, <1>4 DEF EndUnowned, EndRun

LEMMA TerminatingTrue ==
    ASSUME ProcessInv, NEW r \in Runs, NEW c \in Cause \ {"none"}, c = "timed_out" => r \in Timed,
           owner' = [owner EXCEPT ![r] = Terminating(r, c)], run'[r] = run[r], process'[r] = process[r]
    PROVE  /\ LaunchIsTrue(r)'
           /\ \A x \in Runs \ {r} : owner'[x] = owner[x]
<1>1. LaunchIsTrue(r) /\ owner[r] \in OwnerType
  BY DEF ProcessInv, TypeOK
<1>2. owner'[r] = Terminating(r, c) /\ \A x \in Runs \ {r} : owner'[x] = owner[x]
  BY DEF ProcessInv, TypeOK
<1>3. /\ Terminating(r, c).phase = owner[r].phase /\ Terminating(r, c).killing
      /\ Terminating(r, c).saw = owner[r].saw
      /\ Terminating(r, c).cause \in {owner[r].cause, c}
  BY <1>1 DEF Terminating, OwnerType
<1> QED
  BY <1>1, <1>2, <1>3 DEF LaunchIsTrue, Exited, RunEnded

LEMMA CommandProcesses ==
    ASSUME ProcessInv, TypeOK', NEW r \in Runs,
           \/ \E a \in Attempts : StartCommandRun(a, r)
           \/ RequestRunCancellation(r) \/ CommandHandler(r),
           UNCHANGED request
    PROVE  ProcessInv' /\ ProcessIsFinal
<1>1. LaunchIsTrue(r) /\ run[r] \in RunType /\ owner[r] \in OwnerType
  BY DEF ProcessInv, TypeOK
<1>2. UNCHANGED <<process, timers>>
  BY DEF StartCommandRun, RequestRunCancellation, CommandHandler, ClaimLaunch, RecoverUnowned, ReadExit,
         EnforceCommandDeadline, TerminateCancelled
<1>3. TimersAreTrue' /\ ProcessIsFinal
  BY <1>2 DEF TimersAreTrue, ProcessInv, ProcessIsFinal
<1> SUFFICES ProcessInv'
    BY <1>3
<1>4. ASSUME NEW new \in SUBSET {Hint("CommandRunPending", r), Hint("CommandRunTerminal", r),
                                 OwnedHint("CommandRunCancellationRequested", r, run[r].rev)},
             hints' \subseteq hints \cup new
      PROVE  HintsAreTrue'
  <2>1. \A h \in new : h.kind \notin {"CommandProcessExited", "CommandRunDue"}
    BY HintKinds
  <2> QED
    BY <1>2, <1>4, <2>1, HintsKept DEF ProcessInv, Exited
<1>5. ASSUME NEW a \in Attempts, StartCommandRun(a, r) PROVE ProcessInv'
  <2>1. HintsAreTrue'
    BY <1>4, <1>5 DEF StartCommandRun
  <2>2. \A x \in Runs : /\ run'[x].rev = run[x].rev
                        /\ run'[x].state = run[x].state \/ run'[x].state \notin RunEnds
    BY <1>5 DEF StartCommandRun, RunEnds, ProcessInv, TypeOK, RunType
  <2> QED
    BY <1>2, <1>3, <1>5, <2>1, <2>2, RunsKept DEF StartCommandRun
<1>6. CASE RequestRunCancellation(r)
  <2>1. HintsAreTrue'
    BY <1>4, <1>6 DEF RequestRunCancellation
  <2>2. \A x \in Runs : /\ run'[x].rev = run[x].rev
                        /\ run'[x].state = run[x].state \/ run'[x].state \notin RunEnds
    BY <1>6 DEF RequestRunCancellation, RunEnds, ProcessInv, TypeOK, RunType
  <2> QED
    BY <1>2, <1>3, <1>6, <2>1, <2>2, RunsKept DEF RequestRunCancellation
<1>7. CASE ClaimLaunch(r)
  <2>1. HintsAreTrue'
    BY <1>4, <1>7 DEF ClaimLaunch, Handled
  <2>2. /\ \A x \in Runs \ {r} : run'[x] = run[x] /\ owner'[x] = owner[x]
        /\ run'[r] = [run[r] EXCEPT !.rev = 1] /\ owner'[r] = [owner[r] EXCEPT !.phase = "claiming"]
        /\ run[r].state = "pending_start" /\ run[r].rev = 0
    BY <1>7 DEF ClaimLaunch, MayClaimLaunch, ProcessInv, TypeOK
  <2>3. process[r] = "none"
    BY <1>1, <2>2 DEF LaunchIsTrue
  <2>4. LaunchIsTrue(r)'
    BY <1>1, <1>2, <2>2, <2>3 DEF LaunchIsTrue, Exited, RunEnded, RunType, OwnerType
  <2> QED
    BY <1>2, <1>3, <2>1, <2>2, <2>4, OneRun
<1>8. ASSUME NEW h, EndUnowned(r, h), ~Owned(r) \/ run[r].rev # 1, UNCHANGED owner
      PROVE  ProcessInv'
  <2>1. /\ LaunchIsTrue(r)' /\ \A x \in Runs \ {r} : run'[x] = run[x]
        /\ hints' \subseteq hints \cup {Hint("CommandRunTerminal", r)}
    BY <1>2, <1>8, EndUnownedTrue
  <2>2. HintsAreTrue'
    BY <1>4, <2>1
  <2> QED
    BY <1>2, <1>3, <1>8, <2>1, <2>2, OneRun
<1>9. ASSUME NEW h, Handled(h, {}), UNCHANGED <<run, owner>> PROVE ProcessInv'
  <2>1. HintsAreTrue'
    BY <1>4, <1>9 DEF Handled
  <2> QED
    BY <1>1, <1>2, <1>3, <1>9, <2>1, OneRun, RowMoves
<1>10. ASSUME NEW h, Handled(h, {}), UNCHANGED run, NEW c \in Cause \ {"none"}, c = "timed_out" => r \in Timed,
              owner' = [owner EXCEPT ![r] = Terminating(r, c)]
       PROVE  ProcessInv'
  <2>1. HintsAreTrue'
    BY <1>4, <1>10 DEF Handled
  <2>2. LaunchIsTrue(r)' /\ \A x \in Runs \ {r} : owner'[x] = owner[x]
    BY <1>2, <1>10, TerminatingTrue
  <2> QED
    BY <1>2, <1>3, <1>10, <2>1, <2>2, OneRun
<1>11. CASE RecoverUnowned(r)
  <2> DEFINE h == Hint("CommandRunPending", r)
  <2>1. UNCHANGED owner
    BY <1>11 DEF RecoverUnowned
  <2>2. CASE RunEnded(r) \/ (Owned(r) /\ run[r].rev = 1)
    <3>1. Handled(h, {}) /\ UNCHANGED run
      BY <1>11, <2>2 DEF RecoverUnowned
    <3> QED
      BY <1>9, <2>1, <3>1
  <2>3. CASE ~(RunEnded(r) \/ (Owned(r) /\ run[r].rev = 1))
    <3>1. EndUnowned(r, h)
      BY <1>11, <2>3 DEF RecoverUnowned
    <3> QED
      BY <1>8, <2>1, <2>3, <3>1
  <2> QED
    BY <2>2, <2>3
<1>12. CASE ReadExit(r)
  <2>1. HintsAreTrue'
    BY <1>4, <1>12 DEF ReadExit, Handled
  <2>2. Exited(r)
    <3>1. OwnedHint("CommandProcessExited", r, 1) \in hints
      BY <1>12 DEF ReadExit, Handled
    <3> QED
      BY <3>1 DEF ProcessInv, HintsAreTrue, OwnedHint
  <2>3. CASE ~Owned(r)
    BY <1>9, <1>12, <2>3 DEF ReadExit
  <2>4. CASE Owned(r)
    <3>1. UNCHANGED run /\ owner' = [owner EXCEPT ![r].saw = run[r].state]
      BY <1>12, <2>4 DEF ReadExit
    <3>2. /\ \A x \in Runs \ {r} : owner'[x] = owner[x]
          /\ owner'[r] = [owner[r] EXCEPT !.saw = run[r].state]
      BY <3>1 DEF ProcessInv, TypeOK
    <3>3. LaunchIsTrue(r)'
      BY <1>1, <1>2, <2>2, <3>1, <3>2 DEF LaunchIsTrue, Exited, RunEnded, OwnerType
    <3> QED
      BY <1>2, <1>3, <2>1, <3>1, <3>2, <3>3, OneRun
  <2> QED
    BY <2>3, <2>4
<1>13. CASE EnforceCommandDeadline(r)
  <2> DEFINE h == Hint("CommandRunDue", r)
  <2>1. CASE Handled(h, {}) /\ UNCHANGED <<run, owner>>
    BY <1>9, <2>1
  <2>2. CASE owner' = [owner EXCEPT ![r] = Terminating(r, "timed_out")] /\ Handled(h, {}) /\ UNCHANGED run
    <3>1. h \in hints
      BY <2>2 DEF Handled
    <3>2. r \in Timed /\ "timed_out" \in Cause \ {"none"}
      BY <3>1 DEF ProcessInv, HintsAreTrue, Hint, Cause
    <3> QED
      BY <1>10, <2>2, <3>2
  <2>3. CASE EndUnowned(r, h) /\ UNCHANGED owner /\ ~Owned(r)
    BY <1>8, <2>3
  <2> QED
    BY <1>13, <2>1, <2>2, <2>3 DEF EnforceCommandDeadline
<1>14. CASE TerminateCancelled(r)
  <2>1. PICK v \in {0, 1} :
          LET h == OwnedHint("CommandRunCancellationRequested", r, v)
          IN  \/ Handled(h, {}) /\ UNCHANGED <<run, owner>>
              \/ owner' = [owner EXCEPT ![r] = Terminating(r, "cancelled")] /\ Handled(h, {}) /\ UNCHANGED run
              \/ EndUnowned(r, h) /\ UNCHANGED owner /\ ~Owned(r)
    BY <1>14 DEF TerminateCancelled
  <2> DEFINE h == OwnedHint("CommandRunCancellationRequested", r, v)
  <2>2. CASE Handled(h, {}) /\ UNCHANGED <<run, owner>>
    BY <1>9, <2>2
  <2>3. CASE owner' = [owner EXCEPT ![r] = Terminating(r, "cancelled")] /\ Handled(h, {}) /\ UNCHANGED run
    <3>1. "cancelled" \in Cause \ {"none"} /\ "cancelled" # "timed_out"
      BY DEF Cause
    <3> QED
      BY <1>10, <2>3, <3>1
  <2>4. CASE EndUnowned(r, h) /\ UNCHANGED owner /\ ~Owned(r)
    BY <1>8, <2>4
  <2> QED
    BY <2>1, <2>2, <2>3, <2>4
<1> QED
  BY <1>3, <1>5, <1>6, <1>7, <1>11, <1>12, <1>13, <1>14 DEF CommandHandler

LEMMA EndOwnedTrue ==
    ASSUME ProcessInv, NEW r \in Runs, NEW end \in RunEnds, EndOwned(r, end), UNCHANGED process,
           process[r] # "alive",
           end = "succeeded" => process[r] = "zero",
           end = "timed_out" => Exited(r) /\ r \in Timed,
           end \in {"cancelled", "failed"} => Exited(r) \/ process[r] = "none"
    PROVE  /\ LaunchIsTrue(r)'
           /\ \A x \in Runs \ {r} : run'[x] = run[x] /\ owner'[x] = owner[x]
           /\ hints' \subseteq hints \cup {Hint("CommandRunTerminal", r)}
<1>1. LaunchIsTrue(r) /\ run[r] \in RunType
  BY DEF ProcessInv, TypeOK
<1>2. /\ \A x \in Runs \ {r} : run'[x] = run[x] /\ owner'[x] = owner[x]
      /\ run'[r] = [run[r] EXCEPT !.state = end] /\ owner'[r] = NoOwner
      /\ hints' \subseteq hints \cup {Hint("CommandRunTerminal", r)}
  BY DEF EndOwned, EndRun, ProcessInv, TypeOK
<1>3. run'[r].rev = run[r].rev /\ run'[r].state = end
  BY <1>1, <1>2 DEF RunType
<1> QED
  BY <1>1, <1>2, <1>3 DEF LaunchIsTrue, Exited, NoOwner, Unstarted

LEMMA OwnerProcesses ==
    ASSUME ProcessInv, TypeOK', NEW r \in Runs, OwnerTask(r) \/ OwnerFailure(r)
    PROVE  ProcessInv' /\ ProcessIsFinal
<1>1. LaunchIsTrue(r) /\ run[r] \in RunType /\ owner[r] \in OwnerType
  BY DEF ProcessInv, TypeOK
<1>2. ASSUME \A x \in Runs \ {r} : process'[x] = process[x],
             process[r] # "none" => process'[r] \in {process[r], "orphan", "zero", "nonzero"},
             Exited(r) => process'[r] = process[r]
      PROVE  ProcessIsFinal
  BY <1>2 DEF ProcessIsFinal
<1>3. ASSUME ProcessIsFinal PROVE \A x \in Runs : Exited(x) => Exited(x)'
  BY <1>3 DEF ProcessIsFinal, Exited
<1>4. ASSUME ProcessIsFinal, hints' = hints PROVE HintsAreTrue'
  BY <1>3, <1>4, FewerHints DEF ProcessInv
<1>5. ASSUME ProcessIsFinal, hints' \subseteq hints \cup {Hint("CommandRunTerminal", r)}
      PROVE  HintsAreTrue'
  <2> DEFINE new == {Hint("CommandRunTerminal", r)}
  <2>1. \A h \in new : h.kind \notin {"CommandProcessExited", "CommandRunDue"}
    BY HintKinds
  <2> HIDE DEF new
  <2>2. hints' \subseteq hints \cup new
    BY <1>5 DEF new
  <2> QED
    BY <1>3, <1>5, <2>1, <2>2, HintsKept DEF ProcessInv
<1>6. UNCHANGED timers => TimersAreTrue'
  BY DEF ProcessInv, TimersAreTrue
<1>7. UNCHANGED process => ProcessIsFinal
  BY DEF ProcessIsFinal
<1>8. ASSUME NEW p \in Phase, owner' = [owner EXCEPT ![r].phase = p],
             p \in Unstarted => process[r] = "none",
             process[r] = "alive" => p \in {"recording", "resolved"},
             (process[r] = "alive" /\ RunEnded(r)) => owner[r].killing \/ p = "recording",
             owner[r].phase # "none", p # "none",
             UNCHANGED <<run, process, hints, timers>>
      PROVE  ProcessInv' /\ ProcessIsFinal
  <2>1. /\ \A x \in Runs \ {r} : owner'[x] = owner[x]
        /\ owner'[r] = [owner[r] EXCEPT !.phase = p]
    BY <1>8 DEF ProcessInv, TypeOK
  <2>2. LaunchIsTrue(r)'
    BY <1>1, <1>8, <2>1 DEF LaunchIsTrue, Exited, RunEnded, OwnerType
  <2> QED
    BY <1>4, <1>6, <1>7, <1>8, <2>1, <2>2, OneRun
<1>9. ASSUME NEW end \in RunEnds, EndOwned(r, end), UNCHANGED <<process, timers>>,
             process[r] # "alive",
             end = "succeeded" => process[r] = "zero",
             end = "timed_out" => Exited(r) /\ r \in Timed,
             end \in {"cancelled", "failed"} => Exited(r) \/ process[r] = "none"
      PROVE  ProcessInv' /\ ProcessIsFinal
  <2>1. /\ LaunchIsTrue(r)'
        /\ \A x \in Runs \ {r} : run'[x] = run[x] /\ owner'[x] = owner[x]
        /\ hints' \subseteq hints \cup {Hint("CommandRunTerminal", r)}
    BY <1>9, EndOwnedTrue
  <2> QED
    BY <1>5, <1>6, <1>7, <1>9, <2>1, OneRun
<1>10. CASE TakeOwnership(r)
  <2>1. /\ owner[r].phase = "claiming" /\ owner' = [owner EXCEPT ![r].phase = "opening"]
        /\ UNCHANGED <<run, process, hints, timers>>
    BY <1>10 DEF TakeOwnership, postCommit
  <2> QED
    BY <1>1, <1>8, <2>1 DEF LaunchIsTrue, Unstarted, Phase
<1>11. CASE PrepareLaunch(r)
  <2>1. owner[r].phase = "opening" /\ process[r] = "none" /\ UNCHANGED <<process, timers>>
    BY <1>1, <1>11 DEF PrepareLaunch, LaunchIsTrue, Unstarted
  <2>2. CASE FinishesUnlaunched(r)
    BY <1>9, <1>11, <2>1, <2>2 DEF PrepareLaunch, RunEnds
  <2>3. CASE ~FinishesUnlaunched(r)
    <3>1. owner' = [owner EXCEPT ![r].phase = "spawning"] /\ UNCHANGED <<run, hints>>
      BY <1>11, <2>3 DEF PrepareLaunch
    <3> QED
      BY <1>8, <2>1, <3>1 DEF Unstarted, Phase
  <2> QED
    BY <2>2, <2>3
<1>12. CASE SpawnProcess(r)
  <2>1. /\ owner[r].phase = "spawning" /\ process[r] = "none" /\ UNCHANGED <<run, hints, timers>>
        /\ process' = [process EXCEPT ![r] = "alive"]
        /\ owner' = [owner EXCEPT ![r].phase = "recording"]
    BY <1>1, <1>12 DEF SpawnProcess, LaunchIsTrue, Unstarted, postCommit
  <2>2. /\ \A x \in Runs \ {r} : owner'[x] = owner[x] /\ process'[x] = process[x]
        /\ owner'[r] = [owner[r] EXCEPT !.phase = "recording"] /\ process'[r] = "alive"
    BY <2>1 DEF ProcessInv, TypeOK
  <2>3. ProcessIsFinal
    BY <1>2, <2>1, <2>2 DEF Exited
  <2>4. LaunchIsTrue(r)'
    BY <1>1, <2>1, <2>2 DEF LaunchIsTrue, Exited, RunEnded, OwnerType, Unstarted
  <2> QED
    BY <1>4, <1>6, <2>1, <2>2, <2>3, <2>4, OneRun
<1>13. CASE RecordStart(r)
  <2>1. /\ owner[r].phase = "recording" /\ UNCHANGED <<process, hints>>
        /\ HintsAreTrue' /\ ProcessIsFinal
    BY <1>4, <1>7, <1>13 DEF RecordStart
  <2>2. CASE MayMarkRunning(r)
    <3>1. /\ run' = [run EXCEPT ![r].state = "running"]
          /\ timers' \subseteq timers \cup {r} /\ (r \in timers' => r \in timers \/ r \in Timed)
          /\ owner' = [owner EXCEPT ![r].phase = "resolved",
                                    ![r].killing = @ \/ owner[r].cause # "none"]
      BY <1>13, <2>2 DEF RecordStart
    <3>2. /\ \A x \in Runs \ {r} : run'[x] = run[x] /\ owner'[x] = owner[x]
          /\ run'[r].rev = run[r].rev /\ run'[r].state = "running"
          /\ owner'[r].phase = "resolved" /\ owner'[r].saw = owner[r].saw /\ owner'[r].cause = owner[r].cause
      BY <3>1 DEF ProcessInv, TypeOK, OwnerType, RunType
    <3>3. TimersAreTrue'
      BY <3>1 DEF ProcessInv, TimersAreTrue
    <3>4. LaunchIsTrue(r)'
      BY <1>1, <2>1, <3>2 DEF LaunchIsTrue, Exited, RunEnded, RunEnds, Unstarted
    <3> QED
      BY <2>1, <3>2, <3>3, <3>4, OneRun
  <2>3. CASE ~MayMarkRunning(r)
    <3>1. /\ owner' = [owner EXCEPT ![r] = [Terminating(r, "cancelled") EXCEPT !.phase = "resolved"]]
          /\ UNCHANGED <<run, timers>>
      BY <1>13, <2>3 DEF RecordStart
    <3>2. /\ \A x \in Runs \ {r} : owner'[x] = owner[x]
          /\ owner'[r] = [Terminating(r, "cancelled") EXCEPT !.phase = "resolved"]
      BY <3>1 DEF ProcessInv, TypeOK
    <3>3. /\ owner'[r].phase = "resolved" /\ owner'[r].saw = owner[r].saw /\ owner'[r].killing
          /\ owner'[r].cause \in {owner[r].cause, "cancelled"}
      BY <1>1, <3>2 DEF Terminating, OwnerType
    <3>4. LaunchIsTrue(r)'
      BY <1>1, <2>1, <3>1, <3>3 DEF LaunchIsTrue, Exited, RunEnded, Unstarted
    <3> QED
      BY <1>6, <2>1, <3>1, <3>2, <3>4, OneRun
  <2> QED
    BY <2>2, <2>3
<1>14. CASE FailRecordStart(r)
  <2>1. /\ owner[r].phase = "recording" /\ UNCHANGED <<process, hints, timers, run>>
        /\ HintsAreTrue' /\ ProcessIsFinal /\ TimersAreTrue'
        /\ owner' = [owner EXCEPT ![r] = [Terminating(r, "launch_failed") EXCEPT !.phase = "resolved"]]
    BY <1>4, <1>6, <1>7, <1>14 DEF FailRecordStart
  <2>2. /\ \A x \in Runs \ {r} : owner'[x] = owner[x]
        /\ owner'[r] = [Terminating(r, "launch_failed") EXCEPT !.phase = "resolved"]
    BY <2>1 DEF ProcessInv, TypeOK
  <2>3. /\ owner'[r].phase = "resolved" /\ owner'[r].saw = owner[r].saw /\ owner'[r].killing
        /\ owner'[r].cause \in {owner[r].cause, "launch_failed"}
    BY <1>1, <2>2 DEF Terminating, OwnerType
  <2>4. LaunchIsTrue(r)'
    BY <1>1, <2>1, <2>3 DEF LaunchIsTrue, Exited, RunEnded, Unstarted
  <2> QED
    BY <2>1, <2>2, <2>4, OneRun
<1>15. CASE KillProcess(r) \/ ExitProcess(r)
  <2>1. /\ process[r] \in {"alive", "orphan"} /\ UNCHANGED <<run, owner, hints, timers>>
        /\ process' = [process EXCEPT ![r] = process'[r]] /\ process'[r] \in {"zero", "nonzero"}
    BY <1>15 DEF KillProcess, ExitProcess, postCommit, ProcessInv, TypeOK
  <2>2. \A x \in Runs \ {r} : process'[x] = process[x]
    BY <2>1 DEF ProcessInv, TypeOK
  <2>3. ProcessIsFinal
    BY <1>2, <2>1, <2>2 DEF Exited
  <2>4. LaunchIsTrue(r)'
    BY <1>1, <2>1 DEF LaunchIsTrue, Exited, RunEnded
  <2> QED
    BY <1>4, <1>6, <2>1, <2>2, <2>3, <2>4, OneRun
<1>16. CASE ReportExit(r)
  <2>1. /\ Exited(r) /\ UNCHANGED <<run, process, timers>>
        /\ owner' = [owner EXCEPT ![r].reported = TRUE]
        /\ hints' = hints \cup {OwnedHint("CommandProcessExited", r, 1)}
    BY <1>16 DEF ReportExit
  <2>2. /\ \A x \in Runs \ {r} : owner'[x] = owner[x]
        /\ owner'[r] = [owner[r] EXCEPT !.reported = TRUE]
    BY <2>1 DEF ProcessInv, TypeOK
  <2>3. LaunchIsTrue(r)'
    BY <1>1, <2>1, <2>2 DEF LaunchIsTrue, Exited, RunEnded, OwnerType
  <2>4. HintsAreTrue'
    BY <2>1 DEF ProcessInv, HintsAreTrue, Exited, OwnedHint
  <2> QED
    BY <1>6, <1>7, <2>1, <2>2, <2>3, <2>4, OneRun
<1>17. CASE RecordExit(r)
  <2> DEFINE end == ExitEnd(owner[r].saw, owner[r].cause, process[r])
  <2>1. Exited(r) /\ process[r] # "alive" /\ UNCHANGED <<process, timers>>
    BY <1>1, <1>17 DEF RecordExit, LaunchIsTrue, Exited
  <2>2. /\ end \in RunEnds
        /\ end = "succeeded" => process[r] = "zero"
        /\ end = "timed_out" => r \in Timed
    BY <1>1 DEF ExitEnd, RunEnds, LaunchIsTrue
  <2>3. CASE EndOwned(r, end)
    <3> HIDE DEF end
    <3> QED
      BY <1>9, <2>1, <2>2, <2>3
  <2>4. CASE owner' = [owner EXCEPT ![r] = NoOwner] /\ UNCHANGED <<run, hints>>
    <3>1. /\ \A x \in Runs \ {r} : owner'[x] = owner[x]
          /\ owner'[r] = NoOwner
      BY <2>4 DEF ProcessInv, TypeOK
    <3>2. LaunchIsTrue(r)'
      BY <1>1, <2>1, <2>4, <3>1 DEF LaunchIsTrue, Exited, RunEnded, NoOwner, Unstarted
    <3> QED
      BY <1>4, <1>6, <1>7, <2>1, <2>4, <3>1, <3>2, OneRun
  <2> QED
    BY <1>17, <2>3, <2>4 DEF RecordExit
<1>18. CASE FailRecordExit(r)
  <2>1. /\ UNCHANGED <<run, process, hints, timers>>
        /\ owner' = [owner EXCEPT ![r].saw = "nothing"]
    BY <1>18 DEF FailRecordExit, postCommit
  <2>2. /\ \A x \in Runs \ {r} : owner'[x] = owner[x]
        /\ owner'[r] = [owner[r] EXCEPT !.saw = "nothing"]
    BY <2>1 DEF ProcessInv, TypeOK
  <2>3. LaunchIsTrue(r)'
    BY <1>1, <2>1, <2>2 DEF LaunchIsTrue, Exited, RunEnded, OwnerType
  <2> QED
    BY <1>4, <1>6, <1>7, <2>1, <2>2, <2>3, OneRun
<1>19. CASE FailLaunch(r)
  <2>1. /\ owner[r].phase \in {"opening", "spawning"} /\ process[r] = "none"
        /\ UNCHANGED <<process, timers>>
    BY <1>1, <1>19 DEF FailLaunch, LaunchIsTrue, Unstarted
  <2>2. CASE EndOwned(r, "failed") \/ EndOwned(r, "cancelled")
    BY <1>9, <2>1, <2>2 DEF RunEnds
  <2>3. CASE owner' = [owner EXCEPT ![r].phase = "unlaunched"] /\ UNCHANGED <<run, hints>>
    BY <1>8, <2>1, <2>3 DEF Unstarted, Phase
  <2> QED
    BY <1>19, <2>2, <2>3 DEF FailLaunch
<1> QED
  BY <1>10, <1>11, <1>12, <1>13, <1>14, <1>15, <1>16, <1>17, <1>18, <1>19 DEF OwnerTask, OwnerFailure


LEMMA OtherProcesses ==
    ASSUME ProcessInv, TypeOK',
           \/ Control \/ AuditPage \/ Failure \/ UNCHANGED vars
           \/ \E s \in Sources : Continuation(s) \/ FireTimer(s)
    PROVE  ProcessInv' /\ ProcessIsFinal
<1> USE DEF taskVars, laneVars, commandVars, faultVars, postCommit
<1>0. ASSUME UNCHANGED process, hints' \subseteq hints PROVE HintsAreTrue'
  BY <1>0, FewerHints DEF ProcessInv, Exited
<1>1. ASSUME UNCHANGED <<owner, process>>,
             \A r \in Runs : /\ run'[r].rev = run[r].rev
                             /\ run'[r].state = run[r].state \/ run'[r].state \notin RunEnds,
             timers' \subseteq timers, HintsAreTrue'
      PROVE  ProcessInv' /\ ProcessIsFinal
  <2>1. TimersAreTrue'
    BY <1>1 DEF ProcessInv, TimersAreTrue
  <2> QED
    BY <1>1, <2>1, RunsKept DEF ProcessIsFinal
<1>2. ASSUME NEW S \in SUBSET {s \in Sources : Used(s)}, ClaimSources(S), NEW r \in Runs
      PROVE  run'[r].rev = run[r].rev /\ run'[r].state = run[r].state
  BY <1>2 DEF ClaimSources, ProcessInv, TypeOK, RunType
<1>3. ASSUME NEW s \in Sources, OpenSuccessor(s) PROVE ProcessInv' /\ ProcessIsFinal
  <2>1. /\ ClaimSources({s}) /\ {s} \in SUBSET {x \in Sources : Used(x)}
        /\ UNCHANGED <<owner, process>> /\ timers' \subseteq timers /\ hints' \subseteq hints
    BY <1>3 DEF OpenSuccessor, SourceContinuable, TerminalHandled, Handled
  <2> QED
    BY <1>0, <1>1, <1>2, <2>1
<1>4. ASSUME NEW s \in Sources, FailSuccessor(s) \/ SkipSuccessor(s) PROVE ProcessInv' /\ ProcessIsFinal
  <2>1. UNCHANGED <<run, owner, process>> /\ timers' \subseteq timers /\ hints' \subseteq hints
    BY <1>4 DEF FailSuccessor, SkipSuccessor, TerminalHandled, Handled
  <2> QED
    BY <1>0, <1>1, <2>1
<1>5. CASE PauseTask
  <2>1. UNCHANGED <<run, owner, process, timers>> /\ hints' \subseteq hints
    BY <1>5 DEF PauseTask
  <2> QED
    BY <1>0, <1>1, <2>1
<1>6. CASE ResumeTask
  <2> DEFINE S == {s \in Sources : Used(s) /\ AttemptOf(s) \in {a \in Attempts : Between(a)} /\ Unconsumed(s)}
  <2>1. ClaimSources(S) /\ UNCHANGED <<owner, process, timers>> /\ hints' \subseteq hints
    BY <1>6 DEF ResumeTask
  <2>2. S \in SUBSET {x \in Sources : Used(x)}
    OBVIOUS
  <2> HIDE DEF S
  <2> QED
    BY <1>0, <1>1, <1>2, <2>1, <2>2
<1>7. CASE CancelTask
  <2> DEFINE new == CommandCancelHints \cup {TerminalHint(q) : q \in {x \in Requests : WaitingOn(x) # {}}}
  <2>1. UNCHANGED <<owner, process, timers>> /\ hints' \subseteq hints \cup new
    BY <1>7 DEF CancelTask
  <2>2. \A h \in new : h.kind \notin {"CommandProcessExited", "CommandRunDue"}
    BY HintKinds DEF CommandCancelHints
  <2>3. \A r \in Runs : /\ run'[r].rev = run[r].rev
                        /\ run'[r].state = run[r].state \/ run'[r].state \notin RunEnds
    BY <1>7 DEF CancelTask, CancelCommandWaits, ProcessInv, TypeOK, RunType, RunEnds
  <2> HIDE DEF new
  <2>4. HintsAreTrue'
    BY <2>1, <2>2, HintsKept DEF ProcessInv, Exited
  <2> QED
    BY <1>1, <2>1, <2>3, <2>4
<1>8. CASE AuditPage
  <2>2. Len(Families) = 6
    BY DEF Families
  <2>3. audit + 1 \in 1..Len(Families)
    BY <1>8, <2>2 DEF AuditPage, Serving, ProcessInv, TypeOK, LanesTypeOK
  <2>4. \A h \in Page(Families[audit + 1]) : h.kind \notin {"CommandProcessExited", "CommandRunDue"}
    BY <2>3, HintKinds DEF Page, Families
  <2>5. UNCHANGED <<run, owner, process, timers>> /\ hints' \subseteq hints \cup Page(Families[audit + 1])
    BY <1>8 DEF AuditPage
  <2>6. HintsAreTrue'
    BY <2>4, <2>5, HintsKept DEF ProcessInv, Exited
  <2> QED
    BY <1>1, <2>5, <2>6
<1>9. ASSUME NEW h \in hints, LoseHint(h) PROVE ProcessInv' /\ ProcessIsFinal
  <2>1. UNCHANGED <<run, owner, process, timers>> /\ hints' \subseteq hints
    BY <1>9 DEF LoseHint
  <2> QED
    BY <1>0, <1>1, <2>1
<1>10. ASSUME NEW s \in Sources, FireTimer(s) PROVE ProcessInv' /\ ProcessIsFinal
  <2>1. /\ UNCHANGED <<run, owner, process>> /\ timers' \subseteq timers /\ s \in timers
        /\ hints' = hints \cup {Hint(IF s \in Requests THEN "HumanRequestDue" ELSE "CommandRunDue", s)}
    BY <1>10 DEF FireTimer
  <2>2. s \notin Requests => s \in Timed
    BY <2>1 DEF ProcessInv, TimersAreTrue, Sources
  <2>3. HintsAreTrue'
    BY <2>1, <2>2 DEF ProcessInv, HintsAreTrue, Hint, Exited
  <2>4. TimersAreTrue'
    BY <2>1 DEF ProcessInv, TimersAreTrue
  <2> QED
    BY <2>1, <2>3, <2>4, RunsKept DEF ProcessIsFinal
<1>11. CASE Restart
  <2>1. /\ hints' = {} /\ timers' = {} /\ UNCHANGED run
        /\ \A r \in Runs : owner'[r] = NoOwner
                           /\ process'[r] = IF process[r] = "alive" THEN "orphan" ELSE process[r]
    BY <1>11 DEF Restart
  <2>2. ASSUME NEW r \in Runs PROVE LaunchIsTrue(r)'
    <3>1. LaunchIsTrue(r)
      BY DEF ProcessInv
    <3> QED
      BY <2>1, <3>1 DEF LaunchIsTrue, Exited, RunEnded, NoOwner, Unstarted
  <2>3. HintsAreTrue' /\ TimersAreTrue'
    BY <2>1 DEF HintsAreTrue, TimersAreTrue
  <2> QED
    BY <2>1, <2>2, <2>3 DEF ProcessInv, ProcessIsFinal, Exited
<1>12. CASE UNCHANGED vars
  <2>1. UNCHANGED <<run, owner, process, timers>> /\ hints' \subseteq hints
    BY <1>12 DEF vars
  <2> QED
    BY <1>0, <1>1, <2>1
<1> QED
  BY <1>3, <1>4, <1>5, <1>6, <1>7, <1>8, <1>9, <1>10, <1>11, <1>12 DEF Control, Failure, Continuation


LEMMA ProcessInit == Init => ProcessInv
<1> SUFFICES ASSUME Init PROVE ProcessInv
    OBVIOUS
<1>1. TypeOK
  BY TypeInit
<1>2. HintsAreTrue /\ TimersAreTrue
  BY DEF Init, LanesInit, HintsAreTrue, TimersAreTrue
<1>3. ASSUME NEW r \in Runs PROVE LaunchIsTrue(r)
  <2>1. run[r].state = "unused" /\ owner[r] = NoOwner /\ process[r] = "none"
    BY DEF Init, CommandInit
  <2> QED
    BY <2>1 DEF LaunchIsTrue, NoOwner, Unstarted
<1> QED
  BY <1>1, <1>2, <1>3 DEF ProcessInv

LEMMA ProcessNext == ProcessInv /\ [Next]_vars => ProcessInv' /\ ProcessIsFinal
<1> SUFFICES ASSUME ProcessInv, [Next]_vars PROVE ProcessInv' /\ ProcessIsFinal
    OBVIOUS
<1>1. TypeOK'
  BY TypeNext DEF ProcessInv
<1>2. CASE Human
  BY <1>1, <1>2, HumanProcesses DEF Human
<1>3. CASE Command
  BY <1>1, <1>3, CommandProcesses DEF Command
<1>4. CASE Control \/ AuditPage \/ Failure \/ UNCHANGED vars
  BY <1>1, <1>4, OtherProcesses
<1>5. ASSUME NEW q \in Requests, HumanHandler(q) PROVE ProcessInv' /\ ProcessIsFinal
  BY <1>1, <1>5, HumanProcesses DEF HumanHandler
<1>6. ASSUME NEW r \in Runs, CommandHandler(r) PROVE ProcessInv' /\ ProcessIsFinal
  BY <1>1, <1>6, CommandProcesses DEF CommandHandler
<1>7. ASSUME NEW r \in Runs, OwnerTask(r) \/ OwnerFailure(r) PROVE ProcessInv' /\ ProcessIsFinal
  BY <1>1, <1>7, OwnerProcesses
<1>8. ASSUME NEW s \in Sources, Continuation(s) \/ FireTimer(s) PROVE ProcessInv' /\ ProcessIsFinal
  BY <1>1, <1>8, OtherProcesses
<1> QED
  BY <1>2, <1>3, <1>4, <1>5, <1>6, <1>7, <1>8 DEF Next

LEMMA ProcessOwner == ProcessInv => ProcessesAreOwned /\ EndingIsTruthful
<1> SUFFICES ASSUME ProcessInv, NEW r \in Runs
             PROVE  /\ process[r] = "alive" =>
                         Owned(r) /\ (RunEnded(r) => owner[r].killing \/ owner[r].phase = "recording")
                    /\ run[r].state = "succeeded" => process[r] = "zero"
                    /\ run[r].state = "timed_out" => Exited(r) /\ r \in Timed
                    /\ run[r].state \in {"cancelled", "failed"} => process[r] = "none" \/ Exited(r)
    BY DEF ProcessesAreOwned, EndingIsTruthful
<1>1. LaunchIsTrue(r)
  BY DEF ProcessInv
<1> QED
  BY <1>1 DEF LaunchIsTrue, Owned

\* The CommandProcessOwner (process_owner.py) never forgets a process that
\* still runs, and kills the one whose run ended first.
THEOREM ProcessesOwned == Spec => []ProcessesAreOwned
<1>1. ProcessInv => ProcessesAreOwned
  BY ProcessOwner
<1>2. ProcessInv /\ [Next]_vars => ProcessInv'
  BY ProcessNext
<1> QED
  BY ProcessInit, <1>1, <1>2, PTL DEF Spec

\* The end that terminalize_command_run records is what happened to the process.
THEOREM EndingTruthful == Spec => []EndingIsTruthful
<1>1. ProcessInv => EndingIsTruthful
  BY ProcessOwner
<1>2. ProcessInv /\ [Next]_vars => ProcessInv'
  BY ProcessNext
<1> QED
  BY ProcessInit, <1>1, <1>2, PTL DEF Spec

\* One terminal winner: an end, a successor and an exit are never replaced, and
\* no command is launched twice.
THEOREM EndsAreFinal == Spec => EndIsFinal
<1> DEFINE Final ==
      /\ \A q \in Requests : RequestEnded(q) => request'[q].status = request[q].status
      /\ \A r \in Runs : RunEnded(r) => run'[r].state = run[r].state
      /\ \A s \in Sources : (Successor(s) # 0 \/ task = "cancelled") => Successor(s)' = Successor(s)
      /\ \A r \in Runs : process[r] # "none" => process'[r] \in {process[r], "orphan", "zero", "nonzero"}
      /\ \A r \in Runs : Exited(r) => process'[r] = process[r]
<1>1. WaitsInv /\ [Next]_vars => WaitsInv'
  BY WaitsNext
<1>2. ProcessInv /\ [Next]_vars => ProcessInv'
  BY ProcessNext
<1>3. WaitsInv /\ ProcessInv /\ [Next]_vars => Final
  <2> SUFFICES ASSUME WaitsInv, ProcessInv, [Next]_vars PROVE Final
      OBVIOUS
  <2>1. Settled /\ ProcessIsFinal
    BY WaitsNext, ProcessNext
  <2>2. ASSUME NEW q \in Requests, RequestEnded(q) PROVE request'[q].status = request[q].status
    <3>1. q \in Sources /\ Ended(q)
      BY <2>2 DEF Sources, Ended
    <3>2. Outcome(q)' = Outcome(q)
      BY <2>1, <3>1 DEF Settled
    <3> QED
      BY <3>2 DEF Outcome
  <2>3. ASSUME NEW r \in Runs, RunEnded(r) PROVE run'[r].state = run[r].state
    <3>1. r \in Sources /\ r \notin Requests /\ Ended(r)
      BY <2>3, SourcesAssumption DEF Sources, Ended
    <3>2. Outcome(r)' = Outcome(r)
      BY <2>1, <3>1 DEF Settled
    <3> QED
      BY <3>1, <3>2 DEF Outcome
  <2>4. ASSUME NEW s \in Sources, Successor(s) # 0 \/ task = "cancelled" PROVE Successor(s)' = Successor(s)
    BY <2>1, <2>4 DEF Settled
  <2> QED
    BY <2>1, <2>2, <2>3, <2>4 DEF ProcessIsFinal
<1> HIDE DEF Final
<1>4. Spec => [][Final]_vars
  BY WaitsInit, ProcessInit, <1>1, <1>2, <1>3, PTL DEF Spec
<1> QED
  BY <1>4 DEF EndIsFinal, Final

-----------------------------------------------------------------------------
(* What is under way for every source                                       *)

\* The Attempt of an ended source is on its way to its successor.
EndIsAnnounced(s) ==
    (Used(s) /\ Unconsumed(s) /\ task = "running") =>
        TerminalHint(s) \in hints \/ audit < (IF s \in Requests THEN 2 ELSE 3)

\* The deadline of an open request is armed, due or about to be armed.
RequestIsTimed(q) ==
    (q \in Timed /\ request[q].status = "open") =>
        \/ q \in timers
        \/ Hint("HumanRequestOpened", q) \in hints
        \/ Hint("HumanRequestDue", q) \in hints
        \/ audit < 1

\* A run without an owner is announced, and an owner past its launch waits for
\* the process or carries its exit to the row.  The other phases of a launch
\* are steps of the owner's own coroutine.
RunIsDriven(r) ==
    run[r].state \in {"pending_start", "running"} =>
        /\ owner[r].phase = "none" =>
              \/ Hint("CommandRunPending", r) \in hints
              \/ audit < (IF run[r].state = "pending_start" THEN 4 ELSE 5)
        /\ owner[r].phase = "resolved" =>
              \/ process[r] = "alive"
              \/ Exited(r) /\ \/ ~owner[r].reported
                              \/ OwnedHint("CommandProcessExited", r, 1) \in hints
                              \/ owner[r].saw # "nothing"
        /\ owner[r].phase # "unlaunched"

\* The deadline of a running command is armed, due or being enforced.
RunIsTimed(r) ==
    (r \in Timed /\ run[r].state = "running" /\ process[r] = "alive") =>
        r \in timers \/ Hint("CommandRunDue", r) \in hints \/ owner[r].killing

\* The process of a run whose cancellation was requested is being stopped.
RunIsStopped(r) ==
    (run[r].state = "cancellation_requested" /\ process[r] = "alive") =>
        \/ owner[r].killing \/ owner[r].phase = "recording"
        \/ OwnedHint("CommandRunCancellationRequested", r, run[r].rev) \in hints
        \/ audit < 6

\* As long as this controller lost nothing, whatever a source waits for is under
\* way: what WaitsEnd and CancelledProcessStops rest on.
SourcesAreAttended ==
    ~lossy =>
        /\ \A s \in Sources : EndIsAnnounced(s)
        /\ \A q \in Requests : RequestIsTimed(q)
        /\ \A r \in Runs : RunIsDriven(r) /\ RunIsTimed(r) /\ RunIsStopped(r)

\* What a launch and its hints say of the row: a running command is past its
\* launch, "cancelled" is the cause of no run that may still succeed, the exit
\* handler's read of an unfinished row is not stale, and a terminal hint is
\* about a source that ended.
RunFacts(r) ==
    /\ run[r].state # "unused" => run[r].attempt # None
    /\ run[r].state = "unused" => run[r].rev = 0
    /\ owner[r].phase = "none" => owner[r] = NoOwner
    /\ run[r].state = "running" => owner[r].phase \in {"none", "resolved"}
    /\ owner[r].phase = "unlaunched" => run[r].state # "pending_start"
    /\ owner[r].cause = "cancelled" => run[r].state \notin {"pending_start", "running"}
    /\ run[r].state = "pending_start" =>
          /\ owner[r].cause \in {"none", "launch_failed"}
          /\ owner[r].phase = "resolved" => owner[r].cause = "launch_failed"
    /\ owner[r].phase \in {"recording", "resolved"} => process[r] = "alive" \/ Exited(r)
    /\ owner[r].reported \/ owner[r].saw # "nothing" => owner[r].phase = "resolved" /\ Exited(r)
    /\ owner[r].saw # "nothing" /\ run[r].state \in {"pending_start", "running"} =>
          owner[r].saw = run[r].state
    /\ Hint("CommandRunTerminal", r) \in hints => RunEnded(r)
    /\ OwnedHint("CommandProcessExited", r, 1) \in hints => owner[r].phase \in {"none", "resolved"}

RunEndIsAnnounced(r) ==
    RunEnded(r) /\ run[r].successor = 0 /\ task = "running" =>
        Hint("CommandRunTerminal", r) \in hints \/ audit < 3

AttendedRun(r) ==
    /\ RunFacts(r)
    /\ ~lossy => RunEndIsAnnounced(r) /\ RunIsDriven(r) /\ RunIsTimed(r) /\ RunIsStopped(r)

RequestFacts(q) ==
    /\ request[q].status # "unused" => request[q].attempt # None
    /\ Hint("HumanRequestTerminal", q) \in hints => RequestEnded(q)

RequestEndIsAnnounced(q) ==
    RequestEnded(q) /\ request[q].successor = 0 /\ task = "running" =>
        Hint("HumanRequestTerminal", q) \in hints \/ audit < 2

AttendedRequest(q) ==
    RequestFacts(q) /\ (~lossy => RequestEndIsAnnounced(q) /\ RequestIsTimed(q))

AttendedInv == (\A q \in Requests : AttendedRequest(q)) /\ (\A r \in Runs : AttendedRun(r))

LEMMA HintRevs == \A k, s, v : OwnedHint(k, s, v).rev = v
  BY DEF OwnedHint

\* A handled hint leaves the queue and every other one stays.
LEMMA HandledOne ==
    ASSUME NEW h, NEW new, Handled(h, new)
    PROVE  /\ \A x \in hints : x # h => x \in hints'
           /\ \A x \in new : x \in hints'
           /\ \A x \in hints' : x \in hints \/ x \in new
  BY DEF Handled

\* Hints about other sources come and go with other steps.
HintsOfOthers(s) == \A h : h.source # s => (h \in hints' <=> h \in hints)

LEMMA HandledOthers ==
    ASSUME NEW s, NEW h, NEW new, Handled(h, new), h.source = s, \A x \in new : x.source = s
    PROVE  HintsOfOthers(s)
  BY DEF Handled, HintsOfOthers

\* A step that neither writes the rows of a run nor touches its hints.
LEMMA RunUntouched ==
    ASSUME NEW r \in Runs, AttendedRun(r),
           run'[r] = run[r], owner'[r] = owner[r], process'[r] = process[r],
           \A h : h.source = r => (h \in hints' <=> h \in hints),
           r \in timers' <=> r \in timers,
           audit' = audit, task' = "running" => task = "running", ~lossy' => ~lossy
    PROVE  AttendedRun(r)'
<1>1. /\ Hint("CommandRunTerminal", r) \in hints' <=> Hint("CommandRunTerminal", r) \in hints
      /\ Hint("CommandRunPending", r) \in hints' <=> Hint("CommandRunPending", r) \in hints
      /\ Hint("CommandRunDue", r) \in hints' <=> Hint("CommandRunDue", r) \in hints
      /\ \A k, v : OwnedHint(k, r, v) \in hints' <=> OwnedHint(k, r, v) \in hints
  BY HintKinds
<1>2. RunFacts(r)'
  BY <1>1 DEF AttendedRun, RunFacts, RunEnded, Exited
<1>3. ASSUME ~lossy' PROVE (RunEndIsAnnounced(r) /\ RunIsDriven(r) /\ RunIsTimed(r) /\ RunIsStopped(r))'
  BY <1>1, <1>3 DEF AttendedRun, RunEndIsAnnounced, RunIsDriven, RunIsTimed, RunIsStopped, RunEnded, Exited
<1> QED
  BY <1>2, <1>3 DEF AttendedRun

LEMMA RequestUntouched ==
    ASSUME NEW q \in Requests, AttendedRequest(q), request'[q] = request[q],
           \A h : h.source = q => (h \in hints' <=> h \in hints),
           q \in timers' <=> q \in timers,
           audit' = audit, task' = "running" => task = "running", ~lossy' => ~lossy
    PROVE  AttendedRequest(q)'
<1>1. \A k : Hint(k, q) \in hints' <=> Hint(k, q) \in hints
  BY HintKinds
<1> QED
  BY <1>1 DEF AttendedRequest, RequestFacts, RequestEndIsAnnounced, RequestIsTimed, RequestEnded

\* A step about one source leaves the others as they are.
LEMMA OneAttended ==
    ASSUME AttendedInv, NEW s \in Sources,
           \A q \in Requests \ {s} : request'[q] = request[q],
           \A r \in Runs \ {s} : run'[r] = run[r] /\ owner'[r] = owner[r] /\ process'[r] = process[r],
           HintsOfOthers(s), \A x : x # s => (x \in timers' <=> x \in timers),
           audit' = audit, task' = "running" => task = "running", ~lossy' => ~lossy,
           s \in Requests => AttendedRequest(s)', s \in Runs => AttendedRun(s)'
    PROVE  AttendedInv'
<1>1. ASSUME NEW q \in Requests \ {s} PROVE AttendedRequest(q)'
  BY <1>1, RequestUntouched DEF AttendedInv, HintsOfOthers
<1>2. ASSUME NEW r \in Runs \ {s} PROVE AttendedRun(r)'
  BY <1>2, RunUntouched DEF AttendedInv, HintsOfOthers
<1> QED
  BY <1>1, <1>2 DEF AttendedInv

\* An unfinished run or open request has its lane, an ended one keeps it idle.
LEMMA RunHasLane ==
    ASSUME WaitsInv, NEW r \in Runs, run[r].attempt # None
    PROVE  /\ run[r].state \in {"pending_start", "running"} => WaitingOn(r) # {}
           /\ RunEnded(r) /\ run[r].successor = 0 /\ task # "cancelled" =>
                 Used(r) /\ Between(AttemptOf(r)) /\ ContinueSources(AttemptOf(r)) = {r}
<1> r \in Sources /\ r \notin Requests
  BY SourcesAssumption DEF Sources
<1>1. /\ Used(r) /\ AttemptOf(r) = run[r].attempt /\ (Ended(r) <=> RunEnded(r)) /\ Successor(r) = run[r].successor
      /\ Stopping(r) <=> run[r].state = "cancellation_requested"
  BY DEF Used, AttemptOf, Ended, Successor, Stopping
<1>2. run[r].attempt \in Attempts
  BY DEF WaitsInv, TypeOK, RunType
<1>3. ASSUME run[r].state \in {"pending_start", "running"} PROVE WaitingOn(r) # {}
  <2>1. ~RunEnded(r) /\ task # "cancelled"
    BY <1>1, <1>3 DEF RunEnded, RunEnds, WaitsInv, CancelledIsStopping
  <2>2. lane[run[r].attempt].wait = r
    BY <1>1, <1>2, <2>1 DEF WaitsInv, WaitsAreExact, WaitMatchesSource
  <2>3. lane[run[r].attempt].status = "running"
    BY <1>2, <2>1 DEF WaitsInv, LanesFollowTask
  <2> QED
    BY <1>2, <2>2, <2>3 DEF WaitingOn
<1>4. ASSUME RunEnded(r), run[r].successor = 0, task # "cancelled"
      PROVE  Used(r) /\ Between(AttemptOf(r)) /\ ContinueSources(AttemptOf(r)) = {r}
  BY <1>1, <1>4 DEF WaitsInv, WaitsAreExact, EndedWaitKeepsItsLane, Unconsumed
<1> QED
  BY <1>3, <1>4

LEMMA RequestHasLane ==
    ASSUME WaitsInv, NEW q \in Requests, request[q].attempt # None
    PROVE  /\ request[q].status = "open" => WaitingOn(q) # {}
           /\ RequestEnded(q) /\ request[q].successor = 0 /\ task # "cancelled" =>
                 Used(q) /\ Between(AttemptOf(q)) /\ ContinueSources(AttemptOf(q)) = {q}
<1> q \in Sources /\ q \notin Runs
  BY SourcesAssumption DEF Sources
<1>1. /\ Used(q) /\ AttemptOf(q) = request[q].attempt /\ (Ended(q) <=> RequestEnded(q))
      /\ Successor(q) = request[q].successor /\ ~Stopping(q)
  BY DEF Used, AttemptOf, Ended, Successor, Stopping
<1>2. request[q].attempt \in Attempts
  BY DEF WaitsInv, TypeOK, RequestType
<1>3. ASSUME request[q].status = "open" PROVE WaitingOn(q) # {}
  <2>1. ~RequestEnded(q) /\ task # "cancelled"
    BY <1>1, <1>3 DEF RequestEnded, RequestEnds, WaitsInv, CancelledIsStopping
  <2>2. lane[request[q].attempt].wait = q
    BY <1>1, <1>2, <2>1 DEF WaitsInv, WaitsAreExact, WaitMatchesSource
  <2>3. lane[request[q].attempt].status = "running"
    BY <1>2, <2>1 DEF WaitsInv, LanesFollowTask
  <2> QED
    BY <1>2, <2>2, <2>3 DEF WaitingOn
<1>4. ASSUME RequestEnded(q), request[q].successor = 0, task # "cancelled"
      PROVE  Used(q) /\ Between(AttemptOf(q)) /\ ContinueSources(AttemptOf(q)) = {q}
  BY <1>1, <1>4 DEF WaitsInv, WaitsAreExact, EndedWaitKeepsItsLane, Unconsumed
<1> QED
  BY <1>3, <1>4

LEMMA HumanAttended ==
    ASSUME WaitsInv, AttendedInv, NEW q \in Requests,
           \/ \E a \in Attempts : OpenHumanRequest(a, q)
           \/ AnswerHumanRequest(q) \/ HumanHandler(q),
           UNCHANGED commandVars
    PROVE  AttendedInv'
<1> q \in Sources /\ q \notin Runs
  BY SourcesAssumption DEF Sources
<1>1. /\ UNCHANGED <<run, owner, process, task, audit, lossy>>
      /\ \A x : x # q => (x \in timers' <=> x \in timers)
  BY DEF commandVars, taskVars, faultVars, OpenHumanRequest, AnswerHumanRequest, HumanHandler,
         RegisterHumanDeadline, ExpireHumanRequest
<1>2. AttendedRequest(q) /\ request[q] \in RequestType
  BY DEF AttendedInv, WaitsInv, TypeOK
<1>3. ASSUME \A x \in Requests \ {q} : request'[x] = request[x], HintsOfOthers(q), AttendedRequest(q)'
      PROVE  AttendedInv'
  BY <1>1, <1>3, OneAttended
<1>4. ASSUME NEW a \in Attempts, OpenHumanRequest(a, q) PROVE AttendedInv'
  <2>1. /\ request' = [request EXCEPT ![q].status = "open", ![q].attempt = a]
        /\ hints' = hints \cup {Hint("HumanRequestOpened", q)} /\ request[q].status = "unused"
    BY <1>4 DEF OpenHumanRequest
  <2>2. /\ \A x \in Requests \ {q} : request'[x] = request[x]
        /\ request'[q].status = "open" /\ request'[q].attempt = a
    BY <2>1 DEF WaitsInv, TypeOK, RequestType
  <2>3. HintsOfOthers(q)
    BY <2>1, HintKinds DEF HintsOfOthers
  <2>4. Hint("HumanRequestTerminal", q) \notin hints /\ Hint("HumanRequestTerminal", q) \notin hints'
    BY <1>2, <2>1, HintKinds DEF AttendedRequest, RequestFacts, RequestEnded, RequestEnds
  <2>5. a # None
    BY SourcesAssumption
  <2>6. AttendedRequest(q)'
    BY <2>1, <2>2, <2>4, <2>5
    DEF AttendedRequest, RequestFacts, RequestEndIsAnnounced, RequestIsTimed, RequestEnded, RequestEnds
  <2> QED
    BY <1>3, <2>2, <2>3, <2>6
<1>5. ASSUME NEW end \in RequestEnds, PersistResolution(q, end), HintsOfOthers(q),
             Hint("HumanRequestTerminal", q) \in hints'
      PROVE  AttendedInv'
  <2>1. /\ \A x \in Requests \ {q} : request'[x] = request[x]
        /\ request'[q].status = end /\ request'[q].attempt = request[q].attempt
        /\ request[q].status = "open"
    BY <1>2, <1>5 DEF PersistResolution, WaitsInv, TypeOK, RequestType
  <2>2. AttendedRequest(q)'
    BY <1>2, <1>5, <2>1
    DEF AttendedRequest, RequestFacts, RequestEndIsAnnounced, RequestIsTimed, RequestEnded, RequestEnds
  <2> QED
    BY <1>3, <1>5, <2>1, <2>2
<1>6. CASE AnswerHumanRequest(q)
  <2>1. /\ PersistResolution(q, "resolved") /\ "resolved" \in RequestEnds
        /\ hints' = hints \cup {Hint("HumanRequestTerminal", q)}
    BY <1>6 DEF AnswerHumanRequest, RequestEnds
  <2>2. HintsOfOthers(q)
    BY <2>1, HintKinds DEF HintsOfOthers
  <2> QED
    BY <1>5, <2>1, <2>2
<1>7. CASE RegisterHumanDeadline(q)
  <2>1. /\ Handled(Hint("HumanRequestOpened", q), {}) /\ UNCHANGED request
        /\ timers' = IF request[q].status = "open" /\ q \in Timed THEN timers \cup {q} ELSE timers \ {q}
    BY <1>7 DEF RegisterHumanDeadline
  <2>2. HintsOfOthers(q)
    BY <2>1, HandledOthers, HintKinds
  <2>3. Hint("HumanRequestTerminal", q) \in hints' <=> Hint("HumanRequestTerminal", q) \in hints
    BY <2>1, HandledOne, HintKinds
  <2>4. RequestIsTimed(q)'
    BY <2>1 DEF RequestIsTimed
  <2>5. AttendedRequest(q)'
    BY <1>1, <1>2, <2>1, <2>3, <2>4
    DEF AttendedRequest, RequestFacts, RequestEndIsAnnounced, RequestEnded
  <2> QED
    BY <1>3, <2>1, <2>2, <2>5
<1>8. CASE ExpireHumanRequest(q)
  <2>1. CASE request[q].status = "open" /\ q \in Timed
    <3>1. /\ PersistResolution(q, "timed_out") /\ "timed_out" \in RequestEnds
          /\ Handled(Hint("HumanRequestDue", q), {Hint("HumanRequestTerminal", q)})
      BY <1>8, <2>1 DEF ExpireHumanRequest, RequestEnds
    <3>2. HintsOfOthers(q)
      BY <3>1, HandledOthers, HintKinds
    <3>3. Hint("HumanRequestTerminal", q) \in hints'
      BY <3>1, HandledOne
    <3> QED
      BY <1>5, <3>1, <3>2, <3>3
  <2>2. CASE ~(request[q].status = "open" /\ q \in Timed)
    <3>1. Handled(Hint("HumanRequestDue", q), {}) /\ UNCHANGED request
      BY <1>8, <2>2 DEF ExpireHumanRequest
    <3>2. HintsOfOthers(q)
      BY <3>1, HandledOthers, HintKinds
    <3>3. Hint("HumanRequestTerminal", q) \in hints' <=> Hint("HumanRequestTerminal", q) \in hints
      BY <3>1, HandledOne, HintKinds
    <3>4. AttendedRequest(q)'
      BY <1>1, <1>2, <2>2, <3>1, <3>3
      DEF AttendedRequest, RequestFacts, RequestEndIsAnnounced, RequestIsTimed, RequestEnded
    <3> QED
      BY <1>3, <3>1, <3>2, <3>4
  <2> QED
    BY <2>1, <2>2
<1> QED
  BY <1>4, <1>6, <1>7, <1>8 DEF HumanHandler

\* Whatever ends a run announces it; the entry stays or is forgotten.
LEMMA EndedRunAttended ==
    ASSUME NEW r \in Runs, AttendedRun(r),
           run'[r].state \in RunEnds, run'[r].attempt = run[r].attempt, run[r].state # "unused",
           owner'[r] \in {owner[r], NoOwner}, process'[r] = process[r],
           Hint("CommandRunTerminal", r) \in hints',
           OwnedHint("CommandProcessExited", r, 1) \in hints' =>
                OwnedHint("CommandProcessExited", r, 1) \in hints
    PROVE  AttendedRun(r)'
<1>1. run'[r].state \notin {"unused", "pending_start", "running", "cancellation_requested"}
  BY DEF RunEnds
<1>2. RunEnded(r)' /\ run'[r].attempt # None
  BY DEF AttendedRun, RunFacts, RunEnded
<1>3. /\ owner[r].phase = "none" => owner[r] = NoOwner
      /\ owner[r].phase \in {"recording", "resolved"} => process[r] = "alive" \/ Exited(r)
      /\ owner[r].reported \/ owner[r].saw # "nothing" => owner[r].phase = "resolved" /\ Exited(r)
      /\ OwnedHint("CommandProcessExited", r, 1) \in hints => owner[r].phase \in {"none", "resolved"}
  BY DEF AttendedRun, RunFacts
<1>4. NoOwner.phase = "none" /\ ~NoOwner.reported /\ NoOwner.saw = "nothing"
  BY DEF NoOwner
<1>5. RunFacts(r)'
  <2>1. CASE owner'[r] = owner[r]
    BY <1>1, <1>2, <1>3, <2>1 DEF RunFacts, Exited
  <2>2. CASE owner'[r] = NoOwner
    BY <1>1, <1>2, <1>4, <2>2 DEF RunFacts
  <2> QED
    BY <2>1, <2>2
<1> QED
  BY <1>1, <1>5 DEF AttendedRun, RunEndIsAnnounced, RunIsDriven, RunIsTimed, RunIsStopped

\* The frame of a step of the controller about one run.
RunAlone(r) ==
    /\ UNCHANGED <<request, task, audit>>
    /\ \A x \in Runs \ {r} : run'[x] = run[x] /\ owner'[x] = owner[x] /\ process'[x] = process[x]
    /\ HintsOfOthers(r) /\ (\A x : x # r => (x \in timers' <=> x \in timers))
    /\ ~lossy' => ~lossy

LEMMA RunAloneAttended ==
    ASSUME AttendedInv, NEW r \in Runs, RunAlone(r), AttendedRun(r)'
    PROVE  AttendedInv'
<1> r \in Sources /\ r \notin Requests
  BY SourcesAssumption DEF Sources
<1> QED
  BY OneAttended DEF RunAlone

\* A handler that finds nothing to do may consume its hint: the row no longer
\* waits for what the hint announced.
LEMMA HintSpent ==
    ASSUME NEW r \in Runs, AttendedRun(r), NEW h, Handled(h, {}), h.source = r,
           run'[r] = run[r], owner'[r] = owner[r], process'[r] = process[r],
           UNCHANGED <<task, timers, audit, lossy>>,
           h.kind \in {"CommandRunPending", "CommandRunDue", "CommandRunCancellationRequested"},
           h.kind = "CommandRunPending" =>
                run[r].state \notin {"pending_start", "running"} \/ owner[r].phase # "none",
           h.kind = "CommandRunDue" => run[r].state # "running" \/ process[r] # "alive" \/ owner[r].killing,
           h.kind = "CommandRunCancellationRequested" =>
                \/ run[r].state # "cancellation_requested" \/ h.rev # run[r].rev
                \/ process[r] # "alive" \/ owner[r].killing
    PROVE  AttendedRun(r)'
<1>1. /\ \A x \in hints : x # h => x \in hints'
      /\ \A x \in hints' : x \in hints
  BY HandledOne
<1>2. /\ Hint("CommandRunTerminal", r) \in hints' <=> Hint("CommandRunTerminal", r) \in hints
      /\ OwnedHint("CommandProcessExited", r, 1) \in hints' <=> OwnedHint("CommandProcessExited", r, 1) \in hints
  BY <1>1, HintKinds
<1>3. RunFacts(r)'
  BY <1>2 DEF AttendedRun, RunFacts, RunEnded, Exited
<1>4. ASSUME ~lossy' PROVE RunEndIsAnnounced(r)'
  BY <1>2, <1>4 DEF AttendedRun, RunEndIsAnnounced, RunEnded
<1>5. ASSUME ~lossy' PROVE RunIsDriven(r)'
  <2>1. Hint("CommandRunPending", r) = h =>
             run[r].state \notin {"pending_start", "running"} \/ owner[r].phase # "none"
    BY HintKinds
  <2>2. Hint("CommandRunPending", r) # h /\ Hint("CommandRunPending", r) \in hints =>
             Hint("CommandRunPending", r) \in hints'
    BY <1>1
  <2> QED
    BY <1>2, <1>5, <2>1, <2>2 DEF AttendedRun, RunIsDriven, Exited
<1>6. ASSUME ~lossy' PROVE RunIsTimed(r)'
  <2>1. Hint("CommandRunDue", r) = h =>
             run[r].state # "running" \/ process[r] # "alive" \/ owner[r].killing
    BY HintKinds
  <2>2. Hint("CommandRunDue", r) # h /\ Hint("CommandRunDue", r) \in hints => Hint("CommandRunDue", r) \in hints'
    BY <1>1
  <2> QED
    BY <1>6, <2>1, <2>2 DEF AttendedRun, RunIsTimed
<1>7. ASSUME ~lossy' PROVE RunIsStopped(r)'
  <2> DEFINE c == OwnedHint("CommandRunCancellationRequested", r, run[r].rev)
  <2>1. c = h => \/ run[r].state # "cancellation_requested"
                 \/ process[r] # "alive" \/ owner[r].killing
    BY HintKinds, HintRevs
  <2>2. c # h /\ c \in hints => c \in hints'
    BY <1>1
  <2> QED
    BY <1>7, <2>1, <2>2 DEF AttendedRun, RunIsStopped
<1> QED
  BY <1>3, <1>4, <1>5, <1>6, <1>7 DEF AttendedRun

\* abandon_unowned_command_run ends every run that still has its wait.
LEMMA UnownedAttended ==
    ASSUME WaitsInv, ProcessInv, NEW r \in Runs, AttendedRun(r), NEW h, EndUnowned(r, h), ~Owned(r),
           h.source = r, UNCHANGED <<owner, process, task, timers, audit, lossy>>,
           h.kind \in {"CommandRunPending", "CommandRunDue", "CommandRunCancellationRequested"}
    PROVE  /\ AttendedRun(r)' /\ HintsOfOthers(r)
           /\ \A x \in Runs \ {r} : run'[x] = run[x]
<1>1. /\ run \in [Runs -> RunType] /\ RunFacts(r)
      /\ process[r] = "alive" => owner[r].phase \in {"recording", "resolved"}
  BY DEF ProcessInv, TypeOK, LaunchIsTrue, AttendedRun
<1>2. process[r] # "alive"
  BY <1>1 DEF Owned
<1>3. CASE Accepts(r, run[r].rev, Unfinished, UnownedEnd(r))
  <2>1. /\ run' = [run EXCEPT ![r].state = UnownedEnd(r)]
        /\ Handled(h, {Hint("CommandRunTerminal", r)})
        /\ run[r].state \in Unfinished
    BY <1>3 DEF EndUnowned, EndRun, Accepts
  <2>2. UnownedEnd(r) \in RunEnds
    BY DEF UnownedEnd, RunEnds
  <2>3. /\ \A x \in Runs \ {r} : run'[x] = run[x]
        /\ run'[r].state = UnownedEnd(r) /\ run'[r].attempt = run[r].attempt
        /\ run[r].state # "unused"
    BY <1>1, <2>1 DEF RunType, Unfinished
  <2>4. /\ Hint("CommandRunTerminal", r) \in hints'
        /\ OwnedHint("CommandProcessExited", r, 1) \in hints' =>
              OwnedHint("CommandProcessExited", r, 1) \in hints
        /\ HintsOfOthers(r)
    <3>1. \A x \in {Hint("CommandRunTerminal", r)} :
             x.source = r /\ x # OwnedHint("CommandProcessExited", r, 1)
      BY HintKinds
    <3> QED
      BY <2>1, <3>1, HandledOne, HandledOthers
  <2>5. AttendedRun(r)'
    BY <2>2, <2>3, <2>4, EndedRunAttended
  <2> QED
    BY <2>3, <2>4, <2>5
<1>4. CASE ~Accepts(r, run[r].rev, Unfinished, UnownedEnd(r))
  <2>1. Handled(h, {}) /\ UNCHANGED run
    BY <1>4 DEF EndUnowned
  <2>2. run[r].state \notin {"pending_start", "running"}
    BY <1>1, <1>4, RunHasLane DEF Accepts, Unfinished, RunFacts
  <2>3. HintsOfOthers(r)
    BY <2>1, HandledOthers
  <2> QED
    BY <1>2, <2>1, <2>2, <2>3, HintSpent
<1> QED
  BY <1>3, <1>4

\* What a kill leaves of the owner's entry.
LEMMA TerminatingEntry ==
    ASSUME NEW r \in Runs, owner[r] \in OwnerType, NEW cause \in Cause
    PROVE  LET e == Terminating(r, cause)
           IN  /\ e.phase = owner[r].phase /\ e.killing
               /\ e.reported = owner[r].reported /\ e.saw = owner[r].saw
               /\ e.cause \in {owner[r].cause, cause}
  BY DEF Terminating, OwnerType

\* The owner of a process starts to kill it.
LEMMA KillingAttended ==
    ASSUME ProcessInv, NEW r \in Runs, AttendedRun(r), NEW cause \in {"timed_out", "cancelled"},
           run[r].state = (IF cause = "timed_out" THEN "running" ELSE "cancellation_requested"),
           Owned(r), owner'[r] = Terminating(r, cause), run'[r] = run[r], process'[r] = process[r],
           NEW h, Handled(h, {}), h.kind \in {"CommandRunDue", "CommandRunCancellationRequested"},
           UNCHANGED <<task, timers, audit, lossy>>
    PROVE  AttendedRun(r)'
<1>1. /\ owner'[r].phase = owner[r].phase /\ owner'[r].killing
      /\ owner'[r].reported = owner[r].reported /\ owner'[r].saw = owner[r].saw
      /\ owner'[r].cause \in {owner[r].cause, cause}
      /\ owner[r].phase # "none"
  <2>1. owner[r] \in OwnerType /\ cause \in Cause
    BY DEF ProcessInv, TypeOK, Cause
  <2>2. owner[r].phase # "none"
    BY DEF Owned
  <2> QED
    BY <2>1, <2>2, TerminatingEntry
<1>2. \A k \in {"CommandRunTerminal", "CommandRunPending"} : Hint(k, r) \in hints' <=> Hint(k, r) \in hints
  BY HandledOne, HintKinds
<1>3. OwnedHint("CommandProcessExited", r, 1) \in hints' <=> OwnedHint("CommandProcessExited", r, 1) \in hints
  BY HandledOne, HintKinds
<1>4. run[r].state \notin RunEnds
  BY DEF RunEnds
<1>5. RunFacts(r)'
  BY <1>1, <1>2, <1>3, <1>4 DEF AttendedRun, RunFacts, RunEnded, Exited
<1>6. ASSUME ~lossy' PROVE RunIsDriven(r)'
  BY <1>1, <1>2, <1>3, <1>6 DEF AttendedRun, RunIsDriven, Exited
<1>7. (RunEndIsAnnounced(r) /\ RunIsTimed(r) /\ RunIsStopped(r))'
  BY <1>1, <1>4 DEF RunEndIsAnnounced, RunIsTimed, RunIsStopped, RunEnded
<1> QED
  BY <1>5, <1>6, <1>7 DEF AttendedRun

LEMMA StartAttended ==
    ASSUME WaitsInv, ProcessInv, AttendedInv, NEW r \in Runs, NEW a \in Attempts, StartCommandRun(a, r),
           UNCHANGED request
    PROVE  AttendedInv'
<1>1. /\ run' = [run EXCEPT ![r].state = "pending_start", ![r].attempt = a]
      /\ hints' = hints \cup {Hint("CommandRunPending", r)} /\ run[r].state = "unused"
      /\ UNCHANGED <<owner, process, timers, task, audit, lossy>>
  BY DEF StartCommandRun, taskVars, faultVars
<1>2. /\ \A x \in Runs \ {r} : run'[x] = run[x]
      /\ run'[r].state = "pending_start" /\ run'[r].attempt = a
  BY <1>1 DEF WaitsInv, TypeOK, RunType
<1>3. AttendedRun(r) /\ RunFacts(r) /\ LaunchIsTrue(r)
  BY DEF AttendedInv, AttendedRun, ProcessInv
<1>4. owner[r] = NoOwner /\ process[r] = "none" /\ Hint("CommandRunTerminal", r) \notin hints
  BY <1>1, <1>3 DEF RunFacts, LaunchIsTrue, RunEnded, RunEnds
<1>5. /\ NoOwner.phase = "none" /\ NoOwner.cause = "none" /\ ~NoOwner.reported /\ NoOwner.saw = "nothing"
      /\ a # None /\ Hint("CommandRunTerminal", r) \notin hints' /\ Hint("CommandRunPending", r) \in hints'
  BY <1>1, <1>4, SourcesAssumption, HintKinds DEF NoOwner
<1>6. AttendedRun(r)'
  <2>1. RunFacts(r)'
    BY <1>1, <1>2, <1>4, <1>5 DEF RunFacts
  <2>2. (RunEndIsAnnounced(r) /\ RunIsDriven(r) /\ RunIsTimed(r) /\ RunIsStopped(r))'
    BY <1>1, <1>2, <1>4, <1>5
    DEF RunEndIsAnnounced, RunIsDriven, RunIsTimed, RunIsStopped, RunEnded, RunEnds
  <2> QED
    BY <2>1, <2>2 DEF AttendedRun
<1>7. RunAlone(r)
  <2>1. HintsOfOthers(r)
    BY <1>1, HintKinds DEF HintsOfOthers
  <2> QED
    BY <1>1, <1>2, <2>1 DEF RunAlone
<1> QED
  BY <1>6, <1>7, RunAloneAttended

LEMMA CancellationAttended ==
    ASSUME WaitsInv, AttendedInv, NEW r \in Runs, RequestRunCancellation(r), UNCHANGED request
    PROVE  AttendedInv'
<1> DEFINE c == OwnedHint("CommandRunCancellationRequested", r, run[r].rev)
<1>1. /\ run' = [run EXCEPT ![r].state = "cancellation_requested"]
      /\ hints' = hints \cup {c} /\ run[r].state \in {"pending_start", "running"}
      /\ UNCHANGED <<owner, process, timers, task, audit, lossy>>
  BY DEF RequestRunCancellation, Cancellable, taskVars, faultVars
<1>2. /\ \A x \in Runs \ {r} : run'[x] = run[x]
      /\ run'[r].state = "cancellation_requested" /\ run'[r].attempt = run[r].attempt
      /\ run'[r].rev = run[r].rev
  BY <1>1 DEF WaitsInv, TypeOK, RunType
<1>3. AttendedRun(r)
  BY DEF AttendedInv
<1>4. /\ Hint("CommandRunTerminal", r) \in hints' <=> Hint("CommandRunTerminal", r) \in hints
      /\ OwnedHint("CommandProcessExited", r, 1) \in hints' <=> OwnedHint("CommandProcessExited", r, 1) \in hints
      /\ c \in hints'
  BY <1>1, HintKinds
<1>5. RunFacts(r)'
  BY <1>1, <1>2, <1>3, <1>4 DEF AttendedRun, RunFacts, RunEnded, RunEnds, Exited
<1>6. (RunEndIsAnnounced(r) /\ RunIsDriven(r) /\ RunIsTimed(r) /\ RunIsStopped(r))'
  BY <1>2, <1>4 DEF RunEndIsAnnounced, RunIsDriven, RunIsTimed, RunIsStopped, RunEnded, RunEnds
<1>7. RunAlone(r)
  <2>1. c.source = r
    BY HintKinds
  <2> HIDE DEF c
  <2>2. HintsOfOthers(r)
    BY <1>1, <2>1 DEF HintsOfOthers
  <2> QED
    BY <1>1, <1>2, <2>2 DEF RunAlone
<1> QED
  BY <1>5, <1>6, <1>7, RunAloneAttended DEF AttendedRun

LEMMA CommandHandlerAttended ==
    ASSUME WaitsInv, ProcessInv, AttendedInv, NEW r \in Runs, CommandHandler(r)
    PROVE  AttendedInv'
<1>1. AttendedRun(r) /\ RunFacts(r) /\ LaunchIsTrue(r)
  BY DEF AttendedInv, AttendedRun, ProcessInv
<1>2. UNCHANGED <<request, process, task, timers, audit, lossy>>
  BY DEF CommandHandler, ClaimLaunch, RecoverUnowned, ReadExit, EnforceCommandDeadline, TerminateCancelled,
         taskVars, faultVars
<1>3. ASSUME HintsOfOthers(r), AttendedRun(r)',
             \A x \in Runs \ {r} : run'[x] = run[x] /\ owner'[x] = owner[x]
      PROVE  AttendedInv'
  BY <1>2, <1>3, RunAloneAttended DEF RunAlone
<1>4. ASSUME NEW h, EndUnowned(r, h), ~Owned(r), UNCHANGED owner, h.source = r,
             h.kind \in {"CommandRunPending", "CommandRunDue", "CommandRunCancellationRequested"}
      PROVE  AttendedInv'
  BY <1>1, <1>2, <1>3, <1>4, UnownedAttended
<1>5. ASSUME NEW h, Handled(h, {}), UNCHANGED <<run, owner>>, h.source = r,
             h.kind \in {"CommandRunPending", "CommandRunDue", "CommandRunCancellationRequested"},
             h.kind = "CommandRunPending" =>
                  run[r].state \notin {"pending_start", "running"} \/ owner[r].phase # "none",
             h.kind = "CommandRunDue" => run[r].state # "running",
             h.kind = "CommandRunCancellationRequested" =>
                  run[r].state # "cancellation_requested" \/ h.rev # run[r].rev
      PROVE  AttendedInv'
  <2>1. HintsOfOthers(r)
    BY <1>5, HandledOthers
  <2> QED
    BY <1>1, <1>2, <1>3, <1>5, <2>1, HintSpent
<1>6. ASSUME NEW cause \in {"timed_out", "cancelled"}, NEW h, Handled(h, {}), h.source = r,
             h.kind \in {"CommandRunDue", "CommandRunCancellationRequested"},
             run[r].state = (IF cause = "timed_out" THEN "running" ELSE "cancellation_requested"),
             Owned(r), owner' = [owner EXCEPT ![r] = Terminating(r, cause)], UNCHANGED run
      PROVE  AttendedInv'
  <2>1. /\ owner'[r] = Terminating(r, cause) /\ \A x \in Runs \ {r} : owner'[x] = owner[x]
        /\ run'[r] = run[r] /\ process'[r] = process[r]
    BY <1>2, <1>6 DEF ProcessInv, TypeOK
  <2>2. HintsOfOthers(r)
    BY <1>6, HandledOthers
  <2>3. AttendedRun(r)'
    BY <1>1, <1>2, <1>6, <2>1, KillingAttended
  <2> QED
    BY <1>3, <1>6, <2>1, <2>2, <2>3
<1>7. CASE ClaimLaunch(r)
  <2>1. /\ Handled(Hint("CommandRunPending", r), {}) /\ run[r].state = "pending_start" /\ run[r].rev = 0
        /\ run' = [run EXCEPT ![r].rev = 1] /\ owner' = [owner EXCEPT ![r].phase = "claiming"]
    BY <1>7 DEF ClaimLaunch, MayClaimLaunch
  <2>2. owner[r] = NoOwner /\ process[r] = "none"
    BY <1>1, <2>1 DEF LaunchIsTrue, RunFacts
  <2>3. /\ \A x \in Runs \ {r} : run'[x] = run[x] /\ owner'[x] = owner[x]
        /\ run'[r].state = "pending_start" /\ run'[r].attempt = run[r].attempt
        /\ owner'[r] = [NoOwner EXCEPT !.phase = "claiming"]
    BY <2>1, <2>2 DEF ProcessInv, TypeOK, RunType
  <2>4. /\ owner'[r].phase = "claiming" /\ owner'[r].cause = "none" /\ ~owner'[r].reported
        /\ owner'[r].saw = "nothing"
    BY <2>3 DEF NoOwner
  <2>5. /\ Hint("CommandRunTerminal", r) \notin hints
        /\ OwnedHint("CommandProcessExited", r, 1) \notin hints
    BY <1>1, <2>1, <2>2, HintKinds DEF ProcessInv, HintsAreTrue, Exited, RunFacts, RunEnded, RunEnds
  <2>6. /\ Hint("CommandRunTerminal", r) \notin hints'
        /\ OwnedHint("CommandProcessExited", r, 1) \notin hints'
    BY <2>1, <2>5, HandledOne
  <2>7. RunFacts(r)'
    BY <1>1, <2>1, <2>3, <2>4, <2>6 DEF RunFacts
  <2>8. (RunEndIsAnnounced(r) /\ RunIsDriven(r) /\ RunIsTimed(r) /\ RunIsStopped(r))'
    BY <2>3, <2>4 DEF RunEndIsAnnounced, RunIsDriven, RunIsTimed, RunIsStopped, RunEnded, RunEnds
  <2>9. HintsOfOthers(r)
    BY <2>1, HandledOthers, HintKinds
  <2> QED
    BY <1>3, <2>3, <2>7, <2>8, <2>9 DEF AttendedRun
<1>8. CASE RecoverUnowned(r)
  <2> DEFINE h == Hint("CommandRunPending", r)
  <2>1. h.kind = "CommandRunPending" /\ h.source = r /\ UNCHANGED owner
    BY <1>8, HintKinds DEF RecoverUnowned
  <2>2. CASE RunEnded(r) \/ (Owned(r) /\ run[r].rev = 1)
    <3>1. Handled(h, {}) /\ UNCHANGED run
      BY <1>8, <2>2 DEF RecoverUnowned
    <3>2. run[r].state \notin {"pending_start", "running"} \/ owner[r].phase # "none"
      BY <2>2 DEF RunEnded, RunEnds, Owned
    <3> HIDE DEF h
    <3> QED
      BY <1>5, <2>1, <3>1, <3>2
  <2>3. CASE ~(RunEnded(r) \/ (Owned(r) /\ run[r].rev = 1))
    <3>1. EndUnowned(r, h) /\ ~Owned(r)
      BY <1>1, <1>8, <2>3 DEF RecoverUnowned, LaunchIsTrue, Owned
    <3> HIDE DEF h
    <3> QED
      BY <1>4, <2>1, <3>1
  <2> QED
    BY <2>2, <2>3
<1>9. CASE ReadExit(r)
  <2> DEFINE x1 == OwnedHint("CommandProcessExited", r, 1)
  <2>1. /\ Handled(x1, {}) /\ x1 \in hints /\ UNCHANGED run
        /\ owner' = IF Owned(r) THEN [owner EXCEPT ![r].saw = run[r].state] ELSE owner
    BY <1>9 DEF ReadExit, Handled
  <2>2. owner[r].phase \in {"none", "resolved"} /\ Exited(r) /\ (Owned(r) <=> owner[r].phase = "resolved")
    BY <1>1, <2>1, HintKinds DEF RunFacts, ProcessInv, HintsAreTrue, Owned
  <2>3. HintsOfOthers(r)
    BY <2>1, HandledOthers, HintKinds
  <2>4. \A k : Hint(k, r) # x1 => (Hint(k, r) \in hints' <=> Hint(k, r) \in hints)
    BY <2>1, HandledOne
  <2>5. \A k \in {"CommandRunTerminal", "CommandRunPending", "CommandRunDue"} :
            Hint(k, r) \in hints' <=> Hint(k, r) \in hints
    BY <2>4, HintKinds
  <2>6. \A v : OwnedHint("CommandRunCancellationRequested", r, v) \in hints =>
                  OwnedHint("CommandRunCancellationRequested", r, v) \in hints'
    BY <2>1, HandledOne, HintKinds
  <2>7. /\ \A x \in Runs \ {r} : owner'[x] = owner[x]
        /\ owner'[r].phase = owner[r].phase /\ owner'[r].cause = owner[r].cause
        /\ owner'[r].reported = owner[r].reported /\ owner'[r].killing = owner[r].killing
        /\ owner'[r].saw = IF Owned(r) THEN run[r].state ELSE owner[r].saw
        /\ ~Owned(r) => owner'[r] = owner[r]
    BY <2>1 DEF ProcessInv, TypeOK, OwnerType
  <2>8. run'[r] = run[r] /\ process'[r] = process[r] /\ process[r] # "alive"
    BY <1>2, <2>1, <2>2 DEF Exited
  <2>9. RunFacts(r)'
    BY <1>1, <2>2, <2>5, <2>7, <2>8 DEF RunFacts, RunEnded, Exited
  <2>10. ASSUME ~lossy' PROVE RunEndIsAnnounced(r)' /\ RunIsDriven(r)'
    <3>1. RunEndIsAnnounced(r) /\ RunIsDriven(r)
      BY <1>1, <1>2, <2>10 DEF AttendedRun
    <3> QED
      BY <1>2, <2>2, <2>5, <2>7, <2>8, <3>1 DEF RunEndIsAnnounced, RunIsDriven, RunEnded, Exited
  <2>11. RunIsTimed(r)' /\ RunIsStopped(r)'
    BY <2>8 DEF RunIsTimed, RunIsStopped
  <2> QED
    BY <1>3, <2>1, <2>3, <2>7, <2>9, <2>10, <2>11 DEF AttendedRun
<1>10. CASE EnforceCommandDeadline(r)
  <2> DEFINE h == Hint("CommandRunDue", r)
  <2>1. h.kind = "CommandRunDue" /\ h.source = r
    BY HintKinds
  <2>2. \/ run[r].state # "running" /\ Handled(h, {}) /\ UNCHANGED <<run, owner>>
        \/ /\ run[r].state = "running" /\ Owned(r) /\ Handled(h, {}) /\ UNCHANGED run
           /\ owner' = [owner EXCEPT ![r] = Terminating(r, "timed_out")]
        \/ run[r].state = "running" /\ ~Owned(r) /\ EndUnowned(r, h) /\ UNCHANGED owner
    BY <1>10 DEF EnforceCommandDeadline
  <2> HIDE DEF h
  <2> QED
    BY <1>4, <1>5, <1>6, <2>1, <2>2
<1>11. CASE TerminateCancelled(r)
  <2>1. PICK rev \in {0, 1} :
          LET h == OwnedHint("CommandRunCancellationRequested", r, rev)
          IN  IF run[r].state # "cancellation_requested" \/ run[r].rev # rev
              THEN Handled(h, {}) /\ UNCHANGED <<run, owner>>
              ELSE IF Owned(r)
              THEN /\ owner' = [owner EXCEPT ![r] = Terminating(r, "cancelled")]
                   /\ Handled(h, {}) /\ UNCHANGED run
              ELSE EndUnowned(r, h) /\ UNCHANGED owner
    BY <1>11 DEF TerminateCancelled
  <2> DEFINE h == OwnedHint("CommandRunCancellationRequested", r, rev)
  <2>2. h.kind = "CommandRunCancellationRequested" /\ h.source = r /\ h.rev = rev
    BY HintKinds, HintRevs
  <2>3. \/ /\ run[r].state # "cancellation_requested" \/ run[r].rev # rev
           /\ Handled(h, {}) /\ UNCHANGED <<run, owner>>
        \/ /\ run[r].state = "cancellation_requested" /\ Owned(r) /\ Handled(h, {}) /\ UNCHANGED run
           /\ owner' = [owner EXCEPT ![r] = Terminating(r, "cancelled")]
        \/ ~Owned(r) /\ EndUnowned(r, h) /\ UNCHANGED owner
    BY <2>1
  <2> HIDE DEF h
  <2> QED
    BY <1>4, <1>5, <1>6, <2>2, <2>3
<1> QED
  BY <1>7, <1>8, <1>9, <1>10, <1>11 DEF CommandHandler

\* A launch moves on to its next step; only an ended launch of a run that does
\* not wait for it stays without a process.
LEMMA LaunchAttended ==
    ASSUME ProcessInv, NEW r \in Runs, AttendedRun(r), owner[r].phase \in Unstarted \ {"unlaunched"},
           NEW p \in {"opening", "spawning", "recording", "unlaunched"},
           owner'[r] = [owner[r] EXCEPT !.phase = p], run'[r] = run[r],
           process'[r] = IF p = "recording" THEN "alive" ELSE process[r],
           p = "unlaunched" => run[r].state # "pending_start",
           UNCHANGED <<hints, timers, task, audit, lossy>>
    PROVE  AttendedRun(r)'
<1>1. /\ owner'[r].phase = p /\ owner'[r].cause = owner[r].cause
      /\ owner'[r].reported = owner[r].reported /\ owner'[r].saw = owner[r].saw
  BY DEF ProcessInv, TypeOK, OwnerType
<1>2. RunFacts(r) /\ process[r] = "none"
  BY DEF AttendedRun, ProcessInv, LaunchIsTrue
<1>3. /\ run[r].state # "running" /\ ~owner[r].reported /\ owner[r].saw = "nothing"
      /\ OwnedHint("CommandProcessExited", r, 1) \notin hints
  BY <1>2 DEF RunFacts, Unstarted
<1>4. RunFacts(r)'
  BY <1>1, <1>2, <1>3 DEF RunFacts, RunEnded
<1>5. ASSUME ~lossy' PROVE RunEndIsAnnounced(r)'
  BY <1>5 DEF AttendedRun, RunEndIsAnnounced, RunEnded
<1>6. RunIsDriven(r)' /\ RunIsTimed(r)' /\ RunIsStopped(r)'
  BY <1>1, <1>2, <1>3 DEF RunIsDriven, RunIsTimed, RunIsStopped
<1> QED
  BY <1>4, <1>5, <1>6 DEF AttendedRun

\* An entry that its launch resolves: the process is there or has exited.
LEMMA RecordStartAttended ==
    ASSUME ProcessInv, NEW r \in Runs, AttendedRun(r), RecordStart(r) \/ FailRecordStart(r)
    PROVE  AttendedRun(r)' /\ \A x \in Runs \ {r} : run'[x] = run[x] /\ owner'[x] = owner[x]
<1>1. /\ run[r] \in RunType /\ owner[r] \in OwnerType /\ RunFacts(r) /\ run[r].rev = 1
      /\ owner[r].phase = "recording" /\ UNCHANGED <<process, hints, task, audit>>
  BY DEF ProcessInv, TypeOK, LaunchIsTrue, AttendedRun, RecordStart, FailRecordStart, taskVars
<1>2. /\ run[r].state # "running" /\ ~owner[r].reported /\ owner[r].saw = "nothing"
      /\ OwnedHint("CommandProcessExited", r, 1) \notin hints
      /\ process[r] = "alive" \/ Exited(r)
      /\ run[r].state = "pending_start" => owner[r].cause \in {"none", "launch_failed"}
                                           /\ Hint("CommandRunTerminal", r) \notin hints
  BY <1>1 DEF RunFacts, RunEnded, RunEnds
<1>3. CASE RecordStart(r) /\ MayMarkRunning(r)
  <2>1. /\ run' = [run EXCEPT ![r].state = "running"] /\ run[r].state = "pending_start"
        /\ timers' = IF r \in Timed THEN timers \cup {r} ELSE timers
        /\ owner' = [owner EXCEPT ![r].phase = "resolved",
                                  ![r].killing = @ \/ owner[r].cause # "none"]
    BY <1>3 DEF RecordStart, MayMarkRunning
  <2>2. /\ \A x \in Runs \ {r} : run'[x] = run[x] /\ owner'[x] = owner[x]
        /\ run'[r].state = "running" /\ run'[r].attempt = run[r].attempt
        /\ owner'[r].phase = "resolved" /\ owner'[r].saw = owner[r].saw /\ owner'[r].cause = owner[r].cause
        /\ owner'[r].reported = owner[r].reported
    BY <2>1 DEF ProcessInv, TypeOK, OwnerType, RunType
  <2>3. RunFacts(r)'
    BY <1>1, <1>2, <2>1, <2>2 DEF RunFacts, Exited
  <2>4. (RunEndIsAnnounced(r) /\ RunIsDriven(r) /\ RunIsTimed(r) /\ RunIsStopped(r))'
    BY <1>1, <1>2, <2>1, <2>2
    DEF RunEndIsAnnounced, RunIsDriven, RunIsTimed, RunIsStopped, RunEnded, RunEnds, Exited
  <2> QED
    BY <2>2, <2>3, <2>4 DEF AttendedRun
<1>4. CASE RecordStart(r) /\ ~MayMarkRunning(r)
  <2>1. /\ owner' = [owner EXCEPT ![r] = [Terminating(r, "cancelled") EXCEPT !.phase = "resolved"]]
        /\ UNCHANGED <<run, timers, lossy>> /\ run[r].state \notin {"pending_start", "running"}
    BY <1>1, <1>2, <1>4 DEF RecordStart, MayMarkRunning, faultVars
  <2>2. /\ \A x \in Runs \ {r} : run'[x] = run[x] /\ owner'[x] = owner[x]
        /\ owner'[r] = [Terminating(r, "cancelled") EXCEPT !.phase = "resolved"]
    BY <2>1 DEF ProcessInv, TypeOK
  <2>3. /\ owner'[r].phase = "resolved" /\ owner'[r].saw = "nothing" /\ owner'[r].killing
        /\ ~owner'[r].reported
    BY <1>1, <1>2, <2>2 DEF Terminating, OwnerType
  <2>4. RunFacts(r)'
    BY <1>1, <1>2, <2>1, <2>3 DEF RunFacts, RunEnded, Exited
  <2>5. ASSUME ~lossy' PROVE RunEndIsAnnounced(r)'
    BY <1>1, <2>1, <2>5 DEF AttendedRun, RunEndIsAnnounced, RunEnded
  <2>6. (RunIsDriven(r) /\ RunIsTimed(r) /\ RunIsStopped(r))'
    BY <2>1, <2>3 DEF RunIsDriven, RunIsTimed, RunIsStopped
  <2> QED
    BY <2>2, <2>4, <2>5, <2>6 DEF AttendedRun
<1>5. CASE FailRecordStart(r)
  <2>1. /\ owner' = [owner EXCEPT ![r] = [Terminating(r, "launch_failed") EXCEPT !.phase = "resolved"]]
        /\ UNCHANGED run /\ lossy'
    BY <1>5 DEF FailRecordStart, Fail
  <2>2. /\ \A x \in Runs \ {r} : run'[x] = run[x] /\ owner'[x] = owner[x]
        /\ owner'[r] = [Terminating(r, "launch_failed") EXCEPT !.phase = "resolved"]
    BY <2>1 DEF ProcessInv, TypeOK
  <2>3. /\ owner'[r].phase = "resolved" /\ owner'[r].saw = "nothing" /\ ~owner'[r].reported
        /\ owner'[r].cause = IF owner[r].cause = "none" THEN "launch_failed" ELSE owner[r].cause
    BY <1>1, <1>2, <2>2 DEF Terminating, OwnerType
  <2>4. RunFacts(r)'
    BY <1>1, <1>2, <2>1, <2>3 DEF RunFacts, RunEnded, Exited
  <2> QED
    BY <2>1, <2>2, <2>4 DEF AttendedRun
<1> QED
  BY <1>3, <1>4, <1>5

\* The exit of a process is reported to an entry past its launch.
LEMMA ExitAttended ==
    ASSUME ProcessInv, NEW r \in Runs, AttendedRun(r), KillProcess(r) \/ ExitProcess(r) \/ ReportExit(r)
    PROVE  AttendedRun(r)' /\ \A x \in Runs \ {r} : owner'[x] = owner[x] /\ process'[x] = process[x]
<1>1. RunFacts(r) /\ UNCHANGED <<run, task, timers, audit, lossy>>
  BY DEF AttendedRun, KillProcess, ExitProcess, ReportExit, postCommit, faultVars, taskVars
<1>2. CASE KillProcess(r) \/ ExitProcess(r)
  <2>1. /\ process[r] \in {"alive", "orphan"} /\ UNCHANGED <<owner, hints>>
        /\ process' = [process EXCEPT ![r] = process'[r]] /\ process'[r] \in {"zero", "nonzero"}
    BY <1>2 DEF KillProcess, ExitProcess, postCommit, ProcessInv, TypeOK
  <2>2. \A x \in Runs \ {r} : owner'[x] = owner[x] /\ process'[x] = process[x]
    BY <2>1 DEF ProcessInv, TypeOK
  <2>3. ~owner[r].reported
    BY <1>1, <2>1 DEF RunFacts, Exited
  <2>4. RunFacts(r)'
    BY <1>1, <2>1, <2>3 DEF RunFacts, RunEnded, Exited
  <2>5. ASSUME ~lossy' PROVE RunEndIsAnnounced(r)' /\ RunIsDriven(r)'
    BY <1>1, <2>1, <2>3, <2>5 DEF AttendedRun, RunEndIsAnnounced, RunIsDriven, RunEnded, Exited
  <2>6. RunIsTimed(r)' /\ RunIsStopped(r)'
    BY <2>1 DEF RunIsTimed, RunIsStopped
  <2> QED
    BY <2>2, <2>4, <2>5, <2>6 DEF AttendedRun
<1>3. CASE ReportExit(r)
  <2>1. /\ Exited(r) /\ UNCHANGED process /\ owner[r].phase = "resolved" /\ ~owner[r].reported
        /\ owner' = [owner EXCEPT ![r].reported = TRUE]
        /\ hints' = hints \cup {OwnedHint("CommandProcessExited", r, 1)}
    BY <1>3 DEF ReportExit
  <2>2. /\ \A x \in Runs \ {r} : owner'[x] = owner[x] /\ process'[x] = process[x]
        /\ owner'[r].phase = "resolved" /\ owner'[r].saw = owner[r].saw
        /\ owner'[r].cause = owner[r].cause
        /\ process[r] # "alive"
    BY <2>1 DEF ProcessInv, TypeOK, OwnerType, Exited
  <2>3. Hint("CommandRunTerminal", r) \in hints' <=> Hint("CommandRunTerminal", r) \in hints
    BY <2>1, HintKinds
  <2>4. RunFacts(r)'
    BY <1>1, <2>1, <2>2, <2>3 DEF RunFacts, RunEnded, Exited
  <2>5. ASSUME ~lossy' PROVE RunEndIsAnnounced(r)'
    BY <1>1, <2>3, <2>5 DEF AttendedRun, RunEndIsAnnounced, RunEnded
  <2>6. (RunIsDriven(r) /\ RunIsTimed(r) /\ RunIsStopped(r))'
    BY <2>1, <2>2 DEF RunIsDriven, RunIsTimed, RunIsStopped, Exited
  <2> QED
    BY <2>2, <2>4, <2>5, <2>6 DEF AttendedRun
<1> QED
  BY <1>2, <1>3

LEMMA OwnerAttended ==
    ASSUME WaitsInv, ProcessInv, AttendedInv, NEW r \in Runs, OwnerTask(r) \/ OwnerFailure(r)
    PROVE  AttendedInv'
<1>1. /\ AttendedRun(r) /\ RunFacts(r) /\ LaunchIsTrue(r)
      /\ run \in [Runs -> RunType] /\ owner \in [Runs -> OwnerType] /\ process \in [Runs -> ProcessState]
  BY DEF AttendedInv, AttendedRun, ProcessInv, TypeOK
<1>2. /\ UNCHANGED <<request, task, audit>> /\ (~lossy' => ~lossy)
      /\ \A x : x # r => (x \in timers' <=> x \in timers)
  BY DEF OwnerTask, OwnerFailure, TakeOwnership, PrepareLaunch, SpawnProcess, RecordStart, KillProcess,
         ReportExit, RecordExit, FailLaunch, FailRecordStart, FailRecordExit, ExitProcess, Fail,
         postCommit, faultVars, taskVars
<1>3. ASSUME HintsOfOthers(r), AttendedRun(r)',
             \A x \in Runs \ {r} : run'[x] = run[x] /\ owner'[x] = owner[x] /\ process'[x] = process[x]
      PROVE  AttendedInv'
  BY <1>2, <1>3, RunAloneAttended DEF RunAlone
<1>4. UNCHANGED hints => HintsOfOthers(r)
  BY DEF HintsOfOthers
<1>5. ASSUME NEW end \in RunEnds, EndOwned(r, end), run[r].state # "unused", UNCHANGED process
      PROVE  AttendedInv'
  <2>1. /\ run' = [run EXCEPT ![r].state = end] /\ owner' = [owner EXCEPT ![r] = NoOwner]
        /\ hints' = hints \cup {Hint("CommandRunTerminal", r)}
    BY <1>5 DEF EndOwned, EndRun
  <2>2. /\ \A x \in Runs \ {r} : run'[x] = run[x] /\ owner'[x] = owner[x] /\ process'[x] = process[x]
        /\ run'[r].state = end /\ run'[r].attempt = run[r].attempt /\ owner'[r] = NoOwner
        /\ process'[r] = process[r]
    BY <1>1, <1>5, <2>1 DEF RunType
  <2>3. HintsOfOthers(r)
    BY <2>1, HintKinds DEF HintsOfOthers
  <2>4. /\ Hint("CommandRunTerminal", r) \in hints'
        /\ OwnedHint("CommandProcessExited", r, 1) \in hints' =>
              OwnedHint("CommandProcessExited", r, 1) \in hints
    BY <2>1, HintKinds
  <2>5. AttendedRun(r)'
    BY <1>1, <1>5, <2>2, <2>4, EndedRunAttended
  <2> QED
    BY <1>3, <2>2, <2>3, <2>5
<1>6. ASSUME owner[r].phase \in Unstarted \ {"unlaunched"},
             NEW p \in {"opening", "spawning", "recording", "unlaunched"},
             owner' = [owner EXCEPT ![r].phase = p],
             process' = IF p = "recording" THEN [process EXCEPT ![r] = "alive"] ELSE process,
             p = "unlaunched" => run[r].state # "pending_start",
             UNCHANGED <<run, hints, timers, lossy>>
      PROVE  AttendedInv'
  <2>1. /\ owner'[r] = [owner[r] EXCEPT !.phase = p] /\ run'[r] = run[r]
        /\ process'[r] = IF p = "recording" THEN "alive" ELSE process[r]
    BY <1>1, <1>6
  <2>2. \A x \in Runs \ {r} : run'[x] = run[x] /\ owner'[x] = owner[x] /\ process'[x] = process[x]
    BY <1>1, <1>6
  <2>3. AttendedRun(r)'
    BY <1>1, <1>2, <1>6, <2>1, LaunchAttended
  <2> QED
    BY <1>3, <1>4, <1>6, <2>2, <2>3
<1>7. CASE TakeOwnership(r)
  <2>1. /\ owner[r].phase = "claiming" /\ owner' = [owner EXCEPT ![r].phase = "opening"]
        /\ UNCHANGED <<run, process, hints, timers, lossy>>
    BY <1>7 DEF TakeOwnership, postCommit, faultVars
  <2> QED
    BY <1>6, <2>1 DEF Unstarted
<1>8. CASE SpawnProcess(r)
  <2>1. /\ owner[r].phase = "spawning" /\ owner' = [owner EXCEPT ![r].phase = "recording"]
        /\ process' = [process EXCEPT ![r] = "alive"] /\ UNCHANGED <<run, hints, timers, lossy>>
    BY <1>8 DEF SpawnProcess, postCommit, faultVars
  <2> QED
    BY <1>6, <2>1 DEF Unstarted
<1>9. CASE PrepareLaunch(r)
  <2>1. owner[r].phase = "opening" /\ UNCHANGED <<process, timers, lossy>>
    BY <1>9 DEF PrepareLaunch, faultVars
  <2>2. CASE FinishesUnlaunched(r)
    <3>1. EndOwned(r, "cancelled") /\ run[r].state # "unused" /\ "cancelled" \in RunEnds
      BY <1>9, <2>2 DEF PrepareLaunch, FinishesUnlaunched, Accepts, RunEnds
    <3> QED
      BY <1>5, <2>1, <3>1
  <2>3. CASE ~FinishesUnlaunched(r)
    <3>1. owner' = [owner EXCEPT ![r].phase = "spawning"] /\ UNCHANGED <<run, hints>>
      BY <1>9, <2>3 DEF PrepareLaunch
    <3> QED
      BY <1>6, <2>1, <3>1 DEF Unstarted
  <2> QED
    BY <2>2, <2>3
<1>10. CASE FailLaunch(r)
  <2>1. owner[r].phase \in {"opening", "spawning"} /\ run[r].rev = 1 /\ UNCHANGED <<process, timers, lossy>>
    BY <1>1, <1>10 DEF FailLaunch, faultVars, LaunchIsTrue
  <2>2. CASE Accepts(r, 1, {"pending_start"}, "failed") \/ FinishesUnlaunched(r)
    <3>1. EndOwned(r, "failed") \/ EndOwned(r, "cancelled")
      BY <1>10, <2>2 DEF FailLaunch
    <3>2. run[r].state # "unused" /\ "cancelled" \in RunEnds /\ "failed" \in RunEnds
      BY <2>2 DEF FinishesUnlaunched, Accepts, RunEnds
    <3> QED
      BY <1>5, <2>1, <3>1, <3>2
  <2>3. CASE ~(Accepts(r, 1, {"pending_start"}, "failed") \/ FinishesUnlaunched(r))
    <3>1. owner' = [owner EXCEPT ![r].phase = "unlaunched"] /\ UNCHANGED <<run, hints>>
      BY <1>10, <2>3 DEF FailLaunch
    <3>2. run[r].state # "pending_start"
      BY <1>1, <2>1, <2>3, RunHasLane DEF Accepts, RunFacts
    <3> QED
      BY <1>6, <2>1, <3>1, <3>2 DEF Unstarted
  <2> QED
    BY <2>2, <2>3
<1>11. CASE RecordStart(r) \/ FailRecordStart(r)
  <2>1. UNCHANGED <<process, hints>>
    BY <1>11 DEF RecordStart, FailRecordStart
  <2>2. AttendedRun(r)' /\ \A x \in Runs \ {r} : run'[x] = run[x] /\ owner'[x] = owner[x]
    BY <1>1, <1>11, RecordStartAttended
  <2> QED
    BY <1>3, <1>4, <2>1, <2>2
<1>12. CASE KillProcess(r) \/ ExitProcess(r) \/ ReportExit(r)
  <2>1. UNCHANGED run /\ HintsOfOthers(r)
    BY <1>12, HintKinds DEF KillProcess, ExitProcess, ReportExit, postCommit, HintsOfOthers
  <2>2. AttendedRun(r)' /\ \A x \in Runs \ {r} : owner'[x] = owner[x] /\ process'[x] = process[x]
    BY <1>1, <1>12, ExitAttended
  <2> QED
    BY <1>3, <2>1, <2>2
<1>13. CASE RecordExit(r)
  <2> DEFINE end == ExitEnd(owner[r].saw, owner[r].cause, process[r])
             wins == Accepts(r, 1, ExitExpects(owner[r].saw, owner[r].cause), end)
  <2>1. /\ owner[r].saw # "nothing" /\ UNCHANGED <<process, timers, lossy>>
        /\ owner[r].phase = "resolved" /\ Exited(r) /\ run[r].rev = 1 /\ end \in RunEnds
    BY <1>1, <1>13 DEF RecordExit, RunFacts, LaunchIsTrue, faultVars, ExitEnd, RunEnds
  <2>2. CASE wins
    <3>1. EndOwned(r, end)
      BY <1>13, <2>2 DEF RecordExit
    <3>2. run[r].state # "unused"
      BY <2>2 DEF Accepts, ExitExpects
    <3> HIDE DEF end
    <3> QED
      BY <1>5, <2>1, <3>1, <3>2
  <2>3. CASE ~wins
    <3>1. owner' = [owner EXCEPT ![r] = NoOwner] /\ UNCHANGED <<run, hints>>
      BY <1>13, <2>3 DEF RecordExit
    <3>2. run[r].state \notin {"pending_start", "running"}
      <4>1. SUFFICES ASSUME run[r].state \in {"pending_start", "running"} PROVE FALSE
          OBVIOUS
      <4>2. WaitingOn(r) # {}
        BY <1>1, <4>1, RunHasLane DEF RunFacts
      <4>3. /\ owner[r].saw = run[r].state /\ owner[r].cause # "cancelled"
            /\ run[r].state = "pending_start" => owner[r].cause = "launch_failed"
        BY <1>1, <2>1, <4>1 DEF RunFacts
      <4>4. run[r].state \in ExitExpects(owner[r].saw, owner[r].cause)
        BY <4>1, <4>3 DEF ExitExpects
      <4> QED
        BY <2>1, <2>3, <4>2, <4>4 DEF Accepts
    <3>3. /\ \A x \in Runs \ {r} : owner'[x] = owner[x]
          /\ owner'[r] = NoOwner
      BY <1>1, <3>1
    <3>4. NoOwner.phase = "none" /\ NoOwner.cause = "none" /\ ~NoOwner.reported /\ NoOwner.saw = "nothing"
      BY DEF NoOwner
    <3>5. process'[r] = process[r] /\ process[r] # "alive"
      BY <2>1 DEF Exited
    <3>6. RunFacts(r)'
      BY <1>1, <3>1, <3>3, <3>4 DEF RunFacts, RunEnded
    <3>7. ASSUME ~lossy' PROVE RunEndIsAnnounced(r)'
      BY <1>1, <1>2, <3>1, <3>7 DEF AttendedRun, RunEndIsAnnounced, RunEnded
    <3>8. RunIsDriven(r)' /\ RunIsTimed(r)' /\ RunIsStopped(r)'
      BY <3>1, <3>2, <3>5 DEF RunIsDriven, RunIsTimed, RunIsStopped
    <3>9. AttendedRun(r)'
      BY <3>6, <3>7, <3>8 DEF AttendedRun
    <3> QED
      BY <1>3, <1>4, <2>1, <3>1, <3>3, <3>9
  <2> QED
    BY <2>2, <2>3
<1>14. CASE FailRecordExit(r)
  <2>1. /\ owner[r].saw \notin {"nothing", run[r].state} /\ owner' = [owner EXCEPT ![r].saw = "nothing"]
        /\ UNCHANGED <<run, process, hints, timers, lossy>>
    BY <1>14 DEF FailRecordExit, postCommit, faultVars
  <2>2. /\ \A x \in Runs \ {r} : owner'[x] = owner[x]
        /\ owner'[r].phase = owner[r].phase /\ owner'[r].cause = owner[r].cause
        /\ owner'[r].reported = owner[r].reported /\ owner'[r].saw = "nothing"
    BY <1>1, <2>1 DEF OwnerType
  <2>3. /\ run[r].state \notin {"pending_start", "running"} /\ owner[r].phase = "resolved" /\ Exited(r)
        /\ process[r] # "alive"
    BY <1>1, <2>1 DEF RunFacts, Exited
  <2>4. RunFacts(r)'
    BY <1>1, <2>1, <2>2, <2>3 DEF RunFacts, RunEnded, Exited
  <2>5. ASSUME ~lossy' PROVE RunEndIsAnnounced(r)'
    BY <1>1, <1>2, <2>1, <2>5 DEF AttendedRun, RunEndIsAnnounced, RunEnded
  <2>6. RunIsDriven(r)' /\ RunIsTimed(r)' /\ RunIsStopped(r)'
    BY <2>1, <2>3 DEF RunIsDriven, RunIsTimed, RunIsStopped
  <2>7. AttendedRun(r)'
    BY <2>4, <2>5, <2>6 DEF AttendedRun
  <2> QED
    BY <1>3, <1>4, <2>1, <2>2, <2>7
<1> QED
  BY <1>7, <1>8, <1>9, <1>10, <1>11, <1>12, <1>13, <1>14 DEF OwnerTask, OwnerFailure

\* An ended source that is consumed, or whose Task stands still, is owed nothing.
LEMMA ConsumedRequest ==
    ASSUME NEW q \in Requests, AttendedRequest(q), RequestEnded(q),
           request'[q].status = request[q].status, request'[q].attempt = request[q].attempt,
           request'[q].successor # 0 \/ task' # "running"
    PROVE  AttendedRequest(q)'
<1>1. request[q].status # "open"
  BY DEF RequestEnded, RequestEnds
<1> QED
  BY <1>1 DEF AttendedRequest, RequestFacts, RequestEndIsAnnounced, RequestIsTimed, RequestEnded

LEMMA ConsumedRun ==
    ASSUME NEW r \in Runs, AttendedRun(r), RunEnded(r),
           run'[r].state = run[r].state, run'[r].attempt = run[r].attempt, run'[r].rev = run[r].rev,
           owner'[r] = owner[r], process'[r] = process[r],
           OwnedHint("CommandProcessExited", r, 1) \in hints' =>
                OwnedHint("CommandProcessExited", r, 1) \in hints,
           run'[r].successor # 0 \/ task' # "running"
    PROVE  AttendedRun(r)'
<1>1. run[r].state \notin {"unused", "pending_start", "running", "cancellation_requested"}
  BY DEF RunEnded, RunEnds
<1>2. RunFacts(r)'
  BY <1>1 DEF AttendedRun, RunFacts, RunEnded, Exited
<1>3. (RunEndIsAnnounced(r) /\ RunIsDriven(r) /\ RunIsTimed(r) /\ RunIsStopped(r))'
  BY <1>1 DEF RunEndIsAnnounced, RunIsDriven, RunIsTimed, RunIsStopped
<1> QED
  BY <1>2, <1>3 DEF AttendedRun

LEMMA ContinuationAttended ==
    ASSUME WaitsInv, AttendedInv, NEW s \in Sources, Continuation(s)
    PROVE  AttendedInv'
<1>1. /\ TerminalHandled(s) /\ UNCHANGED <<owner, process, audit, lossy>>
      /\ task' = "running" => task = "running"
  BY DEF Continuation, OpenSuccessor, FailSuccessor, SkipSuccessor, PauseLanes, commandVars, faultVars, taskVars
<1>2. /\ TerminalHint(s) \in hints /\ hints' = hints \ {TerminalHint(s)} /\ timers' = timers \ {s}
  BY <1>1 DEF TerminalHandled, Handled
<1>3. HintsOfOthers(s)
  BY <1>2 DEF HintsOfOthers, TerminalHint, Hint
<1>4. ASSUME NEW a \in Attempts PROVE Len(opened[a]) + 1 # 0
  <2>1. opened[a] \in Seq(Sources \cup {"start", "resume"})
    BY DEF WaitsInv, TypeOK, LanesTypeOK
  <2> QED
    BY <2>1
<1>5. /\ \A q \in Requests \ {s} : request'[q] = request[q]
      /\ \A r \in Runs \ {s} : run'[r] = run[r]
      /\ s \in Requests => request'[s].status = request[s].status /\ request'[s].attempt = request[s].attempt
      /\ s \in Runs => /\ run'[s].state = run[s].state /\ run'[s].attempt = run[s].attempt
                       /\ run'[s].rev = run[s].rev
  <2>1. CASE OpenSuccessor(s)
    <3>1. ClaimSources({s})
      BY <2>1 DEF OpenSuccessor
    <3> QED
      BY <3>1 DEF ClaimSources, WaitsInv, TypeOK, RequestType, RunType
  <2>2. CASE FailSuccessor(s) \/ SkipSuccessor(s)
    BY <2>2 DEF FailSuccessor, SkipSuccessor, commandVars
  <2> QED
    BY <2>1, <2>2 DEF Continuation
<1>6. ASSUME s \in Requests PROVE AttendedRequest(s)'
  <2>1. s \notin Runs /\ AttendedRequest(s)
    BY <1>6, SourcesAssumption DEF AttendedInv
  <2>2. RequestEnded(s) /\ request[s].attempt # None
    BY <1>2, <1>6, <2>1
    DEF TerminalHint, AttendedRequest, RequestFacts, RequestEnded, RequestEnds
  <2>3. /\ Used(s) /\ AttemptOf(s) = request[s].attempt /\ (Ended(s) <=> RequestEnded(s))
        /\ Successor(s) = request[s].successor /\ AttemptOf(s) \in Attempts
    BY <1>6, <2>2 DEF Used, AttemptOf, Ended, Successor, WaitsInv, TypeOK, RequestType
  <2>4. request'[s].successor # 0 \/ task' # "running"
    <3>1. CASE OpenSuccessor(s)
      <4>1. ClaimSources({s})
        BY <3>1 DEF OpenSuccessor
      <4>2. request'[s].successor = Len(opened[request[s].attempt]) + 1
        BY <1>6, <4>1 DEF ClaimSources, WaitsInv, TypeOK, RequestType
      <4> QED
        BY <1>4, <2>3, <4>2
    <3>2. CASE FailSuccessor(s)
      BY <3>2 DEF FailSuccessor, PauseLanes
    <3>3. CASE SkipSuccessor(s)
      <4>1. ~SourceContinuable(s) /\ UNCHANGED <<request, task>>
        BY <3>3 DEF SkipSuccessor, taskVars
      <4>2. request[s].successor = 0 /\ task = "running" => SourceContinuable(s)
        BY <1>6, <2>2, <2>3, RequestHasLane DEF SourceContinuable, Unconsumed
      <4> QED
        BY <4>1, <4>2
    <3> QED
      BY <3>1, <3>2, <3>3 DEF Continuation
  <2> QED
    BY <1>5, <1>6, <2>1, <2>2, <2>4, ConsumedRequest
<1>7. ASSUME s \in Runs PROVE AttendedRun(s)'
  <2>1. s \notin Requests /\ AttendedRun(s)
    BY <1>7, SourcesAssumption DEF AttendedInv
  <2>2. RunEnded(s)
    BY <1>2, <1>7, <2>1 DEF TerminalHint, AttendedRun, RunFacts
  <2>3. run[s].attempt # None
    BY <2>1, <2>2 DEF AttendedRun, RunFacts, RunEnded, RunEnds
  <2>4. /\ Used(s) /\ AttemptOf(s) = run[s].attempt /\ (Ended(s) <=> RunEnded(s))
        /\ Successor(s) = run[s].successor /\ AttemptOf(s) \in Attempts
    BY <1>7, <2>1, <2>3 DEF Used, AttemptOf, Ended, Successor, WaitsInv, TypeOK, RunType
  <2>5. run'[s].successor # 0 \/ task' # "running"
    <3>1. CASE OpenSuccessor(s)
      <4>1. ClaimSources({s})
        BY <3>1 DEF OpenSuccessor
      <4>2. run'[s].successor = Len(opened[run[s].attempt]) + 1
        BY <1>7, <4>1 DEF ClaimSources, WaitsInv, TypeOK, RunType
      <4> QED
        BY <1>4, <2>4, <4>2
    <3>2. CASE FailSuccessor(s)
      BY <3>2 DEF FailSuccessor, PauseLanes
    <3>3. CASE SkipSuccessor(s)
      <4>1. ~SourceContinuable(s) /\ UNCHANGED <<run, task>>
        BY <3>3 DEF SkipSuccessor, taskVars, commandVars
      <4>2. run[s].successor = 0 /\ task = "running" => SourceContinuable(s)
        BY <1>7, <2>2, <2>3, <2>4, RunHasLane DEF SourceContinuable, Unconsumed
      <4> QED
        BY <4>1, <4>2
    <3> QED
      BY <3>1, <3>2, <3>3 DEF Continuation
  <2>6. OwnedHint("CommandProcessExited", s, 1) \in hints' => OwnedHint("CommandProcessExited", s, 1) \in hints
    BY <1>2
  <2> QED
    BY <1>1, <1>5, <1>7, <2>1, <2>2, <2>5, <2>6, ConsumedRun
<1> QED
  BY <1>1, <1>2, <1>3, <1>5, <1>6, <1>7, OneAttended

LEMMA TimerAttended ==
    ASSUME AttendedInv, NEW s \in Sources, FireTimer(s)
    PROVE  AttendedInv'
<1> DEFINE due == Hint(IF s \in Requests THEN "HumanRequestDue" ELSE "CommandRunDue", s)
<1>1. /\ timers' = timers \ {s} /\ hints' = hints \cup {due}
      /\ UNCHANGED <<request, run, owner, process, task, audit, lossy>>
  BY DEF FireTimer, taskVars, commandVars, faultVars
<1>2. due.source = s /\ due.kind = IF s \in Requests THEN "HumanRequestDue" ELSE "CommandRunDue"
  BY HintKinds
<1>3. HintsOfOthers(s)
  <2> HIDE DEF due
  <2> QED
    BY <1>1, <1>2 DEF HintsOfOthers
<1>4. ASSUME s \in Requests PROVE AttendedRequest(s)'
  <2>1. AttendedRequest(s)
    BY <1>4 DEF AttendedInv
  <2>2. /\ \A k : Hint(k, s) \in hints => Hint(k, s) \in hints'
        /\ Hint("HumanRequestDue", s) \in hints'
        /\ Hint("HumanRequestTerminal", s) \in hints' => Hint("HumanRequestTerminal", s) \in hints
    BY <1>1, <1>4, HintKinds
  <2> QED
    BY <1>1, <2>1, <2>2 DEF AttendedRequest, RequestFacts, RequestEndIsAnnounced, RequestIsTimed, RequestEnded
<1>5. ASSUME s \in Runs PROVE AttendedRun(s)'
  <2>1. s \notin Requests /\ AttendedRun(s)
    BY <1>5, SourcesAssumption DEF AttendedInv
  <2>2. Hint("CommandRunDue", s) \in hints' /\ hints \subseteq hints'
    BY <1>1, <2>1
  <2>3. /\ Hint("CommandRunTerminal", s) \in hints' => Hint("CommandRunTerminal", s) \in hints
        /\ OwnedHint("CommandProcessExited", s, 1) \in hints' =>
              OwnedHint("CommandProcessExited", s, 1) \in hints
    <3> HIDE DEF due
    <3> QED
      BY <1>1, <1>2, <2>1, HintKinds
  <2>4. RunFacts(s)'
    BY <1>1, <2>1, <2>3 DEF AttendedRun, RunFacts, RunEnded, Exited
  <2>5. ASSUME ~lossy' PROVE RunEndIsAnnounced(s)' /\ RunIsDriven(s)' /\ RunIsStopped(s)'
    BY <1>1, <2>1, <2>2, <2>5 DEF AttendedRun, RunEndIsAnnounced, RunIsDriven, RunIsStopped, RunEnded, Exited
  <2>6. RunIsTimed(s)'
    BY <2>2 DEF RunIsTimed
  <2> QED
    BY <2>4, <2>5, <2>6 DEF AttendedRun
<1> HIDE DEF due
<1> QED
  BY <1>1, <1>3, <1>4, <1>5, OneAttended

LEMMA ControlAttended ==
    ASSUME WaitsInv, AttendedInv, Control
    PROVE  AttendedInv'
<1>1. UNCHANGED <<owner, process, timers, audit, lossy>>
  BY DEF Control, PauseTask, ResumeTask, CancelTask, commandVars, faultVars, postCommit
<1>2. CASE PauseTask
  <2>1. UNCHANGED <<request, run, hints>> /\ task' = "paused"
    BY <1>2 DEF PauseTask, PauseLanes, commandVars
  <2>2. ASSUME NEW q \in Requests PROVE AttendedRequest(q)'
    BY <1>1, <2>1, <2>2, RequestUntouched DEF AttendedInv
  <2>3. ASSUME NEW r \in Runs PROVE AttendedRun(r)'
    BY <1>1, <2>1, <2>3, RunUntouched DEF AttendedInv
  <2> QED
    BY <2>2, <2>3 DEF AttendedInv
<1>3. CASE ResumeTask
  <2> DEFINE S == {s \in Sources : Used(s) /\ AttemptOf(s) \in {a \in Attempts : Between(a)} /\ Unconsumed(s)}
  <2>1. ClaimSources(S) /\ UNCHANGED hints /\ task = "paused"
    BY <1>3 DEF ResumeTask, postCommit
  <2>2. ASSUME NEW a \in Attempts PROVE Len(opened[a]) + 1 # 0
    <3>1. opened[a] \in Seq(Sources \cup {"start", "resume"})
      BY <2>2 DEF WaitsInv, TypeOK, LanesTypeOK
    <3> QED
      BY <3>1
  <2>3. ASSUME NEW q \in Requests PROVE AttendedRequest(q)'
    <3>1. AttendedRequest(q) /\ q \in Sources /\ request[q] \in RequestType
      BY <2>3 DEF AttendedInv, Sources, WaitsInv, TypeOK
    <3>2. /\ request'[q].status = request[q].status /\ request'[q].attempt = request[q].attempt
          /\ q \in S => request'[q].successor = Len(opened[request[q].attempt]) + 1
          /\ q \notin S => request'[q] = request[q]
      BY <2>1, <3>1 DEF ClaimSources, RequestType
    <3>3. RequestEnded(q) => request[q].attempt # None /\ request[q].attempt \in Attempts
      BY <3>1 DEF AttendedRequest, RequestFacts, RequestEnded, RequestEnds, RequestType
    <3>4. RequestEnded(q) /\ request[q].successor = 0 => q \in S
      <4>1. SUFFICES ASSUME RequestEnded(q), request[q].successor = 0 PROVE q \in S
          OBVIOUS
      <4>2. Used(q) /\ Between(AttemptOf(q)) /\ AttemptOf(q) = request[q].attempt
        BY <2>1, <3>3, <4>1, RequestHasLane DEF AttemptOf
      <4>3. Unconsumed(q)
        BY <2>3, <4>1 DEF Unconsumed, Ended, Successor
      <4> QED
        BY <3>1, <3>3, <4>1, <4>2, <4>3
    <3>5. RequestEnded(q) => request'[q].successor # 0
      <4> HIDE DEF S
      <4> QED
        BY <2>2, <3>2, <3>3, <3>4
    <3>6. CASE RequestEnded(q)
      BY <3>1, <3>2, <3>5, <3>6, ConsumedRequest
    <3>7. CASE ~RequestEnded(q)
      BY <1>1, <2>1, <3>1, <3>2, <3>7
      DEF AttendedRequest, RequestFacts, RequestEndIsAnnounced, RequestIsTimed, RequestEnded
    <3> QED
      BY <3>6, <3>7
  <2>4. ASSUME NEW r \in Runs PROVE AttendedRun(r)'
    <3>1. AttendedRun(r) /\ r \in Sources /\ r \notin Requests /\ run[r] \in RunType
      BY <2>4, SourcesAssumption DEF AttendedInv, Sources, WaitsInv, TypeOK
    <3>2. /\ run'[r].state = run[r].state /\ run'[r].attempt = run[r].attempt /\ run'[r].rev = run[r].rev
          /\ r \in S => run'[r].successor = Len(opened[run[r].attempt]) + 1
          /\ r \notin S => run'[r] = run[r]
      BY <2>1, <3>1 DEF ClaimSources, RunType
    <3>3. RunEnded(r) => run[r].attempt # None /\ run[r].attempt \in Attempts
      BY <3>1 DEF AttendedRun, RunFacts, RunEnded, RunEnds, RunType
    <3>4. RunEnded(r) /\ run[r].successor = 0 => r \in S
      <4>1. SUFFICES ASSUME RunEnded(r), run[r].successor = 0 PROVE r \in S
          OBVIOUS
      <4>2. Used(r) /\ Between(AttemptOf(r)) /\ AttemptOf(r) = run[r].attempt
        BY <2>1, <3>1, <3>3, <4>1, RunHasLane DEF AttemptOf
      <4>3. Unconsumed(r)
        BY <3>1, <4>1 DEF Unconsumed, Ended, Successor
      <4> QED
        BY <3>1, <3>3, <4>1, <4>2, <4>3
    <3>5. RunEnded(r) => run'[r].successor # 0
      <4> HIDE DEF S
      <4> QED
        BY <2>2, <3>2, <3>3, <3>4
    <3>6. CASE RunEnded(r)
      BY <1>1, <2>1, <3>1, <3>2, <3>5, <3>6, ConsumedRun
    <3>7. CASE ~RunEnded(r)
      <4>1. RunFacts(r)'
        BY <1>1, <2>1, <3>1, <3>2, <3>7 DEF AttendedRun, RunFacts, RunEnded, Exited
      <4>2. ASSUME ~lossy' PROVE (RunEndIsAnnounced(r) /\ RunIsDriven(r) /\ RunIsTimed(r) /\ RunIsStopped(r))'
        BY <1>1, <2>1, <3>1, <3>2, <3>7, <4>2
        DEF AttendedRun, RunEndIsAnnounced, RunIsDriven, RunIsTimed, RunIsStopped, RunEnded, Exited
      <4> QED
        BY <4>1, <4>2 DEF AttendedRun
    <3> QED
      BY <3>6, <3>7
  <2> QED
    BY <2>3, <2>4 DEF AttendedInv
<1>4. CASE CancelTask
  <2> DEFINE told == {TerminalHint(q) : q \in {x \in Requests : WaitingOn(x) # {}}}
  <2>1. /\ CancelHumanWaits /\ CancelCommandWaits /\ task' = "cancelled"
        /\ hints' = hints \cup CommandCancelHints \cup told
    BY <1>4 DEF CancelTask
  <2>2. ASSUME NEW h \in CommandCancelHints PROVE h.kind = "CommandRunCancellationRequested"
    BY <2>2, HintKinds DEF CommandCancelHints
  <2>3. ASSUME NEW h \in told PROVE h.kind = "HumanRequestTerminal" /\ h.source \in Requests /\ WaitingOn(h.source) # {}
    BY <2>3, HintKinds DEF TerminalHint
  <2>4. \A q \in Requests : WaitingOn(q) # {} => Hint("HumanRequestTerminal", q) \in told
    BY DEF TerminalHint
  <2> HIDE DEF told
  <2>5. ASSUME NEW q \in Requests PROVE AttendedRequest(q)'
    <3>1. AttendedRequest(q) /\ q \in Sources /\ request[q] \in RequestType
      BY <2>5 DEF AttendedInv, Sources, WaitsInv, TypeOK
    <3>2. request' = [x \in Requests |-> IF WaitingOn(x) # {} THEN [request[x] EXCEPT !.status = "cancelled"]
                                                              ELSE request[x]]
      BY <2>1 DEF CancelHumanWaits
    <3>3. /\ request'[q].attempt = request[q].attempt
          /\ WaitingOn(q) # {} => request'[q].status = "cancelled"
          /\ WaitingOn(q) = {} => request'[q].status = request[q].status
      BY <3>1, <3>2 DEF RequestType
    <3>4. WaitingOn(q) # {} => request[q].attempt # None
      BY <3>1 DEF WaitingOn, WaitsInv, WaitsAreExact, WaitMatchesSource, Used, AttemptOf
    <3>5. Hint("HumanRequestTerminal", q) \in hints' => Hint("HumanRequestTerminal", q) \in hints \/ WaitingOn(q) # {}
      BY <2>1, <2>2, <2>3, HintKinds
    <3>6. RequestFacts(q)'
      BY <3>1, <3>3, <3>4, <3>5 DEF AttendedRequest, RequestFacts, RequestEnded, RequestEnds
    <3>7. RequestEndIsAnnounced(q)'
      BY <2>1 DEF RequestEndIsAnnounced
    <3>8. ASSUME ~lossy' PROVE RequestIsTimed(q)'
      BY <1>1, <2>1, <3>1, <3>3, <3>8 DEF AttendedRequest, RequestIsTimed
    <3> QED
      BY <3>6, <3>7, <3>8 DEF AttendedRequest
  <2>6. ASSUME NEW r \in Runs PROVE AttendedRun(r)'
    <3> DEFINE c == OwnedHint("CommandRunCancellationRequested", r, run[r].rev)
    <3>1. AttendedRun(r) /\ r \notin Requests /\ run[r] \in RunType
      BY <2>6, SourcesAssumption DEF AttendedInv, WaitsInv, TypeOK
    <3>2. run' = [x \in Runs |-> IF x \in WaitedRuns /\ Cancellable(x)
                                 THEN [run[x] EXCEPT !.state = "cancellation_requested"] ELSE run[x]]
      BY <2>1 DEF CancelCommandWaits
    <3>3. /\ run'[r].attempt = run[r].attempt /\ run'[r].rev = run[r].rev
          /\ \/ run'[r].state = run[r].state
             \/ /\ run'[r].state = "cancellation_requested" /\ c \in CommandCancelHints
                /\ run[r].state \in {"pending_start", "running"}
      BY <3>1, <3>2 DEF RunType, CommandCancelHints, Cancellable
    <3>4. /\ Hint("CommandRunTerminal", r) \in hints' => Hint("CommandRunTerminal", r) \in hints
          /\ OwnedHint("CommandProcessExited", r, 1) \in hints' =>
                OwnedHint("CommandProcessExited", r, 1) \in hints
      BY <2>1, <2>2, <2>3, HintKinds
    <3>5. RunFacts(r)'
      <4>1. CASE run'[r].state = run[r].state
        BY <1>1, <3>1, <3>3, <3>4, <4>1 DEF AttendedRun, RunFacts, RunEnded, Exited
      <4>2. CASE run'[r].state = "cancellation_requested" /\ run[r].state \in {"pending_start", "running"}
        BY <1>1, <3>1, <3>3, <3>4, <4>2 DEF AttendedRun, RunFacts, RunEnded, RunEnds, Exited
      <4> QED
        BY <3>3, <4>1, <4>2
    <3>6. RunEndIsAnnounced(r)'
      BY <2>1 DEF RunEndIsAnnounced
    <3>7. hints \subseteq hints' /\ CommandCancelHints \subseteq hints'
      BY <2>1
    <3>8. ASSUME ~lossy' PROVE (RunIsDriven(r) /\ RunIsTimed(r) /\ RunIsStopped(r))'
      <4>1. RunIsDriven(r) /\ RunIsTimed(r) /\ RunIsStopped(r)
        BY <1>1, <3>1, <3>8 DEF AttendedRun
      <4>2. CASE run'[r].state = run[r].state
        BY <1>1, <3>3, <3>7, <4>1, <4>2 DEF RunIsDriven, RunIsTimed, RunIsStopped, Exited
      <4>3. CASE run'[r].state = "cancellation_requested" /\ c \in CommandCancelHints
        BY <1>1, <3>3, <3>7, <4>3 DEF RunIsDriven, RunIsTimed, RunIsStopped
      <4> QED
        BY <3>3, <4>2, <4>3
    <3> QED
      BY <3>5, <3>6, <3>8 DEF AttendedRun
  <2> QED
    BY <2>5, <2>6 DEF AttendedInv
<1> QED
  BY <1>2, <1>3, <1>4 DEF Control

\* The page read by one step of the audit is published before the next.
LEMMA PagesRead ==
    ASSUME WaitsInv, AuditPage
    PROVE  /\ \A h \in hints : h \in hints'
           /\ \A h \in hints' : h \in hints \/ h.kind # "CommandProcessExited"
           /\ \A s : Hint("HumanRequestTerminal", s) \in hints' =>
                        Hint("HumanRequestTerminal", s) \in hints \/ (s \in Requests /\ RequestEnded(s))
           /\ \A s : Hint("CommandRunTerminal", s) \in hints' =>
                        Hint("CommandRunTerminal", s) \in hints \/ (s \in Runs /\ RunEnded(s))
           /\ \A n \in 1..6 : audit < n => audit' < n \/ Page(Families[n]) \subseteq hints'
<1>1. /\ DOMAIN Families = 1..6 /\ Len(Families) = 6
      /\ Families[1] = "open_human_request" /\ Families[2] = "terminal_human_request"
      /\ Families[3] = "terminal_command_run" /\ Families[4] = "pending_command_run"
      /\ Families[5] = "running_command_run" /\ Families[6] = "cancellation_requested_command_run"
  BY DEF Families
<1>2. /\ audit \in 0..5 /\ audit' = audit + 1
      /\ hints' = hints \cup Page(Families[audit + 1])
  BY <1>1 DEF AuditPage, Serving, WaitsInv, TypeOK
<1>3. PICK n \in 1..6 : n = audit + 1
  BY <1>2
<1>4. hints' = hints \cup Page(Families[n])
  BY <1>2, <1>3
<1>5. ASSUME NEW h \in Page(Families[n])
      PROVE  /\ h.kind # "CommandProcessExited"
             /\ h.kind = "HumanRequestTerminal" => h.source \in Requests /\ RequestEnded(h.source)
             /\ h.kind = "CommandRunTerminal" => h.source \in Runs /\ RunEnded(h.source)
  <2>1. Families[n] \in {"open_human_request", "terminal_human_request", "terminal_command_run",
                         "pending_command_run", "running_command_run", "cancellation_requested_command_run"}
    BY <1>1
  <2>2. CASE Families[n] \in {"open_human_request", "pending_command_run", "running_command_run",
                              "cancellation_requested_command_run"}
    <3>1. h.kind \in {"HumanRequestOpened", "CommandRunPending", "CommandRunCancellationRequested"}
      BY <1>5, <2>2, HintKinds DEF Page
    <3> QED
      BY <3>1
  <2>3. CASE Families[n] = "terminal_human_request"
    <3>1. PICK q \in Requests : Unconsumed(q) /\ h = TerminalHint(q)
      BY <1>5, <2>3 DEF Page
    <3>2. h.kind = "HumanRequestTerminal" /\ h.source = q /\ RequestEnded(q)
      BY <3>1, HintKinds DEF TerminalHint, Unconsumed, Ended
    <3> QED
      BY <3>2
  <2>4. CASE Families[n] = "terminal_command_run"
    <3>1. PICK r \in Runs : Unconsumed(r) /\ h = TerminalHint(r)
      BY <1>5, <2>4 DEF Page
    <3>2. r \notin Requests
      BY SourcesAssumption
    <3>3. h.kind = "CommandRunTerminal" /\ h.source = r /\ RunEnded(r)
      BY <3>1, <3>2, HintKinds DEF TerminalHint, Unconsumed, Ended
    <3> QED
      BY <3>3
  <2> QED
    BY <2>1, <2>2, <2>3, <2>4
<1>6. \A m \in 1..6 : audit < m => audit' < m \/ m = n
  BY <1>2, <1>3
<1> QED
  BY <1>4, <1>5, <1>6, HintKinds

LEMMA AuditAttended ==
    ASSUME WaitsInv, AttendedInv, AuditPage
    PROVE  AttendedInv'
<1>1. /\ UNCHANGED <<request, run, owner, process, timers, task, lossy>>
      /\ audit \in Nat /\ audit' = audit + 1
  BY DEF AuditPage, taskVars, commandVars, faultVars, WaitsInv, TypeOK, LanesTypeOK
<1>2. /\ \A h \in hints : h \in hints'
      /\ \A h \in hints' : h \in hints \/ h.kind # "CommandProcessExited"
      /\ \A s : Hint("HumanRequestTerminal", s) \in hints' =>
                   Hint("HumanRequestTerminal", s) \in hints \/ (s \in Requests /\ RequestEnded(s))
      /\ \A s : Hint("CommandRunTerminal", s) \in hints' =>
                   Hint("CommandRunTerminal", s) \in hints \/ (s \in Runs /\ RunEnded(s))
  BY PagesRead
<1>3. /\ audit < 1 => audit' < 1 \/ Page("open_human_request") \subseteq hints'
      /\ audit < 2 => audit' < 2 \/ Page("terminal_human_request") \subseteq hints'
      /\ audit < 3 => audit' < 3 \/ Page("terminal_command_run") \subseteq hints'
      /\ audit < 4 => audit' < 4 \/ Page("pending_command_run") \subseteq hints'
      /\ audit < 5 => audit' < 5 \/ Page("running_command_run") \subseteq hints'
      /\ audit < 6 => audit' < 6 \/ Page("cancellation_requested_command_run") \subseteq hints'
  <2>1. /\ Families[1] = "open_human_request" /\ Families[2] = "terminal_human_request"
        /\ Families[3] = "terminal_command_run" /\ Families[4] = "pending_command_run"
        /\ Families[5] = "running_command_run" /\ Families[6] = "cancellation_requested_command_run"
    BY DEF Families
  <2>2. \A n \in 1..6 : audit < n => audit' < n \/ Page(Families[n]) \subseteq hints'
    BY PagesRead
  <2>3. 1 \in 1..6 /\ 2 \in 1..6 /\ 3 \in 1..6 /\ 4 \in 1..6 /\ 5 \in 1..6 /\ 6 \in 1..6
    OBVIOUS
  <2> QED
    BY <2>1, <2>2, <2>3
<1>4. ASSUME NEW q \in Requests PROVE AttendedRequest(q)'
  <2>1. AttendedRequest(q) /\ RequestFacts(q)
    BY <1>4 DEF AttendedInv, AttendedRequest
  <2>2. RequestFacts(q)'
    BY <1>1, <1>2, <2>1 DEF RequestFacts, RequestEnded
  <2>3. RequestEnded(q) /\ request[q].successor = 0 /\ task = "running" =>
           Hint("HumanRequestTerminal", q) \in Page("terminal_human_request")
    <3>1. SUFFICES ASSUME RequestEnded(q), request[q].successor = 0, task = "running"
                   PROVE  Hint("HumanRequestTerminal", q) \in Page("terminal_human_request")
        OBVIOUS
    <3>2. request[q].attempt # None
      BY <2>1, <3>1 DEF RequestFacts, RequestEnded, RequestEnds
    <3>3. LaneIsIdle(q) /\ Unconsumed(q)
      BY <1>4, <3>1, <3>2, RequestHasLane DEF LaneIsIdle, Unconsumed, Ended, Successor
    <3> QED
      BY <1>4, <3>3 DEF Page, TerminalHint
  <2>4. request[q].status = "open" => Hint("HumanRequestOpened", q) \in Page("open_human_request")
    <3>1. request[q].status = "open" => WaitIsCurrent(q)
      BY <1>4, <2>1, RequestHasLane DEF RequestFacts, WaitIsCurrent
    <3> QED
      BY <1>4, <3>1 DEF Page
  <2>5. ASSUME ~lossy' PROVE RequestEndIsAnnounced(q)' /\ RequestIsTimed(q)'
    <3>1. RequestEndIsAnnounced(q) /\ RequestIsTimed(q)
      BY <1>1, <2>1, <2>5 DEF AttendedRequest
    <3>2. RequestEndIsAnnounced(q)'
      BY <1>1, <1>2, <1>3, <2>3, <3>1 DEF RequestEndIsAnnounced, RequestEnded
    <3>3. RequestIsTimed(q)'
      BY <1>1, <1>2, <1>3, <2>4, <3>1 DEF RequestIsTimed
    <3> QED
      BY <3>2, <3>3
  <2> QED
    BY <2>2, <2>5 DEF AttendedRequest
<1>5. ASSUME NEW r \in Runs PROVE AttendedRun(r)'
  <2>1. AttendedRun(r) /\ RunFacts(r) /\ r \notin Requests
    BY <1>5, SourcesAssumption DEF AttendedInv, AttendedRun
  <2>2. OwnedHint("CommandProcessExited", r, 1) \in hints' => OwnedHint("CommandProcessExited", r, 1) \in hints
    BY <1>2, HintKinds
  <2>3. RunFacts(r)'
    BY <1>1, <1>2, <2>1, <2>2 DEF RunFacts, RunEnded, Exited
  <2>4. RunEnded(r) /\ run[r].successor = 0 /\ task = "running" =>
           Hint("CommandRunTerminal", r) \in Page("terminal_command_run")
    <3>1. SUFFICES ASSUME RunEnded(r), run[r].successor = 0, task = "running"
                   PROVE  Hint("CommandRunTerminal", r) \in Page("terminal_command_run")
        OBVIOUS
    <3>2. run[r].attempt # None
      BY <2>1, <3>1 DEF RunFacts, RunEnded, RunEnds
    <3>3. LaneIsIdle(r) /\ Unconsumed(r)
      BY <1>5, <2>1, <3>1, <3>2, RunHasLane DEF LaneIsIdle, Unconsumed, Ended, Successor
    <3> QED
      BY <1>5, <2>1, <3>3 DEF Page, TerminalHint
  <2>5. run[r].state \in {"pending_start", "running"} => WaitIsCurrent(r)
    BY <1>5, <2>1, RunHasLane DEF RunFacts, WaitIsCurrent
  <2>6. /\ run[r].state = "pending_start" => Hint("CommandRunPending", r) \in Page("pending_command_run")
        /\ run[r].state = "running" => Hint("CommandRunPending", r) \in Page("running_command_run")
        /\ run[r].state = "cancellation_requested" =>
              OwnedHint("CommandRunCancellationRequested", r, run[r].rev)
                  \in Page("cancellation_requested_command_run")
    BY <1>5, <2>5 DEF Page
  <2>7. ASSUME ~lossy' PROVE (RunEndIsAnnounced(r) /\ RunIsDriven(r) /\ RunIsTimed(r) /\ RunIsStopped(r))'
    <3>1. RunEndIsAnnounced(r) /\ RunIsDriven(r) /\ RunIsTimed(r) /\ RunIsStopped(r)
      BY <1>1, <2>1, <2>7 DEF AttendedRun
    <3>2. RunEndIsAnnounced(r)'
      BY <1>1, <1>2, <1>3, <2>4, <3>1 DEF RunEndIsAnnounced, RunEnded
    <3>3. RunIsDriven(r)'
      BY <1>1, <1>2, <1>3, <2>6, <3>1 DEF RunIsDriven, Exited
    <3>4. RunIsTimed(r)'
      BY <1>1, <1>2, <3>1 DEF RunIsTimed
    <3>5. RunIsStopped(r)'
      BY <1>1, <1>2, <1>3, <2>6, <3>1 DEF RunIsStopped
    <3> QED
      BY <3>2, <3>3, <3>4, <3>5
  <2> QED
    BY <2>3, <2>7 DEF AttendedRun
<1> QED
  BY <1>4, <1>5 DEF AttendedInv

LEMMA FailureAttended ==
    ASSUME AttendedInv, Failure
    PROVE  AttendedInv'
<1>1. ASSUME NEW h \in hints, LoseHint(h) PROVE AttendedInv'
  <2>1. /\ UNCHANGED <<request, run, owner, process>> /\ lossy' /\ \A x \in hints' : x \in hints
    BY <1>1 DEF LoseHint, Fail, commandVars
  <2>2. ASSUME NEW q \in Requests PROVE AttendedRequest(q)'
    BY <2>1, <2>2 DEF AttendedInv, AttendedRequest, RequestFacts, RequestEnded
  <2>3. ASSUME NEW r \in Runs PROVE AttendedRun(r)'
    BY <2>1, <2>3 DEF AttendedInv, AttendedRun, RunFacts, RunEnded, Exited
  <2> QED
    BY <2>2, <2>3 DEF AttendedInv
<1>2. CASE Restart
  <2>1. /\ hints' = {} /\ timers' = {} /\ audit' = 0 /\ UNCHANGED <<request, run>>
        /\ \A r \in Runs : owner'[r] = NoOwner
                           /\ process'[r] = IF process[r] = "alive" THEN "orphan" ELSE process[r]
    BY <1>2 DEF Restart
  <2>2. ASSUME NEW q \in Requests PROVE AttendedRequest(q)'
    BY <2>1, <2>2 DEF AttendedInv, AttendedRequest, RequestFacts, RequestEndIsAnnounced, RequestIsTimed
  <2>3. ASSUME NEW r \in Runs PROVE AttendedRun(r)'
    <3>1. RunFacts(r)
      BY <2>3 DEF AttendedInv, AttendedRun
    <3>2. owner'[r] = NoOwner /\ process'[r] # "alive" /\ run'[r] = run[r]
      BY <2>1, <2>3
    <3>3. NoOwner.phase = "none" /\ NoOwner.cause = "none" /\ ~NoOwner.reported /\ NoOwner.saw = "nothing"
      BY DEF NoOwner
    <3>4. RunFacts(r)'
      BY <2>1, <3>1, <3>2, <3>3 DEF RunFacts
    <3>5. (RunEndIsAnnounced(r) /\ RunIsDriven(r) /\ RunIsTimed(r) /\ RunIsStopped(r))'
      BY <2>1, <3>2, <3>3 DEF RunEndIsAnnounced, RunIsDriven, RunIsTimed, RunIsStopped
    <3> QED
      BY <3>4, <3>5 DEF AttendedRun
  <2> QED
    BY <2>2, <2>3 DEF AttendedInv
<1> QED
  BY <1>1, <1>2 DEF Failure

LEMMA AttendedInit == Init => AttendedInv
<1> SUFFICES ASSUME Init PROVE AttendedInv
    OBVIOUS
<1>1. hints = {}
  BY DEF Init, LanesInit
<1>2. ASSUME NEW q \in Requests PROVE AttendedRequest(q)
  <2>1. request[q].status = "unused"
    BY <1>2 DEF Init, HumanInit
  <2> QED
    BY <1>1, <2>1
    DEF AttendedRequest, RequestFacts, RequestEndIsAnnounced, RequestIsTimed, RequestEnded, RequestEnds
<1>3. ASSUME NEW r \in Runs PROVE AttendedRun(r)
  <2>1. run[r].state = "unused" /\ run[r].rev = 0 /\ owner[r] = NoOwner /\ process[r] = "none"
    BY <1>3 DEF Init, CommandInit
  <2>2. NoOwner.phase = "none" /\ NoOwner.cause = "none" /\ ~NoOwner.reported /\ NoOwner.saw = "nothing"
    BY DEF NoOwner
  <2>3. RunFacts(r)
    BY <1>1, <2>1, <2>2 DEF RunFacts
  <2>4. RunEndIsAnnounced(r) /\ RunIsDriven(r) /\ RunIsTimed(r) /\ RunIsStopped(r)
    BY <2>1 DEF RunEndIsAnnounced, RunIsDriven, RunIsTimed, RunIsStopped, RunEnded, RunEnds
  <2> QED
    BY <2>3, <2>4 DEF AttendedRun
<1> QED
  BY <1>2, <1>3 DEF AttendedInv

LEMMA AttendedNext == WaitsInv /\ ProcessInv /\ AttendedInv /\ [Next]_vars => AttendedInv'
<1> SUFFICES ASSUME WaitsInv, ProcessInv, AttendedInv, [Next]_vars PROVE AttendedInv'
    OBVIOUS
<1>1. CASE Human
  BY <1>1, HumanAttended DEF Human
<1>2. CASE Command
  BY <1>2, StartAttended, CancellationAttended DEF Command
<1>3. CASE Control
  BY <1>3, ControlAttended
<1>4. CASE AuditPage
  BY <1>4, AuditAttended
<1>5. CASE Failure
  BY <1>5, FailureAttended
<1>6. ASSUME NEW q \in Requests, HumanHandler(q) PROVE AttendedInv'
  BY <1>6, HumanAttended DEF HumanHandler
<1>7. ASSUME NEW r \in Runs, CommandHandler(r) PROVE AttendedInv'
  BY <1>7, CommandHandlerAttended
<1>8. ASSUME NEW r \in Runs, OwnerTask(r) \/ OwnerFailure(r) PROVE AttendedInv'
  BY <1>8, OwnerAttended
<1>9. ASSUME NEW s \in Sources, Continuation(s) \/ FireTimer(s) PROVE AttendedInv'
  BY <1>9, ContinuationAttended, TimerAttended
<1>10. CASE UNCHANGED vars
  <2>1. UNCHANGED <<request, run, owner, process, hints, timers, audit, task, lossy>>
    BY <1>10 DEF vars, commandVars, postCommit, faultVars, taskVars
  <2>2. ASSUME NEW q \in Requests PROVE AttendedRequest(q)'
    BY <2>1, <2>2, RequestUntouched DEF AttendedInv
  <2>3. ASSUME NEW r \in Runs PROVE AttendedRun(r)'
    BY <2>1, <2>3, RunUntouched DEF AttendedInv
  <2> QED
    BY <2>2, <2>3 DEF AttendedInv
<1> QED
  BY <1>1, <1>2, <1>3, <1>4, <1>5, <1>6, <1>7, <1>8, <1>9, <1>10 DEF Next

LEMMA AttendedSources == AttendedInv => SourcesAreAttended
<1> SUFFICES ASSUME AttendedInv, ~lossy
             PROVE  /\ \A s \in Sources : EndIsAnnounced(s)
                    /\ \A q \in Requests : RequestIsTimed(q)
                    /\ \A r \in Runs : RunIsDriven(r) /\ RunIsTimed(r) /\ RunIsStopped(r)
    BY DEF SourcesAreAttended
<1>1. ASSUME NEW s \in Requests PROVE EndIsAnnounced(s)
  BY <1>1 DEF AttendedInv, AttendedRequest, RequestEndIsAnnounced, EndIsAnnounced, Unconsumed, Ended,
              Successor, TerminalHint
<1>2. ASSUME NEW s \in Runs PROVE EndIsAnnounced(s)
  <2>1. s \notin Requests
    BY <1>2, SourcesAssumption
  <2> QED
    BY <1>2, <2>1 DEF AttendedInv, AttendedRun, RunEndIsAnnounced, EndIsAnnounced, Unconsumed, Ended,
                      Successor, TerminalHint
<1> QED
  BY <1>1, <1>2 DEF AttendedInv, AttendedRequest, AttendedRun, Sources

\* What WaitsEnd and CancelledProcessStops rest on: a controller that has lost
\* no hint and failed no write holds, for every ended wait, every deadline,
\* every run and every process to be stopped, the hint, the timer, the owner's
\* entry or the page of the startup audit that will see to it
\* (post_commit/router.py, post_commit/deadlines.py, startup_audit.py,
\* command_run/process_owner.py).
THEOREM SourcesAttended == Spec => []SourcesAreAttended
<1>1. WaitsInv /\ [Next]_vars => WaitsInv'
  BY WaitsNext
<1>2. ProcessInv /\ [Next]_vars => ProcessInv'
  BY ProcessNext
<1>3. WaitsInv /\ ProcessInv /\ AttendedInv /\ [Next]_vars => AttendedInv'
  BY AttendedNext
<1>4. AttendedInv => SourcesAreAttended
  BY AttendedSources
<1> QED
  BY WaitsInit, ProcessInit, AttendedInit, <1>1, <1>2, <1>3, <1>4, PTL DEF Spec
=============================================================================
