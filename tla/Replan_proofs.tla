--------------------------- MODULE Replan_proofs ---------------------------
(***************************************************************************)
(* What holds of replans for every Team, every number of replans and every *)
(* bound: revisions form a line, the barrier's rows stay in the states the *)
(* schema allows, a replanned lane is owed exactly one successor, no       *)
(* successor opens before manifest.md has shown its Team, a restart finds  *)
(* every transition that is still owed, rows stay typed, and as long as    *)
(* nothing is lost the replan of the current Team has a hint or a handler  *)
(* on its way.                                                             *)
(***************************************************************************)
EXTENDS Replan, FiniteSetTheorems, TLAPS

ProcRow ==
    [by : {"handler", "resume", "startup"}, t : Nat,
     phase : {"write", "mark", "prepare", "plan", "commit"}, control : Nat, rev : Nat]

PlanRow == [member : Everyone, rev : Nat, control : Nat]

Typed ==
    /\ taskStatus \in {"running", "paused", "completed", "cancelled"}
    /\ controlRevision \in Nat
    /\ current \in Nat \ {0}
    /\ DOMAIN team = 1 .. current
    /\ \A r \in 1 .. current : DOMAIN team[r].members \subseteq Everyone
    /\ transition \in [2 .. current -> TransitionRow]
    /\ lane \in [Everyone -> LaneState]
    /\ planned \subseteq PlanRow
    /\ signals \subseteq 2 .. current
    /\ procs \subseteq ProcRow

\* Every revision's predecessor is the one numbered before it.
Line == \A r \in 1 .. current : team[r].pred = r - 1

\* A process about a transition names one, projects the Team it leads to, and
\* marks it only after the file was written.
ProcsAreSound ==
    \A p \in procs :
        /\ p.by = "handler" \/ p.phase = "prepare" => p.t \in 2 .. current
        /\ p.phase = "mark" => p.t \in 2 .. current /\ p.t \in shown
        /\ p.phase = "write" /\ p.by # "startup" => p.t \in 2 .. current /\ p.rev = p.t

\* What is recorded as current was shown.
CurrentWasShown ==
    \A t \in 2 .. current : transition[t].manifest = "current" => t \in shown

Owed(t) == transition[t].successor \notin {"opened", "cancelled"}

\* Lanes after a replan and the transitions that owe them a successor.
LanesMatch ==
    taskStatus \in {"running", "paused"} =>
        /\ \A m \in Everyone :
            lane[m] = "replanned" => \E t \in 2 .. current : Owed(t) /\ transition[t].member = m
        /\ \A t \in 2 .. current : Owed(t) => lane[transition[t].member] = "replanned"
        /\ \A t, u \in 2 .. current :
            Owed(t) /\ Owed(u) /\ transition[t].member = transition[u].member => t = u

IInv == Typed /\ Line /\ ProcsAreSound /\ BarrierRows /\ CurrentWasShown /\ LanesMatch

-----------------------------------------------------------------------------

\* A mutation keeps members of the Team it starts from and adds fresh ones.
LEMMA MutationMembers ==
    ASSUME NEW before, NEW caller, NEW fresh, NEW rev,
           NEW mu \in Mutations(before, caller, fresh, rev)
    PROVE  DOMAIN mu.members \subseteq DOMAIN before \cup fresh
<1>1. ASSUME NEW members, NEW updated, NEW seeds
      PROVE  DOMAIN Refresh(members, updated, seeds, rev) = DOMAIN members
  BY DEF Refresh
<1>2. ASSUME NEW hosts, NEW g \in Grafts(before, hosts, fresh, rev)
      PROVE  DOMAIN Grow(before, g, rev) \subseteq DOMAIN before \cup fresh
  BY DEF Grafts, Grow
<1>3. CASE mu \in AddChild(before, caller, fresh, rev)
  <2>1. PICK g \in Grafts(before, {caller}, fresh, rev) :
          mu = [members |-> Refresh(Grow(before, g, rev), {}, {caller}, rev), affected |-> {}]
    BY <1>3 DEF AddChild
  <2>2. mu.members = Refresh(Grow(before, g, rev), {}, {caller}, rev)
    BY <2>1
  <2> QED
    BY <1>1, <1>2, <2>2
<1>4. ASSUME NEW target, mu \in UpdateChild(before, target, fresh, rev)
      PROVE  DOMAIN mu.members \subseteq DOMAIN before \cup fresh
  <2> DEFINE below == Subtree(before, target)
  <2>1. PICK c \in (SUBSET below) \X Grafts(before, below, fresh, rev) :
          mu = [members |-> Refresh(Grow(before, c[2], rev), c[1], c[1] \cup Hosts(c[2]), rev),
                affected |-> below]
    BY <1>4 DEF UpdateChild
  <2>2. mu.members = Refresh(Grow(before, c[2], rev), c[1], c[1] \cup Hosts(c[2]), rev)
    BY <2>1
  <2>3. c[2] \in Grafts(before, below, fresh, rev)
    OBVIOUS
  <2> QED
    BY <1>1, <1>2, <2>2, <2>3
<1>5. ASSUME NEW target, mu \in RemoveChild(before, target, rev)
      PROVE  DOMAIN mu.members \subseteq DOMAIN before \cup fresh
  BY <1>1, <1>5 DEF RemoveChild
<1> QED
  BY <1>3, <1>4, <1>5 DEF Mutations

LEMMA InitIInv == Init => IInv
<1> SUFFICES ASSUME Init PROVE IInv
    OBVIOUS
<1> USE DEF Init
<1>1. Typed
  <2>1. transition \in [2 .. current -> TransitionRow]
    OBVIOUS
  <2>2. DOMAIN team = 1 .. current /\ DOMAIN team[1].members \subseteq Everyone
    BY DEF Everyone, AuthoredTeam
  <2>3. lane \in [Everyone -> LaneState]
    BY DEF LaneState
  <2> QED
    BY <2>1, <2>2, <2>3 DEF Typed
<1>2. Line
  BY DEF Line
<1>3. ProcsAreSound /\ BarrierRows /\ CurrentWasShown
  BY DEF ProcsAreSound, BarrierRows, CurrentWasShown
<1>4. LanesMatch
  BY DEF LanesMatch
<1> QED
  BY <1>1, <1>2, <1>3, <1>4 DEF IInv

\* Members working around replans touch no lane that a replan closed.
LEMMA WorkIInv ==
    ASSUME IInv,
           UNCHANGED <<current, team, transition, manifest, shown, signals, procs, controlRevision>>,
           taskStatus' = taskStatus,
           lane' \in [Everyone -> LaneState],
           planned' \subseteq PlanRow,
           \A m \in Everyone : lane[m] = "replanned" <=> lane'[m] = "replanned"
    PROVE  IInv'
<1>1. Typed'
  BY DEF IInv, Typed, TransitionRow
<1>2. Line'
  BY DEF IInv, Line
<1>3. ProcsAreSound' /\ BarrierRows' /\ CurrentWasShown'
  BY DEF IInv, ProcsAreSound, BarrierRows, CurrentWasShown
<1>4. LanesMatch'
  <2> SUFFICES ASSUME taskStatus \in {"running", "paused"} PROVE LanesMatch'
    BY DEF LanesMatch
  <2>1. \A t \in 2 .. current : transition[t].member \in Everyone
    BY DEF IInv, Typed, TransitionRow
  <2> QED
    BY <2>1 DEF IInv, LanesMatch, Owed
<1> QED
  BY <1>1, <1>2, <1>3, <1>4 DEF IInv

LEMMA DelegateIInv ==
    ASSUME IInv, NEW m \in Everyone, NEW S \in SUBSET Everyone, Delegate(m, S) PROVE IInv'
<1>1. lane \in [Everyone -> LaneState] /\ planned \subseteq PlanRow
  BY DEF IInv, Typed
<1>2. lane' \in [Everyone -> LaneState]
  BY <1>1 DEF Delegate, LaneState
<1>3. planned' \subseteq PlanRow
  BY <1>1 DEF Delegate, Forget
<1>4. \A x \in Everyone : lane[x] = "replanned" <=> lane'[x] = "replanned"
  BY <1>1 DEF Delegate, Authority
<1> QED
  BY <1>2, <1>3, <1>4, WorkIInv DEF Delegate, taskRow, teamRows, files

LEMMA ReturnIInv ==
    ASSUME IInv, NEW m \in Everyone, NEW outcome, Return(m, outcome) PROVE IInv'
<1>1. lane \in [Everyone -> LaneState] /\ planned \subseteq PlanRow
  BY DEF IInv, Typed
<1>2. lane' \in [Everyone -> LaneState]
  BY <1>1 DEF Return, LaneState
<1>3. planned' \subseteq PlanRow
  BY <1>1 DEF Return, Forget
<1>4. \A x \in Everyone : lane[x] = "replanned" <=> lane'[x] = "replanned"
  BY <1>1 DEF Return, MayReturn, Authority
<1> QED
  BY <1>2, <1>3, <1>4, WorkIInv DEF Return, taskRow, teamRows, files

LEMMA RedispatchIInv == ASSUME IInv, NEW m \in Everyone, Redispatch(m) PROVE IInv'
<1>1. lane \in [Everyone -> LaneState] /\ planned \subseteq PlanRow
  BY DEF IInv, Typed
<1>2. lane' \in [Everyone -> LaneState]
  BY <1>1 DEF Redispatch, OpenFor, LaneState
<1>3. planned' \subseteq PlanRow
  BY <1>1 DEF Redispatch, Forget
<1>4. \A x \in Everyone : lane[x] = "replanned" <=> lane'[x] = "replanned"
  BY <1>1 DEF Redispatch, OpenFor, Authority
<1> QED
  BY <1>2, <1>3, <1>4, WorkIInv DEF Redispatch, taskRow, teamRows, files

LEMMA ContinueWaveIInv == ASSUME IInv, NEW m \in Everyone, ContinueWave(m) PROVE IInv'
<1>1. lane \in [Everyone -> LaneState] /\ planned \subseteq PlanRow
  BY DEF IInv, Typed
<1>2. lane' \in [Everyone -> LaneState]
  BY <1>1 DEF ContinueWave, OpenFor, LaneState
<1>3. \A x \in Everyone : lane[x] = "replanned" <=> lane'[x] = "replanned"
  BY <1>1 DEF ContinueWave, OpenFor
<1> QED
  BY <1>1, <1>2, <1>3, WorkIInv DEF ContinueWave, taskRow, teamRows, files, volatile

LEMMA PlanReplanIInv == ASSUME IInv, NEW m \in Everyone, PlanReplan(m) PROVE IInv'
<1>1. lane \in [Everyone -> LaneState] /\ planned \subseteq PlanRow
  BY DEF IInv, Typed
<1>2. planned' \subseteq PlanRow
  BY <1>1 DEF IInv, Typed, PlanReplan, Forget, PlanRow
<1> QED
  BY <1>1, <1>2, WorkIInv DEF PlanReplan, taskRow, teamRows, workRows, files

\* A Task that leaves "running" and "paused" owes its lanes nothing.
LEMMA CompleteIInv == ASSUME IInv, NEW outcome, Complete(outcome) PROVE IInv'
<1>1. Typed'
  BY DEF IInv, Typed, Complete, teamRows, LaneState, Forget
<1>2. Line'
  BY DEF IInv, Line, Complete, teamRows
<1>3. ProcsAreSound' /\ BarrierRows' /\ CurrentWasShown'
  BY DEF IInv, ProcsAreSound, BarrierRows, CurrentWasShown, Complete, teamRows, files
<1>4. LanesMatch'
  BY DEF LanesMatch, Complete
<1> QED
  BY <1>1, <1>2, <1>3, <1>4 DEF IInv

LEMMA CancelTaskIInv == ASSUME IInv, CancelTask PROVE IInv'
<1>1. /\ transition' \in [2 .. current -> TransitionRow]
      /\ \A t \in 2 .. current :
            \/ transition'[t] = transition[t]
            \/ transition'[t] = [transition[t] EXCEPT !.successor = "cancelled"]
  BY DEF IInv, Typed, CancelTask, CancelTransition, TransitionRow
<1>2. Typed'
  BY <1>1 DEF IInv, Typed, CancelTask, teamRows, LaneState
<1>3. Line'
  BY DEF IInv, Line, CancelTask, teamRows
<1>4. ProcsAreSound'
  BY DEF IInv, ProcsAreSound, CancelTask, teamRows, files
<1>5. BarrierRows' /\ CurrentWasShown'
  BY <1>1 DEF IInv, Typed, BarrierRows, CurrentWasShown, CancelTask, teamRows, files, TransitionRow
<1>6. LanesMatch'
  BY DEF LanesMatch, CancelTask
<1> QED
  BY <1>2, <1>3, <1>4, <1>5, <1>6 DEF IInv

-----------------------------------------------------------------------------

\* The new revision gets the next number, its transition is the only one owed
\* to the lane that asked for it, and the others keep what they had.
LEMMA CommitReplanIInv ==
    ASSUME IInv, NEW p \in planned,
           NEW mu \in Mutations(team[p.rev].members, p.member, Fresh, Cardinality(DOMAIN team) + 1),
           CommitReplan(p, mu)
    PROVE  IInv'
<1> DEFINE n == Cardinality(DOMAIN team) + 1
           m == p.member
<1>1. n = current + 1
  BY FS_Interval DEF IInv, Typed
<1>2. m \in Everyone /\ current' = n /\ lane[m] = "live" /\ p.rev = current
  BY DEF IInv, Typed, PlanRow, CommitReplan, TeamUnmoved
<1>3. transition' = [r \in 2 .. n |->
          IF r = n THEN [member |-> m, manifest |-> "pending", successor |-> "blocked"]
          ELSE transition[r]]
  <2>1. DOMAIN transition \cup {n} = 2 .. n
    BY <1>1 DEF IInv, Typed
  <2> QED
    BY <2>1 DEF CommitReplan, StageTransition
<1> HIDE DEF n, m
<1>4. Typed'
  <2>1. transition' \in [2 .. n -> TransitionRow]
    BY <1>1, <1>2, <1>3 DEF IInv, Typed, TransitionRow
  <2>2. DOMAIN team' = 1 .. n /\ \A r \in 1 .. n : DOMAIN team'[r].members \subseteq Everyone
    <3>1. DOMAIN mu.members \subseteq DOMAIN team[p.rev].members \cup Fresh
      BY MutationMembers
    <3>2. DOMAIN mu.members \subseteq Everyone
      BY <1>2, <3>1 DEF IInv, Typed, Fresh, Everyone
    <3> QED
      BY <1>1, <3>2 DEF IInv, Typed, CommitReplan, n
  <2>3. lane' \in [Everyone -> LaneState]
    BY DEF IInv, Typed, CommitReplan, LaneState
  <2>4. planned' \subseteq PlanRow
    BY DEF IInv, Typed, CommitReplan, Forget
  <2>5. signals' = signals \cup {n}
    BY DEF CommitReplan, n
  <2>6. signals' \subseteq 2 .. n
    BY <1>1, <2>5 DEF IInv, Typed
  <2>7. UNCHANGED <<taskStatus, controlRevision, procs>>
    BY DEF CommitReplan, taskRow
  <2>8. n \in Nat \ {0}
    BY <1>1 DEF IInv, Typed
  <2> QED
    BY <1>2, <2>1, <2>2, <2>3, <2>4, <2>6, <2>7, <2>8 DEF IInv, Typed
<1>5. Line'
  <2>1. \A r \in 1 .. n :
          team'[r] = IF r = n THEN [pred |-> p.rev, members |-> mu.members] ELSE team[r]
    BY DEF CommitReplan, n
  <2>2. current \in Nat \ {0} /\ n = current + 1
    BY <1>1 DEF IInv, Typed
  <2>3. ASSUME NEW r \in 1 .. n PROVE team'[r].pred = r - 1
    <3>1. CASE r = n
      <4>1. team'[r] = [pred |-> p.rev, members |-> mu.members]
        BY <2>1, <3>1
      <4>2. team'[r].pred = p.rev
        BY <4>1
      <4> QED
        BY <1>2, <2>2, <3>1, <4>2
    <3>2. CASE r # n
      <4>1. team'[r] = team[r] /\ r \in 1 .. current
        BY <2>1, <2>2, <3>2
      <4> QED
        BY <4>1 DEF IInv, Line
    <3> QED
      BY <3>1, <3>2
  <2> QED
    BY <1>2, <2>3 DEF Line
<1>6. ProcsAreSound'
  BY <1>1, <1>2 DEF IInv, Typed, ProcsAreSound, CommitReplan, files
<1>7. BarrierRows'
  BY <1>1, <1>3 DEF IInv, Typed, BarrierRows
<1>8. CurrentWasShown'
  BY <1>1, <1>2, <1>3 DEF IInv, Typed, CurrentWasShown, CommitReplan, files
<1>9. LanesMatch'
  <2>1. taskStatus = "running" /\ taskStatus' = taskStatus
    BY DEF CommitReplan, TeamUnmoved, taskRow
  <2>2. lane' = [lane EXCEPT ![m] = "replanned"] /\ lane \in [Everyone -> LaneState]
    BY DEF IInv, Typed, CommitReplan, m
  <2>3. \A t \in 2 .. current : Owed(t) => transition[t].member # m
    BY <1>2, <2>1 DEF IInv, LanesMatch
  <2>4. \A t \in 2 .. current : transition'[t] = transition[t] /\ Owed(t)' = Owed(t)
    BY <1>1, <1>3 DEF Owed, IInv, Typed
  <2>5. \A t \in 2 .. n : t = n => Owed(t)' /\ transition'[t].member = m
    BY <1>1, <1>3 DEF Owed, IInv, Typed
  <2>6. 2 .. n = (2 .. current) \cup {n} /\ n \in 2 .. n /\ n \notin 2 .. current
    BY <1>1 DEF IInv, Typed
  <2>7. \A x \in Everyone :
          lane'[x] = "replanned" => \E t \in 2 .. n : Owed(t)' /\ transition'[t].member = x
    BY <1>2, <2>1, <2>2, <2>4, <2>5, <2>6 DEF IInv, LanesMatch
  <2>8. \A t \in 2 .. n : Owed(t)' => lane'[transition'[t].member] = "replanned"
    <3>1. \A t \in 2 .. current : transition[t].member \in Everyone
      BY DEF IInv, Typed, TransitionRow
    <3> QED
      BY <1>2, <2>1, <2>2, <2>3, <2>4, <2>5, <2>6, <3>1 DEF IInv, LanesMatch
  <2>9. \A t, u \in 2 .. n :
          Owed(t)' /\ Owed(u)' /\ transition'[t].member = transition'[u].member => t = u
    BY <2>1, <2>3, <2>4, <2>5, <2>6 DEF IInv, LanesMatch
  <2> QED
    BY <1>2, <2>1, <2>7, <2>8, <2>9 DEF LanesMatch, Owed
<1> QED
  BY <1>4, <1>5, <1>6, <1>7, <1>8, <1>9 DEF IInv

-----------------------------------------------------------------------------

\* Steps of the barrier leave the Team, the lanes and who is owed a successor.
BarrierStep ==
    /\ UNCHANGED <<taskStatus, controlRevision, current, team, lane>>
    /\ planned' \subseteq PlanRow
    /\ signals' \subseteq 2 .. current
    /\ transition' \in [2 .. current -> TransitionRow]
    /\ \A t \in 2 .. current :
        /\ transition'[t].member = transition[t].member
        /\ Owed(t)' <=> Owed(t)

LEMMA BarrierIInv ==
    ASSUME IInv, BarrierStep, procs' \subseteq ProcRow, ProcsAreSound', BarrierRows',
           CurrentWasShown'
    PROVE  IInv'
<1>1. Typed'
  BY DEF IInv, Typed, BarrierStep
<1>2. Line'
  BY DEF IInv, Line, BarrierStep
<1>3. LanesMatch'
  <2> SUFFICES ASSUME taskStatus \in {"running", "paused"} PROVE LanesMatch'
    BY DEF LanesMatch, BarrierStep
  <2>1. \A t \in 2 .. current :
            transition'[t].member = transition[t].member /\ (Owed(t)' <=> Owed(t))
    BY DEF BarrierStep
  <2>2. UNCHANGED <<taskStatus, current, lane>>
    BY DEF BarrierStep
  <2> QED
    BY <2>1, <2>2 DEF IInv, LanesMatch
<1> QED
  BY <1>1, <1>2, <1>3 DEF IInv

\* The processes and hints change and nothing else that the invariant reads.
LEMMA ProcIInv ==
    ASSUME IInv,
           UNCHANGED <<taskStatus, controlRevision, current, team, lane, transition, manifest, shown>>,
           planned' \subseteq PlanRow,
           signals' \subseteq 2 .. current,
           procs' \subseteq ProcRow,
           ProcsAreSound'
    PROVE  IInv'
<1>1. BarrierStep
  <2>1. \A t \in 2 .. current : Owed(t)' <=> Owed(t)
    BY DEF Owed
  <2> QED
    BY <2>1 DEF IInv, Typed, BarrierStep
<1>2. BarrierRows' /\ CurrentWasShown'
  BY DEF IInv, BarrierRows, CurrentWasShown
<1> QED
  BY <1>1, <1>2, BarrierIInv

\* A failed projection blocks the transition again.
LEMMA ManifestFailedKeeps ==
    ASSUME IInv, NEW t \in 2 .. current
    PROVE  /\ ManifestFailed(t) \in [2 .. current -> TransitionRow]
           /\ \A u \in 2 .. current :
                \/ ManifestFailed(t)[u] = transition[u]
                \/ /\ Owed(u)
                   /\ ManifestFailed(t)[u].member = transition[u].member
                   /\ ManifestFailed(t)[u].manifest = "repair_required"
                   /\ ManifestFailed(t)[u].successor = "blocked"
<1>1. transition \in [2 .. current -> TransitionRow]
  BY DEF IInv, Typed
<1>2. CASE Settled(t)
  BY <1>1, <1>2 DEF ManifestFailed
<1>3. CASE ~Settled(t)
  <2>1. /\ ManifestFailed(t) \in [2 .. current -> TransitionRow]
        /\ \A u \in 2 .. current : u # t => ManifestFailed(t)[u] = transition[u]
        /\ ManifestFailed(t)[t].member = transition[t].member
        /\ ManifestFailed(t)[t].manifest = "repair_required"
        /\ ManifestFailed(t)[t].successor = "blocked"
    BY <1>1, <1>3 DEF ManifestFailed, TransitionRow
  <2>2. Owed(t)
    BY <1>3 DEF Owed, Settled
  <2> QED
    BY <2>1, <2>2
<1> QED
  BY <1>2, <1>3

LEMMA ManifestFailedIInv ==
    ASSUME IInv, NEW t \in 2 .. current, transition' = ManifestFailed(t),
           UNCHANGED <<taskStatus, controlRevision, current, team, lane, manifest, shown>>,
           planned' \subseteq PlanRow,
           signals' \subseteq 2 .. current,
           procs' \subseteq procs
    PROVE  IInv'
<1>1. /\ transition' \in [2 .. current -> TransitionRow]
      /\ \A u \in 2 .. current :
            \/ transition'[u] = transition[u]
            \/ /\ Owed(u)
               /\ transition'[u].member = transition[u].member
               /\ transition'[u].manifest = "repair_required"
               /\ transition'[u].successor = "blocked"
  BY ManifestFailedKeeps
<1>2. BarrierStep
  <2>1. \A u \in 2 .. current : Owed(u)' <=> Owed(u)
    BY <1>1 DEF Owed
  <2> QED
    BY <1>1, <2>1 DEF BarrierStep
<1>3. procs' \subseteq ProcRow /\ ProcsAreSound'
  BY DEF IInv, Typed, ProcsAreSound
<1>4. BarrierRows' /\ CurrentWasShown'
  BY <1>1 DEF IInv, Typed, BarrierRows, CurrentWasShown
<1> QED
  BY <1>2, <1>3, <1>4, BarrierIInv

LEMMA ReceiveIInv == ASSUME IInv, NEW t \in signals, ReceiveReplanCommitted(t) PROVE IInv'
<1>1. /\ UNCHANGED <<taskStatus, controlRevision, current, team, lane, manifest, shown>>
      /\ planned' \subseteq PlanRow
      /\ signals' \subseteq 2 .. current
      /\ t \in 2 .. current
  BY DEF ReceiveReplanCommitted, IInv, Typed, taskRow, teamRows, workRows, files
<1>2. CASE UNCHANGED <<transition, procs>>
  <2>1. procs' \subseteq ProcRow /\ ProcsAreSound'
    BY <1>1, <1>2 DEF IInv, Typed, ProcsAreSound
  <2> QED
    BY <1>1, <1>2, <2>1, ProcIInv
<1>3. ASSUME NEW phase \in {"prepare", "write"}, procs' = procs \cup {Handler(t, phase)},
             phase = "write" => current = t, UNCHANGED transition
      PROVE IInv'
  <2>1. procs' \subseteq ProcRow
    BY <1>1, <1>3 DEF IInv, Typed, ProcRow, Handler
  <2>2. ProcsAreSound'
    BY <1>1, <1>3 DEF IInv, Typed, ProcsAreSound, Handler
  <2> QED
    BY <1>1, <1>3, <2>1, <2>2, ProcIInv
<1>4. CASE transition' = ManifestFailed(t) /\ UNCHANGED procs
  BY <1>1, <1>4, ManifestFailedIInv
<1> QED
  BY <1>2, <1>3, <1>4 DEF ReceiveReplanCommitted

LEMMA WriteManifestIInv == ASSUME IInv, NEW p \in procs, WriteManifest(p) PROVE IInv'
<1>1. /\ UNCHANGED <<taskStatus, controlRevision, current, team, lane, transition, planned, signals>>
      /\ shown' = shown \cup {p.rev}
      /\ procs \subseteq ProcRow
  BY DEF WriteManifest, IInv, Typed, taskRow, teamRows, workRows
<1>2. procs' \subseteq ProcRow
  BY <1>1 DEF WriteManifest, Step, ProcRow
<1>3. ProcsAreSound'
  <2>1. CASE p.by = "startup"
    BY <1>1, <2>1 DEF WriteManifest, IInv, ProcsAreSound
  <2>2. CASE p.by # "startup"
    <3>1. p.t \in 2 .. current /\ p.rev = p.t
      BY <2>2 DEF IInv, ProcsAreSound, WriteManifest
    <3> DEFINE q == [p EXCEPT !.phase = "mark"]
    <3>2. q.by = p.by /\ q.t = p.t /\ q.phase = "mark"
      BY <1>1 DEF ProcRow
    <3>3. procs' = (procs \ {p}) \cup {q}
      BY <2>2 DEF WriteManifest, Step
    <3> HIDE DEF q
    <3> QED
      BY <1>1, <3>1, <3>2, <3>3 DEF IInv, ProcsAreSound
  <2> QED
    BY <2>1, <2>2
<1>4. BarrierStep
  <2>1. \A t \in 2 .. current : Owed(t)' <=> Owed(t)
    BY <1>1 DEF Owed
  <2> QED
    BY <1>1, <2>1 DEF IInv, Typed, BarrierStep
<1>5. BarrierRows' /\ CurrentWasShown'
  BY <1>1 DEF IInv, BarrierRows, CurrentWasShown
<1> QED
  BY <1>2, <1>3, <1>4, <1>5, BarrierIInv

LEMMA FailManifestIInv == ASSUME IInv, NEW p \in procs, FailManifest(p) PROVE IInv'
<1>1. /\ UNCHANGED <<taskStatus, controlRevision, current, team, lane, manifest, shown>>
      /\ planned' \subseteq PlanRow
      /\ signals' \subseteq 2 .. current
      /\ procs' \subseteq procs
  BY DEF FailManifest, IInv, Typed, taskRow, teamRows, workRows, files
<1>2. CASE p.by = "startup"
  <2>1. procs' \subseteq ProcRow /\ ProcsAreSound'
    BY <1>1 DEF IInv, Typed, ProcsAreSound
  <2> QED
    BY <1>1, <1>2, <2>1, ProcIInv DEF FailManifest
<1>3. CASE p.by # "startup"
  <2>1. p.t \in 2 .. current /\ transition' = ManifestFailed(p.t)
    BY <1>3 DEF IInv, ProcsAreSound, FailManifest
  <2> QED
    BY <1>1, <2>1, ManifestFailedIInv
<1> QED
  BY <1>2, <1>3

\* A marked transition was blocked and its file has been written.
LEMMA MarkManifestIInv == ASSUME IInv, NEW p \in procs, MarkManifest(p) PROVE IInv'
<1> DEFINE q == [p EXCEPT !.phase = AfterMark(p)]
<1>1. /\ UNCHANGED <<taskStatus, controlRevision, current, team, lane, manifest, shown, planned, signals>>
      /\ planned' \subseteq PlanRow
      /\ signals' \subseteq 2 .. current
      /\ procs \subseteq ProcRow
      /\ transition \in [2 .. current -> TransitionRow]
  BY DEF MarkManifest, IInv, Typed, taskRow, teamRows, workRows, files
<1>2. p.t \in 2 .. current /\ p.t \in shown
  BY DEF MarkManifest, IInv, ProcsAreSound
<1>3. procs' \subseteq ProcRow /\ ProcsAreSound'
  <2>1. q \in ProcRow /\ q.by = p.by /\ q.t = p.t /\ q.phase \in {"plan", "prepare"}
    BY <1>1 DEF ProcRow, AfterMark
  <2>2. procs' \subseteq (procs \ {p}) \cup {q}
    BY DEF MarkManifest, Step
  <2> HIDE DEF q
  <2> QED
    BY <1>1, <1>2, <2>1, <2>2 DEF IInv, ProcsAreSound
<1>4. CASE UNCHANGED transition
  BY <1>1, <1>3, <1>4, ProcIInv
<1>5. ASSUME transition[p.t].successor = "blocked",
             transition' = [transition EXCEPT ![p.t].manifest = "current",
                                              ![p.t].successor = "pending"]
      PROVE IInv'
  <2>1. /\ transition' \in [2 .. current -> TransitionRow]
        /\ \A t \in 2 .. current : t # p.t => transition'[t] = transition[t]
        /\ transition'[p.t].member = transition[p.t].member
        /\ transition'[p.t].manifest = "current"
        /\ transition'[p.t].successor = "pending"
    BY <1>1, <1>2, <1>5 DEF TransitionRow
  <2>2. \A t \in 2 .. current : Owed(t)' <=> Owed(t)
    BY <1>5, <2>1 DEF Owed
  <2>3. BarrierStep
    BY <1>1, <2>1, <2>2 DEF BarrierStep
  <2>4. BarrierRows' /\ CurrentWasShown'
    BY <1>1, <1>2, <2>1 DEF IInv, Typed, BarrierRows, CurrentWasShown
  <2> QED
    BY <1>3, <2>3, <2>4, BarrierIInv
<1> QED
  BY <1>4, <1>5 DEF MarkManifest

LEMMA PrepareSuccessorIInv == ASSUME IInv, NEW p \in procs, PrepareSuccessor(p) PROVE IInv'
<1>1. /\ UNCHANGED <<taskStatus, controlRevision, current, team, lane, transition, manifest, shown>>
      /\ planned' \subseteq PlanRow
      /\ signals' \subseteq 2 .. current
      /\ procs \subseteq ProcRow
  BY DEF PrepareSuccessor, IInv, Typed, taskRow, teamRows, workRows, files
<1>2. CASE procs' = procs \ {p}
  <2>1. procs' \subseteq ProcRow /\ ProcsAreSound'
    BY <1>1, <1>2 DEF IInv, ProcsAreSound
  <2> QED
    BY <1>1, <2>1, ProcIInv
<1>3. CASE procs' = (procs \ {p}) \cup {Handler(p.t, "commit")} /\ Openable(p.t)
  <2>1. p.t \in 2 .. current
    BY DEF PrepareSuccessor, IInv, ProcsAreSound
  <2>2. procs' \subseteq ProcRow
    BY <1>1, <1>3, <2>1 DEF IInv, Typed, ProcRow, Handler
  <2>3. ProcsAreSound'
    BY <1>1, <1>3, <2>1 DEF IInv, ProcsAreSound, Handler
  <2> QED
    BY <1>1, <2>2, <2>3, ProcIInv
<1> QED
  BY <1>2, <1>3 DEF PrepareSuccessor

-----------------------------------------------------------------------------

\* Opening the successor of one transition settles what its lane was owed.
LEMMA ClaimIInv ==
    ASSUME IInv, NEW t \in 2 .. current,
           Openable(t),
           transition' = Claim(t),
           taskStatus \in {"running", "paused"},
           taskStatus' = "running",
           controlRevision' \in Nat,
           UNCHANGED <<current, team, manifest, shown, planned, signals>>,
           lane' \in [Everyone -> LaneState],
           \A x \in Everyone :
                lane'[x] = "replanned" <=> lane[x] = "replanned" /\ x # transition[t].member,
           procs' \subseteq procs
    PROVE  IInv'
<1>1. /\ transition' \in [2 .. current -> TransitionRow]
      /\ \A u \in 2 .. current : u # t => transition'[u] = transition[u]
      /\ transition'[t].member = transition[t].member
      /\ transition'[t].manifest = "current"
      /\ transition'[t].successor = "opened"
  BY DEF IInv, Typed, TransitionRow, Claim, Openable
<1>2. Typed'
  BY <1>1 DEF IInv, Typed
<1>3. Line' /\ ProcsAreSound'
  BY DEF IInv, Line, ProcsAreSound
<1>4. BarrierRows'
  BY <1>1 DEF IInv, Typed, BarrierRows
<1>5. CurrentWasShown'
  BY <1>1 DEF IInv, CurrentWasShown, Openable
<1>6. LanesMatch'
  <2>1. \A u \in 2 .. current :
          /\ Owed(u)' <=> Owed(u) /\ u # t
          /\ transition'[u].member = transition[u].member
          /\ transition[u].member \in Everyone
    BY <1>1 DEF Owed, IInv, Typed, TransitionRow
  <2>2. Owed(t)
    BY DEF Owed, Openable
  <2>3. \A x \in Everyone :
          lane'[x] = "replanned" => \E u \in 2 .. current : Owed(u)' /\ transition'[u].member = x
    BY <2>1 DEF IInv, LanesMatch
  <2>4. \A u \in 2 .. current : Owed(u)' => lane'[transition'[u].member] = "replanned"
    BY <2>1, <2>2 DEF IInv, LanesMatch
  <2>5. \A u, v \in 2 .. current :
          Owed(u)' /\ Owed(v)' /\ transition'[u].member = transition'[v].member => u = v
    BY <2>1 DEF IInv, LanesMatch
  <2> QED
    BY <2>3, <2>4, <2>5 DEF LanesMatch
<1> QED
  BY <1>2, <1>3, <1>4, <1>5, <1>6 DEF IInv

\* A pause or a resume that claims nothing.
LEMMA SwitchIInv ==
    ASSUME IInv,
           taskStatus \in {"running", "paused"},
           taskStatus' \in {"running", "paused"},
           controlRevision' \in Nat,
           UNCHANGED <<current, team, transition, manifest, shown, signals>>,
           planned' \subseteq planned,
           lane' \in [Everyone -> LaneState],
           \A x \in Everyone : lane'[x] = "replanned" <=> lane[x] = "replanned",
           procs' \subseteq procs
    PROVE  IInv'
<1>1. Typed'
  BY DEF IInv, Typed
<1>2. Line' /\ ProcsAreSound' /\ BarrierRows' /\ CurrentWasShown'
  BY DEF IInv, Line, ProcsAreSound, BarrierRows, CurrentWasShown
<1>3. LanesMatch'
  <2>1. \A u \in 2 .. current : (Owed(u)' <=> Owed(u)) /\ transition[u].member \in Everyone
    BY DEF Owed, IInv, Typed, TransitionRow
  <2> QED
    BY <2>1 DEF IInv, LanesMatch
<1> QED
  BY <1>1, <1>2, <1>3 DEF IInv

LEMMA PauseTaskIInv == ASSUME IInv, PauseTask PROVE IInv'
<1>1. lane' \in [Everyone -> LaneState]
  BY DEF IInv, Typed, PauseTask, StopLanes, LaneState
<1>2. \A x \in Everyone : lane'[x] = "replanned" <=> lane[x] = "replanned"
  BY DEF IInv, Typed, PauseTask, StopLanes
<1>3. controlRevision' \in Nat
  BY DEF IInv, Typed, PauseTask
<1> QED
  BY <1>1, <1>2, <1>3, SwitchIInv DEF PauseTask, teamRows, files

LEMMA OpenSuccessorIInv == ASSUME IInv, NEW p \in procs, OpenSuccessor(p) PROVE IInv'
<1>1. /\ UNCHANGED <<taskStatus, controlRevision, current, team, manifest, shown, planned, signals>>
      /\ procs' \subseteq procs
      /\ p.t \in 2 .. current
  BY DEF OpenSuccessor, IInv, ProcsAreSound, taskRow, teamRows, files
<1>2. CASE UNCHANGED <<lane, transition>>
  <2>1. planned' \subseteq PlanRow /\ signals' \subseteq 2 .. current /\ procs' \subseteq ProcRow
    BY <1>1 DEF IInv, Typed
  <2>2. ProcsAreSound'
    BY <1>1 DEF IInv, ProcsAreSound
  <2> QED
    BY <1>1, <1>2, <2>1, <2>2, ProcIInv
<1>3. ASSUME taskStatus = "running", Openable(p.t), transition' = Claim(p.t),
             OpenFor({transition[p.t].member})
      PROVE IInv'
  <2>1. lane' \in [Everyone -> LaneState]
    BY <1>3 DEF OpenFor, LaneState, IInv, Typed
  <2>2. \A x \in Everyone :
          lane'[x] = "replanned" <=> lane[x] = "replanned" /\ x # transition[p.t].member
    BY <1>3 DEF OpenFor
  <2>3. controlRevision' \in Nat
    BY <1>1 DEF IInv, Typed
  <2> QED
    BY <1>1, <1>3, <2>1, <2>2, <2>3, ClaimIInv
<1> QED
  BY <1>2, <1>3 DEF OpenSuccessor, MayClaim

\* Every replanned lane of a Task that resumes has the same one source.
LEMMA CommitResumeIInv == ASSUME IInv, NEW p \in procs, CommitResume(p) PROVE IInv'
<1> DEFINE mine == {m \in Everyone : Runnable(m)}
<1>1. /\ UNCHANGED <<current, team, manifest, shown, planned, signals>>
      /\ procs' \subseteq procs
  BY DEF CommitResume, teamRows, files
<1>2. CASE UNCHANGED <<taskRow, lane, transition>>
  <2>1. planned' \subseteq PlanRow /\ signals' \subseteq 2 .. current /\ procs' \subseteq ProcRow
    BY <1>1 DEF IInv, Typed
  <2>2. ProcsAreSound'
    BY <1>1 DEF IInv, ProcsAreSound
  <2> QED
    BY <1>1, <1>2, <2>1, <2>2, ProcIInv DEF taskRow
<1>3. ASSUME taskStatus = "paused", taskStatus' = "running",
             controlRevision' = controlRevision + 1,
             \A m \in mine : HasSource(m), OpenFor(mine),
             transition' = IF \E m \in mine : lane[m] = "replanned" THEN Claim(current)
                           ELSE transition
      PROVE IInv'
  <2>1. lane' \in [Everyone -> LaneState] /\ controlRevision' \in Nat
    BY <1>3 DEF OpenFor, LaneState, IInv, Typed
  <2>2. \A x \in Everyone : lane[x] = "replanned" => x \in mine
    BY DEF Runnable
  <2>3. \A x \in Everyone : lane'[x] # "replanned"
    BY <1>3, <2>2 DEF OpenFor
  <2>4. CASE \E m \in mine : lane[m] = "replanned"
    <3>1. Openable(current) /\ current \in 2 .. current /\ transition' = Claim(current)
      BY <1>3, <2>4 DEF HasSource, IInv, Typed
    <3>2. \A x \in Everyone : lane[x] = "replanned" => x = transition[current].member
      BY <1>3, <2>2 DEF HasSource
    <3> QED
      BY <1>1, <1>3, <2>1, <2>3, <3>1, <3>2, ClaimIInv
  <2>5. CASE ~ \E m \in mine : lane[m] = "replanned"
    <3>1. \A x \in Everyone : lane[x] # "replanned"
      BY <2>2, <2>5
    <3> QED
      BY <1>1, <1>3, <2>1, <2>3, <2>5, <3>1, SwitchIInv
  <2> QED
    BY <2>4, <2>5
<1> QED
  BY <1>2, <1>3 DEF CommitResume, StillPaused

LEMMA FailSuccessorIInv == ASSUME IInv, NEW p \in procs, FailSuccessor(p) PROVE IInv'
<1>1. /\ UNCHANGED <<taskStatus, controlRevision, current, team, lane, manifest, shown>>
      /\ planned' \subseteq PlanRow
      /\ signals' \subseteq 2 .. current
      /\ procs' \subseteq ProcRow
      /\ transition \in [2 .. current -> TransitionRow]
      /\ p.t \in 2 .. current
  BY DEF FailSuccessor, IInv, Typed, ProcsAreSound, taskRow, teamRows, workRows, files
<1>2. ProcsAreSound'
  BY <1>1 DEF IInv, ProcsAreSound, FailSuccessor
<1>3. CASE UNCHANGED transition
  BY <1>1, <1>2, <1>3, ProcIInv
<1>4. ASSUME Openable(p.t), transition' = [transition EXCEPT ![p.t].successor = "opening_failed"]
      PROVE IInv'
  <2>1. /\ transition' \in [2 .. current -> TransitionRow]
        /\ \A t \in 2 .. current : t # p.t => transition'[t] = transition[t]
        /\ transition'[p.t].member = transition[p.t].member
        /\ transition'[p.t].manifest = "current"
        /\ transition'[p.t].successor = "opening_failed"
    BY <1>1, <1>4 DEF TransitionRow, Openable
  <2>2. \A t \in 2 .. current : Owed(t)' <=> Owed(t)
    BY <1>4, <2>1 DEF Owed, Openable
  <2>3. BarrierStep
    BY <1>1, <2>1, <2>2 DEF BarrierStep
  <2>4. BarrierRows' /\ CurrentWasShown'
    BY <1>1, <1>4, <2>1 DEF IInv, Typed, BarrierRows, CurrentWasShown, Openable
  <2> QED
    BY <1>1, <1>2, <2>3, <2>4, BarrierIInv
<1> QED
  BY <1>3, <1>4 DEF FailSuccessor

LEMMA StartResumeIInv == ASSUME IInv, StartResume PROVE IInv'
<1> DEFINE t == IF current \in Unsettled THEN current ELSE 0
           repairs == t # 0 /\ transition[t].manifest # "current"
           q == [by |-> "resume", t |-> t, phase |-> IF repairs THEN "write" ELSE "plan",
                 control |-> controlRevision, rev |-> current]
<1>1. /\ UNCHANGED <<taskStatus, controlRevision, current, team, lane, transition, manifest, shown>>
      /\ planned' \subseteq PlanRow
      /\ signals' \subseteq 2 .. current
      /\ procs \subseteq ProcRow
      /\ procs' = procs \cup {q}
  BY DEF StartResume, IInv, Typed, taskRow, teamRows, workRows, files
<1>2. q \in ProcRow
  BY DEF IInv, Typed, ProcRow
<1>3. /\ q.by = "resume" /\ q.rev = current /\ q.phase \in {"write", "plan"}
      /\ q.phase = "write" => q.t = current /\ current \in 2 .. current
  BY DEF IInv, Typed, Unsettled
<1> HIDE DEF q
<1>4. ProcsAreSound'
  BY <1>1, <1>3 DEF IInv, ProcsAreSound
<1> QED
  BY <1>1, <1>2, <1>4, ProcIInv

LEMMA PlanResumeIInv == ASSUME IInv, NEW p \in procs, PlanResume(p) PROVE IInv'
<1> DEFINE q == [p EXCEPT !.phase = "commit"]
<1>1. /\ UNCHANGED <<taskStatus, controlRevision, current, team, lane, transition, manifest, shown>>
      /\ planned' \subseteq PlanRow
      /\ signals' \subseteq 2 .. current
      /\ procs \subseteq ProcRow
      /\ procs' \subseteq (procs \ {p}) \cup {q}
  BY DEF PlanResume, Step, IInv, Typed, taskRow, teamRows, workRows, files
<1>2. q \in ProcRow /\ q.by = p.by /\ q.t = p.t /\ q.phase = "commit"
  BY <1>1 DEF ProcRow
<1> HIDE DEF q
<1>3. ProcsAreSound'
  BY <1>1, <1>2 DEF IInv, ProcsAreSound
<1> QED
  BY <1>1, <1>2, <1>3, ProcIInv

LEMMA LossIInv ==
    ASSUME IInv, NEW t, NEW p, LoseSignal(t) \/ LoseProc(p) PROVE IInv'
<1>1. /\ UNCHANGED <<taskStatus, controlRevision, current, team, lane, transition, manifest, shown>>
      /\ planned' \subseteq PlanRow
      /\ signals' \subseteq 2 .. current
      /\ procs' \subseteq procs
  BY DEF LoseSignal, LoseProc, IInv, Typed, taskRow, teamRows, workRows, files
<1>2. procs' \subseteq ProcRow /\ ProcsAreSound'
  BY <1>1 DEF IInv, Typed, ProcsAreSound
<1> QED
  BY <1>1, <1>2, ProcIInv

LEMMA RestartIInv == ASSUME IInv, Restart PROVE IInv'
<1>1. /\ UNCHANGED <<taskStatus, controlRevision, current, team, lane, transition, manifest, shown>>
      /\ planned' \subseteq PlanRow
      /\ signals' \subseteq 2 .. current
  BY DEF Restart, AuditedTransitions, Unsettled, IInv, Typed, taskRow, teamRows, workRows, files
<1>2. procs' \subseteq ProcRow /\ ProcsAreSound'
  BY DEF Restart, IInv, Typed, ProcRow, ProcsAreSound
<1> QED
  BY <1>1, <1>2, ProcIInv

LEMMA StutterIInv == ASSUME IInv, UNCHANGED vars PROVE IInv'
<1>1. /\ UNCHANGED <<taskStatus, controlRevision, current, team, lane, transition, manifest, shown,
                     planned, signals, procs>>
  BY DEF vars, taskRow, teamRows, workRows, files, volatile
<1>2. planned' \subseteq PlanRow /\ signals' \subseteq 2 .. current /\ procs' \subseteq ProcRow
  BY <1>1 DEF IInv, Typed
<1>3. ProcsAreSound'
  BY <1>1 DEF IInv, ProcsAreSound
<1> QED
  BY <1>1, <1>2, <1>3, ProcIInv

-----------------------------------------------------------------------------

LEMMA KnownMembers == IInv => DOMAIN Team \subseteq Everyone
  BY DEF IInv, Typed, Team

LEMMA MemberStepIInv == ASSUME IInv, MemberStep PROVE IInv'
<1>1. ASSUME NEW m \in DOMAIN Team, NEW S \in SUBSET Kids(Team, m), Delegate(m, S) PROVE IInv'
  <2>1. m \in Everyone /\ S \in SUBSET Everyone
    BY KnownMembers DEF Kids
  <2> QED
    BY <1>1, <2>1, DelegateIInv
<1>2. ASSUME NEW m \in DOMAIN Team, NEW outcome, Return(m, outcome) PROVE IInv'
  BY <1>2, KnownMembers, ReturnIInv
<1>3. ASSUME NEW m \in DOMAIN Team, PlanReplan(m) \/ Redispatch(m) PROVE IInv'
  BY <1>3, KnownMembers, PlanReplanIInv, RedispatchIInv
<1>4. ASSUME NEW p \in planned,
             NEW mu \in Mutations(team[p.rev].members, p.member, Fresh, Cardinality(DOMAIN team) + 1),
             CommitReplan(p, mu)
      PROVE  IInv'
  BY <1>4, CommitReplanIInv
<1> QED
  BY <1>1, <1>2, <1>3, <1>4, CompleteIInv DEF MemberStep

LEMMA NextIInv == IInv /\ [Next]_vars => IInv'
<1> SUFFICES ASSUME IInv, [Next]_vars PROVE IInv'
  OBVIOUS
<1>1. CASE MemberStep
  BY <1>1, MemberStepIInv
<1>2. ASSUME NEW m \in Everyone, ContinueWave(m) PROVE IInv'
  BY <1>2, ContinueWaveIInv
<1>3. CASE ReplanHandler
  BY <1>3, ReceiveIInv, WriteManifestIInv, MarkManifestIInv, PrepareSuccessorIInv,
     OpenSuccessorIInv DEF ReplanHandler
<1>4. CASE OperatorStep
  BY <1>4, PauseTaskIInv, CancelTaskIInv, StartResumeIInv, PlanResumeIInv, CommitResumeIInv
     DEF OperatorStep
<1>5. CASE Fault
  BY <1>5, FailManifestIInv, FailSuccessorIInv, LossIInv, RestartIInv DEF Fault
<1>6. CASE UNCHANGED vars
  BY <1>6, StutterIInv
<1> QED
  BY <1>1, <1>2, <1>3, <1>4, <1>5, <1>6 DEF Next

\* The inductive invariant, for every Team, mutation and interleaving.
THEOREM InductiveInvariant == Spec => []IInv
<1>1. Init => IInv
  BY InitIInv
<1>2. IInv /\ [Next]_vars => IInv'
  BY NextIInv
<1> QED
  BY <1>1, <1>2, PTL DEF Spec

-----------------------------------------------------------------------------
(* What the invariant gives                                                 *)

\* No accepted mutation is lost: the compare-and-set of the Team pointer in
\* commit_replan_rows leaves one line of revisions that ends in the current one.
THEOREM RevisionsStayInLine == Spec => []RevisionsFormALine
<1>1. IInv => RevisionsFormALine
  <2> SUFFICES ASSUME IInv PROVE RevisionsFormALine
    OBVIOUS
  <2>1. DOMAIN team = 1 .. current /\ current \in Nat \ {0}
    BY DEF IInv, Typed
  <2>2. Cardinality(1 .. current) = current
    BY <2>1, FS_Interval
  <2> QED
    BY <2>1, <2>2 DEF IInv, Line, RevisionsFormALine
<1> QED
  BY <1>1, InductiveInvariant, PTL

\* Whatever the order of handlers, failures, pauses and resumes, a transition's
\* row satisfies the check constraint of runtime/replan.py.
THEOREM BarrierRowsStayValid == Spec => []BarrierRows
<1>1. IInv => BarrierRows
  BY DEF IInv
<1> QED
  BY <1>1, InductiveInvariant, PTL

\* Exactly one transition owes a replanned lane its successor, and no other
\* lane is owed one (claim_replan_continuation, _read_replan_sources).
THEOREM OneTransitionPerReplannedLane == Spec => []ReplannedLaneOwnsOneTransition
<1>1. IInv => ReplannedLaneOwnsOneTransition
  <2> SUFFICES ASSUME IInv, taskStatus \in {"running", "paused"}, NEW m \in Everyone
               PROVE  Cardinality({t \in Unsettled : transition[t].member = m})
                        = IF lane[m] = "replanned" THEN 1 ELSE 0
    BY DEF ReplannedLaneOwnsOneTransition
  <2> DEFINE mine == {t \in Unsettled : transition[t].member = m}
  <2>1. \A t : t \in mine <=> t \in 2 .. current /\ Owed(t) /\ transition[t].member = m
    BY DEF IInv, Typed, Unsettled, Settled, Owed
  <2>2. CASE lane[m] = "replanned"
    <3>1. PICK t \in 2 .. current : Owed(t) /\ transition[t].member = m
      BY <2>2 DEF IInv, LanesMatch
    <3>2. \A u \in mine : u = t
      BY <2>1, <3>1 DEF IInv, LanesMatch
    <3>3. mine = {t}
      BY <2>1, <3>1, <3>2
    <3> QED
      BY <2>2, <3>3, FS_Singleton
  <2>3. CASE lane[m] # "replanned"
    <3>1. mine = {}
      BY <2>1, <2>3 DEF IInv, LanesMatch
    <3> QED
      BY <2>3, <3>1, FS_EmptySet
  <2> QED
    BY <2>2, <2>3
<1> QED
  BY <1>1, InductiveInvariant, PTL

\* After a replan no lane works before manifest.md has shown the Team it was
\* replanned to, whoever wrote it and whoever opens the successor.
THEOREM NoSuccessorBeforeItsManifest == Spec => SuccessorWaitsForManifest
<1> DEFINE Opened(m) ==
        \E t \in DOMAIN transition :
            /\ transition[t].member = m
            /\ t \in shown
            /\ transition'[t].successor = "opened"
            /\ pinned'[m] = t
<1>1. ASSUME IInv, Next, NEW m \in Everyone, lane[m] = "replanned", lane'[m] = "live"
      PROVE  Opened(m)
  <2> USE <1>1
  <2>0. lane \in [Everyone -> LaneState]
    BY DEF IInv, Typed
  <2>1. ASSUME NEW p \in procs, OpenSuccessor(p) PROVE Opened(m)
    <3>1. /\ Openable(p.t) /\ p.rev = p.t /\ current = p.rev
          /\ transition' = Claim(p.t)
          /\ OpenFor({transition[p.t].member})
      BY <2>1 DEF OpenSuccessor, MayClaim
    <3>2. p.t \in 2 .. current /\ transition \in [2 .. current -> TransitionRow]
      BY <2>1 DEF OpenSuccessor, IInv, ProcsAreSound, Typed
    <3>3. m = transition[p.t].member
      BY <3>1 DEF OpenFor
    <3>4. p.t \in shown
      BY <3>1, <3>2 DEF Openable, IInv, CurrentWasShown
    <3>5. transition'[p.t].successor = "opened"
      BY <3>1, <3>2 DEF Claim, TransitionRow
    <3>6. pinned'[m] = p.t
      BY <3>1, <3>3 DEF OpenFor
    <3> QED
      BY <3>2, <3>3, <3>4, <3>5, <3>6
  <2>2. ASSUME NEW p \in procs, CommitResume(p) PROVE Opened(m)
    <3>1. m \in {x \in Everyone : Runnable(x)}
      BY DEF Runnable
    <3>2. HasSource(m) /\ transition' = Claim(current) /\ pinned'[m] = current
      BY <2>2, <3>1 DEF CommitResume, OpenFor
    <3>3. current \in DOMAIN transition /\ transition[current].member = m /\ Openable(current)
      BY <3>2 DEF HasSource
    <3>4. current \in shown
      BY <3>3 DEF Openable, IInv, Typed, CurrentWasShown
    <3>5. transition'[current].successor = "opened"
      BY <3>2, <3>3 DEF Claim, IInv, Typed, TransitionRow
    <3> QED
      BY <3>2, <3>3, <3>4, <3>5
  <2>3. ASSUME MemberStep PROVE FALSE
    BY <2>0, <2>3 DEF MemberStep, Delegate, Return, PlanReplan, Redispatch, Complete, CommitReplan,
       MayReturn, Authority, OpenFor, workRows
  <2>4. ASSUME NEW x \in Everyone, ContinueWave(x) PROVE FALSE
    BY <2>0, <2>4 DEF ContinueWave, OpenFor
  <2>5. CASE ReplanHandler
    BY <2>1, <2>5 DEF ReplanHandler, ReceiveReplanCommitted, WriteManifest, MarkManifest,
       PrepareSuccessor, workRows
  <2>6. CASE OperatorStep
    BY <2>0, <2>2, <2>6 DEF OperatorStep, PauseTask, StopLanes, CancelTask, StartResume, PlanResume,
       workRows
  <2>7. ASSUME Fault PROVE FALSE
    BY <2>7 DEF Fault, FailManifest, FailSuccessor, LoseProc, LoseSignal, Restart, workRows
  <2> QED
    BY <2>3, <2>4, <2>5, <2>6, <2>7 DEF Next
<1>2. ASSUME IInv, [Next]_vars
      PROVE  [\A m \in Everyone :
                lane[m] = "replanned" /\ lane'[m] = "live" => Opened(m)]_vars
  BY <1>1, <1>2
<1> QED
  BY <1>2, InductiveInvariant, PTL DEF Spec, SuccessorWaitsForManifest

-----------------------------------------------------------------------------
(* Restarts                                                                 *)

\* A startup projection only writes, and a finished Task has no lane left.
StartupOnlyWrites == \A p \in procs : p.by = "startup" => p.phase = "write"

FinishedHasNoLane ==
    taskStatus \in {"completed", "cancelled"} => \A m \in Everyone : lane[m] = "none"

\* The steps that add a process: one for the startup, and others that are not.
LEMMA ProcsGrow ==
    ASSUME IInv, StartupOnlyWrites, [Next]_vars, NEW p \in procs' \ procs
    PROVE  /\ p.by = "startup" => p.phase = "write" /\ Restart
<1>1. ASSUME NEW q \in procs, NEW phase, p = [q EXCEPT !.phase = phase], q.phase # "write"
      PROVE  p.by # "startup"
  <2>1. q \in ProcRow
    BY DEF IInv, Typed
  <2> QED
    BY <1>1, <2>1 DEF ProcRow, StartupOnlyWrites
<1>2. CASE MemberStep \/ UNCHANGED vars \/ \E m \in Everyone : ContinueWave(m)
  BY <1>2 DEF MemberStep, Delegate, Return, PlanReplan, Redispatch, Complete, CommitReplan,
     ContinueWave, volatile, vars
<1>3. CASE ReplanHandler
  <2>1. ASSUME NEW t \in signals, ReceiveReplanCommitted(t) PROVE p.by = "handler"
    BY <2>1 DEF ReceiveReplanCommitted, Handler
  <2>2. ASSUME NEW q \in procs, WriteManifest(q) PROVE p.by # "startup"
    <3>1. q \in ProcRow /\ q.by # "startup" /\ p = [q EXCEPT !.phase = "mark"]
      BY <2>2 DEF WriteManifest, Step, IInv, Typed
    <3> QED
      BY <3>1 DEF ProcRow
  <2>3. ASSUME NEW q \in procs, MarkManifest(q) PROVE p.by # "startup"
    BY <1>1, <2>3 DEF MarkManifest, Step
  <2>4. ASSUME NEW q \in procs, PrepareSuccessor(q) \/ OpenSuccessor(q) PROVE p.by = "handler"
    BY <2>4 DEF PrepareSuccessor, OpenSuccessor, Handler
  <2> QED
    BY <1>3, <2>1, <2>2, <2>3, <2>4 DEF ReplanHandler
<1>4. CASE OperatorStep
  <2>1. CASE PauseTask \/ CancelTask
    BY <2>1 DEF PauseTask, CancelTask
  <2>2. CASE StartResume
    BY <2>2 DEF StartResume
  <2>3. ASSUME NEW q \in procs, PlanResume(q) PROVE p.by # "startup"
    BY <1>1, <2>3 DEF PlanResume, Step
  <2>4. ASSUME NEW q \in procs, CommitResume(q) PROVE FALSE
    BY <2>4 DEF CommitResume
  <2> QED
    BY <1>4, <2>1, <2>2, <2>3, <2>4 DEF OperatorStep
<1>5. CASE Fault
  <2>1. ASSUME NEW q \in procs, FailManifest(q) \/ FailSuccessor(q) \/ LoseProc(q) PROVE FALSE
    BY <2>1 DEF FailManifest, FailSuccessor, LoseProc
  <2>2. ASSUME NEW t \in signals, LoseSignal(t) PROVE FALSE
    BY <2>2 DEF LoseSignal
  <2>3. CASE Restart
    BY <2>3 DEF Restart
  <2> QED
    BY <1>5, <2>1, <2>2, <2>3 DEF Fault
<1> QED
  BY <1>2, <1>3, <1>4, <1>5 DEF Next

LEMMA NextFinished ==
    IInv /\ FinishedHasNoLane /\ [Next]_vars => FinishedHasNoLane'
<1> SUFFICES ASSUME IInv, FinishedHasNoLane, [Next]_vars,
                    taskStatus' \in {"completed", "cancelled"}, NEW m \in Everyone
             PROVE  lane'[m] = "none"
  BY DEF FinishedHasNoLane
<1>1. lane \in [Everyone -> LaneState]
  BY DEF IInv, Typed
<1>2. ASSUME UNCHANGED <<taskStatus, lane>> PROVE lane'[m] = "none"
  BY <1>2 DEF FinishedHasNoLane
<1>3. CASE MemberStep
  <2>1. ASSUME NEW x, NEW S, Delegate(x, S) PROVE FALSE
    BY <2>1 DEF Delegate, Authority, taskRow
  <2>2. ASSUME NEW x, NEW outcome, Return(x, outcome) PROVE FALSE
    BY <2>2 DEF Return, MayReturn, Authority, taskRow
  <2>3. ASSUME NEW x, PlanReplan(x) \/ Redispatch(x) PROVE FALSE
    BY <2>3 DEF PlanReplan, Redispatch, Authority, taskRow
  <2>4. ASSUME NEW outcome, Complete(outcome) PROVE lane'[m] = "none"
    BY <1>1, <2>4 DEF Complete
  <2>5. ASSUME NEW q, NEW mu, CommitReplan(q, mu) PROVE FALSE
    BY <2>5 DEF CommitReplan, TeamUnmoved, taskRow
  <2> QED
    BY <1>3, <2>1, <2>2, <2>3, <2>4, <2>5 DEF MemberStep
<1>4. ASSUME NEW x, ContinueWave(x) PROVE FALSE
  BY <1>4 DEF ContinueWave, taskRow
<1>5. CASE ReplanHandler
  <2>1. ASSUME NEW p, OpenSuccessor(p) PROVE lane'[m] = "none"
    <3>1. taskStatus' = taskStatus
      BY <2>1 DEF OpenSuccessor, taskRow
    <3>2. lane' = lane
      BY <2>1, <3>1 DEF OpenSuccessor
    <3> QED
      BY <1>2, <3>1, <3>2
  <2> QED
    BY <1>2, <1>5, <2>1 DEF ReplanHandler, ReceiveReplanCommitted, WriteManifest, MarkManifest,
       PrepareSuccessor, workRows, taskRow
<1>6. CASE OperatorStep
  <2>1. ASSUME PauseTask PROVE FALSE
    BY <2>1 DEF PauseTask
  <2>2. ASSUME CancelTask PROVE lane'[m] = "none"
    BY <2>2 DEF CancelTask
  <2>3. ASSUME NEW p, CommitResume(p) PROVE lane'[m] = "none"
    BY <1>2, <2>3 DEF CommitResume, taskRow
  <2> QED
    BY <1>2, <1>6, <2>1, <2>2, <2>3 DEF OperatorStep, StartResume, PlanResume, workRows, taskRow
<1>7. CASE Fault
  BY <1>2, <1>7 DEF Fault, FailManifest, FailSuccessor, LoseProc, LoseSignal, Restart, workRows, taskRow
<1>8. CASE UNCHANGED vars
  BY <1>2, <1>8 DEF vars, workRows, taskRow
<1> QED
  BY <1>3, <1>4, <1>5, <1>6, <1>7, <1>8 DEF Next

\* Whatever was lost before a restart, and whatever manifest or opening failed,
\* the audit's page of unsettled transitions names every lane that waits for one.
THEOREM StartupFindsReplans == Spec => StartupFindsEveryReplan
<1>1. Init => StartupOnlyWrites /\ FinishedHasNoLane
  BY DEF Init, StartupOnlyWrites, FinishedHasNoLane
<1>2. IInv /\ StartupOnlyWrites /\ FinishedHasNoLane /\ [Next]_vars
        => (StartupOnlyWrites /\ FinishedHasNoLane)'
  BY ProcsGrow, NextFinished DEF StartupOnlyWrites
<1>3. Spec => [](IInv /\ StartupOnlyWrites /\ FinishedHasNoLane)
  BY <1>1, <1>2, InductiveInvariant, PTL DEF Spec
<1>4. ASSUME IInv, StartupOnlyWrites, FinishedHasNoLane, [Next]_vars,
             NEW p \in procs' \ procs, p.by = "startup", NEW m \in Everyone, lane[m] = "replanned"
      PROVE  \E t \in signals' : transition[t].member = m
  <2>1. Restart
    BY <1>4, ProcsGrow
  <2>2. signals' = Unsettled
    BY <2>1 DEF Restart, AuditedTransitions
  <2>3. taskStatus \in {"running", "paused"}
    BY <1>4 DEF FinishedHasNoLane, IInv, Typed
  <2>4. PICK t \in 2 .. current : Owed(t) /\ transition[t].member = m
    BY <1>4, <2>3 DEF IInv, LanesMatch
  <2>5. t \in Unsettled
    <3>1. t \in DOMAIN transition
      BY <1>4, <2>4 DEF IInv, Typed
    <3> QED
      BY <2>4, <3>1 DEF Unsettled, Settled, Owed
  <2> QED
    BY <2>2, <2>4, <2>5
<1>5. IInv /\ StartupOnlyWrites /\ FinishedHasNoLane /\ [Next]_vars =>
        [procs' # {} /\ (\E p \in procs' \ procs : p.by = "startup") =>
            \A m \in Everyone :
                lane[m] = "replanned" => \E t \in signals' : transition[t].member = m]_vars
  BY <1>4
<1> QED
  BY <1>3, <1>5, PTL DEF Spec, StartupFindsEveryReplan

-----------------------------------------------------------------------------
(* Types                                                                    *)

MemberRow == [parent : Everyone \cup {None}, config : Revisions, basis : Revisions]

RowsOf(members) == \A m \in DOMAIN members : members[m] \in MemberRow

TeamTyped ==
    /\ current \in Revisions
    /\ \A r \in 1 .. current : RowsOf(team[r].members)

WorkTyped ==
    /\ pinned \in [Everyone -> Revisions]
    /\ awaits \in [Everyone -> SUBSET Everyone]
    /\ waves \in 0 .. MaxWaves
    /\ green \subseteq [member : Everyone, rev : Revisions]

\* A process read a revision of the present line, and a resume may still commit.
ReadsPresent(p) ==
    /\ p.rev \in 1 .. current /\ p.t \in 0 .. current /\ p.control \in 0 .. MaxControl
    /\ p.by = "resume" => p.control < MaxControl

ProcsTyped ==
    /\ controlRevision \in 0 .. MaxControl
    /\ \A p \in planned : p.rev \in 1 .. current /\ p.control \in 0 .. MaxControl
    /\ \A p \in procs : ReadsPresent(p)

FilesTyped ==
    /\ manifest \in shown
    /\ shown \subseteq 1 .. current
    /\ faults \in 0 .. MaxFaults

RestTyped == TeamTyped /\ WorkTyped /\ ProcsTyped /\ FilesTyped

\* A mutation of a typed Team is typed: new members hang under members.
LEMMA MutationRows ==
    ASSUME NEW before, RowsOf(before), DOMAIN before \subseteq Everyone,
           NEW caller \in Everyone, NEW fresh \in SUBSET Everyone, NEW rev \in Revisions,
           NEW mu \in Mutations(before, caller, fresh, rev)
    PROVE  RowsOf(mu.members)
<1>1. ASSUME NEW members, RowsOf(members), NEW updated, NEW seeds
      PROVE  RowsOf(Refresh(members, updated, seeds, rev))
  BY <1>1 DEF RowsOf, Refresh, MemberRow
<1>2. ASSUME NEW hosts \in SUBSET Everyone, NEW g \in Grafts(before, hosts, fresh, rev)
      PROVE  RowsOf(Grow(before, g, rev))
  <2>1. PICK new \in SUBSET fresh : g \in [new -> hosts \cup new]
    BY DEF Grafts
  <2>2. ASSUME NEW m \in DOMAIN g PROVE g[m] \in Everyone
    BY <2>1
  <2> QED
    BY <2>2 DEF RowsOf, Grow, MemberRow
<1>3. CASE mu \in AddChild(before, caller, fresh, rev)
  <2>1. PICK g \in Grafts(before, {caller}, fresh, rev) :
          mu = [members |-> Refresh(Grow(before, g, rev), {}, {caller}, rev), affected |-> {}]
    BY <1>3 DEF AddChild
  <2>2. mu.members = Refresh(Grow(before, g, rev), {}, {caller}, rev)
    BY <2>1
  <2> QED
    BY <1>1, <1>2, <2>2
<1>4. ASSUME NEW target, mu \in UpdateChild(before, target, fresh, rev)
      PROVE  RowsOf(mu.members)
  <2> DEFINE below == Subtree(before, target)
  <2>1. PICK c \in (SUBSET below) \X Grafts(before, below, fresh, rev) :
          mu = [members |-> Refresh(Grow(before, c[2], rev), c[1], c[1] \cup Hosts(c[2]), rev),
                affected |-> below]
    BY <1>4 DEF UpdateChild
  <2>2. mu.members = Refresh(Grow(before, c[2], rev), c[1], c[1] \cup Hosts(c[2]), rev)
    BY <2>1
  <2>3. c[2] \in Grafts(before, below, fresh, rev) /\ below \in SUBSET Everyone
    BY DEF Subtree
  <2>4. RowsOf(Grow(before, c[2], rev))
    BY <1>2, <2>3
  <2> QED
    BY <1>1, <2>2, <2>4
<1>5. ASSUME NEW target, mu \in RemoveChild(before, target, rev)
      PROVE  RowsOf(mu.members)
  <2> DEFINE left == [m \in DOMAIN before \ Subtree(before, target) |-> before[m]]
  <2>1. mu.members = Refresh(left, {}, {before[target].parent}, rev)
    BY <1>5 DEF RemoveChild
  <2>2. RowsOf(left)
    BY DEF RowsOf
  <2> QED
    BY <1>1, <2>1, <2>2
<1> QED
  BY <1>3, <1>4, <1>5 DEF Mutations

LEMMA NextTeamTyped == IInv /\ RestTyped /\ [Next]_vars => TeamTyped'
<1> SUFFICES ASSUME IInv, RestTyped, [Next]_vars PROVE TeamTyped'
  OBVIOUS
<1>1. ASSUME UNCHANGED teamRows PROVE TeamTyped'
  BY <1>1 DEF teamRows, TeamTyped, RestTyped
<1>2. ASSUME NEW p \in planned,
             NEW mu \in Mutations(team[p.rev].members, p.member, Fresh, Cardinality(DOMAIN team) + 1),
             CommitReplan(p, mu)
      PROVE  TeamTyped'
  <2> DEFINE n == Cardinality(DOMAIN team) + 1
  <2>1. current \in Nat \ {0} /\ DOMAIN team = 1 .. current /\ p \in PlanRow /\ p.rev \in 1 .. current
    BY DEF IInv, Typed, RestTyped, ProcsTyped
  <2>2. n = current + 1
    BY <2>1, FS_Interval
  <2>3. n <= MaxReplans + 1 /\ MaxReplans \in Nat
    BY <1>2, TeamAssumption DEF CommitReplan
  <2>4. n \in Revisions
    BY <2>1, <2>2, <2>3 DEF Revisions
  <2>5. /\ DOMAIN team[p.rev].members \subseteq Everyone /\ RowsOf(team[p.rev].members)
        /\ Fresh \in SUBSET Everyone /\ p.member \in Everyone
    BY <2>1 DEF IInv, Typed, RestTyped, TeamTyped, Fresh, Everyone, PlanRow
  <2>6. RowsOf(mu.members)
    BY <2>4, <2>5, MutationRows
  <2>7. current' = n
    BY <1>2 DEF CommitReplan
  <2>8. ASSUME NEW r \in 1 .. n
        PROVE  team'[r].members = IF r = n THEN mu.members ELSE team[r].members
    <3>1. team'[r] = IF r = n THEN [pred |-> p.rev, members |-> mu.members] ELSE team[r]
      BY <1>2 DEF CommitReplan
    <3> QED
      BY <3>1
  <2> HIDE DEF n
  <2>9. ASSUME NEW r \in 1 .. n PROVE RowsOf(team'[r].members)
    <3>1. CASE r = n
      BY <2>6, <2>8, <3>1
    <3>2. CASE r # n
      <4>1. r \in 1 .. current
        BY <2>1, <2>2, <3>2
      <4> QED
        BY <2>8, <3>2, <4>1 DEF RestTyped, TeamTyped
    <3> QED
      BY <3>1, <3>2
  <2> QED
    BY <2>4, <2>7, <2>9 DEF TeamTyped, RowsOf, MemberRow, Everyone, Revisions
<1>3. CASE MemberStep
  <2>1. ASSUME NEW m, NEW S, Delegate(m, S) PROVE TeamTyped'
    BY <1>1, <2>1 DEF Delegate
  <2>2. ASSUME NEW m, NEW outcome, Return(m, outcome) PROVE TeamTyped'
    BY <1>1, <2>2 DEF Return
  <2>3. ASSUME NEW m, PlanReplan(m) \/ Redispatch(m) PROVE TeamTyped'
    BY <1>1, <2>3 DEF PlanReplan, Redispatch
  <2>4. ASSUME NEW outcome, Complete(outcome) PROVE TeamTyped'
    BY <1>1, <2>4 DEF Complete
  <2> QED
    BY <1>2, <1>3, <2>1, <2>2, <2>3, <2>4 DEF MemberStep
<1>4. ASSUME NEW x, ContinueWave(x) PROVE TeamTyped'
  BY <1>1, <1>4 DEF ContinueWave
<1>5. CASE ReplanHandler
  BY <1>1, <1>5 DEF ReplanHandler, ReceiveReplanCommitted, WriteManifest, MarkManifest,
     PrepareSuccessor, OpenSuccessor
<1>6. CASE OperatorStep
  BY <1>1, <1>6 DEF OperatorStep, PauseTask, CancelTask, StartResume, PlanResume, CommitResume
<1>7. CASE Fault
  BY <1>1, <1>7 DEF Fault, FailManifest, FailSuccessor, LoseProc, LoseSignal, Restart
<1>8. CASE UNCHANGED vars
  BY <1>1, <1>8 DEF vars
<1> QED
  BY <1>3, <1>4, <1>5, <1>6, <1>7, <1>8 DEF Next

LEMMA NextWorkTyped == IInv /\ RestTyped /\ [Next]_vars => WorkTyped'
<1> SUFFICES ASSUME IInv, RestTyped, [Next]_vars PROVE WorkTyped'
  OBVIOUS
<1>1. /\ pinned \in [Everyone -> Revisions] /\ awaits \in [Everyone -> SUBSET Everyone]
      /\ waves \in 0 .. MaxWaves /\ green \subseteq [member : Everyone, rev : Revisions]
      /\ current \in Revisions /\ MaxWaves \in Nat /\ DOMAIN Team \subseteq Everyone
  BY KnownMembers, TeamAssumption DEF RestTyped, WorkTyped, TeamTyped
<1>2. ASSUME UNCHANGED <<pinned, awaits, waves, green>> PROVE WorkTyped'
  BY <1>1, <1>2 DEF WorkTyped
<1>3. ASSUME NEW S, OpenFor(S) PROVE pinned' \in [Everyone -> Revisions]
  BY <1>1, <1>3 DEF OpenFor
<1>4. ASSUME NEW m \in Everyone, NEW outcome
      PROVE  AcceptGreen(m, outcome) \subseteq [member : Everyone, rev : Revisions]
  BY <1>1 DEF AcceptGreen
<1>5. CASE MemberStep
  <2>1. ASSUME NEW m \in DOMAIN Team, NEW S \in SUBSET Kids(Team, m), Delegate(m, S) PROVE WorkTyped'
    <3>1. S \in SUBSET Everyone
      BY <1>1 DEF Kids
    <3>2. pinned' \in [Everyone -> Revisions] /\ awaits' \in [Everyone -> SUBSET Everyone]
      BY <1>1, <2>1, <3>1 DEF Delegate
    <3>3. waves' \in 0 .. MaxWaves /\ green' = green
      BY <1>1, <2>1 DEF Delegate
    <3> QED
      BY <1>1, <3>2, <3>3 DEF WorkTyped
  <2>2. ASSUME NEW m \in DOMAIN Team, NEW outcome, Return(m, outcome) PROVE WorkTyped'
    <3>1. awaits' \in [Everyone -> SUBSET Everyone] /\ green' = AcceptGreen(m, outcome)
          /\ UNCHANGED <<pinned, waves>>
      BY <1>1, <2>2 DEF Return
    <3> QED
      BY <1>1, <1>4, <3>1 DEF WorkTyped
  <2>3. ASSUME NEW outcome, Complete(outcome) PROVE WorkTyped'
    <3>1. green' = AcceptGreen(Root, outcome) /\ UNCHANGED <<pinned, awaits, waves>> /\ Root \in Everyone
      BY <2>3, TeamAssumption DEF Complete, Everyone
    <3> QED
      BY <1>1, <1>4, <3>1 DEF WorkTyped
  <2>4. ASSUME NEW m, PlanReplan(m) PROVE WorkTyped'
    BY <1>2, <2>4 DEF PlanReplan, workRows
  <2>5. ASSUME NEW m, Redispatch(m) PROVE WorkTyped'
    BY <1>1, <1>3, <2>5 DEF Redispatch, WorkTyped
  <2>6. ASSUME NEW p, NEW mu, CommitReplan(p, mu) PROVE WorkTyped'
    BY <1>2, <2>6 DEF CommitReplan
  <2> QED
    BY <1>5, <2>1, <2>2, <2>3, <2>4, <2>5, <2>6 DEF MemberStep
<1>6. ASSUME NEW x, ContinueWave(x) PROVE WorkTyped'
  BY <1>1, <1>3, <1>6 DEF ContinueWave, WorkTyped
<1>7. CASE ReplanHandler
  <2>1. ASSUME NEW p, OpenSuccessor(p) PROVE WorkTyped'
    <3>1. pinned' \in [Everyone -> Revisions] /\ UNCHANGED <<awaits, waves, green>>
      BY <1>1, <1>3, <2>1 DEF OpenSuccessor
    <3> QED
      BY <1>1, <3>1 DEF WorkTyped
  <2> QED
    BY <1>2, <1>7, <2>1 DEF ReplanHandler, ReceiveReplanCommitted, WriteManifest, MarkManifest,
       PrepareSuccessor, workRows
<1>8. CASE OperatorStep
  <2>1. ASSUME NEW p, CommitResume(p) PROVE WorkTyped'
    <3>1. pinned' \in [Everyone -> Revisions] /\ UNCHANGED <<awaits, waves, green>>
      BY <1>1, <1>3, <2>1 DEF CommitResume
    <3> QED
      BY <1>1, <3>1 DEF WorkTyped
  <2>2. ASSUME CancelTask PROVE WorkTyped'
    BY <1>1, <2>2 DEF CancelTask, WorkTyped
  <2> QED
    BY <1>2, <1>8, <2>1, <2>2 DEF OperatorStep, PauseTask, StartResume, PlanResume, workRows
<1>9. CASE Fault
  BY <1>2, <1>9 DEF Fault, FailManifest, FailSuccessor, LoseProc, LoseSignal, Restart, workRows
<1>10. CASE UNCHANGED vars
  BY <1>2, <1>10 DEF vars, workRows
<1> QED
  BY <1>5, <1>6, <1>7, <1>8, <1>9, <1>10 DEF Next

\* A process that goes on reads what it read before.
LEMMA StepReads ==
    ASSUME IInv, NEW p \in procs, ReadsPresent(p), NEW phase
    PROVE  ReadsPresent([p EXCEPT !.phase = phase])
<1>1. p \in ProcRow
  BY DEF IInv, Typed
<1> QED
  BY <1>1 DEF ProcRow, ReadsPresent

LEMMA NextProcsTyped == IInv /\ RestTyped /\ [Next]_vars => ProcsTyped'
<1> SUFFICES ASSUME IInv, RestTyped, [Next]_vars PROVE ProcsTyped'
  OBVIOUS
<1>1. /\ controlRevision \in 0 .. MaxControl /\ MaxControl \in Nat
      /\ current \in Nat \ {0} /\ signals \subseteq 2 .. current
      /\ \A p \in planned : p.rev \in 1 .. current /\ p.control \in 0 .. MaxControl
      /\ \A p \in procs : ReadsPresent(p)
  BY TeamAssumption DEF RestTyped, ProcsTyped, IInv, Typed, ReadsPresent
\* Steps that keep the Team and read nothing new but what is present.
<1>2. ASSUME current' = current, controlRevision' \in 0 .. MaxControl,
             \A p \in planned' : p \in planned \/ (p.rev = current /\ p.control = controlRevision),
             \A p \in procs' : ReadsPresent(p)
      PROVE  ProcsTyped'
  BY <1>1, <1>2 DEF ProcsTyped, ReadsPresent
<1>3. ASSUME UNCHANGED <<current, controlRevision, procs>>,
             \A p \in planned' : p \in planned \/ (p.rev = current /\ p.control = controlRevision)
      PROVE  ProcsTyped'
  BY <1>1, <1>2, <1>3
<1>4. CASE MemberStep
  <2>1. ASSUME NEW m, NEW S, Delegate(m, S) PROVE ProcsTyped'
    BY <1>3, <2>1 DEF Delegate, Forget, teamRows, taskRow
  <2>2. ASSUME NEW m, NEW outcome, Return(m, outcome) PROVE ProcsTyped'
    BY <1>3, <2>2 DEF Return, Forget, teamRows, taskRow
  <2>3. ASSUME NEW m, PlanReplan(m) PROVE ProcsTyped'
    BY <1>3, <2>3 DEF PlanReplan, Forget, teamRows, taskRow
  <2>4. ASSUME NEW m, Redispatch(m) PROVE ProcsTyped'
    BY <1>3, <2>4 DEF Redispatch, Forget, teamRows, taskRow
  <2>5. ASSUME NEW outcome, Complete(outcome) PROVE ProcsTyped'
    BY <1>3, <2>5 DEF Complete, Forget, teamRows
  <2>6. ASSUME NEW p, NEW mu, CommitReplan(p, mu) PROVE ProcsTyped'
    <3>1. /\ current' = Cardinality(DOMAIN team) + 1
          /\ planned' \subseteq planned /\ UNCHANGED <<controlRevision, procs>>
      BY <2>6 DEF CommitReplan, Forget, taskRow
    <3>2. current' = current + 1
      BY <1>1, <3>1, FS_Interval DEF IInv, Typed
    <3>3. \A x \in 1 .. current : x \in 1 .. current'
      BY <1>1, <3>2
    <3>4. \A x \in 0 .. current : x \in 0 .. current'
      BY <1>1, <3>2
    <3> QED
      BY <1>1, <3>1, <3>3, <3>4 DEF ProcsTyped, ReadsPresent
  <2> QED
    BY <1>4, <2>1, <2>2, <2>3, <2>4, <2>5, <2>6 DEF MemberStep
<1>5. ASSUME NEW x, ContinueWave(x) PROVE ProcsTyped'
  BY <1>3, <1>5 DEF ContinueWave, volatile, teamRows, taskRow
<1>6. ASSUME NEW t \in 2 .. current, NEW phase PROVE ReadsPresent(Handler(t, phase))
  BY <1>1 DEF Handler, ReadsPresent
<1>7. CASE ReplanHandler
  <2>1. ASSUME NEW t \in signals, ReceiveReplanCommitted(t) PROVE ProcsTyped'
    <3>1. \A p \in procs' : p \in procs \/ \E phase \in {"prepare", "write"} : p = Handler(t, phase)
      BY <2>1 DEF ReceiveReplanCommitted
    <3>2. \A p \in procs' : ReadsPresent(p)
      BY <1>1, <1>6, <3>1
    <3> QED
      BY <1>1, <1>2, <2>1, <3>2 DEF ReceiveReplanCommitted, teamRows, taskRow
  <2>2. ASSUME NEW q \in procs, WriteManifest(q) PROVE ProcsTyped'
    <3>1. \A p \in procs' : p \in procs \/ p = [q EXCEPT !.phase = "mark"]
      BY <2>2 DEF WriteManifest, Step
    <3>2. \A p \in procs' : ReadsPresent(p)
      BY <1>1, <3>1, StepReads
    <3> QED
      BY <1>1, <1>2, <2>2, <3>2 DEF WriteManifest, teamRows, taskRow
  <2>3. ASSUME NEW q \in procs, MarkManifest(q) PROVE ProcsTyped'
    <3>1. \A p \in procs' : p \in procs \/ p = [q EXCEPT !.phase = AfterMark(q)]
      BY <2>3 DEF MarkManifest, Step
    <3>2. \A p \in procs' : ReadsPresent(p)
      BY <1>1, <3>1, StepReads
    <3> QED
      BY <1>1, <1>2, <2>3, <3>2 DEF MarkManifest, teamRows, taskRow
  <2>4. ASSUME NEW q \in procs, PrepareSuccessor(q) PROVE ProcsTyped'
    <3>1. q.t \in 2 .. current
      BY <2>4 DEF PrepareSuccessor, IInv, ProcsAreSound
    <3>2. \A p \in procs' : p \in procs \/ p = Handler(q.t, "commit")
      BY <2>4 DEF PrepareSuccessor
    <3>3. \A p \in procs' : ReadsPresent(p)
      BY <1>1, <1>6, <3>1, <3>2
    <3> QED
      BY <1>1, <1>2, <2>4, <3>3 DEF PrepareSuccessor, teamRows, taskRow
  <2>5. ASSUME NEW q \in procs, OpenSuccessor(q) PROVE ProcsTyped'
    BY <1>1, <1>2, <2>5 DEF OpenSuccessor, teamRows, taskRow
  <2> QED
    BY <1>7, <2>1, <2>2, <2>3, <2>4, <2>5 DEF ReplanHandler
<1>8. CASE OperatorStep
  <2>1. CASE PauseTask \/ CancelTask
    <3>1. /\ controlRevision < MaxControl /\ controlRevision' = controlRevision + 1
          /\ planned' = {} /\ UNCHANGED <<current, procs>>
      BY <2>1 DEF PauseTask, CancelTask, teamRows
    <3>2. controlRevision' \in 0 .. MaxControl
      BY <1>1, <3>1
    <3> QED
      BY <1>1, <1>2, <3>1, <3>2
  <2>2. CASE StartResume
    <3>1. \A p \in procs' : p \in procs \/
            /\ p.rev = current /\ p.t \in {0, current} /\ p.control = controlRevision
            /\ controlRevision < MaxControl
      BY <2>2 DEF StartResume
    <3>2. \A p \in procs' : ReadsPresent(p)
      BY <1>1, <3>1 DEF ReadsPresent
    <3> QED
      BY <1>1, <1>2, <2>2, <3>2 DEF StartResume, teamRows, taskRow
  <2>3. ASSUME NEW q \in procs, PlanResume(q) PROVE ProcsTyped'
    <3>1. \A p \in procs' : p \in procs \/ p = [q EXCEPT !.phase = "commit"]
      BY <2>3 DEF PlanResume, Step
    <3>2. \A p \in procs' : ReadsPresent(p)
      BY <1>1, <3>1, StepReads
    <3> QED
      BY <1>1, <1>2, <2>3, <3>2 DEF PlanResume, teamRows, taskRow
  <2>4. ASSUME NEW q \in procs, CommitResume(q) PROVE ProcsTyped'
    <3>1. controlRevision' = controlRevision
          \/ (controlRevision' = controlRevision + 1 /\ controlRevision = q.control /\ q.by = "resume")
      BY <2>4 DEF CommitResume, StillPaused, taskRow
    <3>2. controlRevision' \in 0 .. MaxControl
      BY <1>1, <3>1 DEF ReadsPresent
    <3> QED
      BY <1>1, <1>2, <2>4, <3>2 DEF CommitResume, teamRows
  <2> QED
    BY <1>8, <2>1, <2>2, <2>3, <2>4 DEF OperatorStep
<1>9. CASE Fault
  <2>1. ASSUME NEW q \in procs, FailManifest(q) \/ FailSuccessor(q) \/ LoseProc(q) PROVE ProcsTyped'
    <3>1. procs' \subseteq procs /\ UNCHANGED <<current, controlRevision, planned>>
      BY <2>1 DEF FailManifest, FailSuccessor, LoseProc, teamRows, taskRow
    <3> QED
      BY <1>1, <1>2, <3>1
  <2>2. ASSUME NEW t, LoseSignal(t) PROVE ProcsTyped'
    BY <1>3, <2>2 DEF LoseSignal, teamRows, taskRow
  <2>3. CASE Restart
    <3>1. \A p \in procs' : p.rev = current /\ p.t = 0 /\ p.control = controlRevision /\ p.by = "startup"
      BY <2>3 DEF Restart
    <3>2. \A p \in procs' : ReadsPresent(p)
      BY <1>1, <3>1 DEF ReadsPresent
    <3> QED
      BY <1>1, <1>2, <2>3, <3>2 DEF Restart, teamRows, taskRow
  <2> QED
    BY <1>9, <2>1, <2>2, <2>3 DEF Fault
<1>10. CASE UNCHANGED vars
  BY <1>3, <1>10 DEF vars, volatile, teamRows, taskRow
<1> QED
  BY <1>4, <1>5, <1>7, <1>8, <1>9, <1>10 DEF Next

LEMMA NextFilesTyped == IInv /\ RestTyped /\ [Next]_vars => FilesTyped'
<1> SUFFICES ASSUME IInv, RestTyped, [Next]_vars PROVE FilesTyped'
  OBVIOUS
<1>1. /\ manifest \in shown /\ shown \subseteq 1 .. current /\ faults \in 0 .. MaxFaults
      /\ MaxFaults \in Nat /\ current \in Nat \ {0}
  BY TeamAssumption DEF RestTyped, FilesTyped, IInv, Typed
<1>2. ASSUME UNCHANGED <<current, manifest, shown>>,
             faults' = faults \/ (faults < MaxFaults /\ faults' = faults + 1)
      PROVE  FilesTyped'
  BY <1>1, <1>2 DEF FilesTyped
<1>3. CASE MemberStep
  <2>1. ASSUME NEW m, NEW S, Delegate(m, S) PROVE FilesTyped'
    BY <1>2, <2>1 DEF Delegate, files, teamRows
  <2>2. ASSUME NEW m, NEW outcome, Return(m, outcome) PROVE FilesTyped'
    BY <1>2, <2>2 DEF Return, files, teamRows
  <2>3. ASSUME NEW m, PlanReplan(m) \/ Redispatch(m) PROVE FilesTyped'
    BY <1>2, <2>3 DEF PlanReplan, Redispatch, files, teamRows
  <2>4. ASSUME NEW outcome, Complete(outcome) PROVE FilesTyped'
    BY <1>2, <2>4 DEF Complete, files, teamRows
  <2>5. ASSUME NEW p, NEW mu, CommitReplan(p, mu) PROVE FilesTyped'
    <3>1. current' = Cardinality(DOMAIN team) + 1 /\ UNCHANGED <<manifest, shown, faults>>
      BY <2>5 DEF CommitReplan, files
    <3>2. current' = current + 1
      BY <1>1, <3>1, FS_Interval DEF IInv, Typed
    <3> QED
      BY <1>1, <3>1, <3>2 DEF FilesTyped
  <2> QED
    BY <1>3, <2>1, <2>2, <2>3, <2>4, <2>5 DEF MemberStep
<1>4. ASSUME NEW x, ContinueWave(x) PROVE FilesTyped'
  BY <1>2, <1>4 DEF ContinueWave, files, teamRows
<1>5. CASE ReplanHandler
  <2>1. ASSUME NEW q \in procs, WriteManifest(q) PROVE FilesTyped'
    <3>1. manifest' = q.rev /\ shown' = shown \cup {q.rev} /\ UNCHANGED <<current, faults>>
      BY <2>1 DEF WriteManifest, teamRows
    <3>2. q.rev \in 1 .. current
      BY DEF RestTyped, ProcsTyped, ReadsPresent
    <3> QED
      BY <1>1, <3>1, <3>2 DEF FilesTyped
  <2> QED
    BY <1>2, <1>5, <2>1 DEF ReplanHandler, ReceiveReplanCommitted, MarkManifest,
       PrepareSuccessor, OpenSuccessor, files, teamRows
<1>6. CASE OperatorStep
  BY <1>2, <1>6 DEF OperatorStep, PauseTask, CancelTask, StartResume, PlanResume, CommitResume,
     files, teamRows
<1>7. CASE Fault
  BY <1>2, <1>7 DEF Fault, FailManifest, FailSuccessor, LoseProc, LoseSignal, Restart, files, teamRows
<1>8. CASE UNCHANGED vars
  BY <1>2, <1>8 DEF vars, files, teamRows
<1> QED
  BY <1>3, <1>4, <1>5, <1>6, <1>7, <1>8 DEF Next

LEMMA InitRestTyped == Init => RestTyped
<1> SUFFICES ASSUME Init PROVE RestTyped
  OBVIOUS
<1>1. 1 \in Revisions /\ current = 1
  BY TeamAssumption DEF Revisions, Init
<1>2. TeamTyped
  <2>1. ASSUME NEW m \in Members
        PROVE  (IF m = Root THEN None ELSE Parent[m]) \in Everyone \cup {None}
    BY TeamAssumption DEF Everyone
  <2>2. team[1].members = AuthoredTeam
    BY DEF Init
  <2>3. RowsOf(team[1].members)
    BY <1>1, <2>1, <2>2 DEF RowsOf, MemberRow, AuthoredTeam
  <2> QED
    BY <1>1, <2>3 DEF TeamTyped
<1>3. WorkTyped
  BY <1>1, TeamAssumption DEF Init, WorkTyped
<1>4. ProcsTyped /\ FilesTyped
  BY <1>1, TeamAssumption DEF Init, ProcsTyped, FilesTyped
<1> QED
  BY <1>2, <1>3, <1>4 DEF RestTyped

\* Rows, reads and the manifest stay typed and refer to revisions that exist, for
\* every Team, mutation and bound: what the foreign keys of the schema rely on.
THEOREM TypeCorrect == Spec => []TypeOK
<1>1. IInv /\ RestTyped /\ [Next]_vars => RestTyped'
  BY NextTeamTyped, NextWorkTyped, NextProcsTyped, NextFilesTyped DEF RestTyped
<1>2. IInv /\ RestTyped => TypeOK
  <2> SUFFICES ASSUME IInv, RestTyped PROVE TypeOK
    OBVIOUS
  <2>1. /\ current \in Nat \ {0} /\ current \in Revisions /\ MaxReplans \in Nat
        /\ DOMAIN team = 1 .. current /\ DOMAIN transition = 2 .. current
        /\ taskStatus \in {"running", "paused", "completed", "cancelled"}
        /\ lane \in [Everyone -> LaneState] /\ signals \subseteq 2 .. current
        /\ \A t \in 2 .. current : transition[t] \in TransitionRow
    BY TeamAssumption DEF IInv, Typed, RestTyped, TeamTyped
  <2>2. DOMAIN transition = DOMAIN team \ {1}
    BY <2>1
  <2>3. ASSUME NEW r \in DOMAIN team
        PROVE  /\ team[r].pred \in 0 .. MaxReplans
               /\ DOMAIN team[r].members \subseteq Everyone
               /\ \A m \in DOMAIN team[r].members :
                    team[r].members[m] \in [parent : Everyone \cup {None}, config : Revisions,
                                            basis : Revisions]
    <3>1. r \in 1 .. current
      BY <2>1
    <3>2. team[r].pred \in 0 .. MaxReplans
      BY <2>1, <3>1 DEF IInv, Line, Revisions
    <3>3. DOMAIN team[r].members \subseteq Everyone
      BY <3>1 DEF IInv, Typed
    <3>4. RowsOf(team[r].members)
      BY <3>1 DEF RestTyped, TeamTyped
    <3> QED
      BY <3>2, <3>3, <3>4 DEF RowsOf, MemberRow
  <2>4. planned \subseteq [member : Everyone, rev : Revisions, control : 0 .. MaxControl]
    <3> SUFFICES ASSUME NEW p \in planned
                 PROVE  p \in [member : Everyone, rev : Revisions, control : 0 .. MaxControl]
      OBVIOUS
    <3>1. p \in PlanRow /\ p.rev \in 1 .. current /\ p.control \in 0 .. MaxControl
      BY DEF IInv, Typed, RestTyped, ProcsTyped
    <3>2. p.rev \in Revisions
      BY <2>1, <3>1 DEF Revisions
    <3> QED
      BY <3>1, <3>2 DEF PlanRow
  <2>5. procs \subseteq Proc
    <3> SUFFICES ASSUME NEW p \in procs PROVE p \in Proc
      OBVIOUS
    <3>1. p \in ProcRow /\ p.rev \in 1 .. current /\ p.t \in 0 .. current /\ p.control \in 0 .. MaxControl
      BY DEF IInv, Typed, RestTyped, ProcsTyped, ReadsPresent
    <3>2. p.rev \in Revisions /\ p.t \in Revisions \cup {0}
      BY <2>1, <3>1 DEF Revisions
    <3> QED
      BY <3>1, <3>2 DEF ProcRow, Proc
  <2>6. /\ controlRevision \in 0 .. MaxControl
        /\ manifest \in shown /\ shown \subseteq DOMAIN team /\ faults \in 0 .. MaxFaults
    BY <2>1 DEF RestTyped, ProcsTyped, FilesTyped
  <2>7. WorkTyped
    BY DEF RestTyped
  <2> QED
    BY <2>1, <2>2, <2>3, <2>4, <2>5, <2>6, <2>7 DEF TypeOK, WorkTyped
<1> QED
  BY <1>1, <1>2, InitRestTyped, InductiveInvariant, PTL DEF Spec

-----------------------------------------------------------------------------
(* What drives the replan that led to the current Team                      *)

\* A handler of the current transition that has only its own steps left: it
\* projects and marks the manifest, prepares a successor that may open, or holds
\* a prepared one whose reads are still true.
Pursues(p) ==
    /\ p.by = "handler" /\ p.t = current
    /\ \/ p.phase \in {"write", "mark"}
       \/ p.phase = "prepare" /\ Openable(current)
       \/ p.phase = "commit" /\ Openable(current) /\ p.rev = current /\ p.control = controlRevision

\* The hint of the latest replan waits to be handled or a handler pursues it.
LatestIsPursued ==
    (taskStatus = "running" /\ current \in Unsettled) =>
        current \in signals \/ \E p \in procs : Pursues(p)

\* No older transition owes the lane that made the latest replan a successor: it
\* was live then.
LatestIsLast ==
    taskStatus \in {"running", "paused"} =>
        \A t \in 2 .. current :
            Owed(t) /\ transition[t].member = transition[current].member => t = current

\* What LatestReplanIsContinued rests on.
OwedReplanIsPursued ==
    (current \in DOMAIN transition /\ lane[transition[current].member] = "replanned" /\ Undisturbed) =>
        current \in signals \/ \E p \in procs : Pursues(p)

\* Pauses, resumes, replans of others and stale handlers never take the pursuit
\* away; only a fault does, and a restart puts it back.
PursuitIsKept ==
    [][/\ LatestIsPursued /\ faults' = faults => LatestIsPursued'
       /\ Restart => LatestIsPursued']_vars

\* A step that keeps the reads of a pursuit keeps the pursuit.
LEMMA PursuitMoves ==
    ASSUME LatestIsPursued, taskStatus = "running", current \in Unsettled,
           UNCHANGED <<current, controlRevision>>, Openable(current) => Openable(current)',
           current \in signals => current \in signals' \/ \E q \in procs' : Pursues(q)',
           \A p \in procs : Pursues(p) /\ p \notin procs' => \E q \in procs' : Pursues(q)'
    PROVE  current' \in signals' \/ \E q \in procs' : Pursues(q)'
<1>1. ASSUME NEW p \in procs, Pursues(p), p \in procs' PROVE Pursues(p)'
  BY <1>1 DEF Pursues
<1> QED
  BY <1>1 DEF LatestIsPursued

\* The same for a step that leaves the transition to the current Team alone.
LEMMA PursuitStays ==
    ASSUME LatestIsPursued, taskStatus = "running", current \in Unsettled,
           UNCHANGED <<current, controlRevision>>, transition'[current] = transition[current],
           current \in signals => current \in signals',
           \A p \in procs : Pursues(p) => p \in procs'
    PROVE  current' \in signals' \/ \E q \in procs' : Pursues(q)'
<1>1. Openable(current) => Openable(current)'
  BY DEF Openable
<1> QED
  BY <1>1, PursuitMoves

\* The lane of a transition that is owed and whose Task runs waits for it.
LEMMA OwedHasLane ==
    ASSUME IInv, taskStatus \in {"running", "paused"}, current \in Unsettled
    PROVE  /\ current \in 2 .. current /\ Owed(current)
           /\ transition[current].member \in Everyone
           /\ lane[transition[current].member] = "replanned"
<1>1. current \in 2 .. current /\ Owed(current)
  BY DEF IInv, Typed, Unsettled, Settled, Owed
<1> QED
  BY <1>1 DEF IInv, Typed, TransitionRow, LanesMatch

\* A handler carries the pursuit to its next step or opens the successor.
LEMMA HandlerPursues ==
    ASSUME IInv, LatestIsPursued, taskStatus' = "running", (current \in Unsettled)', ReplanHandler
    PROVE  current' \in signals' \/ \E q \in procs' : Pursues(q)'
<1>1. UNCHANGED <<taskStatus, controlRevision, current>> /\ taskStatus = "running"
  BY DEF ReplanHandler, ReceiveReplanCommitted, WriteManifest, MarkManifest, PrepareSuccessor,
         OpenSuccessor, taskRow, teamRows
<1>2. /\ procs \subseteq ProcRow /\ transition \in [2 .. current -> TransitionRow]
      /\ signals \subseteq 2 .. current /\ current \in Nat \ {0}
  BY DEF IInv, Typed
<1>3. ASSUME NEW t \in signals, ReceiveReplanCommitted(t)
      PROVE  current' \in signals' \/ \E q \in procs' : Pursues(q)'
  <2>1. t \in 2 .. current /\ signals' = signals \ {t} /\ procs \subseteq procs'
    BY <1>2, <1>3 DEF ReceiveReplanCommitted
  <2>2. CASE t # current
    <3>1. /\ DOMAIN transition' = DOMAIN transition
          /\ \/ transition' = transition
             \/ transition' = ManifestFailed(t)
      BY <1>2, <1>3, <2>1, ManifestFailedKeeps DEF ReceiveReplanCommitted
    <3>2. transition'[current] = transition[current]
      BY <1>2, <2>1, <2>2, <3>1 DEF ManifestFailed
    <3>3. current \in Unsettled
      BY <1>1, <3>1, <3>2 DEF Unsettled, Settled
    <3> QED
      BY <1>1, <2>1, <2>2, <3>2, <3>3, PursuitStays
  <2>3. CASE t = current
    <3>1. ~Settled(t)
      <4>1. Settled(t) => UNCHANGED transition
        BY <1>3 DEF ReceiveReplanCommitted
      <4> QED
        BY <1>1, <2>3, <4>1 DEF Unsettled, Settled
    <3>2. CASE transition[t].manifest = "current"
      <4>1. PICK h : h = Handler(t, "prepare")
        OBVIOUS
      <4>2. h \in procs' /\ UNCHANGED transition
        BY <1>3, <3>1, <3>2, <4>1 DEF ReceiveReplanCommitted
      <4>3. Openable(t)
        BY <1>2, <2>1, <3>1, <3>2 DEF IInv, BarrierRows, Openable, Settled
      <4>4. h.by = "handler" /\ h.t = current /\ h.phase = "prepare"
        BY <2>3, <4>1 DEF Handler
      <4>5. Pursues(h)'
        BY <1>1, <2>3, <4>2, <4>3, <4>4 DEF Pursues, Openable
      <4> QED
        BY <4>2, <4>5
    <3>3. CASE transition[t].manifest # "current"
      <4>1. PICK h : h = Handler(t, "write")
        OBVIOUS
      <4>2. h \in procs'
        BY <1>3, <2>3, <3>1, <3>3, <4>1 DEF ReceiveReplanCommitted
      <4>3. h.by = "handler" /\ h.t = current /\ h.phase = "write"
        BY <2>3, <4>1 DEF Handler
      <4>4. Pursues(h)'
        BY <1>1, <4>3 DEF Pursues
      <4> QED
        BY <4>2, <4>4
    <3> QED
      BY <3>2, <3>3
  <2> QED
    BY <2>2, <2>3
<1>4. ASSUME NEW p \in procs, WriteManifest(p)
      PROVE  current' \in signals' \/ \E q \in procs' : Pursues(q)'
  <2>1. UNCHANGED <<transition, signals>> /\ current \in Unsettled
    BY <1>1, <1>4 DEF WriteManifest, Unsettled, Settled
  <2>2. CASE Pursues(p)
    <3> DEFINE q == [p EXCEPT !.phase = "mark"]
    <3>1. q.by = p.by /\ q.t = p.t /\ q.phase = "mark"
      BY <1>2 DEF ProcRow
    <3>2. q \in procs'
      BY <1>4, <2>2 DEF WriteManifest, Step, Pursues
    <3> HIDE DEF q
    <3>3. Pursues(q)'
      BY <1>1, <2>2, <3>1 DEF Pursues
    <3> QED
      BY <3>2, <3>3
  <2>3. CASE ~Pursues(p)
    <3>1. \A x \in procs : x # p => x \in procs'
      BY <1>4 DEF WriteManifest, Step
    <3> QED
      BY <1>1, <2>1, <2>3, <3>1, PursuitStays
  <2> QED
    BY <2>2, <2>3
<1>5. ASSUME NEW p \in procs, MarkManifest(p)
      PROVE  current' \in signals' \/ \E q \in procs' : Pursues(q)'
  <2> DEFINE q == [p EXCEPT !.phase = AfterMark(p)]
  <2>1. /\ p.phase = "mark" /\ p.t \in 2 .. current /\ UNCHANGED signals
        /\ \A x \in procs : x # p => x \in procs'
        /\ \/ UNCHANGED transition
           \/ transition[p.t].successor = "blocked" /\ q \in procs'
              /\ transition' = [transition EXCEPT ![p.t].manifest = "current", ![p.t].successor = "pending"]
    BY <1>5 DEF MarkManifest, Step, IInv, ProcsAreSound
  <2>2. /\ DOMAIN transition' = DOMAIN transition
        /\ \/ transition'[current] = transition[current]
           \/ p.t = current /\ transition[current].successor = "blocked"
              /\ transition'[current].manifest = "current" /\ transition'[current].successor = "pending"
    BY <1>2, <2>1 DEF TransitionRow
  <2>3. current \in Unsettled
    BY <1>1, <2>2 DEF Unsettled, Settled
  <2>4. Openable(current) => Openable(current)'
    BY <1>1, <2>2 DEF Openable
  <2>5. Pursues(p) => q \in procs' /\ Pursues(q)'
    <3>1. SUFFICES ASSUME Pursues(p) PROVE q \in procs' /\ Pursues(q)'
        OBVIOUS
    <3>2. p.by = "handler" /\ p.t = current
      BY <3>1 DEF Pursues
    <3>3. q.by = "handler" /\ q.t = current /\ q.phase = "prepare"
      BY <1>2, <3>2 DEF ProcRow, AfterMark
    <3>4. q \in procs' /\ Openable(current)'
      <4>1. CASE transition[current].successor = "blocked"
        <5>1. transition' = [transition EXCEPT ![p.t].manifest = "current", ![p.t].successor = "pending"]
              /\ q \in procs'
          BY <1>5, <3>2, <4>1 DEF MarkManifest, Step
        <5> QED
          BY <1>1, <1>2, <2>1, <3>2, <5>1 DEF Openable, TransitionRow
      <4>2. CASE transition[current].successor # "blocked"
        <5>1. Openable(current)
          BY <1>2, <2>1, <2>3, <3>2, <4>2 DEF IInv, BarrierRows, Openable, Unsettled, Settled
        <5>2. q \in procs'
          BY <1>5, <3>2, <4>2, <5>1 DEF MarkManifest, Step, Openable
        <5> QED
          BY <2>4, <5>1, <5>2
      <4> QED
        BY <4>1, <4>2
    <3> HIDE DEF q
    <3> QED
      BY <1>1, <3>3, <3>4 DEF Pursues
  <2> HIDE DEF q
  <2> QED
    BY <1>1, <2>1, <2>3, <2>4, <2>5, PursuitMoves
<1>6. ASSUME NEW p \in procs, PrepareSuccessor(p)
      PROVE  current' \in signals' \/ \E q \in procs' : Pursues(q)'
  <2>1. UNCHANGED <<transition, signals, lane>> /\ current \in Unsettled
    BY <1>1, <1>6 DEF PrepareSuccessor, workRows, Unsettled, Settled
  <2>2. CASE Pursues(p)
    <3>1. p.t = current /\ Openable(current) /\ lane[transition[current].member] = "replanned"
      BY <1>1, <1>6, <2>1, <2>2, OwedHasLane DEF Pursues, PrepareSuccessor
    <3>2. PICK h : h = Handler(current, "commit")
      OBVIOUS
    <3>3. h \in procs'
      BY <1>1, <1>6, <3>1, <3>2 DEF PrepareSuccessor
    <3>4. h.by = "handler" /\ h.t = current /\ h.phase = "commit" /\ h.rev = current /\ h.control = controlRevision
      BY <3>2 DEF Handler
    <3>5. Pursues(h)'
      BY <1>1, <2>1, <3>1, <3>4 DEF Pursues, Openable
    <3> QED
      BY <3>3, <3>5
  <2>3. CASE ~Pursues(p)
    <3>1. \A x \in procs : x # p => x \in procs'
      BY <1>6 DEF PrepareSuccessor
    <3> QED
      BY <1>1, <2>1, <2>3, <3>1, PursuitStays
  <2> QED
    BY <2>2, <2>3
<1>7. ASSUME NEW p \in procs, OpenSuccessor(p)
      PROVE  current' \in signals' \/ \E q \in procs' : Pursues(q)'
  <2>1. UNCHANGED signals /\ (\A x \in procs : x # p => x \in procs') /\ p.t \in 2 .. current
    BY <1>7 DEF OpenSuccessor, IInv, ProcsAreSound
  <2>2. UNCHANGED transition
    <3>1. SUFFICES ASSUME current = p.rev, MayClaim(p), transition' = Claim(p.t) PROVE FALSE
      BY <1>7 DEF OpenSuccessor
    <3>2. p.t = current /\ transition'[current].successor = "opened"
      BY <1>2, <2>1, <3>1 DEF MayClaim, Claim, TransitionRow
    <3> QED
      BY <1>1, <3>2 DEF Unsettled, Settled
  <2>3. current \in Unsettled
    BY <1>1, <2>2 DEF Unsettled, Settled
  <2>4. ~Pursues(p)
    <3>1. SUFFICES ASSUME Pursues(p) PROVE FALSE
        OBVIOUS
    <3>2. /\ p.t = current /\ Openable(current) /\ p.rev = current /\ p.control = controlRevision
          /\ lane[transition[current].member] = "replanned"
      BY <1>1, <1>7, <2>3, <3>1, OwedHasLane DEF Pursues, OpenSuccessor
    <3>3. transition' = Claim(current)
      BY <1>1, <1>7, <3>2 DEF OpenSuccessor, MayClaim
    <3>4. transition'[current].successor = "opened"
      BY <1>2, <2>1, <3>2, <3>3 DEF Claim, TransitionRow
    <3> QED
      BY <2>2, <2>3, <3>4 DEF Unsettled, Settled
  <2> QED
    BY <1>1, <2>1, <2>2, <2>3, <2>4, PursuitStays
<1> QED
  BY <1>3, <1>4, <1>5, <1>6, <1>7 DEF ReplanHandler

\* Control takes no pursuit away: a resume opens what the pause left owed.
LEMMA OperatorPursues ==
    ASSUME IInv, LatestIsPursued, taskStatus' = "running", (current \in Unsettled)', OperatorStep
    PROVE  current' \in signals' \/ \E q \in procs' : Pursues(q)'
<1>1. UNCHANGED <<current, signals>>
  BY DEF OperatorStep, PauseTask, CancelTask, StartResume, PlanResume, CommitResume, teamRows
<1>2. CASE PauseTask \/ CancelTask
  BY <1>2 DEF PauseTask, CancelTask
<1>3. CASE StartResume
  BY <1>3 DEF StartResume, taskRow
<1>4. ASSUME NEW p \in procs, PlanResume(p)
      PROVE  current' \in signals' \/ \E q \in procs' : Pursues(q)'
  <2>1. /\ UNCHANGED <<taskStatus, controlRevision, transition>> /\ p.phase = "plan"
        /\ \A x \in procs : x # p => x \in procs'
    BY <1>4 DEF PlanResume, Step, taskRow
  <2>2. current \in Unsettled /\ ~Pursues(p)
    BY <1>1, <2>1 DEF Unsettled, Settled, Pursues
  <2> QED
    BY <1>1, <2>1, <2>2, PursuitStays
<1>5. ASSUME NEW p \in procs, CommitResume(p)
      PROVE  current' \in signals' \/ \E q \in procs' : Pursues(q)'
  <2> DEFINE mine == {m \in Everyone : Runnable(m)}
  <2>1. p.by = "resume" /\ procs' = procs \ {p}
    BY <1>5 DEF CommitResume
  <2>2. CASE UNCHANGED <<taskRow, transition>>
    <3>1. current \in Unsettled /\ ~Pursues(p) /\ UNCHANGED <<taskStatus, controlRevision>>
      BY <1>1, <2>1, <2>2 DEF Unsettled, Settled, Pursues, taskRow
    <3> QED
      BY <1>1, <2>1, <2>2, <3>1, PursuitStays
  <2>3. ASSUME taskStatus = "paused",
               transition' = IF \E m \in mine : lane[m] = "replanned" THEN Claim(current) ELSE transition
        PROVE  FALSE
    <3>1. DOMAIN transition' = DOMAIN transition
      BY <2>3 DEF Claim
    <3>2. current \in Unsettled
      <4>1. CASE \E m \in mine : lane[m] = "replanned"
        <5>1. transition' = Claim(current) /\ current \in DOMAIN transition
          BY <1>1, <2>3, <3>1, <4>1 DEF Unsettled
        <5>2. transition'[current].successor = "opened"
          BY <5>1 DEF Claim, IInv, Typed, TransitionRow
        <5> QED
          BY <1>1, <5>2 DEF Unsettled, Settled
      <4>2. CASE ~ \E m \in mine : lane[m] = "replanned"
        BY <1>1, <2>3, <4>2 DEF Unsettled, Settled
      <4> QED
        BY <4>1, <4>2
    <3>3. transition[current].member \in mine /\ lane[transition[current].member] = "replanned"
      BY <2>3, <3>2, OwedHasLane DEF Runnable
    <3>4. transition' = Claim(current) /\ current \in DOMAIN transition
      BY <2>3, <3>2, <3>3 DEF Unsettled
    <3>5. transition'[current].successor = "opened"
      BY <3>4 DEF Claim, IInv, Typed, TransitionRow
    <3> QED
      BY <1>1, <3>5 DEF Unsettled, Settled
  <2> QED
    BY <1>5, <2>2, <2>3 DEF CommitResume, StillPaused
<1> QED
  BY <1>2, <1>3, <1>4, <1>5 DEF OperatorStep

\* Only a replan makes a transition that is owed.
LEMMA OwedShrinks ==
    ASSUME IInv, [Next]_vars, current' = current
    PROVE  /\ taskStatus' \in {"running", "paused"} => taskStatus \in {"running", "paused"}
           /\ \A t \in 2 .. current :
                transition'[t].member = transition[t].member /\ (Owed(t)' => Owed(t))
<1> DEFINE Shrinks ==
        \A t \in 2 .. current :
            transition'[t].member = transition[t].member /\ (Owed(t)' => Owed(t))
           Active == taskStatus' \in {"running", "paused"} => taskStatus \in {"running", "paused"}
<1>1. transition \in [2 .. current -> TransitionRow] /\ procs \subseteq ProcRow /\ current \in Nat
  BY DEF IInv, Typed
<1>2. transition' = transition => Shrinks
  BY DEF Owed
<1>3. ASSUME NEW t, transition' = ManifestFailed(t) PROVE Shrinks
  BY <1>1, <1>3 DEF ManifestFailed, Settled, Owed, TransitionRow
<1>4. ASSUME NEW t, transition' = Claim(t) PROVE Shrinks
  BY <1>1, <1>4 DEF Claim, Owed, TransitionRow
<1>5. CASE MemberStep
  <2>1. ASSUME NEW p \in planned,
               NEW mu \in Mutations(team[p.rev].members, p.member, Fresh, Cardinality(DOMAIN team) + 1),
               CommitReplan(p, mu)
        PROVE  FALSE
    <3>1. Cardinality(DOMAIN team) = current
      BY FS_Interval DEF IInv, Typed
    <3> QED
      BY <1>1, <2>1, <3>1 DEF CommitReplan
  <2>2. transition' = transition /\ Active
    BY <1>5, <2>1 DEF MemberStep, Delegate, Return, PlanReplan, Redispatch, Complete, Authority, MayReturn,
       taskRow
  <2> QED
    BY <1>2, <2>2
<1>6. CASE \E m \in Everyone : ContinueWave(m)
  <2>1. transition' = transition /\ Active
    BY <1>6 DEF ContinueWave, taskRow
  <2> QED
    BY <1>2, <2>1
<1>7. CASE ReplanHandler
  <2>1. Active
    BY <1>7 DEF ReplanHandler, ReceiveReplanCommitted, WriteManifest, MarkManifest, PrepareSuccessor,
       OpenSuccessor, taskRow
  <2>2. ASSUME NEW p \in procs, MarkManifest(p) PROVE Shrinks
    BY <1>1, <1>2, <2>2 DEF MarkManifest, Owed, TransitionRow
  <2>3. ASSUME NEW t \in signals, ReceiveReplanCommitted(t) PROVE Shrinks
    BY <1>2, <1>3, <2>3 DEF ReceiveReplanCommitted
  <2>4. ASSUME NEW p \in procs, WriteManifest(p) \/ PrepareSuccessor(p) \/ OpenSuccessor(p) PROVE Shrinks
    BY <1>2, <1>4, <2>4 DEF WriteManifest, PrepareSuccessor, OpenSuccessor
  <2> QED
    BY <1>7, <2>1, <2>2, <2>3, <2>4 DEF ReplanHandler
<1>8. CASE OperatorStep
  <2>1. Active
    BY <1>8 DEF OperatorStep, PauseTask, CancelTask, StartResume, PlanResume, CommitResume, StillPaused,
       taskRow
  <2>2. ASSUME CancelTask PROVE Shrinks
    BY <1>1, <2>2 DEF CancelTask, CancelTransition, Owed, TransitionRow
  <2>3. ASSUME ~CancelTask PROVE Shrinks
    BY <1>2, <1>4, <1>8, <2>3 DEF OperatorStep, PauseTask, StartResume, PlanResume, CommitResume
  <2> QED
    BY <2>1, <2>2, <2>3
<1>9. CASE Fault
  <2>1. Active
    BY <1>9 DEF Fault, FailManifest, FailSuccessor, LoseProc, LoseSignal, Restart, taskRow
  <2>2. ASSUME NEW p \in procs, FailSuccessor(p) PROVE Shrinks
    BY <1>1, <1>2, <2>2 DEF FailSuccessor, Openable, Owed, TransitionRow
  <2>3. ASSUME NEW p \in procs, FailManifest(p) PROVE Shrinks
    BY <1>2, <1>3, <2>3 DEF FailManifest
  <2>4. ASSUME Restart \/ (\E p \in procs : LoseProc(p)) \/ (\E t \in signals : LoseSignal(t)) PROVE Shrinks
    BY <1>2, <2>4 DEF LoseProc, LoseSignal, Restart
  <2> QED
    BY <1>9, <2>1, <2>2, <2>3, <2>4 DEF Fault
<1>10. CASE UNCHANGED vars
  <2>1. transition' = transition /\ Active
    BY <1>10 DEF vars, taskRow
  <2> QED
    BY <1>2, <2>1
<1> QED
  BY <1>5, <1>6, <1>7, <1>8, <1>9, <1>10 DEF Next

\* A new revision is owed by its own lane; for the one there was, nothing is
\* owed that was not.
LEMMA NextLatestIsLast == IInv /\ LatestIsLast /\ [Next]_vars => LatestIsLast'
<1> SUFFICES ASSUME IInv, LatestIsLast, [Next]_vars, (taskStatus \in {"running", "paused"})',
                    NEW t \in 2 .. current', Owed(t)',
                    (transition[t].member = transition[current].member)'
             PROVE  t = current'
  BY DEF LatestIsLast
<1>1. IInv'
  BY NextIInv
<1>2. CASE current' = current
  <2>1. current \in 2 .. current
    BY <1>2 DEF IInv, Typed
  <2> QED
    BY <1>2, <2>1, OwedShrinks DEF LatestIsLast
<1>3. CASE current' # current
  <2>1. PICK p \in planned :
          \E mu \in Mutations(team[p.rev].members, p.member, Fresh, Cardinality(DOMAIN team) + 1) :
            CommitReplan(p, mu)
    BY <1>3 DEF Next, vars, teamRows, MemberStep, Delegate, Return, PlanReplan, Redispatch, Complete,
       ContinueWave, ReplanHandler, ReceiveReplanCommitted, WriteManifest, MarkManifest, PrepareSuccessor,
       OpenSuccessor, OperatorStep, PauseTask, CancelTask, StartResume, PlanResume, CommitResume,
       Fault, FailManifest, FailSuccessor, LoseProc, LoseSignal, Restart
  <2>2. Owed(current)' /\ current' \in 2 .. current'
    <3>1. Cardinality(DOMAIN team) = current /\ current \in Nat \ {0}
      BY FS_Interval DEF IInv, Typed
    <3>2. current' = current + 1 /\ transition'[current'].successor = "blocked"
      BY <2>1, <3>1 DEF CommitReplan, StageTransition
    <3> QED
      BY <3>1, <3>2 DEF Owed
  <2> QED
    BY <1>1, <2>2 DEF IInv, LanesMatch
<1> QED
  BY <1>2, <1>3

\* Without a fault the latest replan stays pursued.
LEMMA NextPursued ==
    ASSUME IInv, faults \in Nat, LatestIsPursued, [Next]_vars, faults' = faults
    PROVE  LatestIsPursued'
<1> SUFFICES ASSUME taskStatus' = "running", (current \in Unsettled)'
             PROVE  current' \in signals' \/ \E q \in procs' : Pursues(q)'
  BY DEF LatestIsPursued
<1>1. CASE UNCHANGED <<taskStatus, controlRevision, current, transition, signals, procs>>
  <2>1. current \in Unsettled
    BY <1>1 DEF Unsettled, Settled
  <2> QED
    BY <1>1, <2>1, PursuitStays
<1>2. CASE MemberStep
  <2>1. ASSUME NEW p \in planned,
               NEW mu \in Mutations(team[p.rev].members, p.member, Fresh, Cardinality(DOMAIN team) + 1),
               CommitReplan(p, mu)
        PROVE  current' \in signals'
    BY <2>1 DEF CommitReplan
  <2>2. CASE \E p \in planned :
               \E mu \in Mutations(team[p.rev].members, p.member, Fresh, Cardinality(DOMAIN team) + 1) :
                 CommitReplan(p, mu)
    BY <2>1, <2>2
  <2>3. CASE ~ \E p \in planned :
               \E mu \in Mutations(team[p.rev].members, p.member, Fresh, Cardinality(DOMAIN team) + 1) :
                 CommitReplan(p, mu)
    <3>1. UNCHANGED <<taskStatus, controlRevision, current, transition, signals, procs>>
      BY <1>2, <2>3 DEF MemberStep, Delegate, Return, PlanReplan, Redispatch, Complete, taskRow, teamRows
    <3> QED
      BY <1>1, <3>1
  <2> QED
    BY <2>2, <2>3
<1>3. CASE \E m \in Everyone : ContinueWave(m)
  <2>1. UNCHANGED <<taskStatus, controlRevision, current, transition, signals, procs>>
    BY <1>3 DEF ContinueWave, taskRow, teamRows, volatile
  <2> QED
    BY <1>1, <2>1
<1>4. CASE ReplanHandler
  BY <1>4, HandlerPursues
<1>5. CASE OperatorStep
  BY <1>5, OperatorPursues
<1>6. CASE Fault
  <2>1. faults' = faults + 1
    BY <1>6 DEF Fault, FailManifest, FailSuccessor, LoseProc, LoseSignal, Restart
  <2> QED
    BY <2>1
<1>7. CASE UNCHANGED vars
  <2>1. UNCHANGED <<taskStatus, controlRevision, current, transition, signals, procs>>
    BY <1>7 DEF vars, taskRow, teamRows, volatile
  <2> QED
    BY <1>1, <2>1
<1> QED
  BY <1>2, <1>3, <1>4, <1>5, <1>6, <1>7 DEF Next

LEMMA FaultsCount == [Next]_vars => faults' = faults \/ faults' = faults + 1
<1> SUFFICES ASSUME [Next]_vars PROVE faults' = faults \/ faults' = faults + 1
  OBVIOUS
<1>1. CASE Fault
  BY <1>1 DEF Fault, FailManifest, FailSuccessor, LoseProc, LoseSignal, Restart
<1>2. CASE ~Fault
  BY <1>2 DEF Next, vars, MemberStep, Delegate, Return, PlanReplan, Redispatch, Complete, CommitReplan,
     ContinueWave, ReplanHandler, ReceiveReplanCommitted, WriteManifest, MarkManifest, PrepareSuccessor,
     OpenSuccessor, OperatorStep, PauseTask, CancelTask, StartResume, PlanResume, CommitResume
<1> QED
  BY <1>1, <1>2

LEMMA FaultsAreCounted == TypeOK => faults \in Nat
  BY TeamAssumption DEF TypeOK

\* While the Task runs and nothing has failed or been lost, the replan that led
\* to the current Team is never forgotten: its hint waits for the router, or a
\* handler holds every read its next step compares (replan/continuation.py,
\* post_commit/router.py).  A pause that spends the hint leaves the transition to
\* the resume (paused_continuation/sources.py), and a later replan brings its own.
THEOREM LatestReplanPursued == Spec => []OwedReplanIsPursued
<1> DEFINE Inv == (faults = 0 => LatestIsPursued) /\ LatestIsLast
<1>1. Init => Inv
  <2> SUFFICES ASSUME Init PROVE Inv
    OBVIOUS
  <2>1. current = 1 /\ DOMAIN transition = {}
    BY DEF Init
  <2> QED
    BY <2>1 DEF LatestIsPursued, LatestIsLast, Unsettled
<1>2. IInv /\ TypeOK /\ Inv /\ [Next]_vars => Inv'
  <2> SUFFICES ASSUME IInv, TypeOK, Inv, [Next]_vars PROVE Inv'
    OBVIOUS
  <2>1. LatestIsLast'
    BY NextLatestIsLast
  <2>2. ASSUME faults' = 0 PROVE LatestIsPursued'
    <3>1. faults \in Nat
      BY FaultsAreCounted
    <3>2. faults = 0
      BY <2>2, <3>1, FaultsCount
    <3> QED
      BY <2>2, <3>1, <3>2, NextPursued
  <2> QED
    BY <2>1, <2>2
<1>3. IInv /\ Inv => OwedReplanIsPursued
  <2> SUFFICES ASSUME IInv, Inv, current \in DOMAIN transition,
                      lane[transition[current].member] = "replanned", Undisturbed
               PROVE  current \in signals \/ \E p \in procs : Pursues(p)
    BY DEF OwedReplanIsPursued
  <2>1. taskStatus = "running" /\ LatestIsPursued /\ LatestIsLast
    BY DEF Undisturbed
  <2>2. transition[current].member \in Everyone
    BY DEF IInv, Typed, TransitionRow
  <2>3. PICK t \in 2 .. current : Owed(t) /\ transition[t].member = transition[current].member
    BY <2>1, <2>2 DEF IInv, LanesMatch
  <2>4. current \in Unsettled
    BY <2>1, <2>3 DEF LatestIsLast, Owed, Unsettled, Settled
  <2> QED
    BY <2>1, <2>4 DEF LatestIsPursued
<1> HIDE DEF Inv
<1> QED
  BY <1>1, <1>2, <1>3, InductiveInvariant, TypeCorrect, PTL DEF Spec

\* Replans of others, pauses, resumes and handlers that come too late take the
\* pursuit from no replan: only a failed projection or preparation or a lost
\* hint or handler does, and the startup audit puts it back
\* (post_commit/dispatch_startup.py).
THEOREM PursuitKept == Spec => PursuitIsKept
<1> DEFINE A == /\ LatestIsPursued /\ faults' = faults => LatestIsPursued'
                /\ Restart => LatestIsPursued'
<1>1. IInv /\ TypeOK /\ [Next]_vars => [A]_vars
  <2> SUFFICES ASSUME IInv, TypeOK, [Next]_vars PROVE A
    OBVIOUS
  <2>1. LatestIsPursued /\ faults' = faults => LatestIsPursued'
    BY FaultsAreCounted, NextPursued
  <2>2. ASSUME Restart PROVE LatestIsPursued'
    <3>1. UNCHANGED <<current, transition>> /\ signals' = Unsettled
      BY <2>2 DEF Restart, AuditedTransitions, teamRows
    <3>2. Unsettled' = Unsettled
      BY <3>1 DEF Unsettled, Settled
    <3> QED
      BY <3>1, <3>2 DEF LatestIsPursued
  <2> QED
    BY <2>1, <2>2
<1> QED
  BY <1>1, InductiveInvariant, TypeCorrect, PTL DEF Spec, PursuitIsKept
=============================================================================
