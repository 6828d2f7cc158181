------------------------------- MODULE Replan -------------------------------
(***************************************************************************)
(* Replans of one running Task.  A member replans its own subtree from its *)
(* current Dispatch: the Team moves to a new revision, the Dispatch closes *)
(* and a ReplanTransition owes the lane one successor, which may open only *)
(* once manifest.md shows the new Team.  Members of disjoint branches work *)
(* at the same time, so several replans, handlers and a resume overlap.    *)
(*                                                                         *)
(* Delegation is kept to what a replan meets: who works, who waits for     *)
(* whom, and whose green returns count (module DelegationRuntime has the   *)
(* rest).  A transition is named by the Team revision it leads to.         *)
(***************************************************************************)
EXTENDS TeamPlanning

CONSTANTS
    Members,     \* the members the Workflow authored
    Parent,      \* their parents
    Spare,       \* identities for the members that replans add
    MaxReplans,  \* bound on the Team revisions that replans create
    MaxWaves,    \* bound on Delegation Waves
    MaxControl,  \* bound on control_revision
    MaxFaults    \* bound on failed projections and preparations, and restarts

ASSUME TeamAssumption ==
    /\ IsFiniteSet(Members) /\ IsFiniteSet(Spare) /\ Members \cap Spare = {}
    /\ Root \in Members /\ None \notin Members \cup Spare
    /\ Parent \in [Members \ {Root} -> Members]
    /\ MaxReplans \in Nat /\ MaxWaves \in Nat /\ MaxControl \in Nat /\ MaxFaults \in Nat

\* The members as revision 1 selects them.
AuthoredTeam ==
    [m \in Members |->
        [parent |-> IF m = Root THEN None ELSE Parent[m], config |-> 1, basis |-> 1]]

\* The authored Team is one tree: a Workflow nests its members under the root.
ASSUME TreeAssumption == \A m \in Members : Root \in Path(AuthoredTeam, m)

VARIABLES
    taskStatus,      \* Task.status
    controlRevision, \* Task.control_revision
    current,         \* Task.current_team_revision_id
    team,            \* TeamRevision rows and the members they select
    lane,            \* what each member's open Assignment is doing
    pinned,          \* the revision a member's latest Dispatch was opened under
    awaits,          \* children a waiting member's Wave still waits for
    waves,           \* Delegation Waves so far
    green,           \* accepted green boundaries: member and pinned revision
    transition,      \* ReplanTransition rows
    manifest,        \* the revision manifest.md shows
    shown,           \* every revision it has shown (a history variable)
    planned,         \* replan transactions that have read and not yet written
    signals,         \* ReplanCommitted hints not yet handled
    procs,           \* handlers, resumes and startup projections under way
    faults           \* failures and restarts so far

taskRow == <<taskStatus, controlRevision>>
teamRows == <<current, team>>
workRows == <<lane, pinned, awaits, waves, green>>
volatile == <<planned, signals, procs>>
files == <<manifest, shown>>
vars == <<taskRow, teamRows, workRows, transition, files, volatile, faults>>

-----------------------------------------------------------------------------
(* Rows and reads                                                           *)

Everyone == Members \cup Spare
Revisions == 1 .. (MaxReplans + 1)

\* "none": no open Assignment; "live": a current Dispatch; "waiting": on a
\* Wave; "stopped" and "replanned": the last Dispatch was closed by a pause or
\* by a replan and has no successor yet.
LaneState == {"none", "live", "waiting", "stopped", "replanned"}

TransitionRow ==
    [member    : Everyone,
     manifest  : {"pending", "current", "repair_required"},
     successor : {"blocked", "pending", "opening_failed", "opened", "cancelled"}]

Proc ==
    [by      : {"handler", "resume", "startup"},
     t       : Revisions \cup {0},  \* the transition; 0: none to repair
     phase   : {"write", "mark", "prepare", "plan", "commit"},
     control : 0 .. MaxControl,     \* control_revision and Team revision that
     rev     : Revisions]           \* the process read

Team == team[current].members
Pinned(m) == team[pinned[m]].members

SelectionIsCurrent(m) == SameSelection(m, Pinned(m), Team)

\* The member's Dispatch may run node operations.
Authority(m) == taskStatus = "running" /\ lane[m] = "live" /\ SelectionIsCurrent(m)

\* An accepted green of the member under this very selection.
Participated(m, members) ==
    \E g \in green : g.member = m /\ SameSelection(m, team[g.rev].members, members)

Settled(t) == transition[t].successor \in {"opened", "cancelled"}
Unsettled == {t \in DOMAIN transition : ~Settled(t)}
Openable(t) ==
    /\ transition[t].manifest = "current"
    /\ transition[t].successor \in {"pending", "opening_failed"}

Fresh == Spare \ UNION {DOMAIN team[n].members : n \in DOMAIN team}
Forget(m) == {p \in planned : p.member # m}

\* Dispatches open for these members under the current Team.
OpenFor(S) ==
    /\ lane' = [m \in Everyone |-> IF m \in S THEN "live" ELSE lane[m]]
    /\ pinned' = [m \in Everyone |-> IF m \in S THEN current ELSE pinned[m]]

-----------------------------------------------------------------------------
(* Delegated work around a replan                                           *)

Delegate(m, S) ==
    /\ Authority(m)
    /\ S # {}
    /\ \A c \in S : lane[c] = "none"
    /\ waves < MaxWaves
    /\ waves' = waves + 1
    /\ lane' = [x \in Everyone |->
                  IF x = m THEN "waiting" ELSE IF x \in S THEN "live" ELSE lane[x]]
    /\ pinned' = [x \in Everyone |-> IF x \in S THEN current ELSE pinned[x]]
    /\ awaits' = [awaits EXCEPT ![m] = S]
    /\ planned' = Forget(m)
    /\ UNCHANGED <<taskRow, teamRows, green, transition, files, signals, procs, faults>>

MayReturn(m, outcome) ==
    /\ Authority(m)
    /\ outcome = "green" => \A c \in Kids(Pinned(m), m) : Participated(c, Pinned(m))

AcceptGreen(m, outcome) ==
    IF outcome = "green" THEN green \cup {[member |-> m, rev |-> pinned[m]]} ELSE green

\* A child's terminal Checkpoint settles its place in the Wave.
Return(m, outcome) ==
    /\ m # Root
    /\ MayReturn(m, outcome)
    /\ lane' = [lane EXCEPT ![m] = "none"]
    /\ awaits' = [p \in Everyone |-> awaits[p] \ {m}]
    /\ green' = AcceptGreen(m, outcome)
    /\ planned' = Forget(m)
    /\ UNCHANGED <<taskRow, teamRows, pinned, waves, transition, files, signals, procs, faults>>

\* The root's terminal Checkpoint ends the Task: nobody else is working and
\* its Dispatch was opened under the Team that is current.
Complete(outcome) ==
    /\ MayReturn(Root, outcome)
    /\ pinned[Root] = current
    /\ \A m \in Everyone \ {Root} : lane[m] = "none"
    /\ taskStatus' = "completed"
    /\ lane' = [lane EXCEPT ![Root] = "none"]
    /\ green' = AcceptGreen(Root, outcome)
    /\ planned' = Forget(Root)
    /\ UNCHANGED <<controlRevision, teamRows, pinned, awaits, waves, transition, files,
                   signals, procs, faults>>

\* A retry Checkpoint or a watchdog replacement: another Dispatch on the lane,
\* under the Team that is current now.
Redispatch(m) ==
    /\ Authority(m)
    /\ pinned[m] # current
    /\ OpenFor({m})
    /\ planned' = Forget(m)
    /\ UNCHANGED <<taskRow, teamRows, awaits, waves, green, transition, files, signals, procs, faults>>

\* The settled Wave's continuation.
ContinueWave(m) ==
    /\ taskStatus = "running"
    /\ lane[m] = "waiting"
    /\ awaits[m] = {}
    /\ OpenFor({m})
    /\ UNCHANGED <<taskRow, teamRows, awaits, waves, green, transition, files, volatile, faults>>

-----------------------------------------------------------------------------
(* The replan transaction: a read, then conditional writes                  *)

PlanReplan(m) ==
    /\ Authority(m)
    /\ Cardinality(DOMAIN team) <= MaxReplans
    /\ planned' = Forget(m) \cup {[member |-> m, rev |-> current, control |-> controlRevision]}
    /\ UNCHANGED <<taskRow, teamRows, workRows, transition, files, signals, procs, faults>>

\* Mutant of TeamUnmoved: the Team pointer is written without comparing it.
TeamUncompared(p) == taskStatus = "running" /\ controlRevision = p.control

\* The Task and its Team are those the transaction read.
TeamUnmoved(p) ==
    /\ taskStatus = "running"
    /\ controlRevision = p.control
    /\ current = p.rev

\* Mutant of StageTransition: the revision is adopted without its transition.
StageNothing(n, m) == transition

StageTransition(n, m) ==
    [r \in DOMAIN transition \cup {n} |->
        IF r = n THEN [member |-> m, manifest |-> "pending", successor |-> "blocked"]
        ELSE transition[r]]

CommitReplan(p, mu) ==
    LET n == Cardinality(DOMAIN team) + 1
        m == p.member
    IN  /\ lane[m] = "live"
        /\ n <= MaxReplans + 1
        /\ TeamUnmoved(p)
        /\ \A x \in mu.affected : lane[x] = "none"
        /\ team' = [r \in 1 .. n |->
                      IF r = n THEN [pred |-> p.rev, members |-> mu.members] ELSE team[r]]
        /\ current' = n
        /\ transition' = StageTransition(n, m)
        /\ lane' = [lane EXCEPT ![m] = "replanned"]
        /\ signals' = signals \cup {n}
        /\ planned' = Forget(m)
        /\ UNCHANGED <<taskRow, pinned, awaits, waves, green, files, procs, faults>>

-----------------------------------------------------------------------------
(* The manifest barrier                                                     *)

Handler(t, phase) ==
    [by |-> "handler", t |-> t, phase |-> phase, control |-> controlRevision, rev |-> current]

Step(p, phase) == (procs \ {p}) \cup {[p EXCEPT !.phase = phase]}

\* Mutant of ManifestFailed: the successor's state is left as it was.
ManifestFailedOnly(t) ==
    IF Settled(t) THEN transition ELSE [transition EXCEPT ![t].manifest = "repair_required"]

ManifestFailed(t) ==
    IF Settled(t) THEN transition
    ELSE [transition EXCEPT ![t].manifest = "repair_required", ![t].successor = "blocked"]

\* The handler takes its hint: a settled transition needs nothing, a current
\* manifest needs no projection, and a Team that has moved on cannot be shown.
ReceiveReplanCommitted(t) ==
    /\ t \in signals
    /\ signals' = signals \ {t}
    /\ \/ Settled(t) /\ UNCHANGED <<transition, procs>>
       \/ /\ ~Settled(t)
          /\ transition[t].manifest = "current"
          /\ procs' = procs \cup {Handler(t, "prepare")}
          /\ UNCHANGED transition
       \/ /\ ~Settled(t)
          /\ transition[t].manifest # "current"
          /\ current = t
          /\ procs' = procs \cup {Handler(t, "write")}
          /\ UNCHANGED transition
       \/ /\ ~Settled(t)
          /\ transition[t].manifest # "current"
          /\ current # t
          /\ transition' = ManifestFailed(t)
          /\ UNCHANGED procs
    /\ UNCHANGED <<taskRow, teamRows, workRows, files, planned, faults>>

\* The content was rendered from the current Team when the process read it.
WriteManifest(p) ==
    /\ p.phase = "write"
    /\ manifest' = p.rev
    /\ shown' = shown \cup {p.rev}
    /\ procs' = IF p.by = "startup" THEN procs \ {p} ELSE Step(p, "mark")
    /\ UNCHANGED <<taskRow, teamRows, workRows, transition, planned, signals, faults>>

\* Mutant of FailManifest: the barrier goes on as if the file were written.
FailManifestSilently(p) ==
    /\ p.phase = "write"
    /\ faults < MaxFaults
    /\ faults' = faults + 1
    /\ procs' = IF p.by = "startup" THEN procs \ {p} ELSE Step(p, "mark")
    /\ UNCHANGED <<taskRow, teamRows, workRows, transition, files, planned, signals>>

\* Rendering or writing raises.
FailManifest(p) ==
    /\ p.phase = "write"
    /\ faults < MaxFaults
    /\ faults' = faults + 1
    /\ procs' = procs \ {p}
    /\ transition' = IF p.by = "startup" THEN transition ELSE ManifestFailed(p.t)
    /\ UNCHANGED <<taskRow, teamRows, workRows, files, planned, signals>>

\* Mutant of AfterMark: the handler repairs the manifest and leaves it at that.
AfterMarkNothing(p) == "plan"

AfterMark(p) == IF p.by = "resume" THEN "plan" ELSE "prepare"

\* Only a blocked transition is marked; one that was marked meanwhile is as
\* good, and one that was cancelled ends the process.
MarkManifest(p) ==
    /\ p.phase = "mark"
    /\ \/ /\ transition[p.t].successor = "blocked"
          /\ transition' = [transition EXCEPT ![p.t].manifest = "current",
                                              ![p.t].successor = "pending"]
          /\ procs' = Step(p, AfterMark(p))
       \/ /\ transition[p.t].successor # "blocked"
          /\ procs' = IF transition[p.t].manifest = "current" THEN Step(p, AfterMark(p))
                      ELSE procs \ {p}
          /\ UNCHANGED transition
    /\ UNCHANGED <<taskRow, teamRows, workRows, files, planned, signals, faults>>

-----------------------------------------------------------------------------
(* The successor Dispatch                                                   *)

\* The handler reads the transition and a running Task with the lane between
\* Dispatches, and prepares the request under the Team it reads.
PrepareSuccessor(p) ==
    /\ p.phase = "prepare"
    /\ procs' =
        IF /\ Openable(p.t)
           /\ taskStatus = "running"
           /\ lane[transition[p.t].member] = "replanned"
        THEN (procs \ {p}) \cup {Handler(p.t, "commit")}
        ELSE procs \ {p}
    /\ UNCHANGED <<taskRow, teamRows, workRows, transition, files, planned, signals, faults>>

\* The claim on the transition, by the process that prepared its successor.
MayClaim(p) ==
    /\ p.rev = p.t
    /\ Openable(p.t)

Claim(t) == [transition EXCEPT ![t].successor = "opened"]

OpenSuccessor(p) ==
    /\ p.phase = "commit"
    /\ p.by = "handler"
    /\ procs' = procs \ {p}
    /\ \/ /\ taskStatus = "running"
          /\ controlRevision = p.control
          /\ current = p.rev
          /\ lane[transition[p.t].member] = "replanned"
          /\ MayClaim(p)
          /\ transition' = Claim(p.t)
          /\ OpenFor({transition[p.t].member})
       \/ /\ \/ taskStatus # "running"
             \/ controlRevision # p.control
             \/ current # p.rev
             \/ lane[transition[p.t].member] # "replanned"
             \/ ~MayClaim(p)
          /\ UNCHANGED <<lane, pinned, transition>>
    /\ UNCHANGED <<taskRow, teamRows, awaits, waves, green, files, planned, signals, faults>>

\* Preparing the request raises: recorded on the transition, nothing else.
FailSuccessor(p) ==
    /\ p.phase = "commit"
    /\ p.by = "handler"
    /\ faults < MaxFaults
    /\ faults' = faults + 1
    /\ procs' = procs \ {p}
    /\ transition' = IF Openable(p.t)
                     THEN [transition EXCEPT ![p.t].successor = "opening_failed"]
                     ELSE transition
    /\ UNCHANGED <<taskRow, teamRows, workRows, files, planned, signals>>

-----------------------------------------------------------------------------
(* The operator                                                             *)

\* Mutant of StopLanes: a replanned lane is stopped like a live one.
StopEveryLane ==
    [m \in Everyone |-> IF lane[m] \in {"live", "replanned"} THEN "stopped" ELSE lane[m]]

StopLanes == [m \in Everyone |-> IF lane[m] = "live" THEN "stopped" ELSE lane[m]]

PauseTask ==
    /\ taskStatus = "running"
    /\ controlRevision < MaxControl
    /\ taskStatus' = "paused"
    /\ controlRevision' = controlRevision + 1
    /\ lane' = StopLanes
    /\ planned' = {}
    /\ UNCHANGED <<teamRows, pinned, awaits, waves, green, transition, files, signals, procs, faults>>

\* Cancel settles the transition that leads to the current Team.
CancelTransition ==
    [t \in DOMAIN transition |->
        IF t = current /\ ~Settled(t) THEN [transition[t] EXCEPT !.successor = "cancelled"]
        ELSE transition[t]]

CancelTask ==
    /\ taskStatus \in {"running", "paused"}
    /\ controlRevision < MaxControl
    /\ taskStatus' = "cancelled"
    /\ controlRevision' = controlRevision + 1
    /\ lane' = [m \in Everyone |-> "none"]
    /\ awaits' = [m \in Everyone |-> {}]
    /\ transition' = CancelTransition
    /\ planned' = {}
    /\ UNCHANGED <<teamRows, pinned, waves, green, files, signals, procs, faults>>

\* Continue first repairs the manifest of the transition to the current Team.
StartResume ==
    LET t == IF current \in Unsettled THEN current ELSE 0
        repairs == t # 0 /\ transition[t].manifest # "current"
    IN  /\ taskStatus = "paused"
        /\ controlRevision < MaxControl
        /\ \A p \in procs : p.by # "resume"
        /\ procs' = procs \cup
            {[by |-> "resume", t |-> t, phase |-> IF repairs THEN "write" ELSE "plan",
              control |-> controlRevision, rev |-> current]}
        /\ UNCHANGED <<taskRow, teamRows, workRows, transition, files, planned, signals, faults>>

StillPaused(p) == taskStatus = "paused" /\ controlRevision = p.control /\ current = p.rev

\* Lanes with a source of their own: a closed tail, a joined Wave, a transition.
Runnable(m) ==
    \/ lane[m] = "stopped"
    \/ lane[m] = "waiting" /\ awaits[m] = {}
    \/ lane[m] = "replanned"

\* The source of a replanned lane is the transition to the current Team.
HasSource(m) ==
    lane[m] = "replanned" =>
        /\ current \in DOMAIN transition
        /\ transition[current].member = m
        /\ Openable(current)

\* Every lane must have its source, or the plan is refused.
PlanResume(p) ==
    /\ p.phase = "plan"
    /\ procs' =
        IF StillPaused(p) /\ \A m \in Everyone : Runnable(m) => HasSource(m)
        THEN Step(p, "commit")
        ELSE procs \ {p}
    /\ UNCHANGED <<taskRow, teamRows, workRows, transition, files, planned, signals, faults>>

\* One transaction resumes the Task, claims every source and opens every
\* successor, or nothing.
CommitResume(p) ==
    LET mine == {m \in Everyone : Runnable(m)}
    IN  /\ p.phase = "commit"
        /\ p.by = "resume"
        /\ procs' = procs \ {p}
        /\ \/ /\ StillPaused(p)
              /\ \A m \in mine : HasSource(m)
              /\ taskStatus' = "running"
              /\ controlRevision' = controlRevision + 1
              /\ OpenFor(mine)
              /\ transition' = IF \E m \in mine : lane[m] = "replanned" THEN Claim(current)
                               ELSE transition
           \/ /\ ~(StillPaused(p) /\ \A m \in mine : HasSource(m))
              /\ UNCHANGED <<taskRow, lane, pinned, transition>>
        /\ UNCHANGED <<teamRows, awaits, waves, green, files, planned, signals, faults>>

-----------------------------------------------------------------------------
(* Lost work and restarts                                                   *)

LoseSignal(t) ==
    /\ t \in signals
    /\ faults < MaxFaults
    /\ faults' = faults + 1
    /\ signals' = signals \ {t}
    /\ UNCHANGED <<taskRow, teamRows, workRows, transition, files, planned, procs>>

LoseProc(p) ==
    /\ faults < MaxFaults
    /\ faults' = faults + 1
    /\ procs' = procs \ {p}
    /\ UNCHANGED <<taskRow, teamRows, workRows, transition, files, planned, signals>>

\* Mutant of AuditedTransitions: only the transition to the current Team.
AuditCurrent == Unsettled \cap {current}

\* The startup audit republishes every transition that is not settled.
AuditedTransitions == Unsettled

\* The startup audit also projects the current Team's manifest again.
Restart ==
    /\ faults < MaxFaults
    /\ faults' = faults + 1
    /\ signals' = AuditedTransitions
    /\ procs' = {[by |-> "startup", t |-> 0, phase |-> "write", control |-> controlRevision,
                  rev |-> current]}
    /\ planned' = {}
    /\ UNCHANGED <<taskRow, teamRows, workRows, transition, files>>

-----------------------------------------------------------------------------

Init ==
    /\ taskStatus = "running"
    /\ controlRevision = 0
    /\ current = 1
    /\ team = [r \in {1} |-> [pred |-> 0, members |-> AuthoredTeam]]
    /\ lane = [m \in Everyone |-> IF m = Root THEN "live" ELSE "none"]
    /\ pinned = [m \in Everyone |-> 1]
    /\ awaits = [m \in Everyone |-> {}]
    /\ waves = 0
    /\ green = {}
    /\ transition = [t \in {} |-> {}]
    /\ manifest = 1
    /\ shown = {1}
    /\ planned = {}
    /\ signals = {}
    /\ procs = {}
    /\ faults = 0

MemberStep ==
    \/ \E m \in DOMAIN Team :
        \/ \E S \in SUBSET Kids(Team, m) : Delegate(m, S)
        \/ \E outcome \in {"green", "blocked"} : Return(m, outcome)
        \/ PlanReplan(m)
        \/ Redispatch(m)
    \/ \E outcome \in {"green", "blocked"} : Complete(outcome)
    \/ \E p \in planned :
        \E mu \in Mutations(team[p.rev].members, p.member, Fresh, Cardinality(DOMAIN team) + 1) :
            CommitReplan(p, mu)

ReplanHandler ==
    \/ \E t \in signals : ReceiveReplanCommitted(t)
    \/ \E p \in procs : WriteManifest(p) \/ MarkManifest(p)
    \/ \E p \in procs : PrepareSuccessor(p) \/ OpenSuccessor(p)

OperatorStep ==
    \/ PauseTask
    \/ CancelTask
    \/ StartResume
    \/ \E p \in procs : PlanResume(p) \/ CommitResume(p)

Fault ==
    \/ \E p \in procs : FailManifest(p) \/ FailSuccessor(p) \/ LoseProc(p)
    \/ \E t \in signals : LoseSignal(t)
    \/ Restart

Next ==
    \/ MemberStep
    \/ \E m \in Everyone : ContinueWave(m)
    \/ ReplanHandler
    \/ OperatorStep
    \/ Fault

Spec == Init /\ [][Next]_vars

\* The router runs every handler it was given a hint for to its end.
FairSpec == Spec /\ WF_vars(ReplanHandler)

-----------------------------------------------------------------------------
(* Properties                                                               *)

TypeOK ==
    /\ taskStatus \in {"running", "paused", "completed", "cancelled"}
    /\ controlRevision \in 0 .. MaxControl
    /\ current \in DOMAIN team
    /\ \E n \in Revisions : DOMAIN team = 1 .. n
    /\ \A r \in DOMAIN team :
        /\ team[r].pred \in 0 .. MaxReplans
        /\ DOMAIN team[r].members \subseteq Everyone
        /\ \A m \in DOMAIN team[r].members :
            team[r].members[m] \in [parent : Everyone \cup {None}, config : Revisions,
                                    basis : Revisions]
    /\ lane \in [Everyone -> LaneState]
    /\ pinned \in [Everyone -> Revisions]
    /\ awaits \in [Everyone -> SUBSET Everyone]
    /\ waves \in 0 .. MaxWaves
    /\ green \subseteq [member : Everyone, rev : Revisions]
    /\ DOMAIN transition = DOMAIN team \ {1}
    /\ \A t \in DOMAIN transition : transition[t] \in TransitionRow
    /\ manifest \in shown
    /\ shown \subseteq DOMAIN team
    /\ planned \subseteq [member : Everyone, rev : Revisions, control : 0 .. MaxControl]
    /\ signals \subseteq DOMAIN transition
    /\ procs \subseteq Proc
    /\ faults \in 0 .. MaxFaults

\* A member that works was told of the branch it now has: nobody's replan ever
\* changes the branch of a member with a live Dispatch, and its selection stays
\* current across the disjoint replans of others (team/currentness.py).
LiveBranchIsCurrent ==
    \A m \in Everyone :
        lane[m] = "live" =>
            /\ SelectionIsCurrent(m)
            /\ Branch(Pinned(m), m) = Branch(Team, m)

\* A green return counts exactly as long as no replan has touched the branch it
\* was given for: no stale one is kept, not even after a change was undone, and
\* none is discarded by a disjoint replan (replan/planning.py renews bases,
\* team/participation.py compares them).
ParticipationIsExact ==
    \A g \in green :
        LET then(r) == Branch(team[r].members, g.member)
        IN  g.member \in DOMAIN Team =>
                (SameSelection(g.member, team[g.rev].members, Team)
                    <=> \A r \in g.rev .. current : then(r) = then(g.rev))

\* A Task completed green has a green return from every member of its final
\* Team, given for the branch that member has in it, however the Team changed
\* while it ran (checkpoint/persistence.py checks direct children only).
CompletedTeamReturnedGreen ==
    taskStatus = "completed" /\ [member |-> Root, rev |-> pinned[Root]] \in green =>
        \A m \in DOMAIN Team :
            \E g \in green :
                g.member = m /\ Branch(team[g.rev].members, m) = Branch(Team, m)

\* No replan is lost: every revision follows the one before it and the Task
\* points to the last, so every accepted mutation is in the current Team
\* (replan/persistence.py compares and sets the pointer).
RevisionsFormALine ==
    /\ current = Cardinality(DOMAIN team)
    /\ \A r \in DOMAIN team : team[r].pred = r - 1

\* The states of the manifest barrier the schema's check constraint allows,
\* which no order of handlers, failures and resumes may leave
\* (persistence/models/runtime/replan.py).
BarrierRows ==
    \A t \in DOMAIN transition :
        \/ transition[t].manifest \in {"pending", "repair_required"}
                /\ transition[t].successor = "blocked"
        \/ transition[t].manifest = "current"
                /\ transition[t].successor \in {"pending", "opening_failed", "opened"}
        \/ transition[t].successor = "cancelled"

\* A lane is between Dispatches after a replan exactly while one transition of
\* its member owes it a successor; the transition is neither forgotten by a
\* pause nor claimed twice (replan/continuation.py, paused_continuation/sources.py).
ReplannedLaneOwnsOneTransition ==
    taskStatus \in {"running", "paused"} =>
        \A m \in Everyone :
            Cardinality({t \in Unsettled : transition[t].member = m})
                = IF lane[m] = "replanned" THEN 1 ELSE 0

\* After a replan a lane runs again only under the Team of its transition, and
\* only once manifest.md has shown that Team: whoever repairs the manifest and
\* whoever opens the successor, and whatever failed in between (runtime.md: "no
\* provider work started").
SuccessorWaitsForManifest ==
    [][\A m \in Everyone :
        lane[m] = "replanned" /\ lane'[m] = "live" =>
            \E t \in DOMAIN transition :
                /\ transition[t].member = m
                /\ t \in shown
                /\ transition'[t].successor = "opened"
                /\ pinned'[m] = t]_vars

\* A restart finds every lane that still waits for its replan's successor.
StartupFindsEveryReplan ==
    [][procs' # {} /\ (\E p \in procs' \ procs : p.by = "startup") =>
        \A m \in Everyone :
            lane[m] = "replanned" => \E t \in signals' : transition[t].member = m]_vars

\* A replan's lane gets its successor while the Task runs and its router and
\* its preparations do not fail, whatever other members do meanwhile
\* (replan/continuation.py).
Undisturbed == taskStatus = "running" /\ faults = 0

ReplanIsContinued ==
    \A m \in Everyone :
        lane[m] = "replanned" /\ Undisturbed ~> lane[m] # "replanned" \/ ~Undisturbed

\* The same for the replan that led to the current Team, whoever made it: a
\* pause that takes the hint away leaves the transition to the resume.
LatestReplanIsContinued ==
    LET owed == current \in DOMAIN transition /\ lane[transition[current].member] = "replanned"
    IN  owed /\ Undisturbed ~> ~owed \/ ~Undisturbed

\* When a transition to the current Team is recorded as current, manifest.md
\* shows the current Team.
CurrentManifestIsShown ==
    current \in DOMAIN transition /\ transition[current].manifest = "current"
        => manifest = current
=============================================================================
