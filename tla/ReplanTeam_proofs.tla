------------------------- MODULE ReplanTeam_proofs -------------------------
(***************************************************************************)
(* What holds of work and green returns across replans, for every Team,    *)
(* every number of replans and every bound: a working member was told of   *)
(* the branch it has, a green return counts exactly as long as its branch  *)
(* was not touched, and a Task completed green has one from every member   *)
(* of its final Team.                                                      *)
(***************************************************************************)
EXTENDS Replan_proofs, TeamPlanning_proofs

\* Everyone was selected under this revision or an earlier one.
Stamped(members, r) ==
    \A m \in DOMAIN members : members[m].config \in 1 .. r /\ members[m].basis \in 1 .. r

TeamsAreTrees ==
    \A r \in 1 .. current : Tree(team[r].members) /\ Stamped(team[r].members, r)

\* A selection is the same in two revisions exactly if no revision from the one to
\* the other changed the branch.
BranchHeld(m, r, s) ==
    \A q \in r .. s : Branch(team[q].members, m) = Branch(team[r].members, m)

BasisIsExact ==
    \A r, s \in 1 .. current :
        r <= s =>
            \A m \in DOMAIN team[r].members \cap DOMAIN team[s].members :
                SameSelection(m, team[r].members, team[s].members) <=> BranchHeld(m, r, s)

\* Who has an open Assignment is a member whose parent's Wave waits for it.
LanesNest ==
    \A m \in Everyone :
        lane[m] # "none" =>
            /\ m \in DOMAIN Team
            /\ m # Root => /\ lane[Team[m].parent] = "waiting"
                           /\ m \in awaits[Team[m].parent]

PinnedExist == \A m \in Everyone : pinned[m] \in 1 .. current

LiveIsCurrent == \A m \in Everyone : lane[m] = "live" => SelectionIsCurrent(m)

GreenRows ==
    \A g \in green : g.rev \in 1 .. current /\ g.member \in DOMAIN team[g.rev].members

\* A green return is backed by green returns of everyone below, for the branches
\* they had in its Team.
Backed(g, m) ==
    \E h \in green :
        h.member = m /\ Branch(team[h.rev].members, m) = Branch(team[g.rev].members, m)

GreenIsBacked ==
    \A g \in green : \A m \in Subtree(team[g.rev].members, g.member) : Backed(g, m)

EndedUnderCurrent == taskStatus = "completed" => pinned[Root] = current

BranchInv ==
    /\ TeamsAreTrees /\ BasisIsExact
    /\ LanesNest /\ PinnedExist /\ LiveIsCurrent
    /\ GreenRows /\ GreenIsBacked /\ EndedUnderCurrent

-----------------------------------------------------------------------------
(* What steps do to the Team and to the work in it                          *)

Steady ==
    /\ UNCHANGED <<lane, pinned, awaits, green>>
    /\ taskStatus' = "completed" => taskStatus = "completed"

\* Dispatches open on lanes that have an open Assignment.
Reopens(S) ==
    /\ taskStatus' = "running"
    /\ \A m \in S : lane[m] # "none" /\ (lane[m] = "waiting" => awaits[m] = {})
    /\ OpenFor(S)
    /\ UNCHANGED <<awaits, green>>

WorkStep ==
    /\ UNCHANGED teamRows
    /\ \/ Steady
       \/ \E m \in DOMAIN Team : \E S \in SUBSET Kids(Team, m) : Delegate(m, S)
       \/ \E m \in DOMAIN Team : \E outcome \in {"green", "blocked"} : Return(m, outcome)
       \/ \E outcome \in {"green", "blocked"} : Complete(outcome)
       \/ \E S \in SUBSET Everyone : Reopens(S)
       \/ PauseTask
       \/ CancelTask

ReplanStep ==
    \E p \in planned :
        \E mu \in Mutations(team[p.rev].members, p.member, Fresh, Cardinality(DOMAIN team) + 1) :
            CommitReplan(p, mu)

LEMMA NextTeamSteps == IInv /\ [Next]_vars => WorkStep \/ ReplanStep
<1> SUFFICES ASSUME IInv, [Next]_vars PROVE WorkStep \/ ReplanStep
  OBVIOUS
<1>1. ASSUME UNCHANGED teamRows, UNCHANGED workRows, UNCHANGED taskStatus
      PROVE  WorkStep
  BY <1>1 DEF WorkStep, Steady, workRows
<1>2. CASE MemberStep
  <2>1. ASSUME NEW m \in DOMAIN Team, NEW S \in SUBSET Kids(Team, m), Delegate(m, S) PROVE WorkStep
    BY <2>1 DEF Delegate, WorkStep
  <2>2. ASSUME NEW m \in DOMAIN Team, NEW outcome \in {"green", "blocked"}, Return(m, outcome)
        PROVE  WorkStep
    BY <2>2 DEF Return, WorkStep
  <2>3. ASSUME NEW m \in DOMAIN Team, PlanReplan(m) PROVE WorkStep
    BY <1>1, <2>3 DEF PlanReplan, taskRow
  <2>4. ASSUME NEW m \in DOMAIN Team, Redispatch(m) PROVE WorkStep
    <3>1. {m} \in SUBSET Everyone
      BY KnownMembers
    <3>2. Reopens({m}) /\ UNCHANGED teamRows
      BY <2>4 DEF Redispatch, Authority, Reopens, taskRow
    <3> QED
      BY <3>1, <3>2 DEF WorkStep
  <2>5. ASSUME NEW outcome \in {"green", "blocked"}, Complete(outcome) PROVE WorkStep
    BY <2>5 DEF Complete, WorkStep
  <2> QED
    BY <1>2, <2>1, <2>2, <2>3, <2>4, <2>5 DEF MemberStep, ReplanStep
<1>3. ASSUME NEW m \in Everyone, ContinueWave(m) PROVE WorkStep
  <2>1. Reopens({m}) /\ UNCHANGED teamRows
    BY <1>3 DEF ContinueWave, Reopens, taskRow
  <2> QED
    BY <2>1 DEF WorkStep
<1>4. CASE ReplanHandler
  <2>1. ASSUME NEW p \in procs, OpenSuccessor(p) PROVE WorkStep
    <3> DEFINE m == transition[p.t].member
    <3>1. UNCHANGED <<taskRow, teamRows, awaits, waves, green>>
      BY <2>1 DEF OpenSuccessor
    <3>2. CASE /\ taskStatus = "running"
               /\ lane[m] = "replanned"
               /\ OpenFor({m})
      <4>1. p.t \in 2 .. current
        BY <2>1 DEF OpenSuccessor, IInv, ProcsAreSound
      <4>2. m \in Everyone
        BY <4>1 DEF IInv, Typed, TransitionRow
      <4>3. Reopens({m})
        BY <3>1, <3>2 DEF Reopens, taskRow
      <4> QED
        BY <3>1, <4>2, <4>3 DEF WorkStep
    <3>3. CASE UNCHANGED <<lane, pinned>>
      BY <1>1, <3>1, <3>3 DEF workRows, taskRow
    <3> QED
      BY <2>1, <3>2, <3>3 DEF OpenSuccessor
  <2> QED
    BY <1>1, <1>4, <2>1 DEF ReplanHandler, ReceiveReplanCommitted, WriteManifest, MarkManifest,
       PrepareSuccessor, taskRow
<1>5. CASE OperatorStep
  <2>1. CASE PauseTask \/ CancelTask
    BY <2>1 DEF PauseTask, CancelTask, WorkStep
  <2>2. ASSUME NEW p \in procs, CommitResume(p) PROVE WorkStep
    <3> DEFINE mine == {m \in Everyone : Runnable(m)}
    <3>1. UNCHANGED <<teamRows, awaits, waves, green>>
      BY <2>2 DEF CommitResume
    <3>2. CASE taskStatus' = "running" /\ OpenFor(mine)
      <4>1. Reopens(mine)
        BY <3>1, <3>2 DEF Reopens, Runnable
      <4> QED
        BY <3>1, <4>1 DEF WorkStep
    <3>3. CASE UNCHANGED <<taskRow, lane, pinned>>
      BY <1>1, <3>1, <3>3 DEF workRows, taskRow
    <3> QED
      BY <2>2, <3>2, <3>3 DEF CommitResume
  <2> QED
    BY <1>1, <1>5, <2>1, <2>2 DEF OperatorStep, StartResume, PlanResume, taskRow
<1>6. CASE Fault
  BY <1>1, <1>6 DEF Fault, FailManifest, FailSuccessor, LoseProc, LoseSignal, Restart, taskRow
<1>7. CASE UNCHANGED vars
  BY <1>1, <1>7 DEF vars, taskRow
<1> QED
  BY <1>2, <1>3, <1>4, <1>5, <1>6, <1>7 DEF Next

-----------------------------------------------------------------------------
(* Steps that leave the Team                                                *)

LEMMA WorkKeepsLanes == ASSUME IInv, RestTyped, BranchInv, WorkStep PROVE LanesNest'
<1> SUFFICES ASSUME NEW x \in Everyone, lane'[x] # "none"
             PROVE  /\ x \in DOMAIN Team
                    /\ x # Root => /\ lane'[Team[x].parent] = "waiting"
                                   /\ x \in awaits'[Team[x].parent]
  BY DEF LanesNest, WorkStep, teamRows, Team
<1> DEFINE y == Team[x].parent
<1>1. /\ lane \in [Everyone -> LaneState] /\ awaits \in [Everyone -> SUBSET Everyone]
      /\ DOMAIN Team \subseteq Everyone
  BY KnownMembers DEF IInv, Typed, RestTyped, WorkTyped
<1>2. lane[x] # "none" => /\ x \in DOMAIN Team
                          /\ x # Root => lane[y] = "waiting" /\ x \in awaits[y]
  BY DEF BranchInv, LanesNest
<1>3. x \in DOMAIN Team /\ x # Root => y \in Everyone
  <2>1. Tree(Team)
    BY DEF BranchInv, TeamsAreTrees, IInv, Typed, Team
  <2> QED
    BY <1>1, <2>1, ParentInTeam
<1> HIDE DEF y
<1>4. CASE Steady
  BY <1>2, <1>4 DEF Steady, y
<1>5. ASSUME NEW m \in DOMAIN Team, NEW S \in SUBSET Kids(Team, m), Delegate(m, S)
      PROVE  x \in DOMAIN Team /\ (x # Root => lane'[y] = "waiting" /\ x \in awaits'[y])
  <2>1. /\ lane[m] = "live" /\ m \in Everyone
        /\ \A c \in S : lane[c] = "none"
        /\ lane' = [z \in Everyone |->
                      IF z = m THEN "waiting" ELSE IF z \in S THEN "live" ELSE lane[z]]
        /\ awaits' = [awaits EXCEPT ![m] = S]
    BY <1>1, <1>5 DEF Delegate, Authority
  <2>2. CASE x \in S
    <3>1. x \in DOMAIN Team /\ y = m
      BY <2>2 DEF Kids, y
    <3> QED
      BY <1>1, <2>1, <2>2, <3>1
  <2>3. CASE x \notin S
    <3>1. lane[x] # "none"
      BY <2>1, <2>3
    <3>2. x # Root => y # m /\ y \notin S
      BY <1>2, <2>1, <3>1
    <3> QED
      BY <1>1, <1>2, <1>3, <2>1, <3>1, <3>2
  <2> QED
    BY <2>2, <2>3
<1>6. ASSUME NEW m \in DOMAIN Team, NEW outcome, Return(m, outcome)
      PROVE  x \in DOMAIN Team /\ (x # Root => lane'[y] = "waiting" /\ x \in awaits'[y])
  <2>1. /\ lane[m] = "live" /\ m \in Everyone
        /\ lane' = [lane EXCEPT ![m] = "none"]
        /\ awaits' = [p \in Everyone |-> awaits[p] \ {m}]
    BY <1>1, <1>6 DEF Return, MayReturn, Authority
  <2>2. x # m /\ lane[x] # "none"
    BY <1>1, <2>1
  <2>3. x # Root => y # m
    BY <1>2, <2>1, <2>2
  <2> QED
    BY <1>1, <1>2, <1>3, <2>1, <2>2, <2>3
<1>7. ASSUME NEW outcome, Complete(outcome) PROVE FALSE
  <2>1. lane' = [lane EXCEPT ![Root] = "none"] /\ \A m \in Everyone \ {Root} : lane[m] = "none"
    BY <1>7 DEF Complete
  <2> QED
    BY <1>1, <2>1
<1>8. ASSUME NEW S, Reopens(S)
      PROVE  x \in DOMAIN Team /\ (x # Root => lane'[y] = "waiting" /\ x \in awaits'[y])
  <2>1. /\ lane' = [m \in Everyone |-> IF m \in S THEN "live" ELSE lane[m]]
        /\ \A m \in S : lane[m] # "none" /\ (lane[m] = "waiting" => awaits[m] = {})
        /\ awaits' = awaits
    BY <1>8 DEF Reopens, OpenFor
  <2>2. lane[x] # "none"
    BY <2>1
  <2>3. x # Root => y \notin S
    BY <1>2, <2>1, <2>2
  <2> QED
    BY <1>2, <1>3, <2>1, <2>2, <2>3
<1>9. ASSUME PauseTask
      PROVE  x \in DOMAIN Team /\ (x # Root => lane'[y] = "waiting" /\ x \in awaits'[y])
  <2>1. lane' = [m \in Everyone |-> IF lane[m] = "live" THEN "stopped" ELSE lane[m]]
        /\ awaits' = awaits
    BY <1>9 DEF PauseTask, StopLanes
  <2> QED
    BY <1>2, <1>3, <2>1
<1>10. ASSUME CancelTask PROVE FALSE
  BY <1>10 DEF CancelTask
<1> QED
  BY <1>4, <1>5, <1>6, <1>7, <1>8, <1>9, <1>10 DEF WorkStep, y

LEMMA WorkKeepsTeams == ASSUME BranchInv, WorkStep PROVE TeamsAreTrees' /\ BasisIsExact'
<1>1. UNCHANGED <<current, team>>
  BY DEF WorkStep, teamRows
<1>2. TeamsAreTrees' <=> TeamsAreTrees
  BY <1>1 DEF TeamsAreTrees
<1>3. BasisIsExact' <=> BasisIsExact
  BY <1>1 DEF BasisIsExact, BranchHeld
<1> QED
  BY <1>2, <1>3 DEF BranchInv

LEMMA WorkKeepsSelections ==
    ASSUME IInv, RestTyped, BranchInv, WorkStep
    PROVE  PinnedExist' /\ LiveIsCurrent' /\ EndedUnderCurrent'
<1>1. UNCHANGED <<current, team>> /\ Team' = Team
  BY DEF WorkStep, teamRows, Team
<1>2. /\ lane \in [Everyone -> LaneState] /\ pinned \in [Everyone -> Revisions]
      /\ current \in 1 .. current /\ DOMAIN Team \subseteq Everyone /\ Root \in Everyone
  BY KnownMembers, TeamAssumption DEF IInv, Typed, RestTyped, WorkTyped, Everyone
<1>3. /\ \A m \in Everyone : pinned[m] \in 1 .. current
      /\ \A m \in Everyone :
            lane[m] = "live" => SameSelection(m, team[pinned[m]].members, Team)
      /\ \A m \in Everyone : lane[m] # "none" => m \in DOMAIN Team
      /\ taskStatus = "completed" => pinned[Root] = current
  BY DEF BranchInv, PinnedExist, LiveIsCurrent, SelectionIsCurrent, Pinned, LanesNest,
         EndedUnderCurrent
<1>4. ASSUME NEW S, S \subseteq DOMAIN Team,
             \A m \in Everyone : pinned'[m] = IF m \in S THEN current ELSE pinned[m],
             \A m \in Everyone : lane'[m] = "live" => m \in S \/ lane[m] = "live",
             taskStatus' # "completed"
      PROVE  PinnedExist' /\ LiveIsCurrent' /\ EndedUnderCurrent'
  <2>1. PinnedExist'
    BY <1>1, <1>2, <1>3, <1>4 DEF PinnedExist
  <2>2. ASSUME NEW m \in Everyone, lane'[m] = "live"
        PROVE  SameSelection(m, team'[pinned'[m]].members, Team')
    <3>1. CASE m \in S
      <4>1. team'[pinned'[m]].members = Team
        BY <1>1, <1>4, <3>1 DEF Team
      <4> QED
        BY <1>1, <1>4, <3>1, <4>1 DEF SameSelection
    <3>2. CASE m \notin S
      BY <1>1, <1>3, <1>4, <2>2, <3>2
    <3> QED
      BY <3>1, <3>2
  <2>3. LiveIsCurrent'
    BY <2>2 DEF LiveIsCurrent, SelectionIsCurrent, Pinned
  <2>4. EndedUnderCurrent'
    BY <1>1, <1>2, <1>3, <1>4 DEF EndedUnderCurrent
  <2> QED
    BY <2>1, <2>3, <2>4
<1>5. ASSUME pinned' = pinned, \A m \in Everyone : lane'[m] = "live" => lane[m] = "live",
             taskStatus' = "completed" => taskStatus = "completed"
      PROVE  PinnedExist' /\ LiveIsCurrent' /\ EndedUnderCurrent'
  BY <1>1, <1>2, <1>3, <1>5
     DEF PinnedExist, LiveIsCurrent, SelectionIsCurrent, Pinned, EndedUnderCurrent
<1>6. ASSUME NEW m \in DOMAIN Team, NEW S \in SUBSET Kids(Team, m), Delegate(m, S)
      PROVE  PinnedExist' /\ LiveIsCurrent' /\ EndedUnderCurrent'
  <2>1. /\ S \subseteq DOMAIN Team
        /\ pinned' = [x \in Everyone |-> IF x \in S THEN current ELSE pinned[x]]
        /\ lane' = [x \in Everyone |->
                      IF x = m THEN "waiting" ELSE IF x \in S THEN "live" ELSE lane[x]]
        /\ taskStatus' = "running"
    BY <1>6 DEF Delegate, Authority, Kids, taskRow
  <2> QED
    BY <1>4, <2>1
<1>7. ASSUME NEW m \in DOMAIN Team, NEW outcome, Return(m, outcome)
      PROVE  PinnedExist' /\ LiveIsCurrent' /\ EndedUnderCurrent'
  <2>1. lane' = [lane EXCEPT ![m] = "none"] /\ pinned' = pinned /\ taskStatus' = "running"
    BY <1>7 DEF Return, MayReturn, Authority, taskRow
  <2> QED
    BY <1>2, <1>5, <2>1
<1>8. ASSUME NEW outcome, Complete(outcome)
      PROVE  PinnedExist' /\ LiveIsCurrent' /\ EndedUnderCurrent'
  <2>1. lane' = [lane EXCEPT ![Root] = "none"] /\ pinned' = pinned /\ pinned[Root] = current
    BY <1>8 DEF Complete
  <2>2. \A m \in Everyone : lane'[m] = "live" => lane[m] = "live"
    BY <1>2, <2>1
  <2> QED
    BY <1>1, <1>3, <2>1, <2>2
       DEF PinnedExist, LiveIsCurrent, SelectionIsCurrent, Pinned, EndedUnderCurrent
<1>9. ASSUME NEW S \in SUBSET Everyone, Reopens(S)
      PROVE  PinnedExist' /\ LiveIsCurrent' /\ EndedUnderCurrent'
  <2>1. /\ S \subseteq DOMAIN Team
        /\ lane' = [m \in Everyone |-> IF m \in S THEN "live" ELSE lane[m]]
        /\ pinned' = [m \in Everyone |-> IF m \in S THEN current ELSE pinned[m]]
        /\ taskStatus' = "running"
    BY <1>3, <1>9 DEF Reopens, OpenFor
  <2> QED
    BY <1>4, <2>1
<1>10. CASE PauseTask
  <2>1. /\ lane' = [m \in Everyone |-> IF lane[m] = "live" THEN "stopped" ELSE lane[m]]
        /\ pinned' = pinned /\ taskStatus' = "paused"
    BY <1>10 DEF PauseTask, StopLanes
  <2> QED
    BY <1>5, <2>1
<1>11. CASE CancelTask
  <2>1. lane' = [m \in Everyone |-> "none"] /\ pinned' = pinned /\ taskStatus' = "cancelled"
    BY <1>11 DEF CancelTask
  <2> QED
    BY <1>5, <2>1
<1>12. CASE Steady
  BY <1>5, <1>12 DEF Steady
<1> QED
  BY <1>6, <1>7, <1>8, <1>9, <1>10, <1>11, <1>12 DEF WorkStep

-----------------------------------------------------------------------------
(* Green returns                                                            *)

\* An equal selection stands for an equal branch, whichever revision is older.
LEMMA SelectionIsBranch ==
    ASSUME BranchInv, NEW r \in 1 .. current, NEW s \in 1 .. current, current \in Nat,
           NEW m, SameSelection(m, team[r].members, team[s].members)
    PROVE  Branch(team[r].members, m) = Branch(team[s].members, m)
<1>1. CASE r <= s
  <2>1. BranchHeld(m, r, s)
    BY <1>1 DEF BranchInv, BasisIsExact, SameSelection
  <2> QED
    BY <1>1, <2>1 DEF BranchHeld
<1>2. CASE s <= r
  <2>1. SameSelection(m, team[s].members, team[r].members)
    BY DEF SameSelection
  <2>2. BranchHeld(m, s, r)
    BY <1>2, <2>1 DEF BranchInv, BasisIsExact, SameSelection
  <2> QED
    BY <1>2, <2>2 DEF BranchHeld
<1> QED
  BY <1>1, <1>2

\* A member that may return green has every member below it backed.
LEMMA ReturnIsBacked ==
    ASSUME IInv, BranchInv, NEW m \in Everyone, MayReturn(m, "green"),
           NEW x \in Subtree(Pinned(m), m), x # m
    PROVE  \E h \in green :
             h.member = x /\ Branch(team[h.rev].members, x) = Branch(Pinned(m), x)
<1>1. /\ pinned[m] \in 1 .. current /\ current \in Nat
      /\ \A r \in 1 .. current : Tree(team[r].members)
      /\ \A c \in Kids(Pinned(m), m) : Participated(c, Pinned(m))
  BY DEF BranchInv, PinnedExist, TeamsAreTrees, IInv, Typed, MayReturn
<1>2. PICK c \in Kids(Pinned(m), m) : x \in Subtree(Pinned(m), c)
  BY <1>1, SubtreeIsKids DEF Pinned, Tree
<1>3. PICK g \in green : g.member = c /\ SameSelection(c, team[g.rev].members, Pinned(m))
  BY <1>1, <1>2 DEF Participated
<1>4. g.rev \in 1 .. current
  BY DEF BranchInv, GreenRows
<1>5. Branch(team[g.rev].members, c) = Branch(Pinned(m), c)
  BY <1>1, <1>3, <1>4, SelectionIsBranch DEF Pinned
<1>6. x \in Subtree(team[g.rev].members, c)
  BY <1>2, <1>5, BranchRows DEF SameRows
<1>7. PICK h \in green :
        h.member = x /\ Branch(team[h.rev].members, x) = Branch(team[g.rev].members, x)
  BY <1>3, <1>6 DEF BranchInv, GreenIsBacked, Backed
<1>8. Branch(team[g.rev].members, x) = Branch(Pinned(m), x)
  BY <1>1, <1>4, <1>5, <1>6, BranchBelow DEF Pinned
<1> QED
  BY <1>7, <1>8

LEMMA GreenGrows ==
    ASSUME IInv, BranchInv, UNCHANGED <<current, team>>, NEW m \in Everyone,
           m \in DOMAIN Pinned(m), NEW outcome, MayReturn(m, outcome),
           green' = AcceptGreen(m, outcome)
    PROVE  GreenRows' /\ GreenIsBacked'
<1>1. CASE outcome # "green"
  BY <1>1 DEF AcceptGreen, BranchInv, GreenRows, GreenIsBacked, Backed
<1>2. CASE outcome = "green"
  <2> DEFINE own == [member |-> m, rev |-> pinned[m]]
  <2>1. green' = green \cup {own}
    BY <1>2 DEF AcceptGreen
  <2>2. own.member = m /\ own.rev = pinned[m]
    OBVIOUS
  <2> HIDE DEF own
  <2>3. GreenRows'
    BY <2>1, <2>2 DEF BranchInv, GreenRows, PinnedExist, Pinned
  <2>4. ASSUME NEW g \in green', NEW x \in Subtree(team[g.rev].members, g.member)
        PROVE  \E h \in green' :
                 h.member = x /\ Branch(team[h.rev].members, x) = Branch(team[g.rev].members, x)
    <3>1. CASE g \in green
      BY <2>1, <2>4, <3>1 DEF BranchInv, GreenIsBacked, Backed
    <3>2. CASE g = own /\ x = m
      BY <2>1, <2>2, <3>2
    <3>3. CASE g = own /\ x # m
      <4>1. x \in Subtree(Pinned(m), m)
        BY <2>2, <2>4, <3>3 DEF Pinned
      <4>2. PICK h \in green :
              h.member = x /\ Branch(team[h.rev].members, x) = Branch(Pinned(m), x)
        BY <1>2, <3>3, <4>1, ReturnIsBacked
      <4> QED
        BY <2>1, <2>2, <3>3, <4>2 DEF Pinned
    <3> QED
      BY <2>1, <3>1, <3>2, <3>3
  <2>5. GreenIsBacked'
    BY <2>4 DEF GreenIsBacked, Backed
  <2> QED
    BY <2>3, <2>5
<1> QED
  BY <1>1, <1>2

LEMMA WorkKeepsGreen ==
    ASSUME IInv, RestTyped, BranchInv, WorkStep PROVE GreenRows' /\ GreenIsBacked'
<1>1. UNCHANGED <<current, team>>
  BY DEF WorkStep, teamRows
<1>2. ASSUME green' = green PROVE GreenRows' /\ GreenIsBacked'
  BY <1>1, <1>2 DEF BranchInv, GreenRows, GreenIsBacked, Backed
<1>3. ASSUME NEW m \in Everyone, NEW outcome, MayReturn(m, outcome),
             green' = AcceptGreen(m, outcome)
      PROVE  GreenRows' /\ GreenIsBacked'
  <2>1. m \in DOMAIN Pinned(m)
    BY <1>3 DEF MayReturn, Authority, SelectionIsCurrent, SameSelection
  <2> QED
    BY <1>1, <1>3, <2>1, GreenGrows
<1>4. ASSUME NEW m \in DOMAIN Team, NEW outcome, Return(m, outcome)
      PROVE  GreenRows' /\ GreenIsBacked'
  BY <1>3, <1>4, KnownMembers DEF Return
<1>5. ASSUME NEW outcome, Complete(outcome) PROVE GreenRows' /\ GreenIsBacked'
  BY <1>3, <1>5, TeamAssumption DEF Complete, Everyone
<1> QED
  BY <1>2, <1>4, <1>5 DEF WorkStep, Steady, Delegate, Reopens, PauseTask, CancelTask

-----------------------------------------------------------------------------
(* The step to the next Team                                                *)

\* A replan by a live member adds one revision and closes that member's lane.
Succeeds(c, n, after) ==
    /\ n = current + 1
    /\ current' = n
    /\ \A r \in 1 .. current : team'[r] = team[r]
    /\ team'[n].members = after
    /\ c \in DOMAIN Team /\ lane[c] = "live"
    /\ lane' = [lane EXCEPT ![c] = "replanned"]
    /\ Successor(Team, after, n)
    /\ Kept(Team, c, after)
    \* nobody who ever left comes back
    /\ \A r \in 1 .. current : DOMAIN team[r].members \cap DOMAIN after \subseteq DOMAIN Team
    /\ taskStatus' = "running" /\ UNCHANGED <<pinned, awaits, green>>

LEMMA ReplanSucceeds ==
    ASSUME IInv, RestTyped, BranchInv, ReplanStep
    PROVE  \E c, n, after : Succeeds(c, n, after)
<1>0. PICK p \in planned :
        \E mu \in Mutations(team[p.rev].members, p.member, Fresh, Cardinality(DOMAIN team) + 1) :
            CommitReplan(p, mu)
  BY DEF ReplanStep
<1>1. PICK mu \in Mutations(team[p.rev].members, p.member, Fresh, Cardinality(DOMAIN team) + 1) :
        CommitReplan(p, mu)
  BY <1>0
<1>2. PICK c, n, after, fresh : c = p.member /\ n = Cardinality(DOMAIN team) + 1
                                /\ after = mu.members /\ fresh = Fresh
  OBVIOUS
<1>3. /\ current \in Nat \ {0} /\ DOMAIN team = 1 .. current /\ p \in PlanRow
      /\ lane \in [Everyone -> LaneState]
  BY DEF IInv, Typed
<1>4. n = current + 1
  BY <1>2, <1>3, FS_Interval
<1>5. p.rev = current /\ lane[c] = "live" /\ c \in Everyone
  BY <1>1, <1>2, <1>3 DEF CommitReplan, TeamUnmoved, PlanRow
<1>6. mu \in Mutations(Team, c, fresh, n)
  BY <1>2, <1>5 DEF Team
<1>7. Tree(Team) /\ Stamped(Team, current)
  BY <1>3 DEF BranchInv, TeamsAreTrees, Team
<1>8. Older(Team, n)
  BY <1>3, <1>4, <1>7 DEF Older, Stamped
<1>9. c \in DOMAIN Team
  BY <1>5 DEF BranchInv, LanesNest
<1>10. fresh \cap DOMAIN Team = {} /\ None \notin fresh
  BY <1>2, <1>3, TeamAssumption DEF Fresh, Team
<1>11. Successor(Team, after, n) /\ Kept(Team, c, after)
  BY <1>2, <1>6, <1>7, <1>8, <1>9, <1>10, ReplanRenewsChangedBranches
<1>12. DOMAIN after \subseteq DOMAIN Team \cup fresh
  BY <1>2, <1>6, MutationMembers
<1>13. \A r \in 1 .. current : DOMAIN team[r].members \cap DOMAIN after \subseteq DOMAIN Team
  BY <1>2, <1>3, <1>12 DEF Fresh
<1>14. /\ team' = [r \in 1 .. n |->
                     IF r = n THEN [pred |-> p.rev, members |-> after] ELSE team[r]]
       /\ current' = n
       /\ lane' = [lane EXCEPT ![c] = "replanned"]
       /\ taskStatus' = "running" /\ UNCHANGED <<pinned, awaits, green>>
  BY <1>1, <1>2 DEF CommitReplan, TeamUnmoved, taskRow
<1>15. n \in 1 .. n /\ \A r \in 1 .. current : r \in 1 .. n /\ r # n
  BY <1>3, <1>4
<1>16. team'[n].members = after /\ \A r \in 1 .. current : team'[r] = team[r]
  BY <1>14, <1>15
<1>17. Succeeds(c, n, after)
  BY <1>4, <1>5, <1>9, <1>11, <1>13, <1>14, <1>16 DEF Succeeds
<1> QED
  BY <1>17

\* A live member's ancestors wait for it and nobody works below it.
LEMMA LaneLine ==
    ASSUME IInv, BranchInv, NEW c \in DOMAIN Team, lane[c] # "none"
    PROVE  \A x \in Path(Team, c) : x = c \/ lane[x] = "waiting"
<1> DEFINE S == {z \in Path(Team, c) : z = c \/ lane[z] = "waiting"}
<1>1. Tree(Team) /\ DOMAIN Team \subseteq Everyone
  BY KnownMembers DEF BranchInv, TeamsAreTrees, IInv, Typed, Team
<1>2. c \in Path(Team, c) /\ Upward(Team, Path(Team, c))
  BY <1>1, PathIsUpward DEF Tree
<1>3. ASSUME NEW z \in S, Team[z].parent # None PROVE Team[z].parent \in S
  <2>1. z \in DOMAIN Team /\ Team[z].parent \in Path(Team, c)
    BY <1>2, <1>3 DEF Upward
  <2>2. z # Root /\ lane[z] # "none"
    BY <1>1, <1>3 DEF Tree
  <2>3. lane[Team[z].parent] = "waiting"
    BY <1>1, <2>1, <2>2 DEF BranchInv, LanesNest
  <2> QED
    BY <2>1, <2>3
<1>4. Upward(Team, S)
  BY <1>2, <1>3 DEF Upward
<1> QED
  BY <1>2, <1>4, PathIsLeast

LEMMA ReplanIsAlone ==
    ASSUME IInv, BranchInv, NEW c \in DOMAIN Team, lane[c] = "live",
           NEW m \in DOMAIN Team, m # c, Around(Team, c, m)
    PROVE  lane[m] \in {"none", "waiting"} /\ (c \in Path(Team, m) => lane[m] = "none")
<1>1. m \in Path(Team, c) => lane[m] = "waiting"
  BY LaneLine
<1>2. c \in Path(Team, m) => lane[m] = "none"
  BY LaneLine
<1> QED
  BY <1>1, <1>2 DEF Around

LEMMA ReplanKeepsTeams ==
    ASSUME IInv, BranchInv, NEW c, NEW n, NEW after, Succeeds(c, n, after)
    PROVE  TeamsAreTrees'
<1>1. current \in Nat \ {0} /\ Tree(Team) /\ Stamped(Team, current)
  BY DEF BranchInv, TeamsAreTrees, IInv, Typed, Team
<1>2. n = current + 1 /\ current' = n /\ team'[n].members = after /\ Successor(Team, after, n)
      /\ \A r \in 1 .. current : team'[r] = team[r]
  BY DEF Succeeds
<1>3. Stamped(after, n)
  <2> SUFFICES ASSUME NEW m \in DOMAIN after
               PROVE  after[m].config \in 1 .. n /\ after[m].basis \in 1 .. n
    BY DEF Stamped
  <2>1. CASE m \in DOMAIN Team
    BY <1>1, <1>2, <2>1 DEF Successor, Stamped
  <2>2. CASE m \notin DOMAIN Team
    BY <1>1, <1>2, <2>2 DEF Successor
  <2> QED
    BY <2>1, <2>2
<1>4. ASSUME NEW r \in 1 .. n PROVE Tree(team'[r].members) /\ Stamped(team'[r].members, r)
  <2>1. CASE r = n
    BY <1>2, <1>3, <2>1 DEF Successor
  <2>2. CASE r # n
    <3>1. r \in 1 .. current
      BY <1>1, <1>2, <2>2
    <3> QED
      BY <1>2, <3>1 DEF BranchInv, TeamsAreTrees
  <2> QED
    BY <2>1, <2>2
<1> QED
  BY <1>2, <1>4 DEF TeamsAreTrees

LEMMA ReplanKeepsBasis ==
    ASSUME IInv, BranchInv, NEW c, NEW n, NEW after, Succeeds(c, n, after)
    PROVE  BasisIsExact'
<1>1. /\ current \in Nat \ {0} /\ Team = team[current].members
      /\ \A r \in 1 .. current : Stamped(team[r].members, r)
      /\ BasisIsExact
  BY DEF BranchInv, TeamsAreTrees, IInv, Typed, Team
<1>2. /\ n = current + 1 /\ current' = n
      /\ team'[n].members = after /\ Successor(Team, after, n)
      /\ \A r \in 1 .. current : team'[r] = team[r]
      /\ \A r \in 1 .. current : DOMAIN team[r].members \cap DOMAIN after \subseteq DOMAIN Team
  BY DEF Succeeds
<1>3. ASSUME NEW r \in 1 .. current, NEW s \in 1 .. current, NEW m
      PROVE  BranchHeld(m, r, s)' <=> BranchHeld(m, r, s)
  BY <1>1, <1>2, <1>3 DEF BranchHeld
<1>4. ASSUME NEW r \in 1 .. current,
             NEW m \in DOMAIN team[r].members \cap DOMAIN after
      PROVE  SameSelection(m, team[r].members, after) <=> BranchHeld(m, r, n)'
  <2>1. /\ m \in DOMAIN Team
        /\ after[m].config \in {Team[m].config, n} /\ after[m].basis \in {Team[m].basis, n}
        /\ SameSelection(m, Team, after) <=> Branch(Team, m) = Branch(after, m)
    BY <1>2 DEF Successor
  <2>2. team[r].members[m].config # n /\ team[r].members[m].basis # n
    BY <1>1, <1>2 DEF Stamped
  <2>3. SameSelection(m, team[r].members, Team) <=> BranchHeld(m, r, current)
    BY <1>1, <2>1 DEF BasisIsExact
  <2>4. SameSelection(m, team[r].members, after)
          <=> SameSelection(m, team[r].members, Team) /\ SameSelection(m, Team, after)
    BY <2>1, <2>2 DEF SameSelection
  <2>5. BranchHeld(m, r, n)' <=>
          BranchHeld(m, r, current) /\ Branch(after, m) = Branch(team[r].members, m)
    <3>1. r .. n = (r .. current) \cup {n} /\ n \notin r .. current
      BY <1>1, <1>2
    <3>2. \A q \in r .. current : team'[q] = team[q]
      BY <1>1, <1>2
    <3> QED
      BY <1>2, <3>1, <3>2 DEF BranchHeld
  <2>6. BranchHeld(m, r, current) => Branch(Team, m) = Branch(team[r].members, m)
    BY <1>1 DEF BranchHeld
  <2> QED
    BY <2>1, <2>3, <2>4, <2>5, <2>6
<1>5. ASSUME NEW r \in 1 .. n, NEW s \in 1 .. n, r <= s,
             NEW m \in DOMAIN team'[r].members \cap DOMAIN team'[s].members
      PROVE  SameSelection(m, team'[r].members, team'[s].members) <=> BranchHeld(m, r, s)'
  <2>1. CASE s # n
    <3>1. r \in 1 .. current /\ s \in 1 .. current
      BY <1>1, <1>2, <1>5, <2>1
    <3>2. team'[r] = team[r] /\ team'[s] = team[s]
      BY <1>2, <3>1
    <3> QED
      BY <1>1, <1>3, <1>5, <3>1, <3>2 DEF BasisIsExact
  <2>2. CASE s = n /\ r # n
    <3>1. r \in 1 .. current
      BY <1>1, <1>2, <2>2
    <3> QED
      BY <1>2, <1>4, <2>2, <3>1
  <2>3. CASE s = n /\ r = n
    <3>1. BranchHeld(m, n, n)'
      BY <1>1, <1>2 DEF BranchHeld
    <3> QED
      BY <2>3, <3>1 DEF SameSelection
  <2> QED
    BY <2>1, <2>2, <2>3
<1> QED
  BY <1>2, <1>5 DEF BasisIsExact

LEMMA ReplanKeepsLanes ==
    ASSUME IInv, RestTyped, BranchInv, NEW c, NEW n, NEW after, Succeeds(c, n, after)
    PROVE  LanesNest'
<1>1. /\ current \in Nat \ {0} /\ lane \in [Everyone -> LaneState]
      /\ DOMAIN Team \subseteq Everyone /\ Tree(Team) /\ LanesNest
  BY KnownMembers DEF BranchInv, TeamsAreTrees, IInv, Typed, Team
<1>2. /\ n = current + 1 /\ current' = n /\ Team' = after
      /\ c \in DOMAIN Team /\ lane[c] = "live"
      /\ lane' = [lane EXCEPT ![c] = "replanned"] /\ awaits' = awaits
      /\ Kept(Team, c, after) /\ Successor(Team, after, n)
  BY DEF Succeeds, Team
<1> SUFFICES ASSUME NEW x \in Everyone, lane'[x] # "none"
             PROVE  /\ x \in DOMAIN after
                    /\ x # Root => /\ lane'[after[x].parent] = "waiting"
                                   /\ x \in awaits[after[x].parent]
  BY <1>2 DEF LanesNest
<1>3. lane[x] # "none"
  BY <1>1, <1>2
<1>4. x \in DOMAIN Team /\ (x # Root => lane[Team[x].parent] = "waiting"
                                        /\ x \in awaits[Team[x].parent])
  BY <1>1, <1>3 DEF LanesNest
<1>5. x \in DOMAIN after
  <2> SUFFICES ASSUME x \notin DOMAIN after PROVE FALSE
    OBVIOUS
  <2>1. x # c /\ c \in Path(Team, x)
    BY <1>2, <1>4 DEF Kept, Descendants, Subtree
  <2> QED
    BY <1>2, <1>3, <1>4, <2>1, ReplanIsAlone DEF Around
<1>6. after[x].parent = Team[x].parent
  BY <1>2, <1>4, <1>5 DEF Successor
<1>7. x # Root => Team[x].parent # c /\ Team[x].parent \in Everyone
  <2>1. x # Root => Team[x].parent # c
    BY <1>2, <1>4
  <2> QED
    BY <1>1, <1>4, <2>1, ParentInTeam
<1> QED
  BY <1>1, <1>2, <1>4, <1>5, <1>6, <1>7

LEMMA ReplanKeepsSelections ==
    ASSUME IInv, RestTyped, BranchInv, NEW c, NEW n, NEW after, Succeeds(c, n, after)
    PROVE  PinnedExist' /\ LiveIsCurrent' /\ EndedUnderCurrent'
<1>1. /\ current \in Nat \ {0} /\ lane \in [Everyone -> LaneState]
      /\ DOMAIN Team \subseteq Everyone
      /\ \A m \in Everyone : pinned[m] \in 1 .. current
  BY KnownMembers DEF BranchInv, PinnedExist, IInv, Typed
<1>2. /\ n = current + 1 /\ current' = n /\ Team' = after /\ taskStatus' = "running"
      /\ c \in DOMAIN Team /\ lane[c] = "live"
      /\ lane' = [lane EXCEPT ![c] = "replanned"] /\ pinned' = pinned
      /\ Kept(Team, c, after)
      /\ \A r \in 1 .. current : team'[r] = team[r]
  BY DEF Succeeds, Team
<1>3. PinnedExist'
  BY <1>1, <1>2 DEF PinnedExist
<1>4. ASSUME NEW m \in Everyone, lane'[m] = "live"
      PROVE  SameSelection(m, team'[pinned[m]].members, after)
  <2>1. m # c /\ lane[m] = "live"
    BY <1>1, <1>2, <1>4
  <2>2. SameSelection(m, team[pinned[m]].members, Team)
    BY <2>1 DEF BranchInv, LiveIsCurrent, SelectionIsCurrent, Pinned
  <2>3. m \in DOMAIN Team
    BY <2>2 DEF SameSelection
  <2>4. ~Around(Team, c, m)
    BY <1>2, <2>1, <2>3, ReplanIsAlone
  <2>5. m \in DOMAIN after /\ SameSelection(m, Team, after)
    BY <1>2, <2>3, <2>4 DEF Kept, Descendants, Subtree, Around
  <2> QED
    BY <1>1, <1>2, <2>2, <2>5 DEF SameSelection
<1>5. LiveIsCurrent'
  BY <1>2, <1>4 DEF LiveIsCurrent, SelectionIsCurrent, Pinned
<1> QED
  BY <1>2, <1>3, <1>5 DEF EndedUnderCurrent

LEMMA ReplanKeepsGreen ==
    ASSUME IInv, BranchInv, NEW c, NEW n, NEW after, Succeeds(c, n, after)
    PROVE  GreenRows' /\ GreenIsBacked'
<1>1. /\ current \in Nat \ {0} /\ n = current + 1 /\ current' = n /\ green' = green
      /\ \A r \in 1 .. current : team'[r] = team[r]
  BY DEF Succeeds, IInv, Typed
<1>2. \A g \in green : g.rev \in 1 .. current /\ team'[g.rev] = team[g.rev]
  BY <1>1 DEF BranchInv, GreenRows
<1>3. GreenRows'
  BY <1>1, <1>2 DEF BranchInv, GreenRows
<1>4. GreenIsBacked'
  BY <1>1, <1>2 DEF BranchInv, GreenIsBacked, Backed
<1> QED
  BY <1>3, <1>4

-----------------------------------------------------------------------------

LEMMA InitBranchInv == Init => BranchInv
<1> SUFFICES ASSUME Init PROVE BranchInv
  OBVIOUS
<1>1. /\ current = 1 /\ Team = AuthoredTeam /\ team[1].members = AuthoredTeam
      /\ 1 .. current = {1} /\ taskStatus = "running" /\ green = {}
  BY DEF Init, Team
<1>2. /\ DOMAIN AuthoredTeam = Members
      /\ \A m \in Members : AuthoredTeam[m] = [parent |-> IF m = Root THEN None ELSE Parent[m],
                                               config |-> 1, basis |-> 1]
  BY DEF AuthoredTeam
<1>3. Linked(AuthoredTeam)
  BY <1>2, TeamAssumption DEF Linked
<1>4. Tree(AuthoredTeam)
  BY <1>2, <1>3, TeamAssumption, TreeAssumption DEF Tree
<1>5. TeamsAreTrees
  BY <1>1, <1>2, <1>4 DEF TeamsAreTrees, Stamped
<1>6. BasisIsExact
  BY <1>1 DEF BasisIsExact, BranchHeld, SameSelection
<1>7. LanesNest
  BY <1>1, <1>2, TeamAssumption DEF LanesNest, Init
<1>8. PinnedExist /\ EndedUnderCurrent
  BY <1>1 DEF PinnedExist, EndedUnderCurrent, Init
<1>9. LiveIsCurrent
  BY <1>1, <1>2, TeamAssumption DEF LiveIsCurrent, SelectionIsCurrent, Pinned, SameSelection, Init
<1>10. GreenRows /\ GreenIsBacked
  BY <1>1 DEF GreenRows, GreenIsBacked
<1> QED
  BY <1>5, <1>6, <1>7, <1>8, <1>9, <1>10 DEF BranchInv

LEMMA NextBranchInv == IInv /\ RestTyped /\ BranchInv /\ [Next]_vars => BranchInv'
<1> SUFFICES ASSUME IInv, RestTyped, BranchInv, [Next]_vars PROVE BranchInv'
  OBVIOUS
<1>1. CASE WorkStep
  BY <1>1, WorkKeepsTeams, WorkKeepsLanes, WorkKeepsSelections, WorkKeepsGreen DEF BranchInv
<1>2. CASE ReplanStep
  <2>1. PICK c, n, after : Succeeds(c, n, after)
    BY <1>2, ReplanSucceeds
  <2>2. TeamsAreTrees' /\ BasisIsExact'
    BY <2>1, ReplanKeepsTeams, ReplanKeepsBasis
  <2>3. LanesNest' /\ PinnedExist' /\ LiveIsCurrent' /\ EndedUnderCurrent'
    BY <2>1, ReplanKeepsLanes, ReplanKeepsSelections
  <2>4. GreenRows' /\ GreenIsBacked'
    BY <2>1, ReplanKeepsGreen
  <2> QED
    BY <2>2, <2>3, <2>4 DEF BranchInv
<1> QED
  BY <1>1, <1>2, NextTeamSteps

\* What the theorems below rest on, for every Team, number of replans and bound.
THEOREM BranchInvariant == Spec => [](IInv /\ RestTyped /\ BranchInv)
<1>1. Init => IInv /\ RestTyped /\ BranchInv
  BY InitIInv, InitRestTyped, InitBranchInv
<1>2. IInv /\ RestTyped /\ BranchInv /\ [Next]_vars => (IInv /\ RestTyped /\ BranchInv)'
  BY NextIInv, NextTeamTyped, NextWorkTyped, NextProcsTyped, NextFilesTyped, NextBranchInv
     DEF RestTyped
<1> QED
  BY <1>1, <1>2, PTL DEF Spec

\* A member with a live Dispatch was told of the branch it now has, whatever other
\* members replanned since it was opened (team/currentness.py).
THEOREM LiveBranchesAreCurrent == Spec => []LiveBranchIsCurrent
<1>1. IInv /\ BranchInv => LiveBranchIsCurrent
  <2> SUFFICES ASSUME IInv, BranchInv, NEW m \in Everyone, lane[m] = "live"
               PROVE  SelectionIsCurrent(m) /\ Branch(Pinned(m), m) = Branch(Team, m)
    BY DEF LiveBranchIsCurrent
  <2>1. SelectionIsCurrent(m)
    BY DEF BranchInv, LiveIsCurrent
  <2>2. pinned[m] \in 1 .. current /\ current \in 1 .. current /\ current \in Nat
    BY DEF BranchInv, PinnedExist, IInv, Typed
  <2>3. SameSelection(m, team[pinned[m]].members, team[current].members)
    BY <2>1 DEF SelectionIsCurrent, Pinned, Team
  <2> QED
    BY <2>1, <2>2, <2>3, SelectionIsBranch DEF Pinned, Team
<1> QED
  BY <1>1, BranchInvariant, PTL

\* A green return counts exactly as long as no replan touched the branch it was
\* given for (replan/planning.py renews bases, team/participation.py compares them).
THEOREM ParticipationStaysExact == Spec => []ParticipationIsExact
<1>1. IInv /\ BranchInv => ParticipationIsExact
  <2> SUFFICES ASSUME IInv, BranchInv, NEW g \in green, g.member \in DOMAIN Team
               PROVE  SameSelection(g.member, team[g.rev].members, Team)
                        <=> \A r \in g.rev .. current :
                                Branch(team[r].members, g.member)
                                    = Branch(team[g.rev].members, g.member)
    BY DEF ParticipationIsExact
  <2>1. /\ g.rev \in 1 .. current /\ g.member \in DOMAIN team[g.rev].members
        /\ current \in 1 .. current /\ g.rev <= current
    BY DEF BranchInv, GreenRows, IInv, Typed
  <2>2. SameSelection(g.member, team[g.rev].members, team[current].members)
          <=> BranchHeld(g.member, g.rev, current)
    BY <2>1 DEF BranchInv, BasisIsExact, Team
  <2> QED
    BY <2>2 DEF BranchHeld, Team
<1> QED
  BY <1>1, BranchInvariant, PTL

\* A Task completed green has a green return from every member of its final Team,
\* for the branch that member has in it (checkpoint/persistence.py looks at the
\* direct children only).
THEOREM CompletedTeamsReturnedGreen == Spec => []CompletedTeamReturnedGreen
<1>1. IInv /\ BranchInv => CompletedTeamReturnedGreen
  <2> SUFFICES ASSUME IInv, BranchInv, taskStatus = "completed",
                      [member |-> Root, rev |-> pinned[Root]] \in green, NEW m \in DOMAIN Team
               PROVE  \E g \in green :
                        g.member = m /\ Branch(team[g.rev].members, m) = Branch(Team, m)
    BY DEF CompletedTeamReturnedGreen
  <2>1. pinned[Root] = current
    BY DEF BranchInv, EndedUnderCurrent
  <2>2. PICK g \in green : g.member = Root /\ g.rev = current
    BY <2>1
  <2>3. m \in Subtree(team[g.rev].members, g.member)
    BY <2>2 DEF BranchInv, TeamsAreTrees, Tree, Subtree, Team, IInv, Typed
  <2>4. Backed(g, m)
    BY <2>3 DEF BranchInv, GreenIsBacked
  <2> QED
    BY <2>2, <2>4 DEF Backed, Team
<1> QED
  BY <1>1, BranchInvariant, PTL
=============================================================================
