---------------------------- MODULE TeamPlanning ----------------------------
(***************************************************************************)
(* How a replan turns one complete Team into the next.  A Team revision    *)
(* selects, for every member, its parent, a MemberConfiguration and a      *)
(* MemberBranchBasis; the last two are named by the revision that created  *)
(* them.  A replan renews the configuration of what it updates and the     *)
(* branch basis of what it changes and of every ancestor of that, so that  *)
(* an equal basis stands for an unchanged branch.                          *)
(***************************************************************************)
EXTENDS Integers, FiniteSets

CONSTANTS
    Root,       \* root_member_id, the same in every revision
    None,       \* SQL NULL: the root's parent
    MaxDepth,   \* MAX_MEMBER_DEPTH
    MaxWidth,   \* direct children of one member, 32 in the code
    MaxMembers  \* MAX_MEMBERS

ASSUME LimitAssumption ==
    /\ MaxDepth \in Nat
    /\ MaxWidth \in Nat
    /\ MaxMembers \in Nat

\* The member and its ancestors: the least set that holds the member and the
\* parent of everyone it holds.
Path(team, m) ==
    LET lines == {S \in SUBSET DOMAIN team :
                    m \in S /\ \A x \in S : team[x].parent \in S \cup {None}}
    IN  {x \in DOMAIN team : \A S \in lines : x \in S}

Subtree(team, m) == {x \in DOMAIN team : m \in Path(team, x)}
Descendants(team, m) == Subtree(team, m) \ {m}
Kids(team, m) == {x \in DOMAIN team : team[x].parent = m}

WithinLimits(team) ==
    /\ Cardinality(DOMAIN team) <= MaxMembers
    /\ \A m \in DOMAIN team :
        Cardinality(Path(team, m)) <= MaxDepth /\ Cardinality(Kids(team, m)) <= MaxWidth

\* The same member with the same configuration and branch basis.
SameSelection(m, before, after) ==
    /\ m \in DOMAIN before \cap DOMAIN after
    /\ before[m].config = after[m].config
    /\ before[m].basis = after[m].basis

\* A member's branch: itself and everything below, as configured.
Branch(members, m) ==
    [x \in Subtree(members, m) |->
        <<members[x].config, IF x = m THEN None ELSE members[x].parent>>]

\* New members under their parents: graft maps each new member to its parent.
Grow(team, graft, rev) ==
    [m \in DOMAIN team \cup DOMAIN graft |->
        IF m \in DOMAIN graft THEN [parent |-> graft[m], config |-> rev, basis |-> rev]
        ELSE team[m]]

\* The trees of new members that may be put under the hosts.
Grafts(team, hosts, fresh, rev) ==
    {g \in UNION {[new -> hosts \cup new] : new \in SUBSET fresh} :
        \A m \in DOMAIN g : Root \in Path(Grow(team, g, rev), m)}

Hosts(graft) == {graft[m] : m \in DOMAIN graft} \ DOMAIN graft

\* Mutant of Refresh: the ancestors of a change keep their branch basis.
RefreshSeedsOnly(team, updated, seeds, rev) ==
    [m \in DOMAIN team |->
        [parent |-> team[m].parent,
         config |-> IF m \in updated THEN rev ELSE team[m].config,
         basis  |-> IF m \in seeds THEN rev ELSE team[m].basis]]

\* Mutant of Refresh: the whole Team gets a new branch basis.
RefreshEveryone(team, updated, seeds, rev) ==
    [m \in DOMAIN team |->
        [parent |-> team[m].parent,
         config |-> IF m \in updated THEN rev ELSE team[m].config,
         basis  |-> rev]]

\* Every ancestor of a seed changes its branch.
Refresh(team, updated, seeds, rev) ==
    LET changed == UNION {Path(team, s) : s \in seeds}
    IN  [m \in DOMAIN team |->
            [parent |-> team[m].parent,
             config |-> IF m \in updated THEN rev ELSE team[m].config,
             basis  |-> IF m \in changed THEN rev ELSE team[m].basis]]

\* add_child: one new tree under the caller.
AddChild(team, caller, fresh, rev) ==
    {[members |-> Refresh(Grow(team, g, rev), {}, {caller}, rev), affected |-> {}] :
        g \in {h \in Grafts(team, {caller}, fresh, rev) :
                Cardinality({m \in DOMAIN h : h[m] = caller}) = 1}}

\* update_child: new configurations and new members anywhere below a target.
UpdateChild(team, target, fresh, rev) ==
    LET below == Subtree(team, target)
    IN  {[members |-> Refresh(Grow(team, c[2], rev), c[1], c[1] \cup Hosts(c[2]), rev),
          affected |-> below] :
            c \in {x \in (SUBSET below) \X Grafts(team, below, fresh, rev) :
                    x[1] # {} \/ DOMAIN x[2] # {}}}

\* remove_child: a target leaves the Team with everything below it.
RemoveChild(team, target, rev) ==
    LET gone == Subtree(team, target)
    IN  {[members |-> Refresh([m \in DOMAIN team \ gone |-> team[m]],
                              {}, {team[target].parent}, rev),
          affected |-> gone]}

\* Every successor Team a caller may ask for, with the existing members whose
\* active work would refuse it.
Mutations(team, caller, fresh, rev) ==
    {mu \in AddChild(team, caller, fresh, rev)
            \cup UNION {UpdateChild(team, t, fresh, rev) \cup RemoveChild(team, t, rev) :
                          t \in Descendants(team, caller)} :
        WithinLimits(mu.members)}
=============================================================================
