------------------------ MODULE TeamPlanning_proofs ------------------------
(***************************************************************************)
(* Teams as trees, for every Team: what the path to the root is, what      *)
(* changing a Team keeps of it, and that a replan renews the selection of  *)
(* exactly the members whose branch it changes.                            *)
(***************************************************************************)
EXTENDS TeamPlanning, FiniteSetTheorems, TLAPS

\* Parents are members of the Team.
Linked(team) ==
    /\ None \notin DOMAIN team
    /\ \A m \in DOMAIN team : team[m].parent \in DOMAIN team \cup {None}

\* A set of members that has the parent of each of them.
Upward(team, S) ==
    /\ S \subseteq DOMAIN team
    /\ \A x \in S : team[x].parent \in S \cup {None}

\* One tree: everyone is below the root, which has no parent.
Tree(team) ==
    /\ Linked(team)
    /\ Root \in DOMAIN team /\ team[Root].parent = None
    /\ \A m \in DOMAIN team : Root \in Path(team, m)

-----------------------------------------------------------------------------
(* The path to the root                                                     *)

LEMMA PathIsLeast ==
    ASSUME NEW team, NEW m, NEW S, Upward(team, S), m \in S
    PROVE  Path(team, m) \subseteq S
BY DEF Path, Upward

LEMMA PathIsUpward ==
    ASSUME NEW team, Linked(team), NEW m \in DOMAIN team
    PROVE  m \in Path(team, m) /\ Upward(team, Path(team, m))
<1> DEFINE lines == {S \in SUBSET DOMAIN team :
                       m \in S /\ \A x \in S : team[x].parent \in S \cup {None}}
<1>1. Path(team, m) = {x \in DOMAIN team : \A S \in lines : x \in S}
  BY DEF Path
<1>2. \A S \in lines : m \in S /\ \A x \in S : team[x].parent \in S \cup {None}
  OBVIOUS
<1> HIDE DEF lines
<1>3. m \in Path(team, m) /\ Path(team, m) \subseteq DOMAIN team
  BY <1>1, <1>2
<1>4. ASSUME NEW x \in Path(team, m), team[x].parent # None
      PROVE  team[x].parent \in Path(team, m)
  <2>1. team[x].parent \in DOMAIN team
    BY <1>3, <1>4 DEF Linked
  <2>2. \A S \in lines : team[x].parent \in S
    BY <1>1, <1>2, <1>4
  <2> QED
    BY <1>1, <2>1, <2>2
<1> QED
  BY <1>3, <1>4 DEF Upward

LEMMA PathInTeam ==
    ASSUME NEW team, NEW m PROVE Path(team, m) \subseteq DOMAIN team
BY DEF Path

LEMMA PathTransitive ==
    ASSUME NEW team, Linked(team), NEW m \in DOMAIN team,
           NEW y \in Path(team, m), NEW x \in Path(team, y)
    PROVE  x \in Path(team, m)
BY PathIsUpward, PathIsLeast

\* Who is above a member and is not the member is above its parent.
LEMMA PathStep ==
    ASSUME NEW team, Linked(team), NEW y \in DOMAIN team, NEW x \in Path(team, y), x # y
    PROVE  team[y].parent \in DOMAIN team /\ x \in Path(team, team[y].parent)
<1>1. CASE team[y].parent = None
  BY <1>1, PathIsLeast, Upward(team, {y}) DEF Upward
<1>2. CASE team[y].parent \in DOMAIN team
  <2> DEFINE p == team[y].parent
  <2>1. p \in Path(team, p) /\ Upward(team, Path(team, p))
    BY <1>2, PathIsUpward
  <2>2. Upward(team, {y} \cup Path(team, p))
    BY <2>1 DEF Upward
  <2>3. x \in {y} \cup Path(team, p)
    BY <2>2, PathIsLeast
  <2> QED
    BY <1>2, <2>3
<1> QED
  BY <1>1, <1>2 DEF Linked

LEMMA PathUp ==
    ASSUME NEW team, Linked(team), NEW y \in DOMAIN team, team[y].parent \in DOMAIN team
    PROVE  Path(team, team[y].parent) \subseteq Path(team, y)
<1>1. team[y].parent \in Path(team, y)
  BY PathIsUpward DEF Upward, Linked
<1> QED
  BY <1>1, PathTransitive

\* The members above one member are in line.
LEMMA PathIsLinear ==
    ASSUME NEW team, Linked(team), NEW s \in DOMAIN team,
           NEW x \in Path(team, s), NEW y \in Path(team, s)
    PROVE  x \in Path(team, y) \/ y \in Path(team, x)
<1> DEFINE S == {z \in Path(team, s) : z \in Path(team, y) \/ y \in Path(team, z)}
<1>1. s \in Path(team, s) /\ Upward(team, Path(team, s))
  BY PathIsUpward
<1>2. y \in DOMAIN team /\ y \in Path(team, y) /\ Upward(team, Path(team, y))
  BY <1>1, PathIsUpward DEF Upward
<1>3. ASSUME NEW z \in S, team[z].parent # None PROVE team[z].parent \in S
  <2>1. z \in DOMAIN team /\ team[z].parent \in Path(team, s)
    BY <1>1, <1>3 DEF Upward
  <2>2. CASE z \in Path(team, y)
    BY <1>2, <1>3, <2>1, <2>2 DEF Upward
  <2>3. CASE z \notin Path(team, y)
    <3>1. y # z /\ y \in Path(team, z)
      BY <1>2, <2>3
    <3> QED
      BY <2>1, <3>1, PathStep
  <2> QED
    BY <2>2, <2>3
<1>4. Upward(team, S)
  BY <1>1, <1>3 DEF Upward
<1>5. s \in S
  BY <1>1
<1> QED
  BY <1>4, <1>5, PathIsLeast

\* Only the root has no parent.
LEMMA ParentInTeam ==
    ASSUME NEW team, Tree(team), NEW m \in DOMAIN team, m # Root
    PROVE  team[m].parent \in DOMAIN team
<1>1. Root \in Path(team, m) /\ Linked(team)
  BY DEF Tree
<1> QED
  BY <1>1, PathStep

\* Nobody is above its own parent.
LEMMA PathHasNoCycle ==
    ASSUME NEW team, Tree(team), NEW m \in DOMAIN team, team[m].parent \in DOMAIN team
    PROVE  m \notin Path(team, team[m].parent)
<1> SUFFICES ASSUME m \in Path(team, team[m].parent) PROVE FALSE
  OBVIOUS
<1> USE DEF Tree
<1> DEFINE S == {z \in Path(team, m) : m \in Path(team, z)}
<1>1. m \in Path(team, m) /\ Upward(team, Path(team, m))
  BY PathIsUpward
<1>2. ASSUME NEW z \in S, team[z].parent # None PROVE team[z].parent \in S
  <2>1. z \in DOMAIN team /\ team[z].parent \in Path(team, m)
    BY <1>1, <1>2 DEF Upward
  <2>2. CASE z = m
    BY <2>1, <2>2
  <2>3. CASE z # m
    BY <2>1, <2>3, PathStep
  <2> QED
    BY <2>2, <2>3
<1>3. Upward(team, S) /\ m \in S
  BY <1>1, <1>2 DEF Upward
<1>4. Root \in S
  BY <1>3, PathIsLeast
<1>5. m # Root
  BY DEF Linked
<1>6. team[Root].parent \in DOMAIN team
  BY <1>4, <1>5, PathStep
<1> QED
  BY <1>6 DEF Linked

LEMMA PathIsOneWay ==
    ASSUME NEW team, Tree(team), NEW x \in DOMAIN team, NEW y \in DOMAIN team,
           x \in Path(team, y), y \in Path(team, x)
    PROVE  x = y
<1> SUFFICES ASSUME x # y PROVE FALSE
  OBVIOUS
<1> USE DEF Tree
<1>1. team[y].parent \in DOMAIN team /\ x \in Path(team, team[y].parent)
  BY PathStep
<1>2. y \in Path(team, team[y].parent)
  BY <1>1, PathTransitive
<1> QED
  BY <1>1, <1>2, PathHasNoCycle

\* Teams that agree on a set that is closed upward agree on the paths in it.
LEMMA PathAgrees ==
    ASSUME NEW before, NEW after, Linked(before), Linked(after),
           NEW kept, Upward(before, kept), kept \subseteq DOMAIN after,
           \A x \in kept : after[x].parent = before[x].parent,
           NEW m \in kept
    PROVE  Path(after, m) = Path(before, m)
<1>1. Upward(after, kept)
  BY DEF Upward
<1>2. Path(before, m) \subseteq kept /\ Path(after, m) \subseteq kept
  BY <1>1, PathIsLeast
<1>3. m \in DOMAIN before /\ m \in DOMAIN after
  BY DEF Upward
<1>4. /\ m \in Path(before, m) /\ Upward(before, Path(before, m))
      /\ m \in Path(after, m) /\ Upward(after, Path(after, m))
  BY <1>3, PathIsUpward
<1>5. Upward(after, Path(before, m)) /\ Upward(before, Path(after, m))
  BY <1>2, <1>4 DEF Upward
<1>6. Path(after, m) \subseteq Path(before, m)
  BY <1>4, <1>5, PathIsLeast
<1>7. Path(before, m) \subseteq Path(after, m)
  BY <1>4, <1>5, PathIsLeast
<1> QED
  BY <1>6, <1>7

-----------------------------------------------------------------------------
(* Branches                                                                 *)

LEMMA SubtreeIsKids ==
    ASSUME NEW team, Linked(team), NEW m, NEW x \in Subtree(team, m), x # m
    PROVE  \E c \in Kids(team, m) : x \in Subtree(team, c)
<1> SUFFICES ASSUME \A c \in Path(team, x) : team[c].parent # m PROVE FALSE
  BY PathInTeam DEF Subtree, Kids
<1>1. x \in DOMAIN team /\ m \in Path(team, x)
  BY DEF Subtree
<1>2. x \in Path(team, x) /\ Upward(team, Path(team, x))
  BY <1>1, PathIsUpward
<1>3. Upward(team, Path(team, x) \ {m})
  BY <1>2 DEF Upward
<1> QED
  BY <1>1, <1>2, <1>3, PathIsLeast

\* Two Teams have the same rows in a branch.
SameRows(one, other, m) ==
    /\ Subtree(one, m) = Subtree(other, m)
    /\ \A x \in Subtree(one, m) :
        /\ one[x].config = other[x].config
        /\ x # m => one[x].parent = other[x].parent

LEMMA BranchRows ==
    ASSUME NEW one, NEW other, NEW m, Branch(one, m) = Branch(other, m)
    PROVE  SameRows(one, other, m)
<1>1. DOMAIN Branch(one, m) = Subtree(one, m) /\ DOMAIN Branch(other, m) = Subtree(other, m)
  BY DEF Branch
<1>2. ASSUME NEW x \in Subtree(one, m)
      PROVE  /\ one[x].config = other[x].config
             /\ x # m => one[x].parent = other[x].parent
  <2>1. x \in Subtree(other, m)
    BY <1>1
  <2>2. Branch(one, m)[x] = <<one[x].config, IF x = m THEN None ELSE one[x].parent>>
    BY DEF Branch
  <2>3. Branch(other, m)[x] = <<other[x].config, IF x = m THEN None ELSE other[x].parent>>
    BY <2>1 DEF Branch
  <2> QED
    BY <2>2, <2>3
<1> QED
  BY <1>1, <1>2 DEF SameRows

LEMMA BranchIsRows ==
    ASSUME NEW one, NEW other, NEW m, SameRows(one, other, m)
    PROVE  Branch(one, m) = Branch(other, m)
BY DEF Branch, SameRows

\* Teams that agree on a branch agree on the subtrees in it.
LEMMA SubtreeBelow ==
    ASSUME NEW one, NEW other, Tree(one), Tree(other), NEW k, Branch(one, k) = Branch(other, k),
           NEW m \in Subtree(one, k)
    PROVE  Subtree(one, m) \subseteq Subtree(other, m)
<1> SUFFICES ASSUME NEW y \in Subtree(one, m) PROVE y \in Subtree(other, m)
  OBVIOUS
<1> USE DEF Tree
<1>1. y \in DOMAIN one /\ m \in DOMAIN one /\ m \in Path(one, y) /\ k \in Path(one, m)
  BY DEF Subtree
<1>2. k \in Path(one, y) /\ k \in DOMAIN one
  BY <1>1, PathTransitive, PathInTeam
<1>3. y \in Subtree(other, k)
  BY <1>1, <1>2, BranchRows DEF Subtree, SameRows
<1>4. y \in DOMAIN other /\ k \in Path(other, y)
  BY <1>3 DEF Subtree
<1>5. y \in Path(other, y) /\ Upward(other, Path(other, y))
  BY <1>4, PathIsUpward
<1> DEFINE S == {z \in Subtree(one, k) : z \in Path(other, y)} \cup (Path(one, k) \ {k})
<1>6. k \in Path(one, k) /\ Upward(one, Path(one, k))
  BY <1>2, PathIsUpward
<1>7. ASSUME NEW z \in S, one[z].parent # None PROVE one[z].parent \in S
  <2>1. CASE z \in Path(one, k)
    <3>1. one[z].parent \in Path(one, k) /\ z \in DOMAIN one
      BY <1>6, <1>7, <2>1 DEF Upward
    <3>2. one[z].parent # k
      <4> SUFFICES ASSUME one[z].parent = k PROVE FALSE
        OBVIOUS
      <4> QED
        BY <1>2, <2>1, <3>1, PathHasNoCycle, PathStep
    <3> QED
      BY <3>1, <3>2
  <2>2. CASE z \notin Path(one, k)
    <3>1. z \in Subtree(one, k) /\ z \in Path(other, y) /\ z # k
      BY <1>6, <2>2
    <3>2. z \in DOMAIN one /\ k \in Path(one, z)
      BY <3>1 DEF Subtree
    <3>3. one[z].parent \in Subtree(one, k)
      BY <3>1, <3>2, PathStep DEF Subtree
    <3>4. other[z].parent = one[z].parent
      BY <3>1, BranchRows DEF SameRows
    <3>5. one[z].parent \in Path(other, y)
      BY <1>5, <1>7, <3>1, <3>4 DEF Upward
    <3> QED
      BY <3>3, <3>5
  <2> QED
    BY <2>1, <2>2
<1>8. S \subseteq DOMAIN one
  BY <1>6 DEF Upward, Subtree
<1>9. Upward(one, S)
  BY <1>7, <1>8 DEF Upward
<1>10. y \in S
  BY <1>1, <1>2, <1>5 DEF Subtree
<1>11. m \in S
  <2> HIDE DEF S
  <2>1. Path(one, y) \subseteq S
    BY <1>9, <1>10, PathIsLeast
  <2> QED
    BY <1>1, <2>1 DEF Subtree
<1>12. m \notin Path(one, k) \ {k}
  BY <1>1, <1>2, PathIsOneWay
<1>13. m \in Path(other, y)
  BY <1>11, <1>12
<1> QED
  BY <1>4, <1>13 DEF Subtree

\* Teams that agree on a branch agree on every branch in it.
LEMMA BranchBelow ==
    ASSUME NEW one, NEW other, Tree(one), Tree(other), NEW k, Branch(one, k) = Branch(other, k),
           NEW m \in Subtree(one, k)
    PROVE  Branch(one, m) = Branch(other, m)
<1>1. m \in Subtree(other, k)
  BY BranchRows DEF SameRows
<1>2. Subtree(one, m) = Subtree(other, m)
  BY <1>1, SubtreeBelow
<1>3. ASSUME NEW x \in Subtree(one, m)
      PROVE  /\ one[x].config = other[x].config
             /\ x # m => one[x].parent = other[x].parent
  <2>1. /\ x \in DOMAIN one /\ m \in DOMAIN one /\ m \in Path(one, x) /\ k \in Path(one, m)
        /\ k \in DOMAIN one
    BY PathInTeam DEF Subtree
  <2>2. x \in Subtree(one, k)
    BY <2>1, PathTransitive DEF Subtree, Tree
  <2>3. x = k => x = m
    BY <2>1, PathIsOneWay
  <2> QED
    BY <2>2, <2>3, BranchRows DEF SameRows
<1> QED
  BY <1>2, <1>3, BranchIsRows DEF SameRows

-----------------------------------------------------------------------------
(* What a replan makes of a Team                                            *)

\* No member was selected under this revision.
Older(team, rev) == \A m \in DOMAIN team : team[m].config # rev /\ team[m].basis # rev

\* The Team after a replan: a tree in which new members are selected under the
\* new revision, old ones keep their parents, and the selection of an old one is
\* renewed exactly if its branch changed.
Successor(before, after, rev) ==
    /\ Tree(after)
    /\ \A m \in DOMAIN after \ DOMAIN before : after[m].config = rev /\ after[m].basis = rev
    /\ \A m \in DOMAIN before \cap DOMAIN after :
        /\ after[m].parent = before[m].parent
        /\ after[m].config \in {before[m].config, rev}
        /\ after[m].basis \in {before[m].basis, rev}
        /\ SameSelection(m, before, after) <=> Branch(before, m) = Branch(after, m)

\* Only the seeds and who is above them have their selection renewed.
Renewed(before, seeds, after) ==
    \A m \in DOMAIN before \cap DOMAIN after :
        ~SameSelection(m, before, after) => \E s \in seeds : m \in Path(before, s)

\* What renewing selections leaves and changes.
Refreshed(team, updated, seeds, rev, after) ==
    /\ Tree(after)
    /\ DOMAIN after = DOMAIN team
    /\ \A m \in DOMAIN team :
        /\ after[m].parent = team[m].parent
        /\ after[m].config = IF m \in updated THEN rev ELSE team[m].config
        /\ after[m].basis = IF \E s \in seeds : m \in Path(team, s) THEN rev ELSE team[m].basis
        /\ Path(after, m) = Path(team, m)

LEMMA RefreshPaths ==
    ASSUME NEW team, Tree(team), NEW updated, NEW seeds, NEW rev,
           NEW after, after = Refresh(team, updated, seeds, rev)
    PROVE  Refreshed(team, updated, seeds, rev, after)
<1>1. /\ DOMAIN after = DOMAIN team
      /\ \A m \in DOMAIN team :
           /\ after[m].parent = team[m].parent
           /\ after[m].config = IF m \in updated THEN rev ELSE team[m].config
           /\ after[m].basis = IF \E s \in seeds : m \in Path(team, s) THEN rev
                               ELSE team[m].basis
  BY DEF Refresh
<1>2. Linked(after) /\ Linked(team) /\ Upward(team, DOMAIN team)
  BY <1>1 DEF Tree, Linked, Upward
<1>3. \A m \in DOMAIN team : Path(after, m) = Path(team, m)
  BY <1>1, <1>2, PathAgrees
<1>4. Tree(after)
  BY <1>1, <1>2, <1>3 DEF Tree
<1> QED
  BY <1>1, <1>3, <1>4 DEF Refreshed

\* What grafting new members leaves and adds.
Grown(team, graft, hosts, fresh, rev, after) ==
    /\ Tree(after)
    /\ DOMAIN graft \subseteq fresh
    /\ DOMAIN after = DOMAIN team \cup DOMAIN graft
    /\ \A m \in DOMAIN team : after[m] = team[m] /\ Path(after, m) = Path(team, m)
    /\ \A m \in DOMAIN graft :
        /\ after[m] = [parent |-> graft[m], config |-> rev, basis |-> rev]
        /\ graft[m] \in hosts \cup DOMAIN graft

LEMMA GrowPaths ==
    ASSUME NEW team, Tree(team), NEW hosts, hosts \subseteq DOMAIN team,
           NEW fresh, None \notin fresh, fresh \cap DOMAIN team = {}, NEW rev,
           NEW graft \in Grafts(team, hosts, fresh, rev),
           NEW after, after = Grow(team, graft, rev)
    PROVE  Grown(team, graft, hosts, fresh, rev, after)
<1>1. PICK new \in SUBSET fresh : graft \in [new -> hosts \cup new]
  BY DEF Grafts
<1>2. \A m \in DOMAIN graft : Root \in Path(after, m)
  BY DEF Grafts
<1>3. DOMAIN graft = new /\ DOMAIN after = DOMAIN team \cup new
  BY <1>1 DEF Grow
<1>4. \A m \in DOMAIN team : after[m] = team[m]
  BY <1>3 DEF Grow
<1>5. \A m \in new : after[m] = [parent |-> graft[m], config |-> rev, basis |-> rev]
  BY <1>3 DEF Grow
<1>6. \A m \in new : graft[m] \in hosts \cup new
  BY <1>1
<1>7. Linked(team) /\ Upward(team, DOMAIN team)
  BY DEF Tree, Linked, Upward
<1>8. Linked(after)
  BY <1>3, <1>4, <1>5, <1>6, <1>7 DEF Linked
<1>9. \A m \in DOMAIN team : Path(after, m) = Path(team, m)
  BY <1>3, <1>4, <1>7, <1>8, PathAgrees
<1>10. Tree(after)
  BY <1>2, <1>3, <1>4, <1>8, <1>9 DEF Tree
<1> QED
  BY <1>1, <1>3, <1>4, <1>5, <1>6, <1>9, <1>10 DEF Grown

\* New members: the hosts and what is above them change their branch.
LEMMA GrowReplan ==
    ASSUME NEW before, Tree(before), NEW hosts, hosts \subseteq DOMAIN before,
           NEW fresh, fresh \cap DOMAIN before = {}, NEW rev, Older(before, rev),
           NEW updated, updated \subseteq DOMAIN before,
           NEW graft, NEW seeds, seeds = updated \cup Hosts(graft),
           NEW grown, Grown(before, graft, hosts, fresh, rev, grown),
           NEW after, Refreshed(grown, updated, seeds, rev, after)
    PROVE  /\ Successor(before, after, rev)
           /\ DOMAIN before \subseteq DOMAIN after
           /\ Renewed(before, seeds, after)
<1>1. /\ Tree(grown)
      /\ DOMAIN graft \subseteq fresh
      /\ DOMAIN grown = DOMAIN before \cup DOMAIN graft
      /\ \A m \in DOMAIN before : grown[m] = before[m] /\ Path(grown, m) = Path(before, m)
      /\ \A m \in DOMAIN graft :
           /\ grown[m] = [parent |-> graft[m], config |-> rev, basis |-> rev]
           /\ graft[m] \in hosts \cup DOMAIN graft
  BY DEF Grown
<1>4. /\ Tree(after) /\ DOMAIN after = DOMAIN grown
      /\ \A m \in DOMAIN grown :
           /\ after[m].parent = grown[m].parent
           /\ after[m].config = IF m \in updated THEN rev ELSE grown[m].config
           /\ after[m].basis = IF \E s \in seeds : m \in Path(grown, s) THEN rev
                               ELSE grown[m].basis
           /\ Path(after, m) = Path(grown, m)
  BY DEF Refreshed
<1>5. seeds \subseteq DOMAIN before
  BY <1>1 DEF Hosts
<1>6. \A m \in DOMAIN before : Path(after, m) = Path(before, m) /\ m \notin DOMAIN graft
  BY <1>1, <1>4
<1> DEFINE Above(m) == \E s \in seeds : m \in Path(before, s)
<1>7. ASSUME NEW m \in DOMAIN before
      PROVE  /\ after[m].parent = before[m].parent
             /\ after[m].config = IF m \in updated THEN rev ELSE before[m].config
             /\ after[m].basis = IF Above(m) THEN rev ELSE before[m].basis
  BY <1>1, <1>4, <1>5
<1>8. ASSUME NEW m \in DOMAIN graft
      PROVE  /\ after[m].parent = graft[m] /\ after[m].config = rev /\ after[m].basis = rev
             /\ m \notin DOMAIN before
  <2>1. m \in fresh /\ m \notin DOMAIN before
    BY <1>1
  <2>2. m \notin updated /\ m \in DOMAIN grown
    BY <1>1, <2>1
  <2>3. grown[m].parent = graft[m] /\ grown[m].config = rev /\ grown[m].basis = rev
    BY <1>1
  <2> QED
    BY <1>4, <2>1, <2>2, <2>3
<1>9. \A m \in updated : Above(m)
  <2> SUFFICES ASSUME NEW m \in updated PROVE m \in Path(before, m)
    BY <1>5
  <2> QED
    BY PathIsUpward DEF Tree
<1>10. ASSUME NEW m \in DOMAIN before
       PROVE  SameSelection(m, before, after) <=> ~Above(m)
  BY <1>1, <1>4, <1>7, <1>9 DEF SameSelection, Older
<1>11. ASSUME NEW m \in DOMAIN before, ~Above(m)
       PROVE  Branch(before, m) = Branch(after, m)
  <2>1. ASSUME NEW x \in DOMAIN graft PROVE m \notin Path(after, x)
    <3> DEFINE S == DOMAIN graft \cup {z \in DOMAIN before : Above(z)}
    <3>1. ASSUME NEW z \in S, after[z].parent # None PROVE after[z].parent \in S
      <4>1. CASE z \in DOMAIN graft
        <5> SUFFICES ASSUME graft[z] \notin DOMAIN graft PROVE graft[z] \in S
          BY <1>8, <4>1
        <5>1. graft[z] \in Hosts(graft)
          BY <4>1 DEF Hosts
        <5>2. graft[z] \in DOMAIN before /\ graft[z] \in Path(before, graft[z])
          BY <1>5, <5>1, PathIsUpward DEF Tree
        <5> QED
          BY <5>1, <5>2
      <4>2. CASE z \in DOMAIN before /\ Above(z)
        <5>1. PICK s \in seeds : z \in Path(before, s)
          BY <4>2
        <5>2. Upward(before, Path(before, s))
          BY <1>5, PathIsUpward DEF Tree
        <5>3. before[z].parent \in Path(before, s)
          BY <1>7, <3>1, <4>2, <5>1, <5>2 DEF Upward
        <5> QED
          BY <1>7, <4>2, <5>3, PathInTeam
      <4> QED
        BY <4>1, <4>2
    <3>2. Upward(after, S)
      BY <1>1, <1>4, <3>1 DEF Upward
    <3>3. Path(after, x) \subseteq S
      BY <3>2, PathIsLeast
    <3> QED
      BY <1>6, <1>11, <3>3
  <2>2. Subtree(before, m) = Subtree(after, m)
    BY <1>1, <1>4, <1>6, <2>1 DEF Subtree
  <2>3. \A x \in Subtree(before, m) : x \in DOMAIN before /\ x \notin updated
    BY <1>11 DEF Subtree
  <2>4. \A x \in Subtree(before, m) :
          before[x].config = after[x].config /\ before[x].parent = after[x].parent
    BY <1>7, <2>3
  <2>5. SameRows(before, after, m)
    BY <2>2, <2>4 DEF SameRows
  <2> QED
    BY <2>5, BranchIsRows
<1>12. ASSUME NEW m \in DOMAIN before, Above(m)
       PROVE  Branch(before, m) # Branch(after, m)
  <2> SUFFICES ASSUME Branch(before, m) = Branch(after, m) PROVE FALSE
    OBVIOUS
  <2>1. Subtree(before, m) = Subtree(after, m)
    BY BranchRows DEF SameRows
  <2>2. PICK s \in seeds : m \in Path(before, s)
    BY <1>12
  <2>3. s \in DOMAIN before /\ s \in Subtree(before, m)
    BY <1>5, <2>2 DEF Subtree
  <2>4. CASE s \in updated
    <3>1. before[s].config = after[s].config
      BY <2>3, BranchRows DEF SameRows
    <3> QED
      BY <1>7, <2>3, <2>4, <3>1 DEF Older
  <2>5. CASE s \in Hosts(graft)
    <3>1. PICK x \in DOMAIN graft : graft[x] = s
      BY <2>5 DEF Hosts
    <3>2. x \in DOMAIN after /\ after[x].parent = s /\ x \notin DOMAIN before
      BY <1>1, <1>4, <1>8, <3>1
    <3>3. m \in Path(after, s) /\ s \in DOMAIN after
      BY <1>1, <1>4, <1>6, <2>2, <2>3
    <3>4. m \in Path(after, x)
      BY <1>4, <3>2, <3>3, PathUp DEF Tree
    <3>5. x \in Subtree(after, m) /\ x \notin Subtree(before, m)
      BY <3>2, <3>4 DEF Subtree
    <3> QED
      BY <2>1, <3>5
  <2> QED
    BY <2>2, <2>4, <2>5
<1>13. Successor(before, after, rev)
  <2>1. \A m \in DOMAIN after \ DOMAIN before : after[m].config = rev /\ after[m].basis = rev
    BY <1>1, <1>4, <1>8
  <2>2. ASSUME NEW m \in DOMAIN before \cap DOMAIN after
        PROVE  /\ after[m].parent = before[m].parent
               /\ after[m].config \in {before[m].config, rev}
               /\ after[m].basis \in {before[m].basis, rev}
               /\ SameSelection(m, before, after) <=> Branch(before, m) = Branch(after, m)
    <3>1. /\ after[m].parent = before[m].parent
          /\ after[m].config \in {before[m].config, rev}
          /\ after[m].basis \in {before[m].basis, rev}
      BY <1>7
    <3>2. SameSelection(m, before, after) <=> Branch(before, m) = Branch(after, m)
      BY <1>10, <1>11, <1>12
    <3> QED
      BY <3>1, <3>2
  <2> QED
    BY <1>4, <2>1, <2>2 DEF Successor
<1>14. Renewed(before, seeds, after)
  BY <1>10 DEF Renewed
<1> QED
  BY <1>1, <1>4, <1>13, <1>14

\* A member leaves with everything below it: its parent and what is above that
\* change their branch.
LEMMA RemoveReplan ==
    ASSUME NEW before, Tree(before), NEW target \in DOMAIN before, target # Root, NEW rev,
           Older(before, rev), NEW after,
           after = Refresh([m \in DOMAIN before \ Subtree(before, target) |-> before[m]],
                           {}, {before[target].parent}, rev)
    PROVE  /\ Successor(before, after, rev)
           /\ DOMAIN after = DOMAIN before \ Subtree(before, target)
           /\ Renewed(before, {before[target].parent}, after)
<1> DEFINE host == before[target].parent
<1>0. PICK rest : rest = [m \in DOMAIN before \ Subtree(before, target) |-> before[m]]
  OBVIOUS
<1>1. Linked(before)
  BY DEF Tree
<1>2. /\ DOMAIN rest = DOMAIN before \ Subtree(before, target)
      /\ \A m \in DOMAIN rest : rest[m] = before[m] /\ m \in DOMAIN before
  BY <1>0
<1>3. \A m \in DOMAIN before : m \in DOMAIN rest <=> target \notin Path(before, m)
  BY <1>2 DEF Subtree
<1>4. ASSUME NEW m \in DOMAIN rest, before[m].parent # None
      PROVE  before[m].parent \in DOMAIN rest
  <2>1. before[m].parent \in DOMAIN before /\ m \in DOMAIN before
    BY <1>1, <1>2, <1>4 DEF Linked
  <2>2. Path(before, before[m].parent) \subseteq Path(before, m)
    BY <1>1, <2>1, PathUp
  <2> QED
    BY <1>3, <2>1, <2>2
<1>5. Upward(before, DOMAIN rest)
  BY <1>2, <1>4 DEF Upward
<1>6. Linked(rest)
  BY <1>1, <1>2, <1>4 DEF Linked
<1>7. \A m \in DOMAIN rest : Path(rest, m) = Path(before, m)
  BY <1>1, <1>2, <1>5, <1>6, PathAgrees
<1>8. Root \in DOMAIN rest
  <2>1. Upward(before, {Root}) /\ Root \in DOMAIN before
    BY DEF Tree, Upward
  <2>2. Path(before, Root) \subseteq {Root}
    BY <2>1, PathIsLeast
  <2> QED
    BY <1>3, <2>1, <2>2
<1>9. Tree(rest)
  BY <1>2, <1>6, <1>7, <1>8 DEF Tree
<1>10. host \in DOMAIN rest
  <2>1. host \in DOMAIN before
    BY ParentInTeam
  <2> QED
    BY <1>3, <2>1, PathHasNoCycle
<1>11. Refreshed(rest, {}, {host}, rev, after)
  BY <1>0, <1>9, RefreshPaths
<1>12. /\ Tree(after) /\ DOMAIN after = DOMAIN rest
       /\ \A m \in DOMAIN rest :
            /\ after[m].parent = before[m].parent
            /\ after[m].config = before[m].config
            /\ after[m].basis = IF m \in Path(before, host) THEN rev ELSE before[m].basis
            /\ Path(after, m) = Path(before, m)
  BY <1>2, <1>7, <1>10, <1>11 DEF Refreshed
<1> HIDE DEF host
<1>13. ASSUME NEW m \in DOMAIN after
       PROVE  SameSelection(m, before, after) <=> m \notin Path(before, host)
  BY <1>2, <1>12 DEF SameSelection, Older
<1>14. ASSUME NEW m \in DOMAIN after, m \notin Path(before, host)
       PROVE  Branch(before, m) = Branch(after, m)
  <2>1. ASSUME NEW x \in Subtree(before, m) PROVE x \in DOMAIN rest
    <3> SUFFICES ASSUME target \in Path(before, x) PROVE FALSE
      BY <1>3 DEF Subtree
    <3>1. x \in DOMAIN before /\ m \in Path(before, x)
      BY DEF Subtree
    <3>2. m \in Path(before, target) \/ target \in Path(before, m)
      BY <1>1, <3>1, PathIsLinear
    <3>3. target \notin Path(before, m)
      BY <1>2, <1>3, <1>12
    <3>4. m # target
      BY <1>1, <3>3, PathIsUpward
    <3> QED
      BY <1>1, <1>14, <3>2, <3>3, <3>4, PathStep DEF host
  <2>2. Subtree(before, m) = Subtree(after, m)
    BY <1>2, <1>12, <2>1 DEF Subtree
  <2>3. SameRows(before, after, m)
    BY <1>12, <2>1, <2>2 DEF SameRows
  <2> QED
    BY <2>3, BranchIsRows
<1>15. ASSUME NEW m \in DOMAIN after, m \in Path(before, host)
       PROVE  Branch(before, m) # Branch(after, m)
  <2> SUFFICES ASSUME Branch(before, m) = Branch(after, m) PROVE FALSE
    OBVIOUS
  <2>1. Subtree(before, m) = Subtree(after, m)
    BY BranchRows DEF SameRows
  <2>2. host \in DOMAIN before
    BY <1>2, <1>10
  <2>3. m \in Path(before, target)
    BY <1>1, <1>15, <2>2, PathUp DEF host
  <2>4. target \in Subtree(before, m)
    BY <2>3 DEF Subtree
  <2>5. target \notin DOMAIN after
    BY <1>1, <1>3, <1>12, PathIsUpward
  <2> QED
    BY <2>1, <2>4, <2>5 DEF Subtree
<1>16. Successor(before, after, rev)
  <2>1. \A m \in DOMAIN after \ DOMAIN before : after[m].config = rev /\ after[m].basis = rev
    BY <1>2, <1>12
  <2>2. \A m \in DOMAIN before \cap DOMAIN after :
          SameSelection(m, before, after) <=> Branch(before, m) = Branch(after, m)
    BY <1>13, <1>14, <1>15
  <2> QED
    BY <1>12, <2>1, <2>2 DEF Successor
<1>17. Renewed(before, {host}, after)
  BY <1>13 DEF Renewed
<1> QED
  BY <1>2, <1>12, <1>16, <1>17 DEF host

\* A member on the line of another, above or below it.
Around(team, caller, m) == m \in Path(team, caller) \/ caller \in Path(team, m)

\* What a replan by the caller may do to the members that are there.
Kept(before, caller, after) ==
    /\ \A m \in DOMAIN before \ DOMAIN after : m \in Descendants(before, caller)
    /\ \A m \in DOMAIN before \cap DOMAIN after :
        ~SameSelection(m, before, after) => Around(before, caller, m)

LEMMA SeedsAround ==
    ASSUME NEW before, Tree(before), NEW caller \in DOMAIN before, NEW s \in DOMAIN before,
           caller \in Path(before, s), NEW m \in Path(before, s)
    PROVE  Around(before, caller, m)
BY PathIsLinear DEF Around, Tree

\* However a member replans its subtree, the Team stays one tree, only members
\* below the caller leave it, and the selection of a member that stays is renewed
\* exactly if its branch changed (replan/planning.py: _refresh_branch_bases).
THEOREM ReplanRenewsChangedBranches ==
    ASSUME NEW before, Tree(before), NEW caller \in DOMAIN before,
           NEW fresh, None \notin fresh, fresh \cap DOMAIN before = {}, NEW rev,
           Older(before, rev), NEW mu \in Mutations(before, caller, fresh, rev)
    PROVE  Successor(before, mu.members, rev) /\ Kept(before, caller, mu.members)
<1> PICK after : after = mu.members
  OBVIOUS
<1>1. caller \in Subtree(before, caller) /\ Linked(before)
  BY PathIsUpward DEF Subtree, Tree
<1>2. CASE mu \in AddChild(before, caller, fresh, rev)
  <2>1. PICK g \in Grafts(before, {caller}, fresh, rev) :
          /\ Cardinality({m \in DOMAIN g : g[m] = caller}) = 1
          /\ mu = [members |-> Refresh(Grow(before, g, rev), {}, {caller}, rev), affected |-> {}]
    BY <1>2 DEF AddChild
  <2>2. \E m \in DOMAIN g : g[m] = caller
    <3> SUFFICES ASSUME \A m \in DOMAIN g : g[m] # caller PROVE FALSE
      OBVIOUS
    <3>1. {m \in DOMAIN g : g[m] = caller} = {}
      OBVIOUS
    <3> QED
      BY <2>1, <3>1, FS_EmptySet
  <2>3. PICK new \in SUBSET fresh : g \in [new -> {caller} \cup new]
    BY DEF Grafts
  <2>4. Hosts(g) = {caller}
    BY <2>2, <2>3 DEF Hosts
  <2>5. after = Refresh(Grow(before, g, rev), {}, {} \cup Hosts(g), rev)
    BY <2>1, <2>4
  <2>6. PICK seeds, grown : seeds = {} \cup Hosts(g) /\ grown = Grow(before, g, rev)
    OBVIOUS
  <2>7. Grown(before, g, {caller}, fresh, rev, grown)
    BY <2>6, GrowPaths
  <2>8. Refreshed(grown, {}, seeds, rev, after)
    BY <2>5, <2>6, <2>7, RefreshPaths DEF Grown
  <2>9. /\ Successor(before, after, rev)
        /\ DOMAIN before \subseteq DOMAIN after
        /\ Renewed(before, seeds, after)
    BY <2>6, <2>7, <2>8, GrowReplan
  <2>10. Kept(before, caller, after)
    BY <2>4, <2>6, <2>9 DEF Kept, Around, Renewed
  <2> QED
    BY <2>9, <2>10
<1>3. ASSUME NEW target \in Descendants(before, caller),
             mu \in UpdateChild(before, target, fresh, rev)
      PROVE  Successor(before, after, rev) /\ Kept(before, caller, after)
  <2> DEFINE below == Subtree(before, target)
  <2>1. PICK c \in (SUBSET below) \X Grafts(before, below, fresh, rev) :
          mu = [members |-> Refresh(Grow(before, c[2], rev), c[1], c[1] \cup Hosts(c[2]), rev),
                affected |-> below]
    BY <1>3 DEF UpdateChild
  <2>2. PICK updated, g : updated = c[1] /\ g = c[2]
    OBVIOUS
  <2>3. updated \subseteq below /\ g \in Grafts(before, below, fresh, rev)
    BY <2>2
  <2>4. after = Refresh(Grow(before, g, rev), updated, updated \cup Hosts(g), rev)
    BY <2>1, <2>2
  <2>5. PICK new \in SUBSET fresh : g \in [new -> below \cup new]
    BY <2>3 DEF Grafts
  <2>6. below \subseteq DOMAIN before /\ updated \cup Hosts(g) \subseteq below
    BY <2>3, <2>5 DEF Subtree, Hosts
  <2>7. \A s \in below : s \in DOMAIN before /\ caller \in Path(before, s)
    BY <1>1, PathTransitive DEF Subtree, Descendants
  <2> HIDE DEF below
  <2>8. PICK seeds, grown : seeds = updated \cup Hosts(g) /\ grown = Grow(before, g, rev)
    OBVIOUS
  <2>9. /\ Successor(before, after, rev)
        /\ DOMAIN before \subseteq DOMAIN after
        /\ Renewed(before, seeds, after)
    <3>1. Grown(before, g, below, fresh, rev, grown)
      BY <2>3, <2>6, <2>8, GrowPaths
    <3>2. Refreshed(grown, updated, seeds, rev, after)
      BY <2>4, <2>8, <3>1, RefreshPaths DEF Grown
    <3>3. updated \subseteq DOMAIN before
      BY <2>3, <2>6
    <3> QED
      BY <2>6, <2>8, <3>1, <3>2, <3>3, GrowReplan
  <2>10. Kept(before, caller, after)
    <3>1. ASSUME NEW m \in DOMAIN before \cap DOMAIN after, ~SameSelection(m, before, after)
          PROVE  Around(before, caller, m)
      <4>1. PICK s \in seeds : m \in Path(before, s)
        BY <2>9, <3>1 DEF Renewed
      <4> QED
        BY <2>6, <2>7, <2>8, <4>1, SeedsAround
    <3> QED
      BY <2>9, <3>1 DEF Kept
  <2> QED
    BY <2>9, <2>10
<1>4. ASSUME NEW target \in Descendants(before, caller),
             mu \in RemoveChild(before, target, rev)
      PROVE  Successor(before, after, rev) /\ Kept(before, caller, after)
  <2> DEFINE host == before[target].parent
  <2>1. /\ target \in DOMAIN before /\ caller \in Path(before, target) /\ target # caller
    BY DEF Descendants, Subtree
  <2>2. host \in DOMAIN before /\ caller \in Path(before, host)
    BY <1>1, <2>1, PathStep
  <2>3. target # Root
    BY <2>1, PathIsOneWay DEF Tree
  <2>4. after = Refresh([m \in DOMAIN before \ Subtree(before, target) |-> before[m]],
                        {}, {host}, rev)
    BY <1>4 DEF RemoveChild
  <2>5. /\ Successor(before, after, rev)
        /\ DOMAIN after = DOMAIN before \ Subtree(before, target)
        /\ Renewed(before, {host}, after)
    BY <2>1, <2>3, <2>4, RemoveReplan
  <2> HIDE DEF host
  <2>6. ASSUME NEW m \in Subtree(before, target) PROVE m \in Descendants(before, caller)
    <3>1. m \in DOMAIN before /\ target \in Path(before, m)
      BY DEF Subtree
    <3>2. caller \in Path(before, m)
      BY <1>1, <2>1, <3>1, PathTransitive
    <3>3. m # caller
      BY <2>1, <3>1, PathIsOneWay
    <3> QED
      BY <3>1, <3>2, <3>3 DEF Descendants, Subtree
  <2>7. Kept(before, caller, after)
    BY <2>2, <2>5, <2>6, SeedsAround DEF Kept, Renewed
  <2> QED
    BY <2>5, <2>7
<1> QED
  BY <1>2, <1>3, <1>4 DEF Mutations
=============================================================================
