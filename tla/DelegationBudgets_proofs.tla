---------------------- MODULE DelegationBudgets_proofs ----------------------
(***************************************************************************)
(* The budgets of DelegationRuntime, by counting: what an Assignment has   *)
(* left and what it spent is what it was given, and the watchdog replaces  *)
(* the Dispatches of an Attempt within its limit.  Then the participation  *)
(* that a green Checkpoint demands, level by level, of a whole team, and   *)
(* the hints that take a Wave from its last return to its successor.       *)
(***************************************************************************)
EXTENDS DelegationWaves_proofs

-----------------------------------------------------------------------------
(* What a budget paid for                                                   *)

\* The child Assignments and the Attempts of one Assignment.
ChildrenOf(i) ==
    {c \in DOMAIN assignment :
        assignment[c].source # None
        /\ attempt[dispatch[assignment[c].source].attempt].assignment = i}

AttemptsOf(i) == {a \in DOMAIN attempt : attempt[a].assignment = i}

BudgetsExact ==
    /\ IsFiniteSet(DOMAIN assignment)
    /\ IsFiniteSet(DOMAIN attempt)
    /\ \A i \in DOMAIN assignment :
        /\ ChildBudget # NoLimit =>
            /\ assignment[i].kids \in Nat
            /\ assignment[i].kids + Cardinality(ChildrenOf(i)) = ChildBudget
        /\ RetryBudget # NoLimit =>
            /\ assignment[i].retries \in Nat
            /\ assignment[i].retries + Cardinality(AttemptsOf(i)) - 1 = RetryBudget

\* A step that opens no Assignment and no Attempt and spends nothing.
SpendsNothing ==
    /\ DOMAIN assignment' = DOMAIN assignment /\ DOMAIN attempt' = DOMAIN attempt
    /\ \A i \in DOMAIN assignment :
        /\ assignment'[i].source = assignment[i].source
        /\ assignment'[i].kids = assignment[i].kids
        /\ assignment'[i].retries = assignment[i].retries
    /\ \A a \in DOMAIN attempt : attempt'[a].assignment = attempt[a].assignment
    /\ \A x \in DOMAIN dispatch : dispatch'[x].attempt = dispatch[x].attempt

\* The source of a child, and the Assignment that spent a unit on it.
LEMMA ChildSource ==
    ASSUME IInv, WInv, NEW c \in DOMAIN assignment, assignment[c].source # None
    PROVE  /\ assignment[c].source \in DOMAIN dispatch
           /\ dispatch[assignment[c].source].attempt \in DOMAIN attempt
           /\ attempt[dispatch[assignment[c].source].attempt].assignment \in DOMAIN assignment
<1>1. assignment[c].source \in DOMAIN dispatch
    BY WaveFacts DEF WInv, MembersHaveSource
<1>2. QED
    BY <1>1 DEF IInv, TypeOK, KeysOK

LEMMA CountsFinite ==
    ASSUME BudgetsExact, NEW i
    PROVE  /\ IsFiniteSet(ChildrenOf(i)) /\ Cardinality(ChildrenOf(i)) \in Nat
           /\ IsFiniteSet(AttemptsOf(i)) /\ Cardinality(AttemptsOf(i)) \in Nat
<1>1. ChildrenOf(i) \subseteq DOMAIN assignment /\ AttemptsOf(i) \subseteq DOMAIN attempt
    BY DEF ChildrenOf, AttemptsOf
<1>2. IsFiniteSet(ChildrenOf(i)) /\ IsFiniteSet(AttemptsOf(i))
    BY <1>1, FS_Subset DEF BudgetsExact
<1>3. QED
    BY <1>2, FS_CardinalityType

LEMMA NothingSpent ==
    ASSUME IInv, WInv, BudgetsExact, SpendsNothing
    PROVE  BudgetsExact'
<1>1. ASSUME NEW i
      PROVE  ChildrenOf(i)' = ChildrenOf(i)
    <2>1. ASSUME NEW c \in DOMAIN assignment, assignment[c].source # None
          PROVE  /\ assignment'[c].source = assignment[c].source
                 /\ attempt'[dispatch'[assignment'[c].source].attempt].assignment =
                    attempt[dispatch[assignment[c].source].attempt].assignment
        BY <2>1, ChildSource DEF SpendsNothing
    <2>2. QED
        BY <2>1 DEF ChildrenOf, SpendsNothing
<1>2. ASSUME NEW i
      PROVE  AttemptsOf(i)' = AttemptsOf(i)
    BY DEF AttemptsOf, SpendsNothing
<1>3. QED
    BY <1>1, <1>2 DEF BudgetsExact, SpendsNothing

LEMMA InitBudgets == Init => BudgetsExact
<1> SUFFICES ASSUME Init PROVE BudgetsExact
    OBVIOUS
<1> DEFINE r == <<Root, 1>>
<1>1. /\ DOMAIN assignment = {r} /\ DOMAIN attempt = {r}
      /\ assignment[r].source = None /\ attempt[r].assignment = r
      /\ assignment[r].kids = ChildBudget /\ assignment[r].retries = RetryBudget
    BY DEF Init, NewAssignment, NewAttempt
<1> HIDE DEF r
<1>2. ChildrenOf(r) = {} /\ AttemptsOf(r) = {r}
    BY <1>1 DEF ChildrenOf, AttemptsOf
<1>3. /\ IsFiniteSet({r}) /\ Cardinality({}) = 0 /\ Cardinality({r}) = 1
    BY FS_EmptySet, FS_Singleton
<1>4. Cardinality(ChildrenOf(r)) = 0 /\ Cardinality(AttemptsOf(r)) = 1
    BY <1>2, <1>3
<1>5. (ChildBudget # NoLimit => ChildBudget \in Nat) /\ (RetryBudget # NoLimit => RetryBudget \in Nat)
    BY BudgetAssumption
<1>6. QED
    BY <1>1, <1>3, <1>4, <1>5 DEF BudgetsExact

-----------------------------------------------------------------------------
(* Steps that spend                                                         *)

LEMMA RetryBudgets ==
    ASSUME IInv, WInv, BudgetsExact, NEW d \in DOMAIN dispatch, RetryAttempt(d)
    PROVE  BudgetsExact'
<1> DEFINE a == dispatch[d].attempt
           i == NextDispatch(d[1])
<1>a. PICK asg : asg = attempt[a].assignment
    OBVIOUS
<1>1. /\ a \in DOMAIN attempt /\ asg \in DOMAIN assignment /\ assignment[asg] \in AssignmentRow
      /\ Covers(assignment[asg].retries, 1) /\ attempt[a] \in AttemptRow
    BY <1>a, AuthorityFacts DEF RetryAttempt
<1>2. i # None /\ i \notin DOMAIN dispatch /\ i \notin DOMAIN attempt
    BY DispatchFacts, NextIsNew DEF IInv, TypeOK, KeysOK
<1>3. /\ dispatch' = Upsert(Close(d, "boundary"), [x \in {i} |-> NewDispatch(i, None)])
      /\ attempt' = Upsert(EndAttempt(a), [x \in {i} |-> NewAttempt(asg, i)])
      /\ assignment' = [assignment EXCEPT ![asg].attempt = i,
                                          ![asg].retries = Spend(assignment[asg].retries, 1)]
    BY <1>a DEF RetryAttempt
<1> HIDE DEF i
<1>4. /\ DOMAIN assignment' = DOMAIN assignment /\ DOMAIN attempt' = DOMAIN attempt \cup {i}
      /\ attempt'[i].assignment = asg
    BY <1>3 DEF Upsert, EndAttempt, NewAttempt
<1>5. ASSUME NEW x \in DOMAIN attempt
      PROVE  attempt'[x].assignment = attempt[x].assignment
    <2>1. attempt'[x] = IF x = a THEN [attempt[a] EXCEPT !.status = "completed", !.dispatch = None]
                        ELSE attempt[x]
        BY <1>2, <1>3 DEF Upsert, EndAttempt
    <2>2. QED
        BY <1>1, <2>1 DEF AttemptRow
<1>6. ASSUME NEW x \in DOMAIN dispatch
      PROVE  dispatch'[x].attempt = dispatch[x].attempt
    <2>1. dispatch'[x] = IF x = d THEN [dispatch[d] EXCEPT !.status = "closed", !.reason = "boundary"]
                         ELSE dispatch[x]
        BY <1>2, <1>3 DEF Upsert, Close
    <2>2. QED
        BY <2>1, DispatchFacts DEF DispatchRow
<1>7. ASSUME NEW x \in DOMAIN assignment
      PROVE  /\ assignment'[x].source = assignment[x].source
             /\ assignment'[x].kids = assignment[x].kids
             /\ assignment'[x].retries = IF x = asg THEN Spend(assignment[asg].retries, 1)
                                         ELSE assignment[x].retries
    BY <1>1, <1>3 DEF AssignmentRow
<1>8. ASSUME NEW x \in DOMAIN assignment
      PROVE  ChildrenOf(x)' = ChildrenOf(x)
    <2>1. ASSUME NEW c \in DOMAIN assignment, assignment[c].source # None
          PROVE  attempt'[dispatch'[assignment'[c].source].attempt].assignment =
                 attempt[dispatch[assignment[c].source].attempt].assignment
        BY <1>5, <1>6, <1>7, <2>1, ChildSource
    <2>2. QED
        BY <1>4, <1>7, <2>1 DEF ChildrenOf
<1> HIDE DEF a
<1>9. ASSUME NEW x \in DOMAIN assignment
      PROVE  AttemptsOf(x)' = IF x = asg THEN AttemptsOf(x) \cup {i} ELSE AttemptsOf(x)
    BY <1>4, <1>5 DEF AttemptsOf
<1>10. i \notin AttemptsOf(asg)
    BY <1>2 DEF AttemptsOf
<1>11. Cardinality(AttemptsOf(asg) \cup {i}) = Cardinality(AttemptsOf(asg)) + 1
    BY <1>10, CountsFinite, FS_AddElement
<1>12. RetryBudget # NoLimit =>
        /\ assignment'[asg].retries \in Nat
        /\ assignment'[asg].retries + Cardinality(AttemptsOf(asg)') - 1 = RetryBudget
    <2> SUFFICES ASSUME RetryBudget # NoLimit
                 PROVE  /\ assignment'[asg].retries \in Nat
                        /\ assignment'[asg].retries + Cardinality(AttemptsOf(asg)') - 1 = RetryBudget
        OBVIOUS
    <2>1. /\ assignment[asg].retries \in Nat
          /\ assignment[asg].retries + Cardinality(AttemptsOf(asg)) - 1 = RetryBudget
        BY <1>1 DEF BudgetsExact
    <2>2. assignment[asg].retries >= 1 /\ assignment'[asg].retries = assignment[asg].retries - 1
        BY <1>1, <1>7, <2>1 DEF Covers, Spend, NoLimit
    <2>3. Cardinality(AttemptsOf(asg)') = Cardinality(AttemptsOf(asg)) + 1
        BY <1>1, <1>9, <1>11
    <2>4. QED
        BY <2>1, <2>2, <2>3, CountsFinite
<1>13. IsFiniteSet(DOMAIN attempt')
    BY <1>4, FS_AddElement DEF BudgetsExact
<1>14. ASSUME NEW x \in DOMAIN assignment, x # asg
       PROVE  AttemptsOf(x)' = AttemptsOf(x) /\ assignment'[x].retries = assignment[x].retries
    BY <1>7, <1>9, <1>14
<1>15. ASSUME NEW x \in DOMAIN assignment
       PROVE  /\ ChildBudget # NoLimit =>
                    /\ assignment'[x].kids \in Nat
                    /\ assignment'[x].kids + Cardinality(ChildrenOf(x)') = ChildBudget
              /\ RetryBudget # NoLimit =>
                    /\ assignment'[x].retries \in Nat
                    /\ assignment'[x].retries + Cardinality(AttemptsOf(x)') - 1 = RetryBudget
    BY <1>7, <1>8, <1>12, <1>14 DEF BudgetsExact
<1>16. QED
    BY <1>4, <1>13, <1>15 DEF BudgetsExact

LEMMA DelegateBudgets ==
    ASSUME IInv, WInv, BudgetsExact, NEW d \in DOMAIN dispatch, NEW S \in SUBSET Children(d[1]),
           Delegate(d, S)
    PROVE  BudgetsExact'
<1> DEFINE a == dispatch[d].attempt
           n == Cardinality(S)
<1>a. PICK asg, ids : asg = attempt[a].assignment /\ ids = {NextDispatch(c) : c \in S}
    OBVIOUS
<1>1. /\ a \in DOMAIN attempt /\ asg \in DOMAIN assignment /\ assignment[asg] \in AssignmentRow
      /\ Covers(assignment[asg].kids, n) /\ attempt[a] \in AttemptRow
      /\ IsFiniteSet(S) /\ n \in Nat /\ S \subseteq Members
    BY <1>a, AuthorityFacts, ChildrenFinite DEF Delegate
<1>2. /\ dispatch' = Upsert(Close(d, "delegation"), [j \in ids |-> NewDispatch(j, None)])
      /\ attempt' = Upsert([attempt EXCEPT ![a].dispatch = None, ![a].wait = d],
                           [j \in ids |-> NewAttempt(j, j)])
      /\ assignment' = Upsert([assignment EXCEPT ![asg].kids = Spend(assignment[asg].kids, n)],
                              [j \in ids |-> NewAssignment(j, d)])
    BY <1>a DEF Delegate
<1>3. \A c \in S : NextDispatch(c) \notin DOMAIN dispatch /\ NextDispatch(c)[1] = c
    BY <1>1, NextIsNew DEF IInv, TypeOK
<1>4. IsFiniteSet(ids) /\ Cardinality(ids) = n
    <2> DEFINE f == [c \in S |-> NextDispatch(c)]
    <2>1. f \in Bijection(S, ids)
        BY <1>a, <1>3 DEF Bijection, Injection, Surjection, IsInjective
    <2>2. QED
        BY <1>1, <2>1, FS_Bijection DEF ExistsBijection
<1>5. \A j \in ids : j \notin DOMAIN dispatch /\ j \notin DOMAIN attempt /\ j \notin DOMAIN assignment
    BY <1>a, <1>3 DEF IInv, TypeOK, KeysOK
<1> HIDE DEF n
<1>6. /\ DOMAIN assignment' = DOMAIN assignment \cup ids
      /\ DOMAIN attempt' = DOMAIN attempt \cup ids
    BY <1>2 DEF Upsert
<1>7. ASSUME NEW j \in ids
      PROVE  /\ attempt'[j].assignment = j /\ assignment'[j].source = d
             /\ assignment'[j].kids = ChildBudget /\ assignment'[j].retries = RetryBudget
    <2>1. attempt'[j] = NewAttempt(j, j) /\ assignment'[j] = NewAssignment(j, d)
        BY <1>2 DEF Upsert
    <2>2. QED
        BY <2>1 DEF NewAttempt, NewAssignment
<1>8. ASSUME NEW x \in DOMAIN attempt
      PROVE  attempt'[x].assignment = attempt[x].assignment
    <2>1. attempt'[x] = IF x = a THEN [attempt[a] EXCEPT !.dispatch = None, !.wait = d]
                        ELSE attempt[x]
        BY <1>2, <1>5 DEF Upsert
    <2>2. QED
        BY <1>1, <2>1 DEF AttemptRow
<1>9. ASSUME NEW x \in DOMAIN dispatch
      PROVE  dispatch'[x].attempt = dispatch[x].attempt
    <2>1. dispatch'[x] = IF x = d THEN [dispatch[d] EXCEPT !.status = "closed", !.reason = "delegation"]
                         ELSE dispatch[x]
        BY <1>2, <1>5 DEF Upsert, Close
    <2>2. QED
        BY <2>1, DispatchFacts DEF DispatchRow
<1>10. ASSUME NEW x \in DOMAIN assignment
       PROVE  /\ assignment'[x].source = assignment[x].source
              /\ assignment'[x].retries = assignment[x].retries
              /\ assignment'[x].kids = IF x = asg THEN Spend(assignment[asg].kids, n)
                                       ELSE assignment[x].kids
    <2>1. assignment'[x] = IF x = asg
                           THEN [assignment[asg] EXCEPT !.kids = Spend(assignment[asg].kids, n)]
                           ELSE assignment[x]
        BY <1>2, <1>5 DEF Upsert
    <2>2. QED
        BY <1>1, <2>1 DEF AssignmentRow
<1>11. attempt'[dispatch'[d].attempt].assignment = asg /\ d # None
    BY <1>a, <1>1, <1>8, <1>9, DispatchFacts
<1>12. ASSUME NEW c \in DOMAIN assignment, assignment[c].source # None
       PROVE  /\ attempt'[dispatch'[assignment'[c].source].attempt].assignment =
                 attempt[dispatch[assignment[c].source].attempt].assignment
              /\ attempt[dispatch[assignment[c].source].attempt].assignment \in DOMAIN assignment
    BY <1>8, <1>9, <1>10, <1>12, ChildSource
<1> HIDE DEF a
<1>13. ASSUME NEW x
       PROVE  ChildrenOf(x)' = IF x = asg THEN ChildrenOf(x) \cup ids ELSE ChildrenOf(x)
    <2>1. ASSUME NEW c
          PROVE  c \in ChildrenOf(x)' <=> c \in ChildrenOf(x) \/ (x = asg /\ c \in ids)
        <3>1. CASE c \in ids
            BY <1>5, <1>6, <1>7, <1>11, <3>1 DEF ChildrenOf
        <3>2. CASE c \in DOMAIN assignment
            BY <1>5, <1>6, <1>10, <1>12, <3>2 DEF ChildrenOf
        <3>3. CASE c \notin ids /\ c \notin DOMAIN assignment
            BY <1>6, <3>3 DEF ChildrenOf
        <3>4. QED
            BY <3>1, <3>2, <3>3
    <2>2. QED
        BY <2>1
<1>14. ASSUME NEW x
       PROVE  AttemptsOf(x)' = IF x \in ids THEN {x} ELSE AttemptsOf(x)
    <2>1. x \in ids => AttemptsOf(x) = {}
        BY <1>5 DEF AttemptsOf, IInv, TypeOK, KeysOK
    <2>2. QED
        BY <1>6, <1>7, <1>8, <2>1 DEF AttemptsOf
<1>15. IsFiniteSet(DOMAIN assignment') /\ IsFiniteSet(DOMAIN attempt')
    BY <1>4, <1>6, FS_Union DEF BudgetsExact
<1>16. ASSUME NEW x \in ids
       PROVE  /\ ChildBudget # NoLimit =>
                    /\ assignment'[x].kids \in Nat
                    /\ assignment'[x].kids + Cardinality(ChildrenOf(x)') = ChildBudget
              /\ RetryBudget # NoLimit =>
                    /\ assignment'[x].retries \in Nat
                    /\ assignment'[x].retries + Cardinality(AttemptsOf(x)') - 1 = RetryBudget
    <2>1. ChildrenOf(x)' = {}
        <3>1. ChildrenOf(x) = {}
            BY <1>5, ChildSource DEF ChildrenOf
        <3>2. QED
            BY <1>1, <1>5, <1>13, <3>1
    <2>2. AttemptsOf(x)' = {x}
        BY <1>14
    <2>3. Cardinality({}) = 0 /\ Cardinality({x}) = 1
        BY FS_EmptySet, FS_Singleton
    <2>4. QED
        BY <1>7, <2>1, <2>2, <2>3, BudgetAssumption
<1>17. ASSUME NEW x \in DOMAIN assignment
       PROVE  /\ RetryBudget # NoLimit =>
                    /\ assignment'[x].retries \in Nat
                    /\ assignment'[x].retries + Cardinality(AttemptsOf(x)') - 1 = RetryBudget
              /\ x # asg /\ ChildBudget # NoLimit =>
                    /\ assignment'[x].kids \in Nat
                    /\ assignment'[x].kids + Cardinality(ChildrenOf(x)') = ChildBudget
    <2>1. AttemptsOf(x)' = AttemptsOf(x) /\ (x # asg => ChildrenOf(x)' = ChildrenOf(x))
        BY <1>5, <1>13, <1>14
    <2>2. QED
        BY <1>10, <2>1 DEF BudgetsExact
<1>18. ChildBudget # NoLimit =>
        /\ assignment'[asg].kids \in Nat
        /\ assignment'[asg].kids + Cardinality(ChildrenOf(asg)') = ChildBudget
    <2> SUFFICES ASSUME ChildBudget # NoLimit
                 PROVE  /\ assignment'[asg].kids \in Nat
                        /\ assignment'[asg].kids + Cardinality(ChildrenOf(asg)') = ChildBudget
        OBVIOUS
    <2>1. /\ assignment[asg].kids \in Nat
          /\ assignment[asg].kids + Cardinality(ChildrenOf(asg)) = ChildBudget
        BY <1>1 DEF BudgetsExact
    <2>2. assignment[asg].kids >= n /\ assignment'[asg].kids = assignment[asg].kids - n
        BY <1>1, <1>10, <2>1 DEF Covers, Spend, NoLimit
    <2>3. ChildrenOf(asg) \cap ids = {}
        BY <1>5 DEF ChildrenOf
    <2>4. /\ IsFiniteSet(ChildrenOf(asg)) /\ Cardinality(ChildrenOf(asg)) \in Nat
        BY CountsFinite
    <2>5. Cardinality(ChildrenOf(asg) \cup ids) =
          Cardinality(ChildrenOf(asg)) + Cardinality(ids) - Cardinality(ChildrenOf(asg) \cap ids)
        BY <1>4, <2>4, FS_Union
    <2>6. Cardinality(ChildrenOf(asg)') = Cardinality(ChildrenOf(asg)) + n
        <3>1. ChildrenOf(asg)' = ChildrenOf(asg) \cup ids
            BY <1>13
        <3>2. Cardinality(ChildrenOf(asg) \cap ids) = 0
            BY <2>3, FS_EmptySet
        <3>3. Cardinality(ChildrenOf(asg) \cup ids) = Cardinality(ChildrenOf(asg)) + n
            BY <1>1, <1>4, <2>4, <2>5, <3>2
        <3>4. QED
            BY <3>1, <3>3
    <2>7. QED
        BY <1>1, <2>1, <2>2, <2>4, <2>6
<1>19. ASSUME NEW x \in DOMAIN assignment'
       PROVE  /\ ChildBudget # NoLimit =>
                    /\ assignment'[x].kids \in Nat
                    /\ assignment'[x].kids + Cardinality(ChildrenOf(x)') = ChildBudget
              /\ RetryBudget # NoLimit =>
                    /\ assignment'[x].retries \in Nat
                    /\ assignment'[x].retries + Cardinality(AttemptsOf(x)') - 1 = RetryBudget
    BY <1>6, <1>16, <1>17, <1>18
<1>20. QED
    BY <1>15, <1>19 DEF BudgetsExact

-----------------------------------------------------------------------------
(* Steps that spend nothing                                                 *)

LEMMA SameRowsSpendNothing ==
    ASSUME UNCHANGED <<assignment, attempt, dispatch>>
    PROVE  SpendsNothing
BY DEF SpendsNothing

LEMMA PausedSpendsNothing ==
    ASSUME IInv, NEW failed, PauseLanes(failed)
    PROVE  SpendsNothing
BY PauseEffect DEF SpendsNothing

LEMMA CancelledSpendsNothing ==
    ASSUME IInv, CancelTask
    PROVE  SpendsNothing
BY CancelEffect DEF SpendsNothing

LEMMA OpenedSpendsNothing ==
    ASSUME NEW Q, NEW o, Opens(Q, o)
    PROVE  SpendsNothing
BY DEF SpendsNothing, Opens

LEMMA AcceptedSpendsNothing ==
    ASSUME IInv, NEW d \in DOMAIN dispatch, AcceptProviderStart(d)
    PROVE  SpendsNothing
<1>1. ASSUME NEW x \in DOMAIN dispatch
      PROVE  dispatch'[x].attempt = dispatch[x].attempt
    BY DispatchFacts DEF AcceptProviderStart, DispatchRow
<1>2. QED
    BY <1>1 DEF AcceptProviderStart, SpendsNothing

LEMMA JoinedSpendsNothing ==
    ASSUME IInv, NEW s \in signals, JoinWave(s)
    PROVE  SpendsNothing
<1>1. ASSUME NEW x \in DOMAIN attempt
      PROVE  attempt'[x].assignment = attempt[x].assignment
    BY AttemptFacts DEF JoinWave, AttemptRow
<1>2. QED
    BY <1>1 DEF JoinWave, SpendsNothing

LEMMA EndedSpendsNothing ==
    ASSUME IInv, NEW d \in DOMAIN dispatch, NodeAuthority(d),
           NEW outcome \in {"green", "blocked"}, EndsLane(d, outcome)
    PROVE  SpendsNothing
<1> DEFINE asg == attempt[dispatch[d].attempt].assignment
<1>1. EndRows(d, dispatch[d].attempt, asg, outcome)
    BY EndEffect
<1>2. asg \in DOMAIN assignment /\ assignment[asg] \in AssignmentRow
    BY AuthorityFacts
<1>3. assignment' = [assignment EXCEPT ![asg].outcome = outcome]
    BY DEF EndsLane, EndAssignment
<1>4. ASSUME NEW i \in DOMAIN assignment
      PROVE  /\ assignment'[i].source = assignment[i].source
             /\ assignment'[i].kids = assignment[i].kids
             /\ assignment'[i].retries = assignment[i].retries
    BY <1>2, <1>3 DEF AssignmentRow
<1>5. QED
    BY <1>1, <1>4 DEF EndRows, SpendsNothing

LEMMA TerminalEndsLane ==
    ASSUME NEW d, NEW outcome, ReturnToParent(d, outcome) \/ CompleteTask(d, outcome)
    PROVE  NodeAuthority(d) /\ EndsLane(d, outcome)
BY DEF ReturnToParent, CompleteTask, MayCheckpoint, EndsLane, volatile

-----------------------------------------------------------------------------
(* The budgets                                                              *)

LEMMA NextBudgets ==
    IInv /\ WInv /\ BudgetsExact /\ [Next]_vars => BudgetsExact'
<1> SUFFICES ASSUME IInv, WInv, BudgetsExact, [Next]_vars PROVE BudgetsExact'
    OBVIOUS
<1>1. ASSUME UNCHANGED laneRows PROVE SpendsNothing
    BY <1>1, SameRowsSpendNothing DEF laneRows
<1>2. CASE UNCHANGED vars
    BY <1>1, <1>2, NothingSpent DEF vars
<1>3. CASE NodeOperation
    <2>1. PICK d \in DOMAIN dispatch :
            \/ RetryAttempt(d) \/ \E S \in SUBSET Children(d[1]) : Delegate(d, S)
            \/ \E outcome \in {"green", "blocked"} : ReturnToParent(d, outcome) \/ CompleteTask(d, outcome)
        BY <1>3 DEF NodeOperation
    <2>2. CASE RetryAttempt(d)
        BY <2>2, RetryBudgets
    <2>3. CASE \E S \in SUBSET Children(d[1]) : Delegate(d, S)
        BY <2>3, DelegateBudgets
    <2>4. CASE \E outcome \in {"green", "blocked"} : ReturnToParent(d, outcome) \/ CompleteTask(d, outcome)
        BY <2>4, TerminalEndsLane, EndedSpendsNothing, NothingSpent
    <2>5. QED
        BY <2>1, <2>2, <2>3, <2>4
<1>4. CASE Provider
    <2>1. PICK d \in DOMAIN dispatch :
            AcceptProviderStart(d) \/ PauseInvalidStart(d) \/ WatchdogReplace(d) \/ WatchdogPause(d)
        BY <1>4 DEF Provider
    <2>2. CASE AcceptProviderStart(d)
        BY <2>2, AcceptedSpendsNothing, NothingSpent
    <2>3. CASE WatchdogReplace(d)
        BY <2>3, WatchdogReplaceEffect, OpenedSpendsNothing, NothingSpent
    <2>4. CASE PauseInvalidStart(d) \/ WatchdogPause(d)
        BY <2>4, PausedSpendsNothing, NothingSpent DEF PauseInvalidStart, WatchdogPause
    <2>5. QED
        BY <2>1, <2>2, <2>3, <2>4
<1>5. CASE WaveHandler
    <2>1. CASE \E s \in signals : JoinWave(s)
        BY <2>1, JoinedSpendsNothing, NothingSpent
    <2>2. CASE \E s \in signals : SkipJoin(s) \/ PrepareContinuation(s)
        BY <1>1, <2>2, NothingSpent DEF SkipJoin, PrepareContinuation
    <2>3. CASE \E p \in preparing : OpenContinuation(p)
        BY <2>3, OpenContinuationEffect, OpenedSpendsNothing, NothingSpent
    <2>4. CASE \E p \in preparing : SkipContinuation(p)
        BY <1>1, <2>4, NothingSpent DEF SkipContinuation
    <2>5. QED
        BY <1>5, <2>1, <2>2, <2>3, <2>4 DEF WaveHandler
<1>6. CASE Control
    <2>1. CASE PauseTask
        BY <2>1, PausedSpendsNothing, NothingSpent DEF PauseTask
    <2>2. CASE PlanResume \/ \E p \in resuming : AbandonResume(p)
        BY <1>1, <2>2, NothingSpent DEF PlanResume, AbandonResume
    <2>3. CASE \E p \in resuming : CommitResume(p)
        BY <2>3, ResumeEffect, OpenedSpendsNothing, NothingSpent
    <2>4. CASE CancelTask
        BY <2>4, CancelledSpendsNothing, NothingSpent
    <2>5. QED
        BY <1>6, <2>1, <2>2, <2>3, <2>4 DEF Control
<1>7. CASE Failure
    <2>1. ASSUME NEW p \in preparing, FailContinuation(p) PROVE BudgetsExact'
        <3>1. UNCHANGED laneRows \/ PauseLanes({})
            BY <2>1 DEF FailContinuation
        <3>2. QED
            BY <1>1, <3>1, PausedSpendsNothing, NothingSpent
    <2>2. CASE \/ Restart \/ \E s \in signals : LoseSignal(s)
               \/ \E p \in preparing : LoseContinuation(p)
        BY <1>1, <2>2, NothingSpent DEF Restart, LoseSignal, LoseContinuation
    <2>3. QED
        BY <1>7, <2>1, <2>2 DEF Failure
<1>8. QED
    BY <1>2, <1>3, <1>4, <1>5, <1>6, <1>7 DEF Next

\* No sequence of delegations, retries, resumes and watchdog replacements
\* spends a unit of child or retry budget twice, for nothing, or past the limit.
THEOREM BudgetsAccount == Spec => []BudgetsAccountForWork
<1>1. BudgetsExact => BudgetsAccountForWork
    BY DEF BudgetsExact, BudgetsAccountForWork, ChildrenOf, AttemptsOf
<1>2. Spec => []BudgetsExact
    BY InitBudgets, NextBudgets, WavesInductive, PTL DEF Spec
<1>3. QED
    BY <1>1, <1>2, PTL

-----------------------------------------------------------------------------
(* The watchdog's limit                                                     *)

Superseded(a) ==
    {d \in DOMAIN dispatch : dispatch[d].attempt = a /\ dispatch[d].reason = "watchdog_superseded"}

\* Pause and resume alternate, so the control revision counts the resumes.
RevisionFollowsStatus ==
    /\ controlRevision \in Nat
    /\ taskStatus = "running" => controlRevision % 2 = 0
    /\ taskStatus = "paused" => controlRevision % 2 = 1

\* An Attempt's counter is of its replacements since the last resume.
ReplacedWithin(a) ==
    /\ attempt[a].replaced \in Nat /\ attempt[a].replaced <= ReplacementLimit
    /\ IsFiniteSet(Superseded(a))
    /\ Cardinality(Superseded(a)) <= ReplacementLimit * (controlRevision \div 2) + attempt[a].replaced

ReplacedExact ==
    /\ RevisionFollowsStatus
    /\ \A a \in DOMAIN attempt : ReplacedWithin(a)

\* A step without a replacement or a resume.
ReplacesNothing ==
    /\ \A a \in DOMAIN attempt' :
        IF a \in DOMAIN attempt THEN attempt'[a].replaced = attempt[a].replaced
        ELSE attempt'[a].replaced = 0
    /\ \A x \in DOMAIN dispatch' :
        dispatch'[x].reason = "watchdog_superseded" =>
            /\ x \in DOMAIN dispatch
            /\ dispatch'[x].reason = dispatch[x].reason /\ dispatch'[x].attempt = dispatch[x].attempt

LEMMA Halves ==
    ASSUME NEW L \in Nat, NEW c \in Nat
    PROVE  /\ c \div 2 \in Nat /\ L * (c \div 2) \in Nat
           /\ L * (c \div 2) <= L * ((c + 1) \div 2)
           /\ c % 2 = 1 => L * ((c + 1) \div 2) = L * (c \div 2) + L
           /\ L * (1 + c \div 2) = L + L * (c \div 2)
<1>1. PICK k : k = c \div 2
    OBVIOUS
<1>2. k \in Nat /\ ((c + 1) \div 2 = k \/ (c + 1) \div 2 = k + 1)
    BY <1>1
<1>3. c % 2 = 1 => (c + 1) \div 2 = k + 1
    BY <1>1
<1>4. L * (k + 1) = L * k + L /\ L * k \in Nat /\ L * (1 + k) = L + L * k
    BY <1>2
<1>5. QED
    BY <1>1, <1>2, <1>3, <1>4

LEMMA FewerWithin ==
    ASSUME NEW S, NEW T, IsFiniteSet(T), S \subseteq T, NEW m \in Nat, NEW n \in Nat,
           Cardinality(T) <= m, m <= n
    PROVE  IsFiniteSet(S) /\ Cardinality(S) <= n
<1>1. /\ IsFiniteSet(S) /\ Cardinality(S) <= Cardinality(T)
      /\ Cardinality(S) \in Nat /\ Cardinality(T) \in Nat
    BY FS_Subset, FS_CardinalityType
<1>2. QED
    BY <1>1

LEMMA NothingReplaced ==
    ASSUME IInv, ReplacedExact, RevisionFollowsStatus', ReplacesNothing,
           controlRevision' \in {controlRevision, controlRevision + 1}
    PROVE  ReplacedExact'
<1>1. ASSUME NEW a \in DOMAIN attempt'
      PROVE  ReplacedWithin(a)'
    <2> DEFINE old == ReplacementLimit * (controlRevision \div 2)
               new == ReplacementLimit * (controlRevision' \div 2)
    <2>1. ReplacementLimit \in Nat /\ old \in Nat /\ new \in Nat /\ old <= new
        <3>1. controlRevision \in Nat /\ controlRevision' \in Nat /\ ReplacementLimit \in Nat
            BY BudgetAssumption DEF ReplacedExact, RevisionFollowsStatus
        <3>2. old \in Nat /\ new \in Nat
            BY <3>1, Halves
        <3>3. CASE controlRevision' = controlRevision
            BY <3>1, <3>2, <3>3
        <3>4. CASE controlRevision' = controlRevision + 1
            BY <3>1, <3>2, <3>4, Halves
        <3>5. QED
            BY <3>1, <3>2, <3>3, <3>4
    <2>2. Superseded(a)' \subseteq Superseded(a)
        BY DEF Superseded, ReplacesNothing
    <2>3. CASE a \in DOMAIN attempt
        <3>1. /\ attempt[a].replaced \in Nat /\ attempt[a].replaced <= ReplacementLimit
              /\ IsFiniteSet(Superseded(a))
              /\ Cardinality(Superseded(a)) <= old + attempt[a].replaced
            BY <2>3 DEF ReplacedExact, ReplacedWithin
        <3>2. attempt'[a].replaced = attempt[a].replaced
            BY <2>3 DEF ReplacesNothing
        <3> HIDE DEF old, new
        <3>3. /\ old + attempt[a].replaced \in Nat /\ new + attempt[a].replaced \in Nat
              /\ old + attempt[a].replaced <= new + attempt[a].replaced
            BY <2>1, <3>1
        <3>4. IsFiniteSet(Superseded(a)') /\ Cardinality(Superseded(a)') <= new + attempt[a].replaced
            BY <2>2, <3>1, <3>3, FewerWithin
        <3>5. QED
            BY <3>1, <3>2, <3>4 DEF ReplacedWithin, new
    <2>4. CASE a \notin DOMAIN attempt
        <3>1. Superseded(a) = {}
            BY <2>4, DispatchFacts DEF Superseded
        <3>2. Superseded(a)' = {} /\ attempt'[a].replaced = 0
            BY <2>2, <2>4, <3>1 DEF ReplacesNothing
        <3>3. IsFiniteSet({}) /\ Cardinality({}) = 0
            BY FS_EmptySet
        <3>4. IsFiniteSet(Superseded(a)') /\ Cardinality(Superseded(a)') = 0
            BY <3>2, <3>3
        <3> HIDE DEF old, new
        <3>5. QED
            BY <2>1, <3>2, <3>4 DEF ReplacedWithin, new
    <2>5. QED
        BY <2>3, <2>4
<1>2. QED
    BY <1>1 DEF ReplacedExact

LEMMA InitReplaced == Init => ReplacedExact
<1> SUFFICES ASSUME Init PROVE ReplacedExact
    OBVIOUS
<1> DEFINE r == <<Root, 1>>
<1>1. /\ DOMAIN attempt = {r} /\ DOMAIN dispatch = {r} /\ attempt[r].replaced = 0
      /\ dispatch[r].reason = "none" /\ taskStatus = "running" /\ controlRevision = 0
    BY DEF Init, NewDispatch, NewAttempt
<1> HIDE DEF r
<1>2. Superseded(r) = {}
    BY <1>1 DEF Superseded
<1>3. IsFiniteSet(Superseded(r)) /\ Cardinality(Superseded(r)) = 0
    BY <1>2, FS_EmptySet
<1>4. ReplacementLimit \in Nat /\ ReplacementLimit * (controlRevision \div 2) \in Nat
    BY <1>1, BudgetAssumption, Halves
<1>5. QED
    BY <1>1, <1>3, <1>4 DEF ReplacedExact, ReplacedWithin, RevisionFollowsStatus

-----------------------------------------------------------------------------
(* Steps without a replacement                                              *)

LEMMA PausedReplacesNothing ==
    ASSUME IInv, NEW failed, PauseLanes(failed)
    PROVE  ReplacesNothing
<1>1. ASSUME NEW a \in DOMAIN attempt
      PROVE  attempt'[a].replaced = attempt[a].replaced
    BY AttemptFacts DEF PauseLanes, ClearCurrent, AttemptRow
<1>2. ASSUME NEW x \in DOMAIN dispatch
      PROVE  dispatch'[x] = dispatch[x] \/ dispatch'[x].reason \in {"paused", "control_failed"}
    BY PauseEffect DEF Live
<1>3. DOMAIN attempt' = DOMAIN attempt /\ DOMAIN dispatch' = DOMAIN dispatch
    BY PauseEffect
<1>4. QED
    BY <1>1, <1>2, <1>3 DEF ReplacesNothing

LEMMA CancelledReplacesNothing ==
    ASSUME IInv, CancelTask
    PROVE  ReplacesNothing
<1>1. ASSUME NEW a \in DOMAIN attempt
      PROVE  attempt'[a].replaced = attempt[a].replaced
    BY AttemptFacts DEF CancelTask, AttemptRow
<1>2. ASSUME NEW x \in DOMAIN dispatch
      PROVE  dispatch'[x] = dispatch[x] \/ dispatch'[x].reason = "cancelled"
    BY DispatchFacts DEF CancelTask, CloseCurrent, DispatchRow
<1>3. DOMAIN attempt' = DOMAIN attempt /\ DOMAIN dispatch' = DOMAIN dispatch
    BY CancelEffect
<1>4. QED
    BY <1>1, <1>2, <1>3 DEF ReplacesNothing

LEMMA AcceptedReplacesNothing ==
    ASSUME IInv, NEW d \in DOMAIN dispatch, AcceptProviderStart(d)
    PROVE  ReplacesNothing
<1>1. ASSUME NEW x \in DOMAIN dispatch
      PROVE  dispatch'[x].reason = dispatch[x].reason /\ dispatch'[x].attempt = dispatch[x].attempt
    BY DispatchFacts DEF AcceptProviderStart, DispatchRow
<1>2. QED
    BY <1>1 DEF AcceptProviderStart, ReplacesNothing

LEMMA JoinedReplacesNothing ==
    ASSUME IInv, NEW s \in signals, JoinWave(s)
    PROVE  ReplacesNothing
<1>1. ASSUME NEW x \in DOMAIN attempt
      PROVE  attempt'[x].replaced = attempt[x].replaced
    BY AttemptFacts DEF JoinWave, AttemptRow
<1>2. QED
    BY <1>1 DEF JoinWave, ReplacesNothing

LEMMA ContinuedReplacesNothing ==
    ASSUME IInv, NEW p \in preparing, OpenContinuation(p)
    PROVE  ReplacesNothing
<1> DEFINE a == dispatch[p.wave].attempt
           i == NextDispatch(p.wave[1])
<1>1. /\ attempt' = [attempt EXCEPT ![a].dispatch = i]
      /\ dispatch' = Upsert(dispatch, [x \in {i} |-> NewDispatch(a, p.wave)])
    BY DEF OpenContinuation
<1> HIDE DEF a, i
<1>2. ASSUME NEW x \in DOMAIN attempt
      PROVE  attempt'[x].replaced = attempt[x].replaced
    BY <1>1, AttemptFacts DEF AttemptRow
<1>3. QED
    BY <1>1, <1>2 DEF Upsert, NewDispatch, ReplacesNothing

LEMMA EndedReplacesNothing ==
    ASSUME IInv, NEW d \in DOMAIN dispatch, NodeAuthority(d),
           NEW outcome \in {"green", "blocked"}, EndsLane(d, outcome)
    PROVE  ReplacesNothing
<1> DEFINE a == dispatch[d].attempt
<1>1. EndRows(d, a, attempt[a].assignment, outcome)
    BY EndEffect
<1>2. attempt' = [attempt EXCEPT ![a].status = "completed", ![a].dispatch = None]
    BY DEF EndsLane, EndAttempt
<1>3. ASSUME NEW x \in DOMAIN attempt
      PROVE  attempt'[x].replaced = attempt[x].replaced
    BY <1>2, AttemptFacts DEF AttemptRow
<1>4. QED
    BY <1>1, <1>3 DEF EndRows, ReplacesNothing

LEMMA RetriedReplacesNothing ==
    ASSUME IInv, NEW d \in DOMAIN dispatch, RetryAttempt(d)
    PROVE  ReplacesNothing
<1> DEFINE a == dispatch[d].attempt
           asg == attempt[a].assignment
           i == NextDispatch(d[1])
<1>1. /\ dispatch' = Upsert(Close(d, "boundary"), [x \in {i} |-> NewDispatch(i, None)])
      /\ attempt' = Upsert(EndAttempt(a), [x \in {i} |-> NewAttempt(asg, i)])
    BY DEF RetryAttempt
<1> HIDE DEF a, asg, i
<1>2. ASSUME NEW x \in DOMAIN attempt, x # i
      PROVE  attempt'[x].replaced = attempt[x].replaced
    <2>1. attempt'[x] = IF x = a THEN [attempt[a] EXCEPT !.status = "completed", !.dispatch = None]
                        ELSE attempt[x]
        BY <1>1, <1>2 DEF Upsert, EndAttempt
    <2>2. QED
        BY <2>1, AttemptFacts DEF AttemptRow
<1>3. /\ DOMAIN attempt' = DOMAIN attempt \cup {i} /\ attempt'[i].replaced = 0
      /\ DOMAIN dispatch' = DOMAIN dispatch \cup {i} /\ dispatch'[i].reason = "none"
    BY <1>1 DEF Upsert, EndAttempt, Close, NewAttempt, NewDispatch
<1>4. ASSUME NEW x \in DOMAIN dispatch, x # i
      PROVE  dispatch'[x] = dispatch[x] \/ dispatch'[x].reason = "boundary"
    <2>1. dispatch'[x] = IF x = d THEN [dispatch[d] EXCEPT !.status = "closed", !.reason = "boundary"]
                         ELSE dispatch[x]
        BY <1>1, <1>4 DEF Upsert, Close
    <2>2. QED
        BY <2>1, DispatchFacts DEF DispatchRow
<1>5. i \notin DOMAIN attempt
    BY DispatchFacts, NextIsNew DEF IInv, TypeOK, KeysOK, i
<1>6. QED
    BY <1>2, <1>3, <1>4, <1>5 DEF ReplacesNothing

LEMMA DelegatedReplacesNothing ==
    ASSUME IInv, NEW d \in DOMAIN dispatch, NEW S \in SUBSET Children(d[1]), Delegate(d, S)
    PROVE  ReplacesNothing
<1> DEFINE a == dispatch[d].attempt
           ids == {NextDispatch(c) : c \in S}
<1>1. /\ dispatch' = Upsert(Close(d, "delegation"), [j \in ids |-> NewDispatch(j, None)])
      /\ attempt' = Upsert([attempt EXCEPT ![a].dispatch = None, ![a].wait = d],
                           [j \in ids |-> NewAttempt(j, j)])
    BY DEF Delegate
<1>2. \A j \in ids : j \notin DOMAIN attempt
    BY ChildrenFinite, NextIsNew DEF IInv, TypeOK, KeysOK
<1> HIDE DEF a, ids
<1>3. ASSUME NEW x \in DOMAIN attempt
      PROVE  attempt'[x].replaced = attempt[x].replaced
    BY <1>1, <1>2, AttemptFacts DEF Upsert, AttemptRow
<1>4. /\ DOMAIN attempt' = DOMAIN attempt \cup ids /\ \A j \in ids : attempt'[j].replaced = 0
      /\ DOMAIN dispatch' = DOMAIN dispatch \cup ids /\ \A j \in ids : dispatch'[j].reason = "none"
    BY <1>1 DEF Upsert, Close, NewAttempt, NewDispatch
<1>5. ASSUME NEW x \in DOMAIN dispatch, x \notin ids
      PROVE  dispatch'[x] = dispatch[x] \/ dispatch'[x].reason = "delegation"
    <2>1. dispatch'[x] = IF x = d THEN [dispatch[d] EXCEPT !.status = "closed", !.reason = "delegation"]
                         ELSE dispatch[x]
        BY <1>1, <1>5 DEF Upsert, Close
    <2>2. QED
        BY <2>1, DispatchFacts DEF DispatchRow
<1>6. QED
    BY <1>2, <1>3, <1>4, <1>5 DEF ReplacesNothing

-----------------------------------------------------------------------------
(* The replacement and the resume                                           *)

LEMMA ReplacedOnce ==
    ASSUME IInv, WInv, ReplacedExact, NEW d \in DOMAIN dispatch, WatchdogReplace(d)
    PROVE  ReplacedExact'
<1> DEFINE a == dispatch[d].attempt
           i == NextDispatch(d[1])
           budget == ReplacementLimit * (controlRevision \div 2)
<1>1. /\ attempt' = [attempt EXCEPT ![a].dispatch = i, ![a].replaced = attempt[a].replaced + 1]
      /\ dispatch' = Upsert(Close(d, "watchdog_superseded"), [x \in {i} |-> NewDispatch(a, d)])
      /\ attempt[a].replaced < ReplacementLimit
      /\ UNCHANGED <<taskStatus, controlRevision>>
    BY DEF WatchdogReplace, taskRow
<1>2. a \in DOMAIN attempt /\ budget \in Nat /\ ReplacementLimit \in Nat
    BY DispatchFacts, BudgetAssumption, Halves DEF ReplacedExact, RevisionFollowsStatus
<1> HIDE DEF a, i, budget
<1>3. ASSUME NEW x \in DOMAIN attempt
      PROVE  attempt'[x].replaced = IF x = a THEN attempt[x].replaced + 1 ELSE attempt[x].replaced
    BY <1>1, <1>2, AttemptFacts DEF AttemptRow
<1>4. ASSUME NEW x \in DOMAIN dispatch', dispatch'[x].reason = "watchdog_superseded", x # d
      PROVE  x \in DOMAIN dispatch /\ dispatch'[x] = dispatch[x]
    BY <1>1, <1>4 DEF Upsert, Close, NewDispatch
<1>5. dispatch'[d].attempt = a
    BY WatchdogReplaceEffect DEF Opens, a
<1>6. ASSUME NEW x \in DOMAIN attempt
      PROVE  ReplacedWithin(x)'
    <2>1. /\ attempt[x].replaced \in Nat /\ attempt[x].replaced <= ReplacementLimit
          /\ IsFiniteSet(Superseded(x))
          /\ Cardinality(Superseded(x)) <= budget + attempt[x].replaced
        BY DEF ReplacedExact, ReplacedWithin, budget
    <2>2. CASE x # a
        <3>1. Superseded(x)' \subseteq Superseded(x)
            BY <1>4, <1>5, <2>2 DEF Superseded
        <3>2. budget + attempt[x].replaced \in Nat
            BY <1>2, <2>1
        <3>3. IsFiniteSet(Superseded(x)') /\ Cardinality(Superseded(x)') <= budget + attempt[x].replaced
            BY <2>1, <3>1, <3>2, FewerWithin
        <3>4. QED
            BY <1>1, <1>3, <2>1, <2>2, <3>3 DEF ReplacedWithin, budget
    <2>3. CASE x = a
        <3>1. Superseded(x)' \subseteq Superseded(x) \cup {d}
            BY <1>4 DEF Superseded
        <3>2. /\ IsFiniteSet(Superseded(x) \cup {d})
              /\ Cardinality(Superseded(x)) \in Nat
              /\ \/ Cardinality(Superseded(x) \cup {d}) = Cardinality(Superseded(x))
                 \/ Cardinality(Superseded(x) \cup {d}) = Cardinality(Superseded(x)) + 1
            BY <2>1, FS_AddElement, FS_CardinalityType
        <3>3. budget + attempt[x].replaced + 1 \in Nat
            BY <1>2, <2>1
        <3>4. Cardinality(Superseded(x) \cup {d}) <= budget + attempt[x].replaced + 1
            BY <1>2, <2>1, <3>2
        <3>5. IsFiniteSet(Superseded(x)') /\ Cardinality(Superseded(x)') <= budget + attempt[x].replaced + 1
            BY <3>1, <3>2, <3>3, <3>4, FewerWithin
        <3>6. attempt'[x].replaced = attempt[x].replaced + 1 /\ attempt[x].replaced + 1 <= ReplacementLimit
            <4>1. attempt[x].replaced < ReplacementLimit
                BY <1>1, <2>3
            <4>2. attempt'[x].replaced = attempt[x].replaced + 1
                BY <1>3, <2>3
            <4>3. QED
                BY <1>2, <2>1, <4>1, <4>2
        <3>7. Cardinality(Superseded(x)') <= budget + attempt'[x].replaced
            BY <1>2, <2>1, <3>5, <3>6
        <3>8. QED
            BY <1>1, <2>1, <3>5, <3>6, <3>7 DEF ReplacedWithin, budget
    <2>4. QED
        BY <2>2, <2>3
<1>7. DOMAIN attempt' = DOMAIN attempt
    BY <1>1
<1>8. QED
    BY <1>1, <1>6, <1>7 DEF ReplacedExact, RevisionFollowsStatus

LEMMA ReplacedResumed ==
    ASSUME IInv, WInv, ReplacedExact, NEW p \in resuming, CommitResume(p)
    PROVE  ReplacedExact'
<1> DEFINE Q == p.sources
           o == [s \in Q |-> NextDispatch(s[1])]
           old == ReplacementLimit * (controlRevision \div 2)
           new == ReplacementLimit * (controlRevision' \div 2)
<1>1. Opens(Q, o)
    BY ResumeEffect
<1>2. /\ taskStatus = "paused" /\ taskStatus' = "running"
      /\ controlRevision' = controlRevision + 1
      /\ controlRevision \in Nat /\ controlRevision % 2 = 1
    BY DEF CommitResume, ResumeCurrent, ReplacedExact, RevisionFollowsStatus
<1>3. controlRevision' \in Nat /\ controlRevision' % 2 = 0
    BY <1>2
<1>4. /\ old \in Nat /\ new \in Nat /\ ReplacementLimit \in Nat
      /\ new = old + ReplacementLimit
    BY <1>2, <1>3, BudgetAssumption, Halves
<1>5. \A s \in Q : ~Live(s)
    BY <1>2, LiveOrClosed DEF IInv, CommitResume, ResumeCurrent, SourceClaimable, ContextCurrent, Live
<1> HIDE DEF o, old, new
<1>6. ASSUME NEW x \in DOMAIN attempt
      PROVE  Superseded(x)' \subseteq Superseded(x)
    <2>1. ASSUME NEW y \in DOMAIN dispatch', dispatch'[y].reason = "watchdog_superseded"
          PROVE  y \in DOMAIN dispatch /\ dispatch'[y] = dispatch[y]
        <3>1. y \in DOMAIN dispatch \/ dispatch'[y].reason = "none"
            BY DEF CommitResume, Upsert, NewDispatch
        <3>2. QED
            BY <1>1, <1>5, <2>1, <3>1 DEF Opens
    <2>2. QED
        BY <2>1 DEF Superseded
<1>7. ASSUME NEW x \in DOMAIN attempt
      PROVE  attempt'[x].replaced \in {0, attempt[x].replaced}
    <2>1. PICK ptr, count :
            /\ attempt'[x] = [attempt[x] EXCEPT !.dispatch = ptr, !.replaced = count]
            /\ count \in {0, attempt[x].replaced}
        BY DEF CommitResume
    <2>2. QED
        BY <2>1, AttemptFacts DEF AttemptRow
<1>8. ASSUME NEW x \in DOMAIN attempt
      PROVE  ReplacedWithin(x)'
    <2>1. /\ attempt[x].replaced \in Nat /\ attempt[x].replaced <= ReplacementLimit
          /\ IsFiniteSet(Superseded(x))
          /\ Cardinality(Superseded(x)) <= old + attempt[x].replaced
        BY DEF ReplacedExact, ReplacedWithin, old
    <2>2. /\ attempt'[x].replaced \in Nat /\ attempt'[x].replaced <= ReplacementLimit
          /\ old + attempt[x].replaced \in Nat /\ new + attempt'[x].replaced \in Nat
          /\ old + attempt[x].replaced <= new + attempt'[x].replaced
        BY <1>4, <1>7, <2>1
    <2>3. IsFiniteSet(Superseded(x)') /\ Cardinality(Superseded(x)') <= new + attempt'[x].replaced
        BY <1>6, <2>1, <2>2, FewerWithin
    <2>4. QED
        BY <2>2, <2>3 DEF ReplacedWithin, new
<1>9. DOMAIN attempt' = DOMAIN attempt
    BY <1>1 DEF Opens
<1>10. QED
    BY <1>2, <1>3, <1>8, <1>9 DEF ReplacedExact, RevisionFollowsStatus

LEMMA RevisionKept ==
    ASSUME RevisionFollowsStatus, controlRevision' = controlRevision,
           taskStatus' \in {taskStatus, "completed"}
    PROVE  RevisionFollowsStatus'
BY DEF RevisionFollowsStatus

LEMMA PausedKeepsLimit ==
    ASSUME IInv, ReplacedExact, NEW failed, PauseLanes(failed), taskStatus = "running"
    PROVE  ReplacedExact'
<1>1. taskStatus' = "paused" /\ controlRevision' = controlRevision + 1
    BY PauseEffect
<1>2. RevisionFollowsStatus'
    BY <1>1 DEF ReplacedExact, RevisionFollowsStatus
<1>3. QED
    BY <1>1, <1>2, PausedReplacesNothing, NothingReplaced

LEMMA CancelledKeepsLimit ==
    ASSUME IInv, ReplacedExact, CancelTask
    PROVE  ReplacedExact'
<1>1. taskStatus' = "cancelled" /\ controlRevision' = controlRevision + 1
    BY CancelEffect
<1>2. RevisionFollowsStatus'
    BY <1>1 DEF ReplacedExact, RevisionFollowsStatus
<1>3. QED
    BY <1>1, <1>2, CancelledReplacesNothing, NothingReplaced

\* Every other step leaves the control revision alone.
LEMMA QuietKeepsLimit ==
    ASSUME IInv, ReplacedExact, ReplacesNothing, controlRevision' = controlRevision,
           taskStatus' \in {taskStatus, "completed"}
    PROVE  ReplacedExact'
BY RevisionKept, NothingReplaced DEF ReplacedExact

LEMMA NextReplaced ==
    IInv /\ WInv /\ ReplacedExact /\ [Next]_vars => ReplacedExact'
<1> SUFFICES ASSUME IInv, WInv, ReplacedExact, [Next]_vars PROVE ReplacedExact'
    OBVIOUS
<1>1. ASSUME UNCHANGED laneRows, UNCHANGED taskRow PROVE ReplacedExact'
    BY <1>1 DEF laneRows, taskRow, ReplacedExact, ReplacedWithin, Superseded, RevisionFollowsStatus
<1>2. CASE UNCHANGED vars
    BY <1>1, <1>2 DEF vars
<1>3. CASE NodeOperation
    <2>1. PICK d \in DOMAIN dispatch :
            \/ RetryAttempt(d) \/ \E S \in SUBSET Children(d[1]) : Delegate(d, S)
            \/ \E outcome \in {"green", "blocked"} : ReturnToParent(d, outcome) \/ CompleteTask(d, outcome)
        BY <1>3 DEF NodeOperation
    <2>2. CASE RetryAttempt(d)
        BY <2>2, RetriedReplacesNothing, QuietKeepsLimit DEF RetryAttempt, taskRow
    <2>3. CASE \E S \in SUBSET Children(d[1]) : Delegate(d, S)
        <3>1. UNCHANGED taskRow
            BY <2>3 DEF Delegate
        <3>2. QED
            BY <2>3, <3>1, DelegatedReplacesNothing, QuietKeepsLimit DEF taskRow
    <2>4. ASSUME NEW outcome \in {"green", "blocked"}, ReturnToParent(d, outcome) \/ CompleteTask(d, outcome)
          PROVE  ReplacedExact'
        <3>1. controlRevision' = controlRevision /\ taskStatus' \in {taskStatus, "completed"}
            BY <2>4 DEF ReturnToParent, CompleteTask, taskRow
        <3>2. QED
            BY <2>4, <3>1, TerminalEndsLane, EndedReplacesNothing, QuietKeepsLimit
    <2>5. QED
        BY <2>1, <2>2, <2>3, <2>4
<1>4. CASE Provider
    <2>1. PICK d \in DOMAIN dispatch :
            AcceptProviderStart(d) \/ PauseInvalidStart(d) \/ WatchdogReplace(d) \/ WatchdogPause(d)
        BY <1>4 DEF Provider
    <2>2. CASE AcceptProviderStart(d)
        BY <2>2, AcceptedReplacesNothing, QuietKeepsLimit DEF AcceptProviderStart, taskRow
    <2>3. CASE WatchdogReplace(d)
        BY <2>3, ReplacedOnce
    <2>4. CASE PauseInvalidStart(d) \/ WatchdogPause(d)
        BY <2>4, PausedKeepsLimit DEF PauseInvalidStart, WatchdogPause, Stale, NodeAuthority
    <2>5. QED
        BY <2>1, <2>2, <2>3, <2>4
<1>5. CASE WaveHandler
    <2>1. CASE \E s \in signals : JoinWave(s)
        <3>1. UNCHANGED taskRow
            BY <2>1 DEF JoinWave
        <3>2. QED
            BY <2>1, <3>1, JoinedReplacesNothing, QuietKeepsLimit DEF taskRow
    <2>2. CASE \E s \in signals : SkipJoin(s) \/ PrepareContinuation(s)
        BY <1>1, <2>2 DEF SkipJoin, PrepareContinuation
    <2>3. CASE \E p \in preparing : OpenContinuation(p)
        <3>1. UNCHANGED taskRow
            BY <2>3 DEF OpenContinuation
        <3>2. QED
            BY <2>3, <3>1, ContinuedReplacesNothing, QuietKeepsLimit DEF taskRow
    <2>4. CASE \E p \in preparing : SkipContinuation(p)
        BY <1>1, <2>4 DEF SkipContinuation
    <2>5. QED
        BY <1>5, <2>1, <2>2, <2>3, <2>4 DEF WaveHandler
<1>6. CASE Control
    <2>1. CASE PauseTask
        BY <2>1, PausedKeepsLimit DEF PauseTask
    <2>2. CASE PlanResume \/ \E p \in resuming : AbandonResume(p)
        BY <1>1, <2>2 DEF PlanResume, AbandonResume
    <2>3. CASE \E p \in resuming : CommitResume(p)
        BY <2>3, ReplacedResumed
    <2>4. CASE CancelTask
        BY <2>4, CancelledKeepsLimit
    <2>5. QED
        BY <1>6, <2>1, <2>2, <2>3, <2>4 DEF Control
<1>7. CASE Failure
    <2>1. ASSUME NEW p \in preparing, FailContinuation(p) PROVE ReplacedExact'
        <3>1. UNCHANGED <<taskRow, laneRows>> \/ (taskStatus = "running" /\ PauseLanes({}))
            BY <2>1 DEF FailContinuation
        <3>2. QED
            BY <1>1, <3>1, PausedKeepsLimit
    <2>2. CASE \/ Restart \/ \E s \in signals : LoseSignal(s)
               \/ \E p \in preparing : LoseContinuation(p)
        BY <1>1, <2>2 DEF Restart, LoseSignal, LoseContinuation
    <2>3. QED
        BY <1>7, <2>1, <2>2 DEF Failure
<1>8. QED
    BY <1>2, <1>3, <1>4, <1>5, <1>6, <1>7 DEF Next

\* The watchdog replaces the turns of an Attempt at most ReplacementLimit times
\* between two resumes, whatever pauses, failures and restarts come between:
\* an Attempt that never answers ends in a pause and not in replacements forever.
THEOREM WatchdogInBudget == Spec => []WatchdogStaysInBudget
<1>1. ReplacedExact => WatchdogStaysInBudget
    <2> SUFFICES ASSUME ReplacedExact, NEW a \in DOMAIN attempt
                 PROVE  Cardinality(Superseded(a)) <= ReplacementLimit * (1 + controlRevision \div 2)
        BY DEF WatchdogStaysInBudget, Superseded
    <2> DEFINE old == ReplacementLimit * (controlRevision \div 2)
    <2>1. /\ attempt[a].replaced \in Nat /\ attempt[a].replaced <= ReplacementLimit
          /\ Cardinality(Superseded(a)) \in Nat
          /\ Cardinality(Superseded(a)) <= old + attempt[a].replaced
        BY FS_CardinalityType DEF ReplacedExact, ReplacedWithin
    <2>2. /\ old \in Nat /\ ReplacementLimit \in Nat
          /\ ReplacementLimit * (1 + controlRevision \div 2) = ReplacementLimit + old
        BY BudgetAssumption, Halves DEF ReplacedExact, RevisionFollowsStatus
    <2> HIDE DEF old
    <2>3. QED
        BY <2>1, <2>2
<1>2. Spec => []ReplacedExact
    BY InitReplaced, NextReplaced, WavesInductive, PTL DEF Spec
<1>3. QED
    BY <1>1, <1>2, PTL
-----------------------------------------------------------------------------
(* The team behind a green Task                                             *)

\* Every accepted green is backed by greens of the member's direct children,
\* and a completed Task names a boundary of the root.  GreenTaskCoversTeam is
\* not inductive without the first part: it says of one boundary what has to be
\* known of all that came before it.
GreenIsCovered ==
    /\ \A d \in DOMAIN boundary :
        boundary[d] = "green" => \A c \in Children(d[1]) : Participated(c)
    /\ taskStatus = "completed" => resultBoundary \in DOMAIN boundary /\ resultBoundary[1] = Root

LEMMA InitCovered == Init => GreenIsCovered
BY DEF Init, GreenIsCovered

\* A step that accepts no boundary and completes no Task.
LEMMA CoverSame ==
    ASSUME GreenIsCovered, UNCHANGED boundary,
           taskStatus' # "completed" \/ UNCHANGED taskRow
    PROVE  GreenIsCovered'
<1>1. \A m : Participated(m) => Participated(m)'
    BY DEF Participated
<1>2. QED
    BY <1>1 DEF GreenIsCovered, taskRow

\* A step that accepts the boundary of a live Dispatch.
LEMMA CoverAccepted ==
    ASSUME IInv, WInv, GreenIsCovered, NEW d \in DOMAIN dispatch, NodeAuthority(d),
           NEW outcome, boundary' = Accept(d, outcome),
           outcome = "green" => \A c \in Children(d[1]) : Participated(c),
           taskStatus' = "completed" => resultBoundary' = d /\ d[1] = Root
    PROVE  GreenIsCovered'
<1>1. d \notin DOMAIN boundary
    BY LiveOrClosed DEF NodeAuthority, WInv, ClosedBehind
<1>2. /\ DOMAIN boundary' = DOMAIN boundary \cup {d} /\ boundary'[d] = outcome
      /\ \A b \in DOMAIN boundary : boundary'[b] = boundary[b]
    BY <1>1 DEF Accept, Upsert
<1>3. ASSUME NEW m, Participated(m) PROVE Participated(m)'
    BY <1>2, <1>3 DEF Participated
<1>4. ASSUME NEW b \in DOMAIN boundary', boundary'[b] = "green", NEW c \in Children(b[1])
      PROVE  Participated(c)'
    <2>1. Participated(c)
        BY <1>2, <1>4 DEF GreenIsCovered
    <2>2. QED
        BY <1>3, <2>1
<1>5. \A m : Children(m)' = Children(m)
    BY DEF Children
<1>6. QED
    BY <1>2, <1>4, <1>5 DEF GreenIsCovered

LEMMA NextCovered ==
    IInv /\ WInv /\ GreenIsCovered /\ [Next]_vars => GreenIsCovered'
<1> SUFFICES ASSUME IInv, WInv, GreenIsCovered, [Next]_vars PROVE GreenIsCovered'
    OBVIOUS
<1>1. ASSUME UNCHANGED <<taskRow, laneRows>> PROVE GreenIsCovered'
    BY <1>1, CoverSame DEF laneRows
<1>2. ASSUME NEW failed, PauseLanes(failed) PROVE GreenIsCovered'
    BY <1>2, CoverSame, PauseEffect
<1>3. CASE UNCHANGED vars
    BY <1>1, <1>3 DEF vars
<1>4. CASE NodeOperation
    <2>1. PICK d \in DOMAIN dispatch :
            \/ \E S \in SUBSET Children(d[1]) : Delegate(d, S)
            \/ \E outcome \in {"green", "blocked"} : ReturnToParent(d, outcome)
            \/ \E outcome \in {"green", "blocked"} : CompleteTask(d, outcome)
            \/ RetryAttempt(d)
        BY <1>4 DEF NodeOperation
    <2>2. CASE \E S \in SUBSET Children(d[1]) : Delegate(d, S)
        BY <2>2, CoverSame DEF Delegate
    <2>3. ASSUME NEW outcome \in {"green", "blocked"}, ReturnToParent(d, outcome)
          PROVE  GreenIsCovered'
        <3>1. /\ NodeAuthority(d) /\ taskStatus' # "completed"
              /\ boundary' = Accept(d, outcome)
              /\ outcome = "green" => \A c \in Children(d[1]) : Participated(c)
            BY <2>3 DEF ReturnToParent, MayCheckpoint, NodeAuthority, taskRow
        <3>2. QED
            BY <3>1, CoverAccepted
    <2>4. ASSUME NEW outcome \in {"green", "blocked"}, CompleteTask(d, outcome)
          PROVE  GreenIsCovered'
        <3> DEFINE a == dispatch[d].attempt
                   asg == attempt[a].assignment
        <3>1. /\ NodeAuthority(d) /\ assignment[asg].source = None /\ resultBoundary' = d
              /\ boundary' = Accept(d, outcome)
              /\ outcome = "green" => \A c \in Children(d[1]) : Participated(c)
            BY <2>4 DEF CompleteTask, MayCheckpoint
        <3>2. a \in DOMAIN attempt /\ a[1] = d[1] /\ asg \in DOMAIN assignment /\ asg[1] = a[1]
            BY DispatchFacts, AttemptFacts
        <3>3. asg = <<Root, 1>>
            BY <3>1, <3>2 DEF IInv, LaneKeepsMember
        <3>4. d[1] = Root
            BY <3>2, <3>3
        <3>5. QED
            BY <3>1, <3>4, CoverAccepted
    <2>5. CASE RetryAttempt(d)
        <3>1. NodeAuthority(d) /\ taskStatus' # "completed" /\ boundary' = Accept(d, "retry")
            BY <2>5 DEF RetryAttempt, NodeAuthority, taskRow
        <3>2. QED
            BY <3>1, CoverAccepted
    <2>6. QED
        BY <2>1, <2>2, <2>3, <2>4, <2>5
<1>5. CASE Provider
    <2>1. PICK d \in DOMAIN dispatch :
            AcceptProviderStart(d) \/ PauseInvalidStart(d) \/ WatchdogReplace(d) \/ WatchdogPause(d)
        BY <1>5 DEF Provider
    <2>2. CASE AcceptProviderStart(d) \/ WatchdogReplace(d)
        BY <2>2, CoverSame DEF AcceptProviderStart, WatchdogReplace
    <2>3. CASE PauseInvalidStart(d) \/ WatchdogPause(d)
        BY <1>2, <2>3 DEF PauseInvalidStart, WatchdogPause
    <2>4. QED
        BY <2>1, <2>2, <2>3
<1>6. CASE WaveHandler
    <2>1. CASE \E s \in signals : JoinWave(s)
        BY <2>1, CoverSame DEF JoinWave
    <2>2. CASE \E s \in signals : SkipJoin(s) \/ PrepareContinuation(s)
        BY <1>1, <2>2 DEF SkipJoin, PrepareContinuation
    <2>3. CASE \E p \in preparing : OpenContinuation(p)
        BY <2>3, CoverSame DEF OpenContinuation
    <2>4. CASE \E p \in preparing : SkipContinuation(p)
        BY <1>1, <2>4 DEF SkipContinuation
    <2>5. QED
        BY <1>6, <2>1, <2>2, <2>3, <2>4 DEF WaveHandler
<1>7. CASE Control
    <2>1. CASE PauseTask
        BY <1>2, <2>1 DEF PauseTask
    <2>2. CASE PlanResume \/ \E p \in resuming : AbandonResume(p)
        BY <1>1, <2>2 DEF PlanResume, AbandonResume
    <2>3. CASE \E p \in resuming : CommitResume(p)
        BY <2>3, CoverSame DEF CommitResume
    <2>4. CASE CancelTask
        BY <2>4, CoverSame, CancelEffect
    <2>5. QED
        BY <1>7, <2>1, <2>2, <2>3, <2>4 DEF Control
<1>8. CASE Failure
    <2>1. ASSUME NEW p \in preparing, FailContinuation(p) PROVE GreenIsCovered'
        <3>1. UNCHANGED <<taskRow, laneRows>> \/ PauseLanes({})
            BY <2>1 DEF FailContinuation
        <3>2. QED
            BY <1>1, <1>2, <3>1
    <2>2. CASE \/ Restart \/ \E s \in signals : LoseSignal(s)
               \/ \E p \in preparing : LoseContinuation(p)
        BY <1>1, <2>2 DEF Restart, LoseSignal, LoseContinuation
    <2>3. QED
        BY <1>8, <2>1, <2>2 DEF Failure
<1>9. QED
    BY <1>3, <1>4, <1>5, <1>6, <1>7, <1>8 DEF Next

\* A member with an accepted green has only participants below it, so the
\* participants of a green Task are the whole nested team: commit_checkpoint
\* asks each level about its direct children and the levels add up.
THEOREM GreenTasksCoverTheTeam == Spec => []GreenTaskCoversTeam
<1>1. GreenIsCovered => GreenTaskCoversTeam
    <2> SUFFICES ASSUME GreenIsCovered, taskStatus = "completed", boundary[resultBoundary] = "green"
                 PROVE  \A m \in Members : Participated(m)
        BY DEF GreenTaskCoversTeam
    <2> DEFINE S == {m \in Members : Participated(m)}
    <2>1. Root \in S
        BY TeamAssumption DEF GreenIsCovered, Participated
    <2>2. ASSUME NEW m \in Members \ {Root}, Parent[m] \in S PROVE m \in S
        <3>1. PICK d \in DOMAIN boundary : d[1] = Parent[m] /\ boundary[d] = "green"
            BY <2>2 DEF Participated
        <3>2. m \in Children(d[1])
            BY <3>1 DEF Children
        <3>3. QED
            BY <3>1, <3>2 DEF GreenIsCovered
    <2>3. S \in SUBSET Members
        OBVIOUS
    <2> HIDE DEF S
    <2>4. S = Members
        BY <2>1, <2>2, <2>3, TreeAssumption
    <2>5. QED
        BY <2>4 DEF S
<1>2. Spec => []GreenIsCovered
    BY InitCovered, NextCovered, WavesInductive, PTL DEF Spec
<1>3. QED
    BY <1>1, <1>2, PTL

-----------------------------------------------------------------------------
(* What the handlers of a Wave owe it                                       *)

\* The continuation of a Wave is announced, or read and not yet committed.
ContinuationUnderWay(w) ==
    \/ [kind |-> "DelegationWaveSettled", wave |-> w] \in signals
    \/ \E p \in preparing : p.wave = w /\ p.control = controlRevision

\* Every joined Wave of a running Task is on its way to its successor.
SettledHinted ==
    taskStatus = "running" => \A w \in DOMAIN wave : Unconsumed(w) => ContinuationUnderWay(w)

\* An open Wave that every member has returned to.
ReturnedOpen(w) == wave[w].status = "open" /\ AllReturned(w)

\* Every Wave that can be joined is announced.
ReturnsHinted ==
    \A w \in DOMAIN wave : ReturnedOpen(w) =>
        [kind |-> "WaveMemberSettled", wave |-> w] \in signals

\* The queue or a handler drops what it was given.
LosesHint ==
    \/ \E s \in signals : LoseSignal(s)
    \/ \E p \in preparing : LoseContinuation(p)

\* Whatever the handlers read, they never turn down a hint that a running Task
\* still needs: a settled Wave without successor has the lane, the Assignment
\* and the close reason that prepare_delegation_wave_continuation asks for, and
\* a Wave that all members returned to is one that settle_delegation_wave joins.
WavesAreServable ==
    taskStatus = "running" =>
        \A w \in DOMAIN wave :
            /\ Unconsumed(w) => WaveContinuable(w)
            /\ ReturnedOpen(w) => Joinable(w)

\* No step but a lost hint leaves a Wave without the handler it waits for; a
\* hint spent on a paused Task is the exception, and a restart makes up for all.
HintsAreKept ==
    [][/\ ~LosesHint /\ SettledHinted => SettledHinted'
       /\ ~LosesHint /\ ReturnsHinted /\ taskStatus # "paused" => ReturnsHinted'
       /\ Restart => (SettledHinted /\ ReturnsHinted)']_vars

\* As long as nothing was lost, a joined Wave of a running Task is announced or
\* being continued, and before control first intervenes a returned one is
\* announced: what SettledWaveContinues and ReturnedWaveContinues rest on.
HintsComplete ==
    faults = 0 => SettledHinted /\ (controlRevision = 0 => ReturnsHinted)

\* A Wave that its members returned to holds its parent's lane.
LEMMA ReturnedHoldsLane ==
    ASSUME IInv, WInv, NEW w \in DOMAIN wave, ReturnedOpen(w)
    PROVE  /\ taskStatus \in {"running", "paused"}
           /\ dispatch[w].attempt \in DOMAIN attempt
           /\ attempt[dispatch[w].attempt].status = "running"
           /\ attempt[dispatch[w].attempt].dispatch = None
           /\ attempt[dispatch[w].attempt].wait = w
           /\ wave[w].succ = None
<1> DEFINE a == dispatch[w].attempt
<1>1. taskStatus \in {"running", "paused"}
    BY DEF IInv, TypeOK, TaskTypeOK, TaskStatus, WInv, FinishedTaskIsQuiet, ReturnedOpen
<1>2. a \in DOMAIN attempt /\ w # None
    BY WaveFacts
<1>3. attempt[a].wait = w /\ wave[w].succ = None
    BY DEF WInv, WavesAreDelegations, ReturnedOpen
<1>4. attempt[a].status = "running"
    BY <1>1, <1>2, <1>3 DEF WInv, LanesAreOwned
<1>5. attempt[a].dispatch = None
    BY <1>2, <1>3, <1>4 DEF IInv, RunningIsCurrent, RunningAttempts
<1>6. QED
    BY <1>1, <1>2, <1>3, <1>4, <1>5

\* A joined Wave of a running Task leaves its parent's lane idle.
LEMMA UnconsumedLane ==
    ASSUME IInv, WInv, NEW w \in DOMAIN wave, Unconsumed(w), taskStatus = "running"
    PROVE  WaveContinuable(w) /\ LaneIdle(dispatch[w].attempt)
<1> DEFINE a == dispatch[w].attempt
           asg == attempt[a].assignment
<1>1. w \in ContinueSources /\ a \in DOMAIN attempt
    BY WaveFacts DEF ContinueSources, WaveSources
<1>2. SourcesOf(a) # {}
    BY <1>1 DEF SourcesOf
<1>3. LaneIdle(a)
    BY <1>1, <1>2 DEF WInv, LanesAreOwned, LaneIdle
<1>4. assignment[asg].outcome = "open" /\ assignment[asg].attempt = a
    BY <1>1, <1>3 DEF IInv, RunningIsCurrent, RunningAttempts, LaneIdle
<1>5. dispatch[w].status = "closed" /\ dispatch[w].reason = "delegation"
    BY DEF WInv, WavesAreDelegations
<1>6. QED
    BY <1>3, <1>4, <1>5 DEF WaveContinuable, ContextCurrent

LEMMA ServableWaves == IInv /\ WInv => WavesAreServable
BY ReturnedHoldsLane, UnconsumedLane DEF WavesAreServable, Joinable, ReturnedOpen

\* What a step does to the Waves and their hints.
HintsKept ==
    /\ SettledHinted => SettledHinted'
    /\ ReturnsHinted /\ taskStatus # "paused" => ReturnsHinted'

\* A step that drops no hint and gives no Wave a new claim without one.
LEMMA HintsStay ==
    ASSUME signals \subseteq signals',
           taskStatus' = "running" =>
                preparing \subseteq preparing' /\ UNCHANGED <<taskStatus, controlRevision>>,
           \A w \in DOMAIN wave' :
                /\ taskStatus' = "running" /\ Unconsumed(w)' => w \in DOMAIN wave /\ Unconsumed(w)
                /\ ReturnedOpen(w)' =>
                    \/ w \in DOMAIN wave /\ ReturnedOpen(w)
                    \/ [kind |-> "WaveMemberSettled", wave |-> w] \in signals'
    PROVE  HintsKept
<1>1. SettledHinted => SettledHinted'
    BY DEF SettledHinted, ContinuationUnderWay
<1>2. ReturnsHinted => ReturnsHinted'
    BY DEF ReturnsHinted
<1>3. QED
    BY <1>1, <1>2 DEF HintsKept

LEMMA SameWaveRow ==
    ASSUME NEW w \in DOMAIN wave, wave'[w] = wave[w]
    PROVE  (Unconsumed(w)' <=> Unconsumed(w)) /\ (ReturnedOpen(w)' <=> ReturnedOpen(w))
BY DEF Unconsumed, ReturnedOpen, AllReturned

\* A step that leaves Waves and hints alone.
LEMMA HintsIdle ==
    ASSUME UNCHANGED <<wave, signals>>,
           taskStatus' = "running" => UNCHANGED <<taskStatus, controlRevision, preparing>>
    PROVE  HintsKept
BY HintsStay, SameWaveRow

LEMMA HintsFannedOut ==
    ASSUME IInv, WInv, NEW d \in DOMAIN dispatch, NEW S \in SUBSET Children(d[1]), S # {},
           Delegate(d, S)
    PROVE  HintsKept
<1>1. PICK ids : ids = {NextDispatch(c) : c \in S}
    OBVIOUS
<1>2. /\ UNCHANGED <<taskStatus, controlRevision, signals, preparing>>
      /\ wave' = Upsert(wave, [w \in {d} |-> [status |-> "open",
                                              member |-> [i \in ids |-> "pending"],
                                              succ |-> None]])
      /\ d \notin DOMAIN wave
    BY <1>1 DEF Delegate, taskRow, volatile
<1>3. ids # {}
    BY <1>1
<1>4. /\ DOMAIN wave' = DOMAIN wave \cup {d}
      /\ \A w \in DOMAIN wave : wave'[w] = wave[w]
      /\ wave'[d].status = "open" /\ DOMAIN wave'[d].member = ids
      /\ \A i \in ids : wave'[d].member[i] = "pending"
    BY <1>2 DEF Upsert
<1>5. ~Unconsumed(d)' /\ ~ReturnedOpen(d)'
    BY <1>3, <1>4 DEF Unconsumed, ReturnedOpen, AllReturned
<1>6. \A w \in DOMAIN wave : (Unconsumed(w)' => Unconsumed(w)) /\ (ReturnedOpen(w)' => ReturnedOpen(w))
    BY <1>4, SameWaveRow
<1>7. QED
    BY <1>2, <1>4, <1>5, <1>6, HintsStay

LEMMA HintsReturned ==
    ASSUME IInv, WInv, NEW d \in DOMAIN dispatch, NEW outcome \in {"green", "blocked"},
           ReturnToParent(d, outcome)
    PROVE  HintsKept
<1>1. PICK v \in DOMAIN wave :
            /\ wave[v].status = "open"
            /\ wave' = [wave EXCEPT ![v].member[attempt[dispatch[d].attempt].assignment] = "settled"]
            /\ signals' = signals \cup {[kind |-> "WaveMemberSettled", wave |-> v]}
    BY DEF ReturnToParent
<1>2. UNCHANGED <<taskStatus, controlRevision, preparing>>
    BY DEF ReturnToParent, taskRow
<1>3. /\ DOMAIN wave' = DOMAIN wave
      /\ \A w \in DOMAIN wave : w # v => wave'[w] = wave[w]
      /\ wave'[v].status = "open"
    BY <1>1, WaveFacts
<1>4. ~Unconsumed(v)'
    BY <1>3 DEF Unconsumed
<1>5. QED
    BY <1>1, <1>2, <1>3, <1>4, HintsStay, SameWaveRow

LEMMA HintsJoined ==
    ASSUME IInv, WInv, NEW s \in signals, JoinWave(s)
    PROVE  HintsKept
<1>1. PICK v : v = s.wave
    OBVIOUS
<1>2. /\ s.kind = "WaveMemberSettled" /\ v \in DOMAIN wave
      /\ wave' = [wave EXCEPT ![v].status = "settled"]
      /\ signals' = (signals \ {s}) \cup {[kind |-> "DelegationWaveSettled", wave |-> v]}
      /\ UNCHANGED <<taskStatus, controlRevision, preparing>>
    BY <1>1 DEF JoinWave, taskRow, IInv, TypeOK, SignalsOK
<1>3. /\ DOMAIN wave' = DOMAIN wave
      /\ \A w \in DOMAIN wave : w # v => wave'[w] = wave[w]
      /\ wave'[v].status = "settled"
    BY <1>2, WaveFacts
<1>4. \A w : [kind |-> "DelegationWaveSettled", wave |-> w] \in signals =>
            [kind |-> "DelegationWaveSettled", wave |-> w] \in signals'
    BY <1>2
<1>5. \A w : w # v /\ [kind |-> "WaveMemberSettled", wave |-> w] \in signals =>
            [kind |-> "WaveMemberSettled", wave |-> w] \in signals'
    BY <1>1, <1>2
<1>6. ASSUME SettledHinted PROVE SettledHinted'
    <2>1. ASSUME NEW w \in DOMAIN wave', Unconsumed(w)', taskStatus = "running"
          PROVE  ContinuationUnderWay(w)'
        <3>1. CASE w = v
            BY <1>2, <3>1 DEF ContinuationUnderWay
        <3>2. CASE w # v
            <4>1. ContinuationUnderWay(w)
                BY <1>3, <1>6, <2>1, <3>2, SameWaveRow DEF SettledHinted
            <4>2. QED
                BY <1>2, <1>4, <4>1 DEF ContinuationUnderWay
        <3>3. QED
            BY <3>1, <3>2
    <2>2. QED
        BY <1>2, <2>1 DEF SettledHinted
<1>7. ASSUME ReturnsHinted PROVE ReturnsHinted'
    <2>1. ~ReturnedOpen(v)'
        BY <1>3 DEF ReturnedOpen
    <2>2. \A w \in DOMAIN wave : w # v => (ReturnedOpen(w)' <=> ReturnedOpen(w))
        BY <1>3, SameWaveRow
    <2>3. QED
        BY <1>3, <1>5, <1>7, <2>1, <2>2 DEF ReturnsHinted
<1>8. QED
    BY <1>6, <1>7 DEF HintsKept

LEMMA HintsSkipped ==
    ASSUME IInv, WInv, NEW s \in signals, SkipJoin(s)
    PROVE  HintsKept
<1>1. /\ s.kind = "WaveMemberSettled" /\ ~Joinable(s.wave) /\ s.wave \in DOMAIN wave
      /\ signals' = signals \ {s}
      /\ UNCHANGED <<taskStatus, controlRevision, preparing, wave>>
    BY DEF SkipJoin, taskRow, laneRows, IInv, TypeOK, SignalsOK
<1>2. \A w \in DOMAIN wave : (Unconsumed(w)' <=> Unconsumed(w)) /\ (ReturnedOpen(w)' <=> ReturnedOpen(w))
    BY <1>1, SameWaveRow
<1>3. \A w : [kind |-> "DelegationWaveSettled", wave |-> w] \in signals =>
            [kind |-> "DelegationWaveSettled", wave |-> w] \in signals'
    BY <1>1
<1>4. SettledHinted => SettledHinted'
    BY <1>1, <1>2, <1>3 DEF SettledHinted, ContinuationUnderWay
<1>5. ASSUME ReturnsHinted, taskStatus # "paused" PROVE ReturnsHinted'
    <2>1. ASSUME NEW w \in DOMAIN wave, ReturnedOpen(w)
          PROVE  [kind |-> "WaveMemberSettled", wave |-> w] \in signals'
        <3>1. taskStatus = "running" /\ [kind |-> "WaveMemberSettled", wave |-> w] \in signals
            BY <1>5, <2>1, ReturnedHoldsLane DEF ReturnsHinted
        <3>2. Joinable(w)
            BY <2>1, <3>1, ServableWaves DEF WavesAreServable
        <3>3. QED
            BY <1>1, <3>1, <3>2
    <2>2. QED
        BY <1>1, <1>2, <2>1 DEF ReturnsHinted
<1>6. QED
    BY <1>4, <1>5 DEF HintsKept

\* The hint of a Wave that is read while its Task runs becomes a preparation.
LEMMA HintsPrepared ==
    ASSUME IInv, WInv, NEW s \in signals, PrepareContinuation(s)
    PROVE  HintsKept
<1>1. PICK v : v = s.wave
    OBVIOUS
<1>2. /\ s.kind = "DelegationWaveSettled" /\ v \in DOMAIN wave
      /\ signals' = signals \ {s}
      /\ preparing \subseteq preparing'
      /\ WaveContinuable(v) => [wave |-> v, control |-> controlRevision] \in preparing'
      /\ UNCHANGED <<taskStatus, controlRevision, wave>>
    BY <1>1 DEF PrepareContinuation, taskRow, laneRows, IInv, TypeOK, SignalsOK
<1>3. \A w \in DOMAIN wave : (Unconsumed(w)' <=> Unconsumed(w)) /\ (ReturnedOpen(w)' <=> ReturnedOpen(w))
    BY <1>2, SameWaveRow
<1>4. \A w : [kind |-> "WaveMemberSettled", wave |-> w] \in signals =>
            [kind |-> "WaveMemberSettled", wave |-> w] \in signals'
    BY <1>2
<1>5. \A w : w # v /\ [kind |-> "DelegationWaveSettled", wave |-> w] \in signals =>
            [kind |-> "DelegationWaveSettled", wave |-> w] \in signals'
    BY <1>1, <1>2
<1>6. ReturnsHinted => ReturnsHinted'
    BY <1>2, <1>3, <1>4 DEF ReturnsHinted
<1>7. ASSUME SettledHinted, taskStatus = "running", NEW w \in DOMAIN wave, Unconsumed(w)
      PROVE  ContinuationUnderWay(w)'
    <2>1. ContinuationUnderWay(w)
        BY <1>7 DEF SettledHinted
    <2>2. CASE w = v
        <3>1. [wave |-> v, control |-> controlRevision] \in preparing'
            BY <1>2, <1>7, <2>2, UnconsumedLane
        <3>2. QED
            BY <1>2, <2>2, <3>1 DEF ContinuationUnderWay
    <2>3. CASE w # v
        BY <1>2, <1>5, <2>1, <2>3 DEF ContinuationUnderWay
    <2>4. QED
        BY <2>2, <2>3
<1>8. QED
    BY <1>2, <1>3, <1>6, <1>7 DEF HintsKept, SettledHinted

\* A preparation leaves its handler only when its Wave has nothing to continue.
LEMMA HintsSettled ==
    ASSUME IInv, WInv, NEW p \in preparing, preparing' = preparing \ {p},
           UNCHANGED <<taskStatus, controlRevision, signals>>, DOMAIN wave' = DOMAIN wave,
           \A w \in DOMAIN wave : w # p.wave => wave'[w] = wave[w],
           taskStatus = "running" /\ p.control = controlRevision => ~Unconsumed(p.wave)',
           Unconsumed(p.wave)' => Unconsumed(p.wave),
           ReturnedOpen(p.wave)' => ReturnedOpen(p.wave)
    PROVE  HintsKept
<1>1. PICK v : v = p.wave
    OBVIOUS
<1>2. \A w \in DOMAIN wave : (Unconsumed(w)' => Unconsumed(w)) /\ (ReturnedOpen(w)' => ReturnedOpen(w))
    BY SameWaveRow
<1>3. ReturnsHinted => ReturnsHinted'
    BY <1>2 DEF ReturnsHinted
<1>4. ASSUME SettledHinted, taskStatus = "running", NEW w \in DOMAIN wave, Unconsumed(w)'
      PROVE  ContinuationUnderWay(w)'
    <2>1. ContinuationUnderWay(w)
        BY <1>2, <1>4 DEF SettledHinted
    <2>2. CASE [kind |-> "DelegationWaveSettled", wave |-> w] \in signals
        BY <2>2 DEF ContinuationUnderWay
    <2>3. CASE \E q \in preparing : q.wave = w /\ q.control = controlRevision
        <3>1. PICK q \in preparing : q.wave = w /\ q.control = controlRevision
            BY <2>3
        <3>2. q # p
            BY <1>4, <3>1
        <3>3. q \in preparing'
            BY <3>2
        <3>4. QED
            BY <3>1, <3>3 DEF ContinuationUnderWay
    <2>4. QED
        BY <2>1, <2>2, <2>3 DEF ContinuationUnderWay
<1>5. QED
    BY <1>3, <1>4 DEF HintsKept, SettledHinted

LEMMA HintsContinued ==
    ASSUME IInv, WInv, NEW p \in preparing, OpenContinuation(p)
    PROVE  HintsKept
<1>1. PICK v, i : v = p.wave /\ i = NextDispatch(v[1])
    OBVIOUS
<1>2. /\ v \in DOMAIN wave /\ wave[v].status = "settled"
      /\ wave' = [wave EXCEPT ![v].succ = i]
      /\ preparing' = preparing \ {p}
      /\ UNCHANGED <<taskStatus, controlRevision, signals>>
    BY <1>1 DEF OpenContinuation, ContinuationCurrent, WaveContinuable, Unconsumed, taskRow,
                IInv, TypeOK, SignalsOK
<1>3. i # None
    <2>1. v \in DOMAIN dispatch /\ v[1] \in Members
        BY <1>2, WaveFacts, DispatchFacts
    <2>2. QED
        BY <1>1, <2>1, NextIsNew DEF IInv, TypeOK
<1>4. /\ DOMAIN wave' = DOMAIN wave
      /\ \A w \in DOMAIN wave : w # v => wave'[w] = wave[w]
      /\ wave'[v].status = "settled" /\ wave'[v].succ = i
    BY <1>2, WaveFacts
<1>5. ~Unconsumed(v)' /\ ~ReturnedOpen(v)'
    BY <1>3, <1>4 DEF Unconsumed, ReturnedOpen
<1>6. QED
    BY <1>1, <1>2, <1>4, <1>5, HintsSettled

LEMMA HintsDropped ==
    ASSUME IInv, WInv, NEW p \in preparing, preparing' = preparing \ {p},
           UNCHANGED <<taskRow, laneRows, signals>>,
           ~(taskStatus = "running" /\ p.control = controlRevision /\ Unconsumed(p.wave))
    PROVE  HintsKept
<1>1. p.wave \in DOMAIN wave
    BY DEF IInv, TypeOK, SignalsOK
<1>2. UNCHANGED <<wave, taskStatus, controlRevision>>
    BY DEF taskRow, laneRows
<1>3. /\ Unconsumed(p.wave)' <=> Unconsumed(p.wave)
      /\ ReturnedOpen(p.wave)' <=> ReturnedOpen(p.wave)
    BY <1>2 DEF Unconsumed, ReturnedOpen, AllReturned
<1>4. QED
    BY <1>2, <1>3, HintsSettled

LEMMA HintsFailed ==
    ASSUME IInv, WInv, NEW p \in preparing, FailContinuation(p)
    PROVE  HintsKept
<1>1. p.wave \in DOMAIN wave
    BY DEF IInv, TypeOK, SignalsOK
<1>2. CASE taskStatus = "running" /\ Unconsumed(p.wave)
    <2>1. PauseLanes({}) /\ UNCHANGED signals
        BY <1>1, <1>2, UnconsumedLane DEF FailContinuation
    <2>2. QED
        BY <2>1, PauseEffect, HintsIdle
<1>3. CASE ~(taskStatus = "running" /\ Unconsumed(p.wave))
    BY <1>3, HintsDropped DEF FailContinuation
<1>4. QED
    BY <1>2, <1>3

LEMMA HintsResumed ==
    ASSUME IInv, WInv, NEW p \in resuming, CommitResume(p)
    PROVE  HintsKept
<1>1. PICK opened : opened = [s \in p.sources |-> NextDispatch(s[1])]
    OBVIOUS
<1>2. /\ p.control = controlRevision /\ taskStatus = "paused" /\ UNCHANGED signals
      /\ wave' = [w \in DOMAIN wave |->
                    IF w \in p.sources THEN [wave[w] EXCEPT !.succ = opened[w]] ELSE wave[w]]
    BY <1>1 DEF CommitResume, ResumeCurrent
<1>3. p.sources = ContinueSources
    BY <1>2 DEF WInv, PlansAreExact
<1>4. ASSUME NEW w \in DOMAIN wave PROVE ~Unconsumed(w)' /\ (ReturnedOpen(w)' => ReturnedOpen(w))
    <2>1. CASE w \in p.sources
        <3>1. w \in DOMAIN dispatch /\ w[1] \in Members
            BY <1>4, WaveFacts, DispatchFacts
        <3>2. opened[w] # None
            BY <1>1, <2>1, <3>1, NextIsNew DEF IInv, TypeOK
        <3>3. /\ wave'[w].status = wave[w].status /\ wave'[w].member = wave[w].member
              /\ wave'[w].succ = opened[w]
            BY <1>2, <1>4, <2>1, WaveFacts
        <3>4. QED
            BY <3>2, <3>3 DEF Unconsumed, ReturnedOpen, AllReturned
    <2>2. CASE w \notin p.sources
        <3>1. wave'[w] = wave[w]
            BY <1>2, <1>4, <2>2
        <3>2. ~Unconsumed(w)
            BY <1>3, <1>4, <2>2 DEF ContinueSources, WaveSources
        <3>3. QED
            BY <1>4, <3>1, <3>2, SameWaveRow
    <2>3. QED
        BY <2>1, <2>2
<1>5. DOMAIN wave' = DOMAIN wave
    BY <1>2
<1>6. SettledHinted'
    BY <1>4, <1>5 DEF SettledHinted
<1>7. QED
    BY <1>2, <1>6 DEF HintsKept

LEMMA HintsCancelled ==
    ASSUME IInv, WInv, CancelTask
    PROVE  HintsKept
<1>1. /\ taskStatus' = "cancelled" /\ DOMAIN wave' = DOMAIN wave /\ UNCHANGED signals
      /\ \A w \in DOMAIN wave :
            wave'[w].status = IF wave[w].status # "cancelled" /\ wave[w].succ = None
                              THEN "cancelled" ELSE wave[w].status
    BY CancelEffect DEF CancelTask, volatile
<1>2. \A w \in DOMAIN wave : wave[w].succ # None => wave[w].status = "settled"
    BY DEF WInv, WavesAreDelegations
<1>3. \A w \in DOMAIN wave' : ~ReturnedOpen(w)'
    BY <1>1, <1>2 DEF ReturnedOpen
<1>4. SettledHinted' /\ ReturnsHinted'
    BY <1>1, <1>3 DEF SettledHinted, ReturnsHinted
<1>5. QED
    BY <1>4 DEF HintsKept

\* The startup audit republishes every hint a Wave is owed.
LEMMA HintsRestarted ==
    ASSUME IInv, WInv, Restart
    PROVE  (SettledHinted /\ ReturnsHinted)'
<1>1. UNCHANGED <<wave, taskStatus>> /\ signals' = StartupSignals
    BY DEF Restart, taskRow, laneRows
<1>2. \A w \in DOMAIN wave : (Unconsumed(w)' <=> Unconsumed(w)) /\ (ReturnedOpen(w)' <=> ReturnedOpen(w))
    BY <1>1, SameWaveRow
<1>3. ASSUME NEW w \in DOMAIN wave, ReturnedOpen(w)
      PROVE  [kind |-> "WaveMemberSettled", wave |-> w] \in StartupSignals
    BY <1>3, ReturnedHoldsLane DEF StartupSignals, ReturnedOpen
<1>4. ASSUME taskStatus = "running", NEW w \in DOMAIN wave, Unconsumed(w)
      PROVE  [kind |-> "DelegationWaveSettled", wave |-> w] \in StartupSignals
    BY <1>4, UnconsumedLane DEF StartupSignals, WaveSources
<1>5. ReturnsHinted'
    BY <1>1, <1>2, <1>3 DEF ReturnsHinted
<1>6. SettledHinted'
    BY <1>1, <1>2, <1>4 DEF SettledHinted, ContinuationUnderWay
<1>7. QED
    BY <1>5, <1>6

LEMMA NextHinted ==
    ASSUME IInv, WInv, [Next]_vars, ~LosesHint
    PROVE  HintsKept
<1>1. CASE UNCHANGED vars
    BY <1>1, HintsIdle DEF vars, taskRow, laneRows, volatile
<1>2. CASE NodeOperation
    <2>1. PICK d \in DOMAIN dispatch :
            \/ \E S \in (SUBSET Children(d[1])) \ {{}} : Delegate(d, S)
            \/ \E outcome \in {"green", "blocked"} : ReturnToParent(d, outcome)
            \/ \E outcome \in {"green", "blocked"} : CompleteTask(d, outcome)
            \/ RetryAttempt(d)
        BY <1>2 DEF NodeOperation
    <2>2. ASSUME NEW S \in (SUBSET Children(d[1])) \ {{}}, Delegate(d, S)
          PROVE  HintsKept
        <3>1. S \in SUBSET Children(d[1]) /\ S # {}
            OBVIOUS
        <3>2. QED
            BY <2>2, <3>1, HintsFannedOut
    <2>3. CASE \E outcome \in {"green", "blocked"} : CompleteTask(d, outcome)
        BY <2>3, HintsIdle DEF CompleteTask, volatile
    <2>4. CASE RetryAttempt(d)
        BY <2>4, HintsIdle DEF RetryAttempt, taskRow, volatile
    <2>5. QED
        BY <2>1, <2>2, <2>3, <2>4, HintsReturned
<1>3. CASE Provider
    <2>1. PICK d \in DOMAIN dispatch :
            AcceptProviderStart(d) \/ PauseInvalidStart(d) \/ WatchdogReplace(d) \/ WatchdogPause(d)
        BY <1>3 DEF Provider
    <2>2. CASE AcceptProviderStart(d) \/ WatchdogReplace(d)
        BY <2>2, HintsIdle DEF AcceptProviderStart, WatchdogReplace, taskRow, volatile
    <2>3. CASE PauseInvalidStart(d) \/ WatchdogPause(d)
        BY <2>3, PauseEffect, HintsIdle DEF PauseInvalidStart, WatchdogPause, volatile
    <2>4. QED
        BY <2>1, <2>2, <2>3
<1>4. CASE WaveHandler
    <2>1. ASSUME NEW p \in preparing, SkipContinuation(p) PROVE HintsKept
        <3>1. /\ preparing' = preparing \ {p} /\ UNCHANGED <<taskRow, laneRows, signals>>
              /\ ~ContinuationCurrent(p)
            BY <2>1 DEF SkipContinuation
        <3>2. p.wave \in DOMAIN wave
            BY DEF IInv, TypeOK, SignalsOK
        <3>3. ~(taskStatus = "running" /\ p.control = controlRevision /\ Unconsumed(p.wave))
            BY <3>1, <3>2, UnconsumedLane DEF ContinuationCurrent
        <3>4. QED
            BY <3>1, <3>3, HintsDropped
    <2>2. QED
        BY <1>4, <2>1, HintsJoined, HintsSkipped, HintsPrepared, HintsContinued DEF WaveHandler
<1>5. CASE Control
    <2>1. CASE PauseTask
        BY <2>1, PauseEffect, HintsIdle DEF PauseTask, volatile
    <2>2. CASE PlanResume \/ \E p \in resuming : AbandonResume(p)
        BY <2>2, HintsIdle DEF PlanResume, AbandonResume, taskRow, laneRows
    <2>3. QED
        BY <1>5, <2>1, <2>2, HintsResumed, HintsCancelled DEF Control
<1>6. CASE Failure
    BY <1>6, HintsFailed, HintsRestarted DEF Failure, LosesHint, HintsKept
<1>7. QED
    BY <1>1, <1>2, <1>3, <1>4, <1>5, <1>6 DEF Next

\* In a running Task every joined Wave passes prepare_delegation_wave_continuation
\* and every returned one settle_delegation_wave: no guard of theirs, which are
\* there for races and control, can turn down a Wave that is still owed its turn.
THEOREM ServableAlways == Spec => []WavesAreServable
BY ServableWaves, WavesInductive, PTL

\* A Wave loses the handler it waits for only with a lost hint or, before its
\* join, by a hint spent while the Task was paused; whatever was lost, the
\* startup audit puts it back.
THEOREM HintsKeptAlways == Spec => HintsAreKept
<1>1. IInv /\ WInv /\ [Next]_vars =>
        [/\ ~LosesHint /\ SettledHinted => SettledHinted'
         /\ ~LosesHint /\ ReturnsHinted /\ taskStatus # "paused" => ReturnsHinted'
         /\ Restart => (SettledHinted /\ ReturnsHinted)']_vars
    BY NextHinted, HintsRestarted DEF HintsKept
<1>2. QED
    BY <1>1, WavesInductive, PTL DEF Spec, HintsAreKept

\* Faults only add up, and every move of control but the end of the Task is
\* numbered.
LEMMA CountersGrow ==
    ASSUME [Next]_vars
    PROVE  /\ faults' = faults \/ faults' = faults + 1
           /\ \/ controlRevision' = controlRevision /\ taskStatus' \in {taskStatus, "completed"}
              \/ controlRevision' = controlRevision + 1
<1>1. ASSUME UNCHANGED taskRow, faults' = faults \/ faults' = faults + 1
      PROVE  /\ faults' = faults \/ faults' = faults + 1
             /\ \/ controlRevision' = controlRevision /\ taskStatus' \in {taskStatus, "completed"}
                \/ controlRevision' = controlRevision + 1
    BY <1>1 DEF taskRow
<1>2. ASSUME controlRevision' = controlRevision + 1, faults' = faults
      PROVE  /\ faults' = faults \/ faults' = faults + 1
             /\ \/ controlRevision' = controlRevision /\ taskStatus' \in {taskStatus, "completed"}
                \/ controlRevision' = controlRevision + 1
    BY <1>2
<1>3. CASE UNCHANGED vars
    BY <1>1, <1>3 DEF vars
<1>4. CASE NodeOperation
    <2>1. PICK d \in DOMAIN dispatch :
            \/ \E S \in SUBSET Children(d[1]) : Delegate(d, S)
            \/ \E outcome \in {"green", "blocked"} : ReturnToParent(d, outcome)
            \/ \E outcome \in {"green", "blocked"} : CompleteTask(d, outcome)
            \/ RetryAttempt(d)
        BY <1>4 DEF NodeOperation
    <2>2. CASE \E outcome \in {"green", "blocked"} : CompleteTask(d, outcome)
        BY <2>2 DEF CompleteTask
    <2>3. UNCHANGED <<taskRow, faults>> \/ \E outcome \in {"green", "blocked"} : CompleteTask(d, outcome)
        BY <2>1 DEF Delegate, ReturnToParent, RetryAttempt
    <2>4. QED
        BY <1>1, <2>2, <2>3
<1>5. CASE Provider
    <2>1. PICK d \in DOMAIN dispatch :
            AcceptProviderStart(d) \/ PauseInvalidStart(d) \/ WatchdogReplace(d) \/ WatchdogPause(d)
        BY <1>5 DEF Provider
    <2>2. CASE AcceptProviderStart(d) \/ WatchdogReplace(d)
        BY <1>1, <2>2 DEF AcceptProviderStart, WatchdogReplace
    <2>3. CASE PauseInvalidStart(d) \/ WatchdogPause(d)
        BY <1>2, <2>3 DEF PauseInvalidStart, WatchdogPause, PauseLanes
    <2>4. QED
        BY <2>1, <2>2, <2>3
<1>6. CASE WaveHandler
    BY <1>1, <1>6 DEF WaveHandler, JoinWave, SkipJoin, PrepareContinuation, OpenContinuation,
                      SkipContinuation
<1>7. CASE Control
    <2>1. CASE PauseTask \/ CancelTask \/ \E p \in resuming : CommitResume(p)
        BY <1>2, <2>1 DEF PauseTask, PauseLanes, CancelTask, CommitResume
    <2>2. CASE PlanResume \/ \E p \in resuming : AbandonResume(p)
        BY <1>1, <2>2 DEF PlanResume, AbandonResume
    <2>3. QED
        BY <1>7, <2>1, <2>2 DEF Control
<1>8. CASE Failure
    <2>1. CASE \E p \in preparing : FailContinuation(p)
        <3>1. PICK p \in preparing : FailContinuation(p)
            BY <2>1
        <3>2. UNCHANGED <<taskRow, faults>> \/ PauseLanes({})
            BY <3>1 DEF FailContinuation
        <3>3. QED
            BY <1>1, <1>2, <3>2 DEF PauseLanes
    <2>2. CASE \/ Restart \/ \E s \in signals : LoseSignal(s)
               \/ \E p \in preparing : LoseContinuation(p)
        BY <1>1, <2>2 DEF Restart, LoseSignal, LoseContinuation
    <2>3. QED
        BY <1>8, <2>1, <2>2 DEF Failure
<1>9. QED
    BY <1>3, <1>4, <1>5, <1>6, <1>7, <1>8 DEF Next

\* A Task that control has not touched is not paused.
UntouchedRuns == controlRevision = 0 => taskStatus # "paused"

LEMMA InitHinted == Init => HintsComplete /\ UntouchedRuns
BY DEF Init, HintsComplete, UntouchedRuns, SettledHinted, ReturnsHinted

LEMMA NextComplete ==
    IInv /\ WInv /\ HintsComplete /\ UntouchedRuns /\ [Next]_vars
        => (HintsComplete /\ UntouchedRuns)'
<1> SUFFICES ASSUME IInv, WInv, HintsComplete, UntouchedRuns, [Next]_vars
             PROVE  HintsComplete' /\ UntouchedRuns'
    OBVIOUS
<1>1. faults \in Nat /\ controlRevision \in Nat
    BY DEF IInv, TypeOK, TaskTypeOK
<1>2. controlRevision' = 0 =>
            controlRevision = 0 /\ taskStatus' \in {taskStatus, "completed"}
    BY <1>1, CountersGrow
<1>3. UntouchedRuns'
    BY <1>2 DEF UntouchedRuns
<1>4. ASSUME faults' = 0 PROVE faults = 0 /\ ~LosesHint
    <2>1. faults = 0
        BY <1>1, <1>4, CountersGrow
    <2>2. ~LosesHint
        BY <1>4, <2>1 DEF LosesHint, LoseSignal, LoseContinuation
    <2>3. QED
        BY <2>1, <2>2
<1>5. HintsComplete'
    <2> SUFFICES ASSUME faults' = 0 PROVE SettledHinted' /\ (controlRevision' = 0 => ReturnsHinted')
        BY DEF HintsComplete
    <2>1. HintsKept
        BY <1>4, NextHinted
    <2>2. SettledHinted /\ (controlRevision = 0 => ReturnsHinted)
        BY <1>4 DEF HintsComplete
    <2>3. QED
        BY <1>2, <2>1, <2>2 DEF HintsKept, UntouchedRuns
<1>6. QED
    BY <1>3, <1>5

\* Without a fault no Wave of a running Task is forgotten between the return of
\* its last member, the join, the read of the continuation and its commit.
THEOREM HintsStayComplete == Spec => []HintsComplete
<1>1. Spec => [](HintsComplete /\ UntouchedRuns)
    BY InitHinted, NextComplete, WavesInductive, PTL DEF Spec
<1>2. QED
    BY <1>1, PTL
=============================================================================
