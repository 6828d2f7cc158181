---------------------------- MODULE MCDelegation ----------------------------
(* Instances of DelegationRuntime: a flat team, a chain and a small tree.    *)
EXTENDS DelegationFanOut

CONSTANTS lead, alpha, beta, gamma

\* lead manages alpha and beta.
FlatMembers == {lead, alpha, beta}
FlatParent == [m \in {alpha, beta} |-> lead]

\* lead manages alpha, which manages gamma.
DeepMembers == {lead, alpha, gamma}
DeepParent == [m \in {alpha, gamma} |-> IF m = alpha THEN lead ELSE alpha]

\* lead manages alpha and beta, and alpha manages gamma.
TreeMembers == {lead, alpha, beta, gamma}
TreeParent == [m \in {alpha, beta, gamma} |-> IF m = gamma THEN alpha ELSE lead]
=============================================================================
