-------------------------- MODULE DelegationFanOut --------------------------
(* DelegationRuntime implements FanOutFanIn: what a Wave's rows mean.       *)
EXTENDS DelegationRuntime

TaskPhase == IF taskStatus \in {"running", "paused"} THEN taskStatus ELSE "over"

WavePhase(w) ==
    CASE wave[w].status = "open" -> "waiting"
      [] wave[w].status = "settled" -> IF wave[w].succ = None THEN "joined" ELSE "resumed"
      [] wave[w].status = "cancelled" -> "dropped"

Fan == INSTANCE FanOutFanIn WITH
    task <- TaskPhase,
    fan <- [w \in DOMAIN wave |->
                [members  |-> DOMAIN wave[w].member,
                 returned |-> {c \in DOMAIN wave[w].member : wave[w].member[c] = "settled"},
                 phase    |-> WavePhase(w)]]

\* A parent's Wave is joined only when every member returned, is continued
\* once, loses nothing to a pause, and a resume continues every joined Wave in
\* the same transaction: every step of the runtime is a step of FanOutFanIn.
ImplementsFanOutFanIn == Fan!Spec
=============================================================================
