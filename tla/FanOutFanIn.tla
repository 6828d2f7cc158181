----------------------------- MODULE FanOutFanIn -----------------------------
(***************************************************************************)
(* What delegation promises, without Dispatches, signals or snapshots: a   *)
(* Wave waits for the members it fanned out to, is joined once all of them *)
(* have returned, and is continued once.  Pausing keeps every Wave,        *)
(* resuming continues all joined Waves in one step, and a finished Task    *)
(* has none left.                                                          *)
(***************************************************************************)

VARIABLES
    task,  \* running, paused or over
    fan    \* per Wave: whom it waits for, who returned and its phase

vars == <<task, fan>>

Init ==
    /\ task = "running"
    /\ fan = [w \in {} |-> {}]

\* One new Wave, over members no other Wave ever waited for.
Open ==
    /\ task = "running"
    /\ \E w \in DOMAIN fan' \ DOMAIN fan :
        /\ fan' = [x \in DOMAIN fan \cup {w} |-> IF x = w THEN fan'[w] ELSE fan[x]]
        /\ fan'[w].members # {}
        /\ \A x \in DOMAIN fan : fan[x].members \cap fan'[w].members = {}
        /\ fan'[w] = [members |-> fan'[w].members, returned |-> {}, phase |-> "waiting"]
    /\ UNCHANGED task

Return ==
    /\ task = "running"
    /\ \E w \in DOMAIN fan : \E c \in fan[w].members \ fan[w].returned :
        /\ fan[w].phase = "waiting"
        /\ fan' = [fan EXCEPT ![w].returned = @ \cup {c}]
    /\ UNCHANGED task

Join ==
    /\ task = "running"
    /\ \E w \in DOMAIN fan :
        /\ fan[w].phase = "waiting"
        /\ fan[w].returned = fan[w].members
        /\ fan' = [fan EXCEPT ![w].phase = "joined"]
    /\ UNCHANGED task

Continue ==
    /\ task = "running"
    /\ \E w \in DOMAIN fan :
        /\ fan[w].phase = "joined"
        /\ fan' = [fan EXCEPT ![w].phase = "resumed"]
    /\ UNCHANGED task

Pause == task = "running" /\ task' = "paused" /\ UNCHANGED fan

Resume ==
    /\ task = "paused"
    /\ task' = "running"
    /\ fan' = [w \in DOMAIN fan |->
                IF fan[w].phase = "joined" THEN [fan[w] EXCEPT !.phase = "resumed"] ELSE fan[w]]

Complete ==
    /\ task = "running"
    /\ \A w \in DOMAIN fan : fan[w].phase = "resumed"
    /\ task' = "over"
    /\ UNCHANGED fan

Cancel ==
    /\ task # "over"
    /\ task' = "over"
    /\ fan' = [w \in DOMAIN fan |->
                IF fan[w].phase = "resumed" THEN fan[w] ELSE [fan[w] EXCEPT !.phase = "dropped"]]

Next == Open \/ Return \/ Join \/ Continue \/ Pause \/ Resume \/ Complete \/ Cancel

Spec == Init /\ [][Next]_vars
=============================================================================
