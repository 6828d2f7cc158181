---------------------------- MODULE HumanRequests ----------------------------
(***************************************************************************)
(* A Human Request: opened by a node in the transaction that suspends its  *)
(* Attempt, ended by exactly one of an answer, the deadline and the Task's *)
(* cancellation.                                                           *)
(*                                                                         *)
(* The validation of the answers, the events and the files are abstracted. *)
(* A deadline elapses when its timer fires, so the handler's own check of  *)
(* the clock is always satisfied.                                          *)
(***************************************************************************)
EXTENDS AttemptLanes

VARIABLE request  \* HumanRequest rows

RequestEnds == {"resolved", "timed_out", "cancelled"}
RequestType ==
    [status : {"unused", "open"} \cup RequestEnds, attempt : Attempts \cup {None},
     successor : Nat]

RequestEnded(q) == request[q].status \in RequestEnds

HumanInit == request = [q \in Requests |-> [status |-> "unused", attempt |-> None, successor |-> 0]]

OpenHumanRequest(a, q) ==
    /\ request[q].status = "unused"
    /\ Suspend(a, q)
    /\ request' = [request EXCEPT ![q].status = "open", ![q].attempt = a]
    /\ hints' = hints \cup {Hint("HumanRequestOpened", q)}
    /\ UNCHANGED <<taskVars, opened, timers, audit, faultVars>>

\* The handler arms the timer of an open request, or drops the one it finds.
RegisterHumanDeadline(q) ==
    /\ Handled(Hint("HumanRequestOpened", q), {})
    /\ timers' = IF request[q].status = "open" /\ q \in Timed
                 THEN timers \cup {q} ELSE timers \ {q}
    /\ UNCHANGED <<request, taskVars, laneVars, audit, faultVars>>

\* persist_human_request_resolution: one winner, and the exact wait goes with it.
PersistResolution(q, status) ==
    /\ request[q].status = "open"
    /\ WaitingOn(q) # {}
    /\ request' = [request EXCEPT ![q].status = status]
    /\ lane' = WithoutWait(q)

AnswerHumanRequest(q) ==
    /\ PersistResolution(q, "resolved")
    /\ hints' = hints \cup {Hint("HumanRequestTerminal", q)}
    /\ UNCHANGED <<taskVars, opened, timers, audit, faultVars>>

ExpireHumanRequest(q) ==
    /\ IF request[q].status = "open" /\ q \in Timed
       THEN /\ PersistResolution(q, "timed_out")
            /\ Handled(Hint("HumanRequestDue", q), {Hint("HumanRequestTerminal", q)})
       ELSE /\ Handled(Hint("HumanRequestDue", q), {})
            /\ UNCHANGED <<request, lane>>
    /\ UNCHANGED <<taskVars, opened, timers, audit, faultVars>>

\* What the Task's cancellation does to the requests its lanes wait for.
CancelHumanWaits ==
    request' = [q \in Requests |-> IF WaitingOn(q) # {} THEN [request[q] EXCEPT !.status = "cancelled"]
                                                        ELSE request[q]]
=============================================================================
