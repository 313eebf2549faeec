----------------------------- MODULE AbstractRun -----------------------------
(***************************************************************************)
(* AgentSession as a state machine: one run, the process that executes it  *)
(* and its surroundings, which may stop, kill and resume it at any time.   *)
(***************************************************************************)
EXTENDS AgentSession

VARIABLE session

Init == session = [stage |-> "planning", outcome |-> "none", answer |-> "none",
                   stop |-> FALSE, live |-> TRUE]

Works == session.live /\ session' \in SessionSteps(session)

StopRequested == session' = [session EXCEPT !.stop = TRUE]

(* The process dies, perhaps in the middle of a step.                      *)
Dies ==
    /\ session.live
    /\ \E c \in {session} \cup SessionSteps(session) :
          /\ c.stage = session.stage
          /\ session' = [c EXCEPT !.live = FALSE, !.answer = "none"]

Resumed ==
    /\ ~ session.live
    /\ \E answer \in {"approved", "denied"} :
          session' = [session EXCEPT !.live = TRUE, !.answer = answer]

Next == Works \/ StopRequested \/ Dies \/ Resumed

Spec == Init /\ [][Next]_session
=============================================================================
