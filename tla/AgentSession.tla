---------------------------- MODULE AgentSession ----------------------------
(***************************************************************************)
(* What whoever starts, stops and resumes a run may rely on: one run of    *)
(* the agent plans, may ask for approval, works, may pause for a stop file *)
(* and ends.  AgentGraph is shown to implement it, LocalSession runs it.   *)
(***************************************************************************)

Stages == {"planning", "asking", "working", "ended"}
Outcomes == {"none", "succeeded", "failed", "interrupted"}

(* A run as its checkpoint, its stop file and the executing process have    *)
(* it: answer is the value of resume until a node used it or completed;    *)
(* live says whether the process goes on.                                  *)
Sessions == [stage : Stages, outcome : Outcomes, answer : {"none", "approved", "denied"},
             stop : BOOLEAN, live : BOOLEAN]

Ends(c, o) == [c EXCEPT !.stage = "ended", !.outcome = o, !.answer = "none", !.live = FALSE]
Goes(c, stage) == [c EXCEPT !.stage = stage, !.answer = "none"]

(* The steps of the process that executes session c.                       *)
SessionSteps(c) ==
    CASE c.stage = "planning" ->
            {Goes(c, "planning"), Goes(c, "asking"), Goes(c, "working"), Ends(c, "failed")}
      [] c.stage = "asking" /\ c.answer = "none" -> {[c EXCEPT !.live = FALSE]}
      [] c.stage = "asking" /\ c.answer = "approved" -> {Goes(c, "working")}
      [] c.stage = "asking" /\ c.answer = "denied" -> {Ends(c, "interrupted")}
      [] c.stage = "working" /\ c.stop /\ c.answer = "none" ->
            {[c EXCEPT !.stop = FALSE, !.live = FALSE], Ends(c, "succeeded"), Ends(c, "failed")}
      [] c.stage = "working" /\ ~ (c.stop /\ c.answer = "none") ->
            {Goes(c, "working"), [Goes(c, "working") EXCEPT !.stop = FALSE],
             Ends(c, "succeeded"), Ends(c, "failed")}
      [] c.stage = "ended" -> {[c EXCEPT !.live = FALSE]}
=============================================================================
