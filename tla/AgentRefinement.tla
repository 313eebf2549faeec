--------------------------- MODULE AgentRefinement ---------------------------
(***************************************************************************)
(* AgentGraph implements AbstractRun, and therefore what LocalSession      *)
(* takes a run for.                                                        *)
(***************************************************************************)
EXTENDS AgentGraph

StageOf(n) ==
    IF n = "end" THEN "ended"
    ELSE IF n = "awaiting" THEN "asking"
    ELSE IF n \in {"intake", "plan"} THEN "planning" ELSE "working"

Image == [stage |-> StageOf(node), outcome |-> IF node = "end" THEN s.status ELSE "none",
          answer |-> IF phase = "running" THEN answer ELSE "none",
          stop |-> stop, live |-> phase = "running"]

Session == INSTANCE AbstractRun WITH session <- Image

(* Planning, asking, working and ending follow each other only as in        *)
(* AbstractRun: no approval is passed over, a stop file pauses the work or *)
(* is used up by an answer, an ended run stays as it ended.                *)
ImplementsSession == Session!Spec
=============================================================================
