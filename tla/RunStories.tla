---------------------------- MODULE RunStories ----------------------------
(***************************************************************************)
(* What may become of a run, as the web console can see it: the events the *)
(* worker and the API publish, in order, and between them the changes of   *)
(* the run's row.                                                          *)
(***************************************************************************)
EXTENDS Sequences

(* normalize_event: the name under which the worker publishes an event.     *)
Published(source) ==
    CASE source = "run_started"           -> "run"
      [] source = "run_finished"          -> "task_end"
      [] source = "plan_created"          -> "step"
      [] source = "approval_required"     -> "approval"
      [] source = "tool_result"           -> "tool"
      [] source = "verification_finished" -> "terminal"
      [] OTHER                            -> "output"

Step == [event |-> "none", source |-> "none", status |-> "none", fails |-> FALSE, row |-> "none",
         role |-> "none", id |-> "none"]
Row(status) == [Step EXCEPT !.row = status]
Says(event, status) == [Step EXCEPT !.event = event, !.source = event, !.status = status]
Emits(source) == [Step EXCEPT !.event = Published(source), !.source = source]
Fails(source) == [Emits(source) EXCEPT !.fails = TRUE]
Finishes(status) ==
    [Emits("run_finished") EXCEPT !.status = status, !.fails = (status = "failed")]

(* The default graph: from its start to the approval of the plan ...        *)
Created == <<Row("queued"), Says("run.created", "queued")>>
Started == <<Row("running"), Says("run", "running")>>
Planned == Started \o <<Emits("run_started"), Emits("repository_discovered"), Emits("plan_created")>>
Asked == <<Emits("approval_required"), Says("task_end", "awaiting_approval"), Row("awaiting_approval")>>
Granted == <<Row("queued")>> \o Started \o <<Emits("approval_decided")>>
Denied == <<Row("queued")>> \o Started \o
          <<Fails("approval_decided"), Says("task_end", "interrupted"), Row("interrupted")>>

(* A node of a workflow or a role of a team, by its role and id: a retry     *)
(* names the id alone.                                                     *)
Begins(role, id) == [Emits("workflow_node_started") EXCEPT !.role = role, !.id = id]
Retries(id) == [Emits("workflow_node_retry") EXCEPT !.id = id]
Closes(role, id, fails) ==
    [Emits("workflow_node_finished") EXCEPT !.role = role, !.id = id, !.fails = fails]

(* ... its work, with a verification that fails ...                      *)
Worked == <<Emits("worktree_created"), Emits("model_turn"), Emits("tool_result")>>
Refuted == <<Fails("verification_finished")>>

(* ... and its end, which the gate of the API may turn into a failure.      *)
Ended(status, row) ==
    <<Finishes(status), Row(row), Says("result.persisted", row)>>
Died == <<Says("task_end", "failed"), Row("failed")>>
Stopped == <<Row("interrupted"), Says("run.interrupted", "interrupted")>>
=============================================================================
