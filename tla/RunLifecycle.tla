---------------------------- MODULE RunLifecycle ----------------------------
(***************************************************************************)
(* The control plane of a task run: the API handlers that create, approve, *)
(* interrupt and resume a run (PlatformService), the Redis job stream with *)
(* its consumer group, the result cache and the stop flag, and the worker  *)
(* processes that execute the jobs and call the result back.               *)
(*                                                                         *)
(* An API handler is not atomic: it reads its rows in one transaction,     *)
(* commits in another step and talks to Redis in further ones, and any     *)
(* number of handlers (up to Requests) are in progress at once.  A worker  *)
(* step is one Redis command, one HTTP call or one turn of its poll loop.  *)
(*                                                                         *)
(* Bounds: MaxJobs jobs are ever enqueued and MaxApprovals approvals ever  *)
(* exist.  The stream is never trimmed (the code trims it at 10 000).      *)
(***************************************************************************)
EXTENDS Integers, Sequences, FiniteSets

CONSTANTS
    Runs,            \* rows of task_runs
    Workers,         \* worker processes
    Requests,        \* API handlers that may be in progress at once
    Permission,      \* Permission[r]: the permission mode a run was created with
    NetworkClone,    \* runs whose repository has a clone URL and no root path
    Gated,           \* runs whose workflow has a node that requires approval
    CapabilityOps,   \* the capability operations the operators ask for
    Faults,          \* the faults that may happen
    MaxJobs,         \* bound on the length of the job stream
    MaxApprovals,    \* bound on the number of approvals
    None             \* no run, no worker, no result, no row

PermissionModes == {"read_only", "edit", "execute", "full"}
AllCapabilityOps ==
    {"destructive_command", "git_publish", "mcp", "sub_agent", "network_tools"}
AllFaults == {"api_crash", "call_error", "worker_crash", "callback_lost", "enqueue_error",
              "job_expired"}

ASSUME RunsAssumption == None \notin Runs /\ None \notin Workers
ASSUME PermissionAssumption == Permission \in [Runs -> PermissionModes]
ASSUME OperationAssumption ==
    /\ NetworkClone \subseteq Runs /\ Gated \subseteq Runs
    /\ CapabilityOps \subseteq AllCapabilityOps
    /\ Faults \subseteq AllFaults
ASSUME BoundAssumption == MaxJobs \in Nat /\ MaxApprovals \in Nat

StartOps == {"execute_task", "execute_task_network_clone"}
FullOnly == AllCapabilityOps \ {"network_tools"}
Operations == StartOps \cup AllCapabilityOps

RunStatuses == {"none", "awaiting_approval", "queued", "succeeded", "failed",
                "interrupted", "cancelled"}
Verdicts == {"none", "passed", "not_passed"}

(* What a job can end in.  "verified" stands for an outcome of passed, an   *)
(* explicit waiver or the legacy test command; "plan" says whether the     *)
(* payload carries plan items, which become run_steps rows.                *)
Results == [status : {"succeeded", "failed", "interrupted", "awaiting_approval"},
            verified : BOOLEAN, plan : BOOLEAN]

ASSUME ResultsAssumption == None \notin Results

InterruptedResult == [status |-> "interrupted", verified |-> FALSE, plan |-> FALSE]
FailedResult      == [status |-> "failed", verified |-> FALSE, plan |-> FALSE]
PausedResult      == [status |-> "awaiting_approval", verified |-> FALSE, plan |-> FALSE]

StartOp(r) == IF r \in NetworkClone THEN "execute_task_network_clone" ELSE "execute_task"

(* prepare_workspace refuses to clone unless the job carries the clone      *)
(* approval, so such a job can only fail.  Any other job may run to an end, *)
(* and one of a gated run (its workflow has a node that requires approval)  *)
(* pauses before its first node: the result says awaiting_approval.        *)
Outcomes(job) ==
    IF job.run \in NetworkClone /\ job.op # "execute_task_network_clone"
    THEN {FailedResult}
    ELSE IF job.run \in Gated
    THEN {FailedResult, PausedResult}
    ELSE {FailedResult} \cup
         {res \in Results : res.plan /\ res.status \in {"succeeded", "failed"}
                                     /\ (res.verified => res.status = "succeeded")}

VARIABLES
    run,         \* MySQL: task_runs, and whether the run has run_steps rows
    projections, \* MySQL: how many times result rows were added for a run
    approvals,   \* MySQL: approvals, in id order
    queue,       \* Redis: entries of run:queue ever added
    delivered,   \* Redis: the group's last delivered entry
    pending,     \* Redis: the group's pending entries
    discarded,   \* entries acknowledged without being processed
    cache,       \* Redis: run:result:{id}
    control,     \* Redis: run:control:{id} = "stop"
    ended,       \* Redis: run:events:{id} holds a task_end event
    broken,      \* history: what a handler that broke off had committed to and not done
    req,         \* the API handlers in progress
    wk           \* the worker processes

dbVars    == <<run, projections, approvals>>
queueVars == <<queue, delivered, pending, discarded>>
flagVars  == <<cache, control, ended, broken>>
vars      == <<dbVars, queueVars, flagVars, req, wk>>

RunRows == [status : RunStatuses, verdict : Verdicts, steps : BOOLEAN]
Absent  == [status |-> "none", verdict |-> "none", steps |-> FALSE]

(* verification.callback_applied: the verification column is written only  *)
(* by a result, and then it is set.                                        *)
Applied(r) == run[r].verdict # "none"

IdleRequest == [pc |-> "idle", run |-> None, appr |-> 0, op |-> "execute_task",
                seen |-> Absent, result |-> FailedResult, worker |-> None]
IdleWorker  == [pc |-> "idle", job |-> 0, result |-> FailedResult, fresh |-> FALSE]

Init ==
    /\ run = [r \in Runs |-> Absent]
    /\ projections = [r \in Runs |-> 0]
    /\ approvals = <<>>
    /\ queue = <<>> /\ delivered = 0 /\ pending = {} /\ discarded = {}
    /\ cache = [r \in Runs |-> None]
    /\ control = [r \in Runs |-> FALSE]
    /\ ended = [r \in Runs |-> FALSE]
    /\ broken = {}
    /\ req = [q \in Requests |-> IdleRequest]
    /\ wk = [w \in Workers |-> IdleWorker]

-----------------------------------------------------------------------------
(* The ORM session.  A handler edits the row it read; on commit only the   *)
(* columns that differ from the value it READ are written, so a column     *)
(* another handler changed meanwhile survives if this one set it back to   *)
(* what it had read.  No row is locked and no version is compared.         *)
Flush(row, seen, new) ==
    [row EXCEPT !.status  = IF new.status = seen.status THEN @ ELSE new.status,
                !.verdict = IF new.verdict = seen.verdict THEN @ ELSE new.verdict]

(* A handler that read run r goes on at pc, for approval appr of operation  *)
(* op (0 and execute_task when it is about no approval).                   *)
Read(pc, r, appr, op) ==
    [pc |-> pc, run |-> r, appr |-> appr, op |-> op, seen |-> run[r],
     result |-> FailedResult, worker |-> None]

SetStatus(r, seen, s) ==
    run' = [run EXCEPT ![r] = Flush(@, seen, [seen EXCEPT !.status = s])]

(* A worker that was handed entry j.                                       *)
Holding(j) == [pc |-> "check", job |-> j, result |-> FailedResult, fresh |-> FALSE]

GoTo(q, pc)  == req' = [req EXCEPT ![q].pc = pc]
Answer(q)    == req' = [req EXCEPT ![q] = IdleRequest]
Become(w, pc, res, fresh) ==
    wk' = [wk EXCEPT ![w] = [pc |-> pc, job |-> wk[w].job, result |-> res, fresh |-> fresh]]
Step(w, pc)  == Become(w, pc, wk[w].result, wk[w].fresh)
JobOf(w)     == queue[wk[w].job]

(* The handlers that have still to add their job to the stream.            *)
Enqueuing == {q \in Requests :
                req[q].pc \in {"approve", "resume", "clear_stop", "enqueue"}}
JobsLeft  == Len(queue) + Cardinality(Enqueuing) < MaxJobs

-----------------------------------------------------------------------------
(* create_run and fork_run: one transaction inserts the run and its start   *)
(* approval.                                                               *)
CreateRun(r) ==
    /\ run[r].status = "none"
    /\ Len(approvals) < MaxApprovals
    /\ run' = [run EXCEPT ![r].status = "awaiting_approval"]
    /\ approvals' = Append(approvals, [run |-> r, op |-> StartOp(r), status |-> "pending"])
    /\ UNCHANGED <<projections, queueVars, flagVars, req, wk>>

(* request_approval reads the run and looks for a pending approval of the  *)
(* same operation ...                                                      *)
AskRead(q, r, op) ==
    /\ req[q].pc = "idle"
    /\ run[r].status # "none"
    /\ op \in FullOnly => Permission[r] = "full"
    /\ op = "git_publish" => run[r].status = "succeeded"
    /\ ~ \E a \in DOMAIN approvals : approvals[a] = [run |-> r, op |-> op, status |-> "pending"]
    /\ Len(approvals) < MaxApprovals
    /\ req' = [req EXCEPT ![q] = [IdleRequest EXCEPT !.pc = "ask", !.run = r, !.op = op]]
    /\ UNCHANGED <<dbVars, queueVars, flagVars, wk>>

(* ... and inserts one.                                                    *)
AskCommit(q) ==
    /\ req[q].pc = "ask"
    /\ approvals' = IF Len(approvals) < MaxApprovals
                    THEN Append(approvals, [run |-> req[q].run, op |-> req[q].op,
                                            status |-> "pending"])
                    ELSE approvals
    /\ Answer(q)
    /\ UNCHANGED <<run, projections, queueVars, flagVars, wk>>

(* decide_approval reads the approval and the run.  A capability may only  *)
(* be approved once the run succeeded or was interrupted; the approval     *)
(* that starts a run has no condition on the run.                          *)
DecideRead(q, a, decision) ==
    LET appr == approvals[a] IN
    /\ req[q].pc = "idle"
    /\ appr.status = "pending"
    /\ decision = "approve" =>
         /\ JobsLeft
         /\ appr.op \in AllCapabilityOps => run[appr.run].status \in {"succeeded", "interrupted"}
    /\ req' = [req EXCEPT ![q] = Read(decision, appr.run, a, appr.op)]
    /\ UNCHANGED <<dbVars, queueVars, flagVars, wk>>

(* The approval and the run change in one transaction; the job is added    *)
(* after it.                                                               *)
ApproveCommit(q) ==
    /\ req[q].pc = "approve"
    /\ approvals' = [approvals EXCEPT ![req[q].appr].status = "approved"]
    /\ SetStatus(req[q].run, req[q].seen, "queued")
    /\ GoTo(q, "enqueue")
    /\ UNCHANGED <<projections, queueVars, flagVars, wk>>

(* Rejecting the start of a run cancels it; rejecting a capability leaves  *)
(* the run alone.                                                          *)
RejectCommit(q) ==
    /\ req[q].pc = "reject"
    /\ approvals' = [approvals EXCEPT ![req[q].appr].status = "rejected"]
    /\ IF req[q].op \in StartOps
       THEN SetStatus(req[q].run, req[q].seen, "cancelled")
       ELSE UNCHANGED run
    /\ Answer(q)
    /\ UNCHANGED <<projections, queueVars, flagVars, wk>>

(* interrupt_run commits the status, then raises the stop flag.            *)
InterruptRead(q, r) ==
    /\ req[q].pc = "idle"
    /\ run[r].status \in {"awaiting_approval", "queued"}
    /\ req' = [req EXCEPT ![q] = Read("interrupt", r, 0, "execute_task")]
    /\ UNCHANGED <<dbVars, queueVars, flagVars, wk>>

InterruptCommit(q) ==
    /\ req[q].pc = "interrupt"
    /\ SetStatus(req[q].run, req[q].seen, "interrupted")
    /\ GoTo(q, "set_stop")
    /\ UNCHANGED <<projections, approvals, queueVars, flagVars, wk>>

SetStop(q) ==
    /\ req[q].pc = "set_stop"
    /\ control' = [control EXCEPT ![req[q].run] = TRUE]
    /\ Answer(q)
    /\ UNCHANGED <<dbVars, queueVars, cache, ended, broken, wk>>

(* resume_run commits the status, deletes the stop flag and adds a job for *)
(* the operation of the run's last approved approval.                      *)
ResumeRead(q, r) ==
    /\ req[q].pc = "idle"
    /\ run[r].status = "interrupted"
    /\ JobsLeft
    /\ req' = [req EXCEPT ![q] = Read("resume", r, 0, "execute_task")]
    /\ UNCHANGED <<dbVars, queueVars, flagVars, wk>>

ResumeCommit(q) ==
    /\ req[q].pc = "resume"
    /\ SetStatus(req[q].run, req[q].seen, "queued")
    /\ GoTo(q, "clear_stop")
    /\ UNCHANGED <<projections, approvals, queueVars, flagVars, wk>>

ClearStop(q) ==
    /\ req[q].pc = "clear_stop"
    /\ control' = [control EXCEPT ![req[q].run] = FALSE]
    /\ GoTo(q, "enqueue")
    /\ UNCHANGED <<dbVars, queueVars, cache, ended, broken, wk>>

(* _enqueue_run.  Without an approval the job's operation is that of the    *)
(* last approved one, or execute_task.                                     *)
Latest(S) == {a \in S : \A b \in S : b <= a}

Approved(r) == {a \in DOMAIN approvals : approvals[a].run = r /\ approvals[a].status = "approved"}

\* Mutant: the last approval counts, approved or not.
JobOpsOfLast(q) ==
    {approvals[a].op : a \in Latest({b \in DOMAIN approvals : approvals[b].run = req[q].run})}

JobOps(q) ==
    IF req[q].appr # 0 THEN {req[q].op}
    ELSE IF Approved(req[q].run) = {} THEN {"execute_task"}
    ELSE {approvals[a].op : a \in Latest(Approved(req[q].run))}

NewJobs(q) == {[run |-> req[q].run, op |-> op] : op \in JobOps(q)}

Enqueue(q) ==
    /\ req[q].pc = "enqueue"
    /\ \E job \in NewJobs(q) : queue' = Append(queue, job)
    /\ Answer(q)
    /\ UNCHANGED <<dbVars, delivered, pending, discarded, flagVars, wk>>

(* XADD raises: the connection may have dropped before or after Redis      *)
(* added the entry.  The handler then marks the run failed.                *)
EnqueueError(q) ==
    /\ "enqueue_error" \in Faults
    /\ req[q].pc = "enqueue"
    /\ \E job \in NewJobs(q) : queue' \in {queue, Append(queue, job)}
    /\ GoTo(q, "enqueue_failed")
    /\ UNCHANGED <<dbVars, delivered, pending, discarded, flagVars, wk>>

\* Mutant: a failed XADD leaves the run as it is.
EnqueueFailedSilently(q) ==
    /\ req[q].pc = "enqueue_failed"
    /\ Answer(q)
    /\ UNCHANGED <<dbVars, queueVars, flagVars, wk>>

EnqueueFailedCommit(q) ==
    /\ req[q].pc = "enqueue_failed"
    /\ run' = [run EXCEPT ![req[q].run].status = "failed"]
    /\ Answer(q)
    /\ UNCHANGED <<projections, approvals, queueVars, flagVars, wk>>

-----------------------------------------------------------------------------
(* The worker.                                                             *)

(* serve: XREADGROUP with ">" hands out entries never delivered before.    *)
\* Mutant: nothing new is taken while an entry is pending.
DeliverWhenSettled(w) ==
    /\ wk[w].pc = "idle"
    /\ delivered < Len(queue) /\ pending = {}
    /\ delivered' = delivered + 1
    /\ pending' = pending \cup {delivered + 1}
    /\ wk' = [wk EXCEPT ![w] = Holding(delivered + 1)]
    /\ UNCHANGED <<dbVars, queue, discarded, flagVars, req>>

\* Mutant: the pending list is written with the group's old position.
DeliverOffByOne(w) ==
    /\ wk[w].pc = "idle"
    /\ delivered < Len(queue)
    /\ delivered' = delivered + 1
    /\ pending' = pending \cup {delivered}
    /\ wk' = [wk EXCEPT ![w] = Holding(delivered + 1)]
    /\ UNCHANGED <<dbVars, queue, discarded, flagVars, req>>

\* Mutant: the group reads its history, pending entries come again.
DeliverPending(w) ==
    /\ wk[w].pc = "idle"
    /\ \E j \in pending \cup ((delivered + 1)..Len(queue)) :
          /\ j <= delivered + 1
          /\ delivered' = IF j > delivered THEN j ELSE delivered
          /\ pending' = pending \cup {j}
          /\ wk' = [wk EXCEPT ![w] = Holding(j)]
    /\ UNCHANGED <<dbVars, queue, discarded, flagVars, req>>

Deliver(w) ==
    /\ wk[w].pc = "idle"
    /\ delivered < Len(queue)
    /\ delivered' = delivered + 1
    /\ pending' = pending \cup {delivered + 1}
    /\ wk' = [wk EXCEPT ![w] = Holding(delivered + 1)]
    /\ UNCHANGED <<dbVars, queue, discarded, flagVars, req>>

(* _verify_job finds the signature expired: PermissionError, and serve      *)
(* acknowledges the entry.                                                 *)
Discard(w) ==
    /\ "job_expired" \in Faults
    /\ wk[w].pc = "check"
    /\ pending' = pending \ {wk[w].job}
    /\ discarded' = discarded \cup {wk[w].job}
    /\ wk' = [wk EXCEPT ![w] = IdleWorker]
    /\ UNCHANGED <<dbVars, queue, delivered, flagVars, req>>

(* process_job reads the result cache: a run that has a result is not      *)
(* executed again, the cached result is posted.                            *)
UseCached(w) ==
    /\ wk[w].pc = "check"
    /\ cache[JobOf(w).run] # None
    /\ Become(w, "post", cache[JobOf(w).run], FALSE)
    /\ UNCHANGED <<dbVars, queueVars, flagVars, req>>

\* Mutant: a new execution starts by deleting the stop flag.
StartClearingFlag(w) ==
    /\ wk[w].pc = "check"
    /\ cache[JobOf(w).run] = None
    /\ Become(w, "run", FailedResult, TRUE)
    /\ control' = [control EXCEPT ![JobOf(w).run] = FALSE]
    /\ UNCHANGED <<dbVars, queueVars, cache, ended, broken, req>>

Start(w) ==
    /\ wk[w].pc = "check"
    /\ cache[JobOf(w).run] = None
    /\ Become(w, "run", FailedResult, TRUE)
    /\ UNCHANGED <<dbVars, queueVars, flagVars, req>>

(* The runtime returns, or raises; a result that is there when the stop is *)
(* noticed is kept.                                                        *)
Finish(w) ==
    /\ wk[w].pc = "run"
    /\ \E res \in Outcomes(JobOf(w)) : Become(w, "publish", res, TRUE)
    /\ UNCHANGED <<dbVars, queueVars, flagVars, req>>

(* _should_stop sees the flag and the cancellation takes effect.           *)
Stop(w) ==
    /\ wk[w].pc = "run"
    /\ control[JobOf(w).run]
    /\ Become(w, "publish", InterruptedResult, TRUE)
    /\ UNCHANGED <<dbVars, queueVars, flagVars, req>>

(* publish_result: task_end on the event stream, then the result cache.    *)
\* Mutant: the result is posted before it is cached.
PublishEndThenPost(w) ==
    /\ wk[w].pc = "publish"
    /\ ended' = [ended EXCEPT ![JobOf(w).run] = TRUE]
    /\ Step(w, "post")
    /\ UNCHANGED <<dbVars, queueVars, cache, control, broken, req>>

PublishEnd(w) ==
    /\ wk[w].pc = "publish"
    /\ ended' = [ended EXCEPT ![JobOf(w).run] = TRUE]
    /\ Step(w, "store")
    /\ UNCHANGED <<dbVars, queueVars, cache, control, broken, req>>

StoreResult(w) ==
    /\ wk[w].pc = "store"
    /\ cache' = [cache EXCEPT ![JobOf(w).run] = wk[w].result]
    /\ Step(w, "post")
    /\ UNCHANGED <<dbVars, queueVars, control, ended, broken, req>>

(* post_result: the request reaches a handler, which reads the run (the     *)
(* payload is the handler's from here on) ...                              *)
Post(w, q) ==
    /\ wk[w].pc = "post"
    /\ req[q].pc = "idle"
    /\ req' = [req EXCEPT ![q] = [Read("apply", JobOf(w).run, 0, "execute_task")
                                    EXCEPT !.result = wk[w].result, !.worker = w]]
    /\ Become(w, "await", FailedResult, wk[w].fresh)
    /\ UNCHANGED <<dbVars, queueVars, flagVars>>

(* ... what the worker awaiting handler q does next: a fresh execution      *)
(* deletes the stop flag, any other acknowledges; an error leaves the      *)
(* entry pending.                                                          *)
Reply(q, ok) ==
    wk' = [w \in Workers |->
             IF w # req[q].worker THEN wk[w]
             ELSE IF ~ ok THEN IdleWorker
             ELSE [wk[w] EXCEPT !.pc = IF wk[w].fresh THEN "clear" ELSE "ack"]]

(* apply_worker_result of a result already applied: nothing changes.       *)
ApplyAgain(q) ==
    /\ req[q].pc = "apply"
    /\ req[q].seen.verdict # "none"
    /\ Reply(q, TRUE)
    /\ Answer(q)
    /\ UNCHANGED <<dbVars, queueVars, flagVars>>

(* The gate of apply_worker_result: a write-capable run succeeds only with *)
(* passing verification.                                                   *)
\* Mutant: only edit runs are gated.
AcceptedStatusEditOnly(r, res) ==
    IF res.status = "succeeded" /\ Permission[r] = "edit" /\ ~ res.verified
    THEN "failed"
    ELSE res.status

AcceptedStatus(r, res) ==
    IF res.status = "succeeded" /\ Permission[r] \in {"edit", "full"} /\ ~ res.verified
    THEN "failed"
    ELSE res.status

Verdict(res) == IF res.status = "succeeded" /\ res.verified THEN "passed" ELSE "not_passed"

(* Two results that both insert the plan as run_steps 0, 1, ... collide on *)
(* uk_run_step_sequence: the second transaction is rolled back.            *)
StepsCollide(q) ==
    req[q].result.plan /\ ~ req[q].seen.steps /\ run[req[q].run].steps

(* The run's row after result res was projected into it.                   *)
Projected(r, row, seen, res) ==
    LET new == [seen EXCEPT !.status = AcceptedStatus(r, res), !.verdict = Verdict(res)]
    IN  [Flush(row, seen, new) EXCEPT !.steps = row.steps \/ res.plan]

\* Mutant: callback_applied is not looked at.
ApplyCommitAlways(q) ==
    LET r == req[q].run IN
    /\ req[q].pc = "apply"
    /\ ~ StepsCollide(q)
    /\ run' = [run EXCEPT ![r] = Projected(r, @, req[q].seen, req[q].result)]
    /\ projections' = [projections EXCEPT ![r] = @ + 1]
    /\ Reply(q, TRUE)
    /\ Answer(q)
    /\ UNCHANGED <<approvals, queueVars, flagVars>>

ApplyCommit(q) ==
    LET r == req[q].run IN
    /\ req[q].pc = "apply"
    /\ req[q].seen.verdict = "none"
    /\ ~ StepsCollide(q)
    /\ run' = [run EXCEPT ![r] = Projected(r, @, req[q].seen, req[q].result)]
    /\ projections' = [projections EXCEPT ![r] = @ + 1]
    /\ Reply(q, TRUE)
    /\ Answer(q)
    /\ UNCHANGED <<approvals, queueVars, flagVars>>

ApplyCollision(q) ==
    /\ req[q].pc = "apply"
    /\ req[q].seen.verdict = "none"
    /\ StepsCollide(q)
    /\ Reply(q, FALSE)
    /\ Answer(q)
    /\ UNCHANGED <<dbVars, queueVars, flagVars>>

(* The post fails or times out: the entry stays pending, the worker takes  *)
(* the next one.  A handler that already started goes on.                  *)
\* Mutant: a failed post is taken for a success.
PostFailsSilently(w) ==
    /\ "callback_lost" \in Faults
    /\ wk[w].pc \in {"post", "await"}
    /\ Step(w, "ack")
    /\ req' = [q \in Requests |-> IF req[q].worker = w
                                   THEN [req[q] EXCEPT !.worker = None] ELSE req[q]]
    /\ UNCHANGED <<dbVars, queueVars, flagVars>>

PostFails(w) ==
    /\ "callback_lost" \in Faults
    /\ wk[w].pc \in {"post", "await"}
    /\ wk' = [wk EXCEPT ![w] = IdleWorker]
    /\ req' = [q \in Requests |-> IF req[q].worker = w
                                   THEN [req[q] EXCEPT !.worker = None] ELSE req[q]]
    /\ UNCHANGED <<dbVars, queueVars, flagVars>>

ClearFlag(w) ==
    /\ wk[w].pc = "clear"
    /\ control' = [control EXCEPT ![JobOf(w).run] = FALSE]
    /\ Step(w, "ack")
    /\ UNCHANGED <<dbVars, queueVars, cache, ended, broken, req>>

Ack(w) ==
    /\ wk[w].pc = "ack"
    /\ pending' = pending \ {wk[w].job}
    /\ wk' = [wk EXCEPT ![w] = IdleWorker]
    /\ UNCHANGED <<dbVars, queue, delivered, discarded, flagVars, req>>

-----------------------------------------------------------------------------
(* A process stops between two of its steps.  What it had committed stays. *)
WorkerCrash(w) ==
    /\ "worker_crash" \in Faults
    /\ wk[w].pc # "idle"
    /\ wk' = [wk EXCEPT ![w] = IdleWorker]
    /\ req' = [q \in Requests |-> IF req[q].worker = w
                                   THEN [req[q] EXCEPT !.worker = None] ELSE req[q]]
    /\ UNCHANGED <<dbVars, queueVars, flagVars>>

(* What a handler that ends here leaves undone of what it committed to: the *)
(* stop flag of the interrupt, the job of the queued run (or, after XADD   *)
(* raised, the commit that says the run failed).                           *)
LeftUndone(q) ==
    {<<req[q].run, "flag">> : pc \in {req[q].pc} \cap {"set_stop"}} \cup
    {<<req[q].run, "job">> : pc \in {req[q].pc} \cap {"clear_stop", "enqueue", "enqueue_failed"}}

BreakOff(q) ==
    /\ req[q].pc # "idle"
    /\ broken' = broken \cup LeftUndone(q)
    /\ Reply(q, FALSE)
    /\ Answer(q)

ApiCrash(q) ==
    /\ "api_crash" \in Faults
    /\ BreakOff(q)
    /\ UNCHANGED <<dbVars, queueVars, cache, control, ended>>

(* A call of the handler raises and nobody catches it: a commit (which is   *)
(* rolled back), the read-back and the SET of the stop flag, its DELETE (in *)
(* both cases Redis may have obeyed), or one of the reads _enqueue_run      *)
(* makes before its try.  What was committed before stays.                 *)
FlagAfterCall(q) ==
    IF req[q].pc \in {"set_stop", "clear_stop"}
    THEN [control EXCEPT ![req[q].run] = (req[q].pc = "set_stop")]
    ELSE control

CallRaises(q) ==
    /\ "call_error" \in Faults
    /\ BreakOff(q)
    /\ control' \in {control, FlagAfterCall(q)}
    /\ UNCHANGED <<dbVars, queueVars, cache, ended>>

Breaks(q) == ApiCrash(q) \/ CallRaises(q)

Handler(q) ==
    \/ AskCommit(q) \/ ApproveCommit(q) \/ RejectCommit(q)
    \/ InterruptCommit(q) \/ SetStop(q)
    \/ ResumeCommit(q) \/ ClearStop(q)
    \/ Enqueue(q) \/ EnqueueError(q) \/ EnqueueFailedCommit(q)
    \/ ApplyAgain(q) \/ ApplyCommit(q) \/ ApplyCollision(q)

Operator(q) ==
    \/ \E r \in Runs, op \in CapabilityOps : AskRead(q, r, op)
    \/ \E a \in DOMAIN approvals, d \in {"approve", "reject"} : DecideRead(q, a, d)
    \/ \E r \in Runs : InterruptRead(q, r) \/ ResumeRead(q, r)

Worker(w) ==
    \/ Deliver(w) \/ Discard(w) \/ UseCached(w) \/ Start(w)
    \/ Finish(w) \/ Stop(w) \/ PublishEnd(w) \/ StoreResult(w)
    \/ (\E q \in Requests : Post(w, q))
    \/ ClearFlag(w) \/ Ack(w)

Next ==
    \/ \E r \in Runs : CreateRun(r)
    \/ \E q \in Requests : Operator(q) \/ Handler(q) \/ Breaks(q)
    \/ \E w \in Workers : Worker(w) \/ PostFails(w) \/ WorkerCrash(w)

Spec == Init /\ [][Next]_vars

(* Every process that can go on goes on: uvicorn runs each handler to its  *)
(* end, a worker polls every 0.5 s and a run is bounded by its duration    *)
(* budget.  A worker whose post finds every handler busy gets one in the   *)
(* end.  Operators, crashes and lost calls are not forced to happen.       *)
Fairness ==
    /\ \A q \in Requests : WF_vars(Handler(q))
    /\ \A w \in Workers : WF_vars(Worker(w)) /\ SF_vars(\E q \in Requests : Post(w, q))

FairSpec == Spec /\ Fairness

-----------------------------------------------------------------------------
RequestRows == [pc : {"idle", "ask", "approve", "reject", "interrupt", "set_stop", "resume",
                      "clear_stop", "enqueue", "enqueue_failed", "apply"},
                run : Runs \cup {None}, appr : Nat, op : Operations, seen : RunRows,
                result : Results, worker : Workers \cup {None}]
WorkerRows  == [pc : {"idle", "check", "run", "publish", "store", "post", "await",
                      "clear", "ack"},
                job : Nat, result : Results, fresh : BOOLEAN]

ApprovalRows == [run : Runs, op : Operations, status : {"pending", "approved", "rejected"}]
JobRows      == [run : Runs, op : Operations]

DbOK ==
    /\ run \in [Runs -> RunRows]
    /\ projections \in [Runs -> Nat]
    /\ approvals \in Seq(ApprovalRows)

QueueOK ==
    /\ queue \in Seq(JobRows)
    /\ delivered \in 0..Len(queue)
    /\ pending \subseteq 1..delivered
    /\ discarded \subseteq 1..delivered

FlagsOK ==
    /\ cache \in [Runs -> Results \cup {None}]
    /\ control \in [Runs -> BOOLEAN]
    /\ ended \in [Runs -> BOOLEAN]
    /\ broken \subseteq Runs \X {"flag", "job"}

RequestsOK ==
    /\ req \in [Requests -> RequestRows]
    /\ \A q \in Requests : /\ req[q].pc # "idle" => req[q].run \in Runs
                           /\ req[q].appr \in 0..Len(approvals)
                           /\ req[q].pc \in {"approve", "reject"} => req[q].appr # 0

WorkersOK ==
    /\ wk \in [Workers -> WorkerRows]
    /\ \A w \in Workers : wk[w].pc # "idle" => wk[w].job \in 1..delivered

(* Every variable has its type: a handler that is in progress works on a    *)
(* run, an approval handler on an approval that exists, and the group has   *)
(* been handed out no entry that the stream does not hold.                 *)
TypeOK == DbOK /\ QueueOK /\ FlagsOK /\ RequestsOK /\ WorkersOK

Acknowledged == (1..delivered) \ (pending \cup discarded)

(* An entry that was acknowledged and not discarded as unauthorised has its *)
(* run's result in the database, whatever crashes, times out or is posted   *)
(* twice: serve acknowledges only after the callback was answered.         *)
AckImpliesApplied == \A j \in Acknowledged : Applied(queue[j].run)

(* Whenever the database shows a result, a client of the event stream can   *)
(* read task_end and a retry finds the cached payload: process_job          *)
(* publishes and caches before it calls back.                              *)
AppliedHasEvidence == \A r \in Runs : Applied(r) => ended[r] /\ cache[r] # None

(* A run shown as queued has an entry in the job stream, unless the handler *)
(* that queued it is still at work (the commit comes before XADD) or broke *)
(* off in between: an XADD that raises makes the run failed, and no other  *)
(* step forgets the job.                                                   *)
QueuedHasJob ==
    \A r \in Runs :
        run[r].status = "queued" =>
            \/ \E j \in DOMAIN queue : queue[j].run = r
            \/ \E q \in Requests : req[q].run = r
                    /\ req[q].pc \in {"clear_stop", "enqueue", "enqueue_failed"}
            \/ <<r, "job">> \in broken

(* A job never carries a capability without an approved approval of that    *)
(* operation for that run.                                                 *)
CapabilityWasApproved ==
    \A j \in DOMAIN queue :
        queue[j].op \in AllCapabilityOps =>
            \E a \in DOMAIN approvals :
                approvals[a] = [run |-> queue[j].run, op |-> queue[j].op, status |-> "approved"]

(* A result is projected into the run's rows at most once (the docstring of *)
(* apply_worker_result).                                                   *)
ProjectedOnce == \A r \in Runs : projections[r] <= 1

(* A write-capable run is shown as succeeded only with a passing verdict.   *)
WriteSuccessIsVerified ==
    \A r \in Runs :
        run[r].status = "succeeded" /\ Permission[r] \in {"edit", "full"} =>
            run[r].verdict = "passed"

(* Once an interrupt was answered, a worker that executes the run will see  *)
(* the stop flag: no resume, approval or other worker took it away.  (Once *)
(* a result was applied the flag may be gone although a second execution   *)
(* of the run still goes on; an interrupt that broke off was not answered.) *)
InterruptReachesWorker ==
    \A r \in Runs, w \in Workers :
        /\ run[r].status = "interrupted" /\ ~ Applied(r)
        /\ \A q \in Requests : req[q].run # r
        /\ <<r, "flag">> \notin broken
        /\ wk[w].pc = "run" /\ JobOf(w).run = r
        => control[r]

(* Every job that reaches the stream is handed to a worker in the end.      *)
EveryJobIsDelivered == \A j \in 1..MaxJobs : j <= Len(queue) ~> j <= delivered

(* A resumed run does not stay queued for ever: it ends, or it is           *)
(* interrupted again.                                                      *)
ResumedRunEnds ==
    \A r \in Runs :
        (\E q \in Requests : req[q].run = r /\ req[q].pc = "clear_stop")
            ~> run[r].status # "queued"

(* An entry left pending by a worker that gave it up is handed out again.   *)
PendingIsRedelivered ==
    \A j \in 1..MaxJobs :
        j \in pending /\ (\A w \in Workers : wk[w].job # j)
            ~> j \notin pending \/ (\E w \in Workers : wk[w].job = j)

-----------------------------------------------------------------------------
(* The refinement: where an entry of the stream is.                        *)
JobState(j) ==
    IF j > delivered THEN "ready"
    ELSE IF j \in discarded THEN "refused"
    ELSE IF j \notin pending THEN "settled"
    ELSE IF \E w \in Workers : wk[w].job = j THEN "held"
    ELSE "lost"

JD == INSTANCE JobDelivery
        WITH owner <- [j \in DOMAIN queue |-> queue[j].run],
             state <- [j \in DOMAIN queue |-> JobState(j)],
             accepted <- {r \in Runs : Applied(r)}

(* The handlers, Redis and the workers together deliver jobs at most once   *)
(* and settle only accepted ones.                                          *)
ImplementsJobDelivery == JD!Spec
=============================================================================
