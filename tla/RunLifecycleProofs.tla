------------------------- MODULE RunLifecycleProofs -------------------------
(* Theorems of RunLifecycle, for any number of runs, workers, handlers,     *)
(* jobs and approvals and for any set of faults, and at the end that it     *)
(* implements JobDelivery.                                                 *)
EXTENDS RunLifecycle, SequenceTheorems, TLAPS

(* A callback handler that has a worker is the only one that has it, and    *)
(* that worker awaits it.                                                  *)
Linked ==
    \A q \in Requests : req[q].worker # None =>
        /\ req[q].pc = "apply"
        /\ wk[req[q].worker].pc = "await"
        /\ req[q].run = JobOf(req[q].worker).run
        /\ \A p \in Requests \ {q} : req[p].worker # req[q].worker

(* A row stays a row when a handler flushes its session.                   *)
LEMMA FlushType ==
    ASSUME NEW row \in RunRows, NEW seen, NEW new,
           new.status \in RunStatuses, new.verdict \in Verdicts
    PROVE  Flush(row, seen, new) \in RunRows
BY DEF Flush, RunRows

LEMMA SetStatusType ==
    ASSUME run \in [Runs -> RunRows], NEW r \in Runs, NEW seen \in RunRows,
           NEW s \in RunStatuses, SetStatus(r, seen, s)
    PROVE  run' \in [Runs -> RunRows]
<1>1. /\ [seen EXCEPT !.status = s].status \in RunStatuses
      /\ [seen EXCEPT !.status = s].verdict \in Verdicts
  BY DEF RunRows
<1>2. QED BY <1>1, FlushType DEF SetStatus

LEMMA ProjectedType ==
    ASSUME NEW r \in Runs, NEW row \in RunRows, NEW seen \in RunRows, NEW res \in Results
    PROVE  Projected(r, row, seen, res) \in RunRows
<1> DEFINE new == [seen EXCEPT !.status = AcceptedStatus(r, res), !.verdict = Verdict(res)]
           flushed == Flush(row, seen, new)
<1>1. AcceptedStatus(r, res) \in RunStatuses /\ Verdict(res) \in Verdicts
  BY DEF AcceptedStatus, Verdict, RunStatuses, Verdicts, Results
<1>2. new.status \in RunStatuses /\ new.verdict \in Verdicts
  BY <1>1 DEF RunRows
<1>3. Projected(r, row, seen, res) = [flushed EXCEPT !.steps = row.steps \/ res.plan]
  BY DEF Projected
<1> HIDE DEF new
<1>4. flushed \in RunRows
  BY <1>2, FlushType
<1> HIDE DEF flushed
<1>5. [flushed EXCEPT !.steps = row.steps \/ res.plan] \in RunRows
  BY <1>4 DEF RunRows
<1>6. QED BY <1>3, <1>5

LEMMA IdleTypes == IdleRequest \in RequestRows /\ IdleWorker \in WorkerRows
BY DEF IdleRequest, IdleWorker, RequestRows, WorkerRows, Results, FailedResult, Operations,
       StartOps, AllCapabilityOps, RunRows, Absent, RunStatuses, Verdicts

(* A step of one handler that leaves it in row s.                          *)
LEMMA RequestStep ==
    ASSUME RequestsOK, NEW q \in Requests, NEW s \in RequestRows,
           s.pc # "idle" => s.run \in Runs,
           s.appr \in 0..Len(approvals),
           s.pc \in {"approve", "reject"} => s.appr # 0,
           req' = [req EXCEPT ![q] = s],
           Len(approvals) \in Nat, Len(approvals') \in Nat, Len(approvals') >= Len(approvals)
    PROVE  RequestsOK'
BY DEF RequestsOK

LEMMA LenNat == DbOK => Len(approvals) \in Nat
BY DEF DbOK

(* A handler that begins by reading run r.                                 *)
LEMMA ReadType ==
    ASSUME RequestsOK, DbOK, NEW q \in Requests, NEW r \in Runs, NEW op \in Operations,
           NEW pc \in {"approve", "reject", "interrupt", "resume"},
           NEW a \in 0..Len(approvals), pc \in {"approve", "reject"} => a # 0,
           req' = [req EXCEPT ![q] = Read(pc, r, a, op)], approvals' = approvals
    PROVE  RequestsOK'
<1> DEFINE s == Read(pc, r, a, op)
<1>1. run[r] \in RunRows /\ FailedResult \in Results /\ a \in Nat
  BY LenNat DEF DbOK, FailedResult, Results
<1>2. s \in RequestRows /\ s.pc = pc /\ s.run = r /\ s.appr = a
  BY <1>1 DEF Read, RequestRows
<1>3. req' = [req EXCEPT ![q] = s]
  OBVIOUS
<1> HIDE DEF s
<1>4. /\ s.appr \in 0..Len(approvals) /\ s.run \in Runs
      /\ s.pc \in {"approve", "reject"} => s.appr # 0
  BY <1>2
<1>5. Len(approvals) \in Nat /\ Len(approvals') \in Nat /\ Len(approvals') >= Len(approvals)
  BY LenNat
<1>6. QED BY <1>2, <1>3, <1>4, <1>5, RequestStep

(* Answering makes one handler idle.                                       *)
LEMMA AnswerType ==
    ASSUME TypeOK, NEW q \in Requests, Answer(q),
           Len(approvals') \in Nat, Len(approvals') >= Len(approvals)
    PROVE  RequestsOK'
<1>1. IdleRequest.pc = "idle" /\ IdleRequest.appr = 0
  BY DEF IdleRequest
<1>2. QED BY <1>1, IdleTypes, LenNat DEF Answer, TypeOK, RequestsOK

LEMMA GoToType ==
    ASSUME TypeOK, NEW q \in Requests, req[q].pc # "idle",
           NEW pc \in {"set_stop", "clear_stop", "enqueue", "enqueue_failed"}, GoTo(q, pc),
           Len(approvals') \in Nat, Len(approvals') >= Len(approvals)
    PROVE  RequestsOK'
<1> DEFINE s == [req[q] EXCEPT !.pc = pc]
<1>1. req[q] \in RequestRows
  BY DEF TypeOK, RequestsOK
<1>2. s \in RequestRows /\ s.pc = pc /\ s.run = req[q].run /\ s.appr = req[q].appr
  BY <1>1 DEF RequestRows
<1>3. req' = [req EXCEPT ![q] = s]
  BY DEF GoTo
<1>4. s.run \in Runs /\ s.appr \in 0..Len(approvals)
  BY <1>2 DEF TypeOK, RequestsOK
<1> HIDE DEF s
<1>5. QED BY <1>2, <1>3, <1>4, RequestStep, LenNat DEF TypeOK

(* An answer leaves the awaiting worker with its job or idle, the others    *)
(* as they were.                                                           *)
LEMMA ReplyType ==
    ASSUME TypeOK, Linked, NEW q \in Requests, NEW ok \in BOOLEAN, Reply(q, ok)
    PROVE  /\ wk' \in [Workers -> WorkerRows]
           /\ \A w \in Workers : wk'[w].pc # "idle" =>
                                    wk'[w].job = wk[w].job /\ wk[w].pc # "idle"
<1>1. wk' = [w \in Workers |->
             IF w # req[q].worker THEN wk[w]
             ELSE IF ~ ok THEN IdleWorker
             ELSE [wk[w] EXCEPT !.pc = IF wk[w].fresh THEN "clear" ELSE "ack"]]
  BY DEF Reply
<1>2. ASSUME NEW w \in Workers
      PROVE  wk'[w] \in WorkerRows /\ (wk'[w].pc # "idle" =>
                                    wk'[w].job = wk[w].job /\ wk[w].pc # "idle")
  <2>1. CASE w # req[q].worker BY <1>1, <2>1 DEF TypeOK, WorkersOK
  <2>2. CASE w = req[q].worker /\ ~ ok BY <1>1, <2>2, IdleTypes DEF IdleWorker
  <2>3. CASE w = req[q].worker /\ ok
    <3>1. wk[w].pc = "await" BY <2>3, RunsAssumption DEF Linked
    <3>2. wk[w] \in WorkerRows BY DEF TypeOK, WorkersOK
    <3>3. QED BY <1>1, <2>3, <3>1, <3>2 DEF WorkerRows
  <2>4. QED BY <2>1, <2>2, <2>3
<1>3. QED BY <1>1, <1>2

-----------------------------------------------------------------------------
LEMMA TypeInit == Init => TypeOK
<1> SUFFICES ASSUME Init PROVE TypeOK
  OBVIOUS
<1>1. DbOK
  BY DEF Init, DbOK, RunRows, Absent, RunStatuses, Verdicts
<1>2. QueueOK /\ FlagsOK
  BY DEF Init, QueueOK, FlagsOK
<1>3. RequestsOK
  BY IdleTypes DEF Init, RequestsOK, IdleRequest
<1>4. WorkersOK
  BY IdleTypes DEF Init, WorkersOK, IdleWorker
<1>5. QED BY <1>1, <1>2, <1>3, <1>4 DEF TypeOK

(* A step of one worker that keeps its job and goes on to row s, or to idle. *)
LEMMA WorkerStep ==
    ASSUME WorkersOK, NEW w \in Workers, NEW s \in WorkerRows, wk' = [wk EXCEPT ![w] = s],
           s.pc # "idle" => wk[w].pc # "idle" /\ s.job = wk[w].job,
           delivered' = delivered
    PROVE  WorkersOK'
BY DEF WorkersOK

LEMMA IdleStep ==
    ASSUME WorkersOK, NEW w \in Workers, wk' = [wk EXCEPT ![w] = IdleWorker],
           delivered' = delivered
    PROVE  WorkersOK'
BY IdleTypes DEF WorkersOK, IdleWorker

LEMMA BecomeType ==
    ASSUME WorkersOK, NEW w \in Workers, wk[w].pc # "idle",
           NEW pc \in {"run", "publish", "store", "post", "await", "clear", "ack"},
           NEW res \in Results, NEW b \in BOOLEAN, Become(w, pc, res, b),
           delivered' = delivered
    PROVE  WorkersOK'
<1> DEFINE s == [pc |-> pc, job |-> wk[w].job, result |-> res, fresh |-> b]
<1>1. wk[w] \in WorkerRows
  BY DEF WorkersOK
<1>2. s \in WorkerRows /\ s.job = wk[w].job
  BY <1>1 DEF WorkerRows
<1>3. wk' = [wk EXCEPT ![w] = s]
  BY DEF Become
<1> HIDE DEF s
<1>4. QED BY <1>2, <1>3, WorkerStep

LEMMA StepType ==
    ASSUME WorkersOK, NEW w \in Workers, wk[w].pc # "idle",
           NEW pc \in {"store", "post", "clear", "ack"}, Step(w, pc), delivered' = delivered
    PROVE  WorkersOK'
<1>1. wk[w].result \in Results /\ wk[w].fresh \in BOOLEAN
  BY DEF WorkersOK, WorkerRows
<1>2. QED BY <1>1, BecomeType DEF Step

(* The worker of a job works on an entry of the stream.                    *)
LEMMA JobType ==
    ASSUME TypeOK, NEW w \in Workers, wk[w].pc # "idle"
    PROVE  /\ wk[w] \in WorkerRows
           /\ wk[w].job \in 1..Len(queue) /\ wk[w].job \in 1..delivered
           /\ JobOf(w).run \in Runs
<1>1. wk[w] \in WorkerRows /\ wk[w].job \in 1..delivered
  BY DEF TypeOK, WorkersOK
<1>2. queue \in Seq(JobRows) /\ delivered \in 0..Len(queue)
  BY DEF TypeOK, QueueOK
<1>3. wk[w].job \in 1..Len(queue)
  BY <1>1, <1>2, LenProperties
<1>4. queue[wk[w].job] \in JobRows
  BY <1>2, <1>3, ElementOfSeq
<1>5. QED BY <1>1, <1>3, <1>4 DEF JobOf, JobRows

(* Deciding an approval keeps the others and their number.                 *)
LEMMA DecideType ==
    ASSUME DbOK, NEW a \in 1..Len(approvals), NEW st \in {"approved", "rejected"},
           approvals' = [approvals EXCEPT ![a].status = st]
    PROVE  approvals' \in Seq(ApprovalRows) /\ Len(approvals') = Len(approvals)
<1> DEFINE e == [approvals[a] EXCEPT !.status = st]
<1>1. approvals \in Seq(ApprovalRows) /\ approvals[a] \in ApprovalRows
  BY ElementOfSeq DEF DbOK
<1>2. e \in ApprovalRows
  BY <1>1 DEF ApprovalRows
<1>3. approvals' = [approvals EXCEPT ![a] = e]
  OBVIOUS
<1> HIDE DEF e
<1>4. QED BY <1>1, <1>2, <1>3, ExceptSeq

LEMMA Unchanged ==
    /\ DbOK /\ UNCHANGED dbVars => DbOK'
    /\ QueueOK /\ UNCHANGED queueVars => QueueOK'
    /\ FlagsOK /\ UNCHANGED flagVars => FlagsOK'
    /\ RequestsOK /\ UNCHANGED <<req, approvals>> => RequestsOK'
    /\ WorkersOK /\ UNCHANGED <<wk, delivered>> => WorkersOK'
BY DEF DbOK, QueueOK, FlagsOK, RequestsOK, WorkersOK, dbVars, queueVars, flagVars

-----------------------------------------------------------------------------
(* TypeOK is kept by every step, as long as callbacks are linked to the     *)
(* workers that await them.                                                *)
LEMMA TypeOperators ==
    ASSUME TypeOK, NEW q \in Requests, Operator(q)
    PROVE  TypeOK'
<1> USE Unchanged DEF TypeOK
<1>1. ASSUME NEW r \in Runs, NEW op \in CapabilityOps, AskRead(q, r, op) PROVE TypeOK'
  <2> DEFINE s == [IdleRequest EXCEPT !.pc = "ask", !.run = r, !.op = op]
  <2>1. s \in RequestRows /\ s.pc = "ask" /\ s.run = r /\ s.appr = 0
    BY OperationAssumption, IdleTypes DEF IdleRequest, RequestRows, Operations
  <2> HIDE DEF s
  <2>2. RequestsOK'
    BY <1>1, <2>1, LenNat DEF AskRead, dbVars, RequestsOK, s
  <2>3. QED BY <1>1, <2>2 DEF AskRead, queueVars
<1>2. ASSUME NEW a \in DOMAIN approvals, NEW d \in {"approve", "reject"}, DecideRead(q, a, d)
      PROVE  TypeOK'
  <2> DEFINE appr == approvals[a]
  <2>1. a \in 1..Len(approvals) /\ appr \in ApprovalRows
    BY LenProperties, ElementOfSeq DEF DbOK
  <2>2. appr.run \in Runs /\ appr.op \in Operations
    BY <2>1 DEF ApprovalRows
  <2>3. req' = [req EXCEPT ![q] = Read(d, appr.run, a, appr.op)]
    BY <1>2 DEF DecideRead
  <2> HIDE DEF appr
  <2>4. RequestsOK'
    <3>1. approvals' = approvals /\ a \in 0..Len(approvals) /\ a # 0
      BY <1>2, <2>1, LenNat DEF DecideRead, dbVars
    <3>2. QED BY <2>2, <2>3, <3>1, ReadType
  <2>5. QED BY <1>2, <2>4 DEF DecideRead, queueVars
<1>3. ASSUME NEW r \in Runs, NEW pc \in {"interrupt", "resume"},
             req' = [req EXCEPT ![q] = Read(pc, r, 0, "execute_task")],
             UNCHANGED <<dbVars, queueVars, flagVars, wk>>
      PROVE  TypeOK'
  <2>1. RequestsOK'
    <3>1. approvals' = approvals /\ 0 \in 0..Len(approvals) /\ "execute_task" \in Operations
      BY <1>3, LenNat DEF Operations, StartOps, dbVars
    <3>2. QED BY <1>3, <3>1, ReadType
  <2>2. QED BY <1>3, <2>1 DEF queueVars
<1>4. QED BY <1>1, <1>2, <1>3 DEF Operator, InterruptRead, ResumeRead

LEMMA TypeHandlers ==
    ASSUME TypeOK, Linked, NEW q \in Requests, Handler(q) \/ Breaks(q)
    PROVE  TypeOK'
<1> USE Unchanged DEF TypeOK
<1>0. req[q].pc # "idle" => /\ req[q] \in RequestRows /\ req[q].run \in Runs
                            /\ req[q].seen \in RunRows
  BY DEF RequestsOK, RequestRows
<1>1. ASSUME AskCommit(q) PROVE TypeOK'
  <2> DEFINE e == [run |-> req[q].run, op |-> req[q].op, status |-> "pending"]
  <2>3. e \in ApprovalRows
    BY <1>0, <1>1 DEF AskCommit, ApprovalRows, RequestRows
  <2>4. approvals' = approvals \/ approvals' = Append(approvals, e)
    BY <1>1 DEF AskCommit
  <2>5. approvals \in Seq(ApprovalRows) /\ Len(approvals) \in Nat
    BY LenNat DEF DbOK
  <2> HIDE DEF e
  <2>6. /\ approvals' \in Seq(ApprovalRows)
        /\ Len(approvals') \in Nat /\ Len(approvals') >= Len(approvals)
    BY <2>3, <2>4, <2>5, AppendProperties
  <2>1. DbOK' /\ Len(approvals') \in Nat /\ Len(approvals') >= Len(approvals)
    BY <1>1, <2>6 DEF AskCommit, DbOK
  <2>2. RequestsOK'
    BY <1>1, <2>1, AnswerType DEF AskCommit
  <2>7. QED BY <1>1, <2>1, <2>2 DEF AskCommit, queueVars
<1>2. ASSUME ApproveCommit(q) PROVE TypeOK'
  <2>1. run' \in [Runs -> RunRows]
    BY <1>0, <1>2, SetStatusType DEF ApproveCommit, RunStatuses, DbOK
  <2>0. req[q].appr \in 1..Len(approvals)
    BY <1>2, LenNat DEF ApproveCommit, RequestsOK
  <2>2. DbOK' /\ Len(approvals') = Len(approvals)
    BY <1>2, <2>0, <2>1, DecideType DEF ApproveCommit, DbOK
  <2>3. RequestsOK'
    BY <1>2, <2>2, GoToType, LenNat DEF ApproveCommit
  <2>4. QED BY <1>2, <2>2, <2>3 DEF ApproveCommit, queueVars
<1>3. ASSUME RejectCommit(q) PROVE TypeOK'
  <2>1. run' \in [Runs -> RunRows]
    BY <1>0, <1>3, SetStatusType DEF RejectCommit, RunStatuses, DbOK
  <2>0. req[q].appr \in 1..Len(approvals)
    BY <1>3, LenNat DEF RejectCommit, RequestsOK
  <2>2. DbOK' /\ Len(approvals') = Len(approvals)
    BY <1>3, <2>0, <2>1, DecideType DEF RejectCommit, DbOK
  <2>3. RequestsOK'
    BY <1>3, <2>2, AnswerType, LenNat DEF RejectCommit
  <2>4. QED BY <1>3, <2>2, <2>3 DEF RejectCommit, queueVars
<1>4. ASSUME InterruptCommit(q) PROVE TypeOK'
  <2>1. run' \in [Runs -> RunRows]
    BY <1>0, <1>4, SetStatusType DEF InterruptCommit, RunStatuses, DbOK
  <2>2. RequestsOK'
    BY <1>4, GoToType, LenNat DEF InterruptCommit
  <2>3. QED BY <1>4, <2>1, <2>2 DEF InterruptCommit, DbOK, queueVars
<1>5. ASSUME SetStop(q) PROVE TypeOK'
  <2>1. RequestsOK'
    BY <1>5, AnswerType, LenNat DEF SetStop, dbVars
  <2>2. QED BY <1>5, <2>1 DEF SetStop, FlagsOK, dbVars, queueVars
<1>6. ASSUME ResumeCommit(q) PROVE TypeOK'
  <2>1. run' \in [Runs -> RunRows]
    BY <1>0, <1>6, SetStatusType DEF ResumeCommit, RunStatuses, DbOK
  <2>2. RequestsOK'
    BY <1>6, GoToType, LenNat DEF ResumeCommit
  <2>3. QED BY <1>6, <2>1, <2>2 DEF ResumeCommit, DbOK, queueVars
<1>7. ASSUME ClearStop(q) PROVE TypeOK'
  <2>1. RequestsOK'
    BY <1>7, GoToType, LenNat DEF ClearStop, dbVars
  <2>2. QED BY <1>7, <2>1 DEF ClearStop, FlagsOK, dbVars, queueVars
<1>8. ASSUME Enqueue(q) \/ EnqueueError(q) PROVE TypeOK'
  <2>1. req[q].pc = "enqueue"
    BY <1>8 DEF Enqueue, EnqueueError
  <2>6. \A a \in DOMAIN approvals : approvals[a].op \in Operations
    <3>1. \A a \in DOMAIN approvals : approvals[a] \in ApprovalRows
      BY LenProperties, ElementOfSeq DEF DbOK
    <3>2. QED BY <3>1 DEF ApprovalRows
  <2>7. JobOps(q) \subseteq Operations
    BY <1>0, <2>1, <2>6 DEF JobOps, Approved, Latest, RequestRows, Operations, StartOps
  <2>2. \A job \in NewJobs(q) : job \in JobRows
    BY <1>0, <2>1, <2>7 DEF NewJobs, JobRows
  <2>8. PICK job \in JobRows : queue' = queue \/ queue' = Append(queue, job)
    BY <1>8, <2>2 DEF Enqueue, EnqueueError
  <2>9. /\ delivered' = delivered /\ pending' = pending /\ discarded' = discarded
    BY <1>8 DEF Enqueue, EnqueueError
  <2>3. QueueOK'
    <3>1. queue' \in Seq(JobRows) /\ Len(queue) \in Nat /\ Len(queue') \in Nat
      BY <2>8, AppendProperties, LenProperties DEF QueueOK
    <3>2. Len(queue') >= Len(queue)
      BY <2>8, <3>1, AppendProperties DEF QueueOK
    <3>3. QED BY <2>9, <3>1, <3>2 DEF QueueOK
  <2>4. RequestsOK'
    BY <1>8, <2>1, AnswerType, GoToType, LenNat DEF Enqueue, EnqueueError, dbVars
  <2>5. QED BY <1>8, <2>3, <2>4 DEF Enqueue, EnqueueError, dbVars
<1>9. ASSUME EnqueueFailedCommit(q) PROVE TypeOK'
  <2>1. run' \in [Runs -> RunRows]
    BY <1>9 DEF EnqueueFailedCommit, DbOK, RunRows, RunStatuses
  <2>2. RequestsOK'
    BY <1>9, AnswerType, LenNat DEF EnqueueFailedCommit
  <2>3. QED BY <1>9, <2>1, <2>2 DEF EnqueueFailedCommit, DbOK, queueVars
<1>10. ASSUME NEW ok \in BOOLEAN, Reply(q, ok), Answer(q), DbOK', approvals' = approvals,
              UNCHANGED queueVars, FlagsOK'
       PROVE  TypeOK'
  <2>1. RequestsOK'
    BY <1>10, AnswerType, LenNat
  <2>2. WorkersOK'
    BY <1>10, ReplyType DEF WorkersOK, queueVars
  <2>3. QED BY <1>10, <2>1, <2>2
<1>11. ASSUME ApplyCommit(q) PROVE DbOK'
  <2> DEFINE r == req[q].run
             seen == req[q].seen
             res == req[q].result
             row == Projected(r, run[r], seen, res)
  <2>1. r \in Runs /\ run[r] \in RunRows /\ seen \in RunRows /\ res \in Results
    BY <1>0, <1>11 DEF ApplyCommit, RequestRows, DbOK
  <2>2. row \in RunRows
    BY <2>1, ProjectedType
  <2>3. /\ run' = [run EXCEPT ![r] = row]
        /\ projections' = [projections EXCEPT ![r] = @ + 1] /\ approvals' = approvals
    BY <1>11 DEF ApplyCommit
  <2> HIDE DEF row
  <2>4. QED BY <2>1, <2>2, <2>3 DEF DbOK
<1>12. CASE ApplyAgain(q)
  BY <1>10, <1>12 DEF ApplyAgain, dbVars
<1>13. CASE ApplyCommit(q)
  BY <1>10, <1>11, <1>13 DEF ApplyCommit
<1>14. CASE ApplyCollision(q)
  BY <1>10, <1>14 DEF ApplyCollision, dbVars
<1>15. CASE Breaks(q)
  <2>1. req[q].run \in Runs
    BY <1>0, <1>15 DEF Breaks, ApiCrash, CallRaises, BreakOff
  <2>2. FlagAfterCall(q) \in [Runs -> BOOLEAN] /\ LeftUndone(q) \subseteq Runs \X {"flag", "job"}
    BY <2>1 DEF FlagAfterCall, LeftUndone, FlagsOK
  <2>3. FlagsOK'
    BY <1>15, <2>2 DEF Breaks, ApiCrash, CallRaises, BreakOff, FlagsOK
  <2>4. QED BY <1>10, <1>15, <2>3 DEF Breaks, ApiCrash, CallRaises, BreakOff, dbVars
<1>16. QED
  BY <1>1, <1>2, <1>3, <1>4, <1>5, <1>6, <1>7, <1>8, <1>9, <1>12, <1>13, <1>14, <1>15 DEF Handler

(* The requests that a vanished worker awaited lose it.                     *)
LEMMA ForgetType ==
    ASSUME RequestsOK, NEW w \in Workers, approvals' = approvals,
           req' = [q \in Requests |-> IF req[q].worker = w
                                      THEN [req[q] EXCEPT !.worker = None] ELSE req[q]]
    PROVE  RequestsOK'
<1>1. ASSUME NEW q \in Requests
      PROVE  /\ req'[q] \in RequestRows /\ req'[q].pc = req[q].pc
             /\ req'[q].run = req[q].run /\ req'[q].appr = req[q].appr
  <2>1. req[q] \in RequestRows
    BY DEF RequestsOK
  <2>2. CASE req[q].worker = w BY <2>1, <2>2 DEF RequestRows
  <2>3. CASE req[q].worker # w BY <2>1, <2>3
  <2>4. QED BY <2>2, <2>3
<1>2. QED BY <1>1 DEF RequestsOK

LEMMA TypeWorkers ==
    ASSUME TypeOK, NEW w \in Workers, Worker(w) \/ PostFails(w) \/ WorkerCrash(w)
    PROVE  TypeOK'
<1> USE Unchanged DEF TypeOK
<1>0. wk[w].pc # "idle" => /\ wk[w] \in WorkerRows /\ JobOf(w).run \in Runs
                           /\ wk[w].job \in 1..delivered
                           /\ wk[w].result \in Results /\ wk[w].fresh \in BOOLEAN
  BY JobType DEF WorkerRows
<1>a. FailedResult \in Results /\ InterruptedResult \in Results
  BY DEF FailedResult, InterruptedResult, Results
<1>1. ASSUME Deliver(w) PROVE TypeOK'
  <2> DEFINE s == Holding(delivered + 1)
  <2>1. Len(queue) \in Nat /\ delivered \in Nat /\ delivered < Len(queue)
    BY <1>1, LenProperties DEF Deliver, QueueOK
  <2>2. s \in WorkerRows /\ s.job = delivered + 1
    BY <2>1, <1>a DEF Holding, WorkerRows
  <2>3. wk' = [wk EXCEPT ![w] = s] /\ delivered' = delivered + 1
    BY <1>1 DEF Deliver
  <2> HIDE DEF s
  <2>4. WorkersOK'
    BY <2>1, <2>2, <2>3 DEF WorkersOK
  <2>5. QueueOK'
    BY <1>1, <2>1 DEF Deliver, QueueOK
  <2>6. QED BY <1>1, <2>4, <2>5 DEF Deliver, dbVars
<1>2. ASSUME Discard(w) \/ Ack(w) PROVE TypeOK'
  <2>1. WorkersOK'
    BY <1>2, IdleStep DEF Discard, Ack
  <2>2. QueueOK'
    BY <1>0, <1>2 DEF Discard, Ack, QueueOK
  <2>3. QED BY <1>2, <2>1, <2>2 DEF Discard, Ack, dbVars
<1>3. ASSUME UseCached(w) PROVE TypeOK'
  <2>1. cache[JobOf(w).run] \in Results
    BY <1>0, <1>3 DEF UseCached, FlagsOK
  <2>2. WorkersOK'
    BY <1>3, <2>1, BecomeType DEF UseCached, queueVars
  <2>3. QED BY <1>3, <2>2 DEF UseCached, dbVars
<1>4. ASSUME Start(w) PROVE TypeOK'
  <2>1. WorkersOK'
    BY <1>4, <1>a, BecomeType DEF Start, queueVars
  <2>2. QED BY <1>4, <2>1 DEF Start, dbVars
<1>5. ASSUME Finish(w) PROVE TypeOK'
  <2>0. PausedResult \in Results
    BY DEF PausedResult, Results
  <2>1. Outcomes(JobOf(w)) \subseteq Results
    <3>1. {res \in Results : /\ res.plan
                           /\ res.status \in {"succeeded", "failed"}
                           /\ res.verified => res.status = "succeeded"} \subseteq Results
      OBVIOUS
    <3>2. QED BY <1>a, <2>0, <3>1, Zenon DEF Outcomes
  <2>2. WorkersOK'
    BY <1>5, <2>1, BecomeType DEF Finish, queueVars
  <2>3. QED BY <1>5, <2>2 DEF Finish, dbVars
<1>6. ASSUME Stop(w) PROVE TypeOK'
  <2>1. WorkersOK'
    BY <1>6, <1>a, BecomeType DEF Stop, queueVars
  <2>2. QED BY <1>6, <2>1 DEF Stop, dbVars
<1>7. ASSUME PublishEnd(w) \/ StoreResult(w) \/ ClearFlag(w) PROVE TypeOK'
  <2>1. WorkersOK'
    BY <1>7, StepType DEF PublishEnd, StoreResult, ClearFlag, queueVars
  <2>2. FlagsOK'
    BY <1>0, <1>7 DEF PublishEnd, StoreResult, ClearFlag, FlagsOK
  <2>3. QED BY <1>7, <2>1, <2>2 DEF PublishEnd, StoreResult, ClearFlag, dbVars
<1>8. ASSUME NEW q \in Requests, Post(w, q) PROVE TypeOK'
  <2> DEFINE s == [Read("apply", JobOf(w).run, 0, "execute_task")
                     EXCEPT !.result = wk[w].result, !.worker = w]
  <2>1. wk[w].pc # "idle" /\ run[JobOf(w).run] \in RunRows
    BY <1>0, <1>8 DEF Post, DbOK
  <2>2. s \in RequestRows /\ s.pc = "apply" /\ s.run = JobOf(w).run /\ s.appr = 0
    BY <1>0, <1>a, <2>1 DEF Read, RequestRows, Operations, StartOps
  <2>3. req' = [req EXCEPT ![q] = s] /\ approvals' = approvals
    BY <1>8 DEF Post, dbVars
  <2> HIDE DEF s
  <2>4. /\ s.appr \in 0..Len(approvals) /\ s.run \in Runs
        /\ Len(approvals) \in Nat /\ Len(approvals') \in Nat /\ Len(approvals') >= Len(approvals)
    BY <1>0, <2>1, <2>2, <2>3, LenNat
  <2>5. RequestsOK'
    BY <2>2, <2>3, <2>4, RequestStep
  <2>6. WorkersOK'
    BY <1>0, <1>8, <1>a, <2>1, BecomeType DEF Post, queueVars
  <2>7. QED BY <1>8, <2>5, <2>6 DEF Post
<1>9. ASSUME PostFails(w) \/ WorkerCrash(w) PROVE TypeOK'
  <2>1. WorkersOK'
    BY <1>9, IdleStep DEF PostFails, WorkerCrash, queueVars
  <2>2. RequestsOK'
    BY <1>9, ForgetType DEF PostFails, WorkerCrash, dbVars
  <2>3. QED BY <1>9, <2>1, <2>2 DEF PostFails, WorkerCrash
<1>10. QED
  BY <1>1, <1>2, <1>3, <1>4, <1>5, <1>6, <1>7, <1>8, <1>9 DEF Worker

LEMMA TypeStep == TypeOK /\ Linked /\ [Next]_vars => TypeOK'
<1> SUFFICES ASSUME TypeOK, Linked, [Next]_vars PROVE TypeOK'
  OBVIOUS
<1>1. ASSUME NEW r \in Runs, CreateRun(r) PROVE TypeOK'
  <2> DEFINE e == [run |-> r, op |-> StartOp(r), status |-> "pending"]
  <2>1. e \in ApprovalRows
    BY DEF ApprovalRows, StartOp, Operations, StartOps
  <2>2. approvals' = Append(approvals, e) /\ approvals \in Seq(ApprovalRows)
    BY <1>1 DEF CreateRun, TypeOK, DbOK
  <2> HIDE DEF e
  <2>3. /\ approvals' \in Seq(ApprovalRows)
        /\ Len(approvals) \in Nat /\ Len(approvals') = Len(approvals) + 1
    BY <2>1, <2>2, AppendProperties, LenProperties
  <2>4. DbOK'
    BY <1>1, <2>3 DEF CreateRun, TypeOK, DbOK, RunRows, RunStatuses
  <2>5. RequestsOK'
    BY <1>1, <2>3 DEF CreateRun, TypeOK, RequestsOK
  <2>6. QED BY <1>1, <2>4, <2>5, Unchanged DEF CreateRun, TypeOK, queueVars
<1>2. CASE UNCHANGED vars
  BY <1>2, Unchanged DEF vars, TypeOK, dbVars, queueVars
<1>3. QED
  BY <1>1, <1>2, TypeOperators, TypeHandlers, TypeWorkers DEF Next

-----------------------------------------------------------------------------
(* What a step that starts no callback must respect: it changes neither a   *)
(* callback that still has its worker nor that worker, and no entry of the *)
(* stream.                                                                 *)
LinksKept ==
    /\ \A q \in Requests : req'[q].worker # None =>
          req'[q] = req[q] /\ wk'[req[q].worker] = wk[req[q].worker]
    /\ \A j \in 1..Len(queue) : queue'[j] = queue[j]

LEMMA LinkedKept ==
    ASSUME TypeOK, Linked, LinksKept
    PROVE  Linked'
<1> SUFFICES ASSUME NEW q \in Requests, req'[q].worker # None
             PROVE  /\ req'[q].pc = "apply"
                    /\ wk'[req'[q].worker].pc = "await"
                    /\ req'[q].run = queue'[wk'[req'[q].worker].job].run
                    /\ \A p \in Requests \ {q} : req'[p].worker # req'[q].worker
  BY DEF Linked, JobOf
<1> DEFINE w == req[q].worker
<1>1. req'[q] = req[q] /\ wk'[w] = wk[w] /\ w \in Workers
  BY DEF LinksKept, TypeOK, RequestsOK, RequestRows
<1>2. wk[w].pc = "await" /\ req[q].pc = "apply" /\ req[q].run = queue[wk[w].job].run
  BY <1>1 DEF Linked, JobOf
<1>3. queue'[wk[w].job] = queue[wk[w].job]
  BY <1>1, <1>2, JobType DEF LinksKept
<1>4. ASSUME NEW p \in Requests \ {q} PROVE req'[p].worker # w
  <2>1. CASE req'[p].worker = None BY <1>1, <2>1
  <2>2. CASE req'[p].worker # None BY <1>1, <2>2 DEF LinksKept, Linked
  <2>3. QED BY <2>1, <2>2
<1>5. QED BY <1>1, <1>2, <1>3, <1>4

LEMMA LinkedHandlers ==
    ASSUME TypeOK, Linked, NEW q \in Requests, Operator(q) \/ Handler(q) \/ Breaks(q)
    PROVE  Linked'
<1>1. req \in [Requests -> RequestRows] /\ queue \in Seq(JobRows)
  BY DEF TypeOK, RequestsOK, QueueOK
<1>2. ASSUME NEW s, req' = [req EXCEPT ![q] = s], s.worker = None,
             wk' = wk, \A j \in 1..Len(queue) : queue'[j] = queue[j]
      PROVE  Linked'
  <2>1. LinksKept BY <1>1, <1>2 DEF LinksKept
  <2>2. QED BY <2>1, LinkedKept
<1>3. CASE Operator(q)
  <2>1. queue' = queue /\ wk' = wk
    BY <1>3 DEF Operator, AskRead, DecideRead, InterruptRead, ResumeRead, queueVars
  <2>2. ASSUME NEW r, NEW op, AskRead(q, r, op) PROVE Linked'
    <3> DEFINE s == [IdleRequest EXCEPT !.pc = "ask", !.run = r, !.op = op]
    <3>1. s.worker = None BY DEF IdleRequest
    <3>2. req' = [req EXCEPT ![q] = s] BY <2>2 DEF AskRead
    <3> HIDE DEF s
    <3>3. QED BY <2>1, <3>1, <3>2, <1>2
  <2>3. ASSUME NEW pc, NEW r, NEW a, NEW op, req' = [req EXCEPT ![q] = Read(pc, r, a, op)]
        PROVE  Linked'
    <3>1. Read(pc, r, a, op).worker = None BY DEF Read
    <3>2. QED BY <2>1, <2>3, <3>1, <1>2
  <2>4. QED BY <1>3, <2>2, <2>3 DEF Operator, DecideRead, InterruptRead, ResumeRead
<1>4. ASSUME Answer(q), wk' = wk, \A j \in 1..Len(queue) : queue'[j] = queue[j]
      PROVE  Linked'
  <2>1. IdleRequest.worker = None BY DEF IdleRequest
  <2>2. QED BY <1>2, <1>4, <2>1 DEF Answer
<1>5. ASSUME NEW pc, GoTo(q, pc), req[q].pc # "apply", wk' = wk,
             \A j \in 1..Len(queue) : queue'[j] = queue[j]
      PROVE  Linked'
  <2> DEFINE s == [req[q] EXCEPT !.pc = pc]
  <2>1. req[q].worker = None BY <1>5 DEF Linked
  <2>2. s.worker = None BY <1>1, <2>1 DEF RequestRows
  <2>3. req' = [req EXCEPT ![q] = s] BY <1>5 DEF GoTo
  <2> HIDE DEF s
  <2>4. QED BY <1>2, <1>5, <2>2, <2>3
<1>6. CASE AskCommit(q) \/ RejectCommit(q) \/ SetStop(q) \/ EnqueueFailedCommit(q)
  BY <1>4, <1>6 DEF AskCommit, RejectCommit, SetStop, EnqueueFailedCommit, queueVars
<1>7. CASE ApproveCommit(q) \/ InterruptCommit(q) \/ ResumeCommit(q) \/ ClearStop(q)
  BY <1>5, <1>7 DEF ApproveCommit, InterruptCommit, ResumeCommit, ClearStop, queueVars
<1>8. CASE Enqueue(q) \/ EnqueueError(q)
  <2>1. req[q].pc = "enqueue" /\ wk' = wk BY <1>8 DEF Enqueue, EnqueueError
  <2>2. req[q].run \in Runs /\ req[q].op \in Operations
    BY <1>1, <2>1 DEF TypeOK, RequestsOK, RequestRows
  <2>3. \E job : queue' = queue \/ queue' = Append(queue, job)
    BY <1>8 DEF Enqueue, EnqueueError
  <2>4. \A j \in 1..Len(queue) : queue'[j] = queue[j]
    BY <1>1, <2>3
  <2>5. QED BY <1>4, <1>5, <1>8, <2>1, <2>4 DEF Enqueue, EnqueueError
<1>9. ASSUME NEW ok \in BOOLEAN, Reply(q, ok), Answer(q), queue' = queue PROVE Linked'
  <2>1. IdleRequest.worker = None BY DEF IdleRequest
  <2>2. \A p \in Requests : req'[p].worker # None => p # q /\ req'[p] = req[p]
    BY <1>1, <1>9, <2>1 DEF Answer
  <2>3. ASSUME NEW p \in Requests, req'[p].worker # None
        PROVE  wk'[req[p].worker] = wk[req[p].worker]
    <3>1. req[p].worker \in Workers BY <1>1, <2>2, <2>3 DEF RequestRows
    <3>2. req[p].worker # req[q].worker BY <2>2, <2>3 DEF Linked
    <3>3. QED BY <1>9, <3>1, <3>2 DEF Reply
  <2>4. LinksKept BY <1>9, <2>2, <2>3 DEF LinksKept
  <2>5. QED BY <2>4, LinkedKept
<1>10. CASE ApplyAgain(q) \/ ApplyCommit(q) \/ ApplyCollision(q) \/ Breaks(q)
  BY <1>9, <1>10 DEF ApplyAgain, ApplyCommit, ApplyCollision, Breaks, ApiCrash, CallRaises,
     BreakOff, queueVars
<1>11. QED BY <1>3, <1>6, <1>7, <1>8, <1>10 DEF Handler

LEMMA LinkedWorkers ==
    ASSUME TypeOK, Linked, NEW w \in Workers, Worker(w) \/ PostFails(w) \/ WorkerCrash(w)
    PROVE  Linked'
<1>1. /\ req \in [Requests -> RequestRows] /\ wk \in [Workers -> WorkerRows]
      /\ queue' = queue
  BY DEF TypeOK, RequestsOK, WorkersOK, queueVars, Worker, PostFails, WorkerCrash, Deliver, Discard,
         UseCached, Start, Finish, Stop, PublishEnd, StoreResult, Post, ClearFlag, Ack
<1>2. ASSUME NEW s, wk[w].pc # "await", req' = req, wk' = [wk EXCEPT ![w] = s]
      PROVE  Linked'
  <2>1. \A q \in Requests : req[q].worker # w BY <1>2, RunsAssumption DEF Linked
  <2>2. LinksKept BY <1>1, <1>2, <2>1 DEF LinksKept, RequestRows
  <2>3. QED BY <2>2, LinkedKept
<1>3. CASE Deliver(w) \/ Discard(w) \/ Ack(w)
  BY <1>2, <1>3 DEF Deliver, Discard, Ack
<1>4. CASE UseCached(w) \/ Start(w) \/ Finish(w) \/ Stop(w) \/ PublishEnd(w) \/ StoreResult(w)
           \/ ClearFlag(w)
  BY <1>2, <1>4 DEF UseCached, Start, Finish, Stop, PublishEnd, StoreResult, ClearFlag, Step, Become
<1>5. ASSUME NEW q \in Requests, Post(w, q) PROVE Linked'
  <2> DEFINE s == [Read("apply", JobOf(w).run, 0, "execute_task")
                     EXCEPT !.result = wk[w].result, !.worker = w]
             v == [pc |-> "await", job |-> wk[w].job, result |-> FailedResult, fresh |-> wk[w].fresh]
  <2>1. s.pc = "apply" /\ s.run = queue[wk[w].job].run /\ s.worker = w
    BY DEF Read, JobOf
  <2>2. req' = [req EXCEPT ![q] = s] /\ wk' = [wk EXCEPT ![w] = v]
    BY <1>5 DEF Post, Become
  <2>3. v.pc = "await" /\ v.job = wk[w].job
    OBVIOUS
  <2> HIDE DEF s, v
  <2>4. req'[q] = s /\ wk'[w] = v
    BY <1>1, <2>2
  <2>5. \A p \in Requests \ {q} : req'[p] = req[p] /\ req[p].worker # w
    BY <1>1, <1>5, <2>2, RunsAssumption DEF Linked, Post
  <2>6. ASSUME NEW p \in Requests \ {q}, req[p].worker # None
        PROVE  wk'[req[p].worker] = wk[req[p].worker]
    BY <1>1, <2>2, <2>5, <2>6 DEF RequestRows
  <2>7. \A p \in Requests \ {q} : req'[p].worker # None =>
          /\ req'[p].pc = "apply" /\ wk'[req'[p].worker].pc = "await"
          /\ req'[p].run = queue'[wk'[req'[p].worker].job].run
          /\ \A x \in Requests \ {p} : req'[x].worker # req'[p].worker
    BY <1>1, <2>1, <2>4, <2>5, <2>6 DEF Linked, JobOf
  <2>8. QED BY <1>1, <2>1, <2>3, <2>4, <2>5, <2>7 DEF Linked, JobOf
<1>6. CASE PostFails(w) \/ WorkerCrash(w)
  <2>1. ASSUME NEW q \in Requests, req'[q].worker # None
        PROVE  req'[q] = req[q] /\ req[q].worker # w
    <3>1. CASE req[q].worker = w
      BY <1>1, <1>6, <2>1, <3>1 DEF PostFails, WorkerCrash, RequestRows
    <3>2. CASE req[q].worker # w BY <1>6, <3>2 DEF PostFails, WorkerCrash
    <3>3. QED BY <3>1, <3>2
  <2>2. \A v \in Workers \ {w} : wk'[v] = wk[v]
    BY <1>1, <1>6 DEF PostFails, WorkerCrash
  <2>3. LinksKept BY <1>1, <2>1, <2>2 DEF LinksKept, RequestRows
  <2>4. QED BY <2>3, LinkedKept
<1>7. QED BY <1>3, <1>4, <1>5, <1>6 DEF Worker

LEMMA LinkedStep == TypeOK /\ Linked /\ [Next]_vars => Linked'
<1> SUFFICES ASSUME TypeOK, Linked, [Next]_vars PROVE Linked'
  OBVIOUS
<1>1. CASE (\E r \in Runs : CreateRun(r)) \/ UNCHANGED vars
  <2>1. req' = req /\ wk' = wk /\ queue' = queue BY <1>1 DEF CreateRun, vars, queueVars
  <2>2. LinksKept BY <2>1 DEF LinksKept
  <2>3. QED BY <2>2, LinkedKept
<1>2. QED BY <1>1, LinkedHandlers, LinkedWorkers DEF Next

(* The types hold in every state: no handler or worker ever works on a run, *)
(* an approval or an entry that does not exist, under any interleaving of  *)
(* any number of them.                                                     *)
THEOREM TypeCorrect == Spec => [](TypeOK /\ Linked)
<1>1. Init => TypeOK /\ Linked
  <2>1. Init => Linked BY DEF Init, Linked, IdleRequest
  <2>2. QED BY <2>1, TypeInit
<1>2. TypeOK /\ Linked /\ [Next]_vars => TypeOK' /\ Linked'
  BY TypeStep, LinkedStep
<1>3. QED BY <1>1, <1>2, PTL DEF Spec

-----------------------------------------------------------------------------
(* What a client may conclude from a projected result and from an           *)
(* acknowledged job.                                                       *)

(* The inductive invariant.  Evidence is made in one order, task_end, then  *)
(* the cached result, then the callback, then the acknowledgement, and each *)
(* process knows which part is already there.                              *)
RunEvidence(r) ==
    /\ cache[r] # None => ended[r]
    /\ Applied(r) => cache[r] # None

WorkerEvidence(w) ==
    /\ wk[w].pc = "store" => ended[JobOf(w).run]
    /\ wk[w].pc \in {"post", "await"} => cache[JobOf(w).run] # None
    /\ wk[w].pc \in {"clear", "ack"} => Applied(JobOf(w).run)

RequestEvidence(q) ==
    req[q].pc = "apply" =>
        /\ cache[req[q].run] # None
        /\ req[q].seen.verdict # "none" => Applied(req[q].run)

Evidence ==
    /\ \A r \in Runs : RunEvidence(r)
    /\ \A w \in Workers : WorkerEvidence(w)
    /\ \A q \in Requests : RequestEvidence(q)
    /\ AckImpliesApplied

-----------------------------------------------------------------------------
(* No step takes evidence away.                                            *)
Grows ==
    /\ \A r \in Runs : /\ Applied(r) => Applied(r)'
                       /\ cache[r] # None => cache'[r] # None
                       /\ ended[r] => ended'[r]
    /\ \A j \in 1..Len(queue) : queue'[j] = queue[j]

(* A handler that only sets the status keeps every verdict, its own stale   *)
(* one included.                                                           *)
LEMMA StatusKeepsVerdict ==
    ASSUME run \in [Runs -> RunRows], NEW r \in Runs, NEW seen \in RunRows, NEW s,
           SetStatus(r, seen, s), NEW x \in Runs
    PROVE  run'[x].verdict = run[x].verdict
<1> DEFINE new == [seen EXCEPT !.status = s]
           row == Flush(run[r], seen, new)
<1>1. new.verdict = seen.verdict
  BY DEF RunRows
<1> HIDE DEF new
<1>2. row.verdict = run[r].verdict
  BY <1>1 DEF Flush, RunRows
<1>3. run' = [run EXCEPT ![r] = row]
  BY DEF SetStatus, new
<1> HIDE DEF row
<1>4. QED BY <1>2, <1>3

(* A projected result leaves a verdict behind, in its own run only.         *)
LEMMA ApplyVerdict ==
    ASSUME TypeOK, NEW q \in Requests, ApplyCommit(q)
    PROVE  /\ run'[req[q].run].verdict # "none"
           /\ \A x \in Runs \ {req[q].run} : run'[x] = run[x]
<1> DEFINE r == req[q].run
           seen == req[q].seen
           res == req[q].result
           new == [seen EXCEPT !.status = AcceptedStatus(r, res), !.verdict = Verdict(res)]
           flushed == Flush(run[r], seen, new)
           row == Projected(r, run[r], seen, res)
<1>1. r \in Runs /\ run \in [Runs -> RunRows] /\ seen \in RunRows /\ seen.verdict = "none"
  BY DEF ApplyCommit, TypeOK, DbOK, RequestsOK, RequestRows
<1>2. new.verdict = Verdict(res) /\ Verdict(res) # "none"
  BY <1>1 DEF RunRows, Verdict
<1>3. row = [flushed EXCEPT !.steps = run[r].steps \/ res.plan]
  BY DEF Projected
<1> HIDE DEF new
<1>4. flushed.verdict = new.verdict /\ flushed = [run[r] EXCEPT !.status = flushed.status, !.verdict = flushed.verdict]
  BY <1>1, <1>2 DEF Flush, RunRows
<1> HIDE DEF flushed
<1>5. row.verdict = new.verdict
  BY <1>1, <1>3, <1>4 DEF RunRows
<1>6. run' = [run EXCEPT ![r] = row]
  BY DEF ApplyCommit
<1> HIDE DEF row
<1>7. QED BY <1>1, <1>2, <1>5, <1>6

LEMMA Monotone ==
    ASSUME TypeOK, Linked, [Next]_vars
    PROVE  Grows
<1> DEFINE Verdicts1 == \A r \in Runs : Applied(r) => Applied(r)'
           Flags1 == \A r \in Runs : /\ cache[r] # None => cache'[r] # None
                                     /\ ended[r] => ended'[r]
           Queue1 == \A j \in 1..Len(queue) : queue'[j] = queue[j]
<1>0. run \in [Runs -> RunRows] /\ cache \in [Runs -> Results \cup {None}]
      /\ ended \in [Runs -> BOOLEAN] /\ queue \in Seq(JobRows)
  BY DEF TypeOK, DbOK, FlagsOK, QueueOK
<1>a. ASSUME run' = run PROVE Verdicts1
  BY <1>a DEF Applied
<1>b. ASSUME UNCHANGED <<cache, ended>> PROVE Flags1
  BY <1>b
<1>c. ASSUME queue' = queue PROVE Queue1
  BY <1>c
<1>1. CASE UNCHANGED vars
  BY <1>1, <1>a, <1>b, <1>c DEF vars, dbVars, flagVars, queueVars, Grows
<1>2. ASSUME NEW r \in Runs, CreateRun(r) PROVE Grows
  <2>1. Verdicts1 BY <1>0, <1>2 DEF CreateRun, Applied, RunRows
  <2>2. QED BY <1>2, <1>b, <1>c, <2>1 DEF CreateRun, flagVars, queueVars, Grows
<1>3. ASSUME NEW q \in Requests, Operator(q) PROVE Grows
  <2>1. UNCHANGED <<run, cache, ended, queue>>
    BY <1>3 DEF Operator, AskRead, DecideRead, InterruptRead, ResumeRead,
                dbVars, flagVars, queueVars
  <2>2. QED BY <2>1, <1>a, <1>b, <1>c DEF Grows
<1>4. ASSUME NEW q \in Requests, Handler(q) \/ Breaks(q) PROVE Grows
  <2>0. req[q].pc # "idle" => req[q].run \in Runs /\ req[q].seen \in RunRows
    BY DEF TypeOK, RequestsOK, RequestRows
  <2>1. Flags1
    BY <1>4, <1>b DEF Handler, AskCommit, ApproveCommit, RejectCommit, InterruptCommit, SetStop,
       ResumeCommit, ClearStop, Enqueue, EnqueueError, EnqueueFailedCommit, ApplyAgain,
       ApplyCommit, ApplyCollision, Breaks, ApiCrash, CallRaises, BreakOff, flagVars
  <2>2. Queue1
    <3>1. CASE Enqueue(q) \/ EnqueueError(q)
      <4>1. \E job : queue' = queue \/ queue' = Append(queue, job)
        BY <3>1 DEF Enqueue, EnqueueError
      <4>2. QED BY <1>0, <4>1
    <3>2. CASE ~ (Enqueue(q) \/ EnqueueError(q))
      BY <1>4, <3>2, <1>c DEF Handler, AskCommit, ApproveCommit, RejectCommit, InterruptCommit,
         SetStop, ResumeCommit, ClearStop, EnqueueFailedCommit, ApplyAgain,
         ApplyCommit, ApplyCollision, Breaks, ApiCrash, CallRaises, BreakOff, queueVars
    <3>3. QED BY <3>1, <3>2
  <2>3. Verdicts1
    <3>1. CASE run' = run BY <3>1, <1>a
    <3>2. ASSUME NEW s, req[q].pc # "idle", SetStatus(req[q].run, req[q].seen, s)
          PROVE  Verdicts1
      <4>1. \A x \in Runs : run'[x].verdict = run[x].verdict
        BY <1>0, <2>0, <3>2, StatusKeepsVerdict
      <4>2. QED BY <4>1 DEF Applied
    <3>3. CASE ApproveCommit(q) \/ InterruptCommit(q) \/ ResumeCommit(q) \/ RejectCommit(q)
      BY <3>1, <3>2, <3>3 DEF ApproveCommit, InterruptCommit, ResumeCommit, RejectCommit
    <3>4. CASE EnqueueFailedCommit(q)
      <4>1. \A x \in Runs : run'[x].verdict = run[x].verdict
        BY <1>0, <3>4 DEF EnqueueFailedCommit, RunRows
      <4>2. QED BY <4>1 DEF Applied
    <3>5. CASE ApplyCommit(q)
      BY <3>5, ApplyVerdict DEF Applied
    <3>6. CASE AskCommit(q) \/ SetStop(q) \/ ClearStop(q) \/ Enqueue(q) \/ EnqueueError(q)
                \/ ApplyAgain(q) \/ ApplyCollision(q) \/ Breaks(q)
      BY <3>1, <3>6 DEF AskCommit, SetStop, ClearStop, Enqueue, EnqueueError, ApplyAgain,
         ApplyCollision, Breaks, ApiCrash, CallRaises, BreakOff, dbVars
    <3>7. QED BY <1>4, <3>3, <3>4, <3>5, <3>6 DEF Handler
  <2>4. QED BY <2>1, <2>2, <2>3 DEF Grows
<1>5. ASSUME NEW w \in Workers, Worker(w) \/ PostFails(w) \/ WorkerCrash(w) PROVE Grows
  <2>1. run' = run /\ queue' = queue
    BY <1>5 DEF Worker, PostFails, WorkerCrash, Deliver, Discard, UseCached, Start, Finish, Stop,
       PublishEnd, StoreResult, Post, ClearFlag, Ack, dbVars, queueVars
  <2>2. Flags1
    <3>1. CASE UNCHANGED <<cache, ended>> BY <3>1, <1>b
    <3>2. CASE PublishEnd(w) BY <1>0, <3>2 DEF PublishEnd
    <3>3. CASE StoreResult(w)
      <4>1. wk[w].result # None
        BY <3>3, ResultsAssumption DEF StoreResult, TypeOK, WorkersOK, WorkerRows
      <4>2. QED BY <1>0, <3>3, <4>1 DEF StoreResult
    <3>4. QED
      BY <1>5, <3>1, <3>2, <3>3 DEF Worker, PostFails, WorkerCrash, Deliver, Discard, UseCached,
         Start, Finish, Stop, Post, ClearFlag, Ack, flagVars
  <2>3. QED BY <2>1, <2>2, <1>a, <1>c DEF Grows
<1>6. QED BY <1>1, <1>2, <1>3, <1>4, <1>5 DEF Next

-----------------------------------------------------------------------------
(* Evidence survives a step in a process that the step does not move.       *)
LEMMA WorkerKept ==
    ASSUME TypeOK, Grows, NEW w \in Workers, WorkerEvidence(w),
           wk'[w] = wk[w] \/ wk'[w].pc = "idle"
    PROVE  WorkerEvidence(w)'
<1>1. CASE wk'[w].pc = "idle" BY <1>1 DEF WorkerEvidence
<1>2. CASE wk'[w] = wk[w] /\ wk[w].pc # "idle"
  <2>1. JobOf(w).run \in Runs /\ JobOf(w)' = JobOf(w)
    BY <1>2, JobType DEF JobOf, Grows
  <2>2. QED BY <1>2, <2>1 DEF WorkerEvidence, Grows, Applied
<1>3. QED BY <1>1, <1>2

LEMMA RequestKept ==
    ASSUME TypeOK, Grows, NEW q \in Requests, RequestEvidence(q),
           \/ req'[q].pc # "apply"
           \/ req'[q].pc = req[q].pc /\ req'[q].run = req[q].run /\ req'[q].seen = req[q].seen
    PROVE  RequestEvidence(q)'
<1>1. CASE req'[q].pc # "apply" BY <1>1 DEF RequestEvidence
<1>2. CASE req'[q].pc = "apply"
  <2>1. req'[q].run = req[q].run /\ req[q].run \in Runs
    BY <1>2 DEF TypeOK, RequestsOK
  <2>2. QED BY <1>2, <2>1 DEF RequestEvidence, Grows, Applied
<1>3. QED BY <1>1, <1>2

(* A worker that goes on with the same job at another pc.                   *)
LEMMA WorkerMoves ==
    ASSUME TypeOK, NEW w \in Workers, wk[w].pc # "idle", NEW pc, NEW res, NEW b,
           Become(w, pc, res, b), queue' = queue
    PROVE  /\ wk'[w].pc = pc /\ JobOf(w)' = JobOf(w) /\ JobOf(w).run \in Runs
           /\ \A v \in Workers \ {w} : wk'[v] = wk[v]
<1>1. wk \in [Workers -> WorkerRows] BY DEF TypeOK, WorkersOK
<1>2. QED BY <1>1, JobType DEF Become, JobOf

(* Only the worker that stores a result writes the cache.                  *)
LEMMA CacheMoves ==
    ASSUME [Next]_vars
    PROVE  cache' = cache \/ \E w \in Workers : StoreResult(w)
BY DEF Next, vars, CreateRun, Operator, AskRead, DecideRead, InterruptRead, ResumeRead,
   Handler, AskCommit, ApproveCommit, RejectCommit, InterruptCommit, SetStop,
   ResumeCommit, ClearStop, Enqueue, EnqueueError, EnqueueFailedCommit, ApplyAgain,
   ApplyCommit, ApplyCollision, Breaks, ApiCrash, CallRaises, BreakOff, Worker, PostFails,
   WorkerCrash, Deliver, Discard,
   UseCached, Start, Finish, Stop, PublishEnd, Post, ClearFlag, Ack, flagVars

(* Only a projected result changes a verdict.                              *)
LEMMA VerdictMoves ==
    ASSUME TypeOK, [Next]_vars, NEW r \in Runs
    PROVE  (\E q \in Requests : ApplyCommit(q)) \/ run'[r].verdict = run[r].verdict
<1>0. run \in [Runs -> RunRows] BY DEF TypeOK, DbOK
<1>1. ASSUME NEW q \in Requests, ApproveCommit(q) \/ RejectCommit(q) \/ InterruptCommit(q)
                                  \/ ResumeCommit(q)
      PROVE  run'[r].verdict = run[r].verdict
  <2>1. req[q].run \in Runs /\ req[q].seen \in RunRows
    BY <1>1 DEF TypeOK, RequestsOK, RequestRows, ApproveCommit, RejectCommit,
                InterruptCommit, ResumeCommit
  <2>2. ASSUME NEW s, SetStatus(req[q].run, req[q].seen, s)
        PROVE  run'[r].verdict = run[r].verdict
    BY <1>0, <2>1, <2>2, StatusKeepsVerdict
  <2>3. QED BY <1>1, <2>2 DEF ApproveCommit, RejectCommit, InterruptCommit, ResumeCommit
<1>2. ASSUME NEW q \in Requests, EnqueueFailedCommit(q)
      PROVE  run'[r].verdict = run[r].verdict
  BY <1>0, <1>2 DEF EnqueueFailedCommit, RunRows
<1>3. ASSUME NEW x \in Runs, CreateRun(x) PROVE run'[r].verdict = run[r].verdict
  BY <1>0, <1>3 DEF CreateRun, RunRows
<1>4. ASSUME NEW q \in Requests, Operator(q) \/ Handler(q) \/ Breaks(q)
      PROVE  ApplyCommit(q) \/ run'[r].verdict = run[r].verdict
  BY <1>1, <1>2, <1>4 DEF Operator, AskRead, DecideRead, InterruptRead, ResumeRead,
     Handler, AskCommit, SetStop, ClearStop, Enqueue, EnqueueError, ApplyAgain,
     ApplyCollision, Breaks, ApiCrash, CallRaises, BreakOff, dbVars
<1>5. ASSUME NEW w \in Workers, Worker(w) \/ PostFails(w) \/ WorkerCrash(w)
      PROVE  run'[r].verdict = run[r].verdict
  BY <1>5 DEF Worker, PostFails, WorkerCrash, Deliver, Discard, UseCached, Start, Finish,
     Stop, PublishEnd, StoreResult, Post, ClearFlag, Ack, dbVars
<1>6. QED BY <1>3, <1>4, <1>5 DEF Next, vars, dbVars

LEMMA RunEvidenceStep ==
    ASSUME TypeOK, Linked, Evidence, Grows, [Next]_vars, NEW r \in Runs
    PROVE  RunEvidence(r)'
<1>0. /\ run \in [Runs -> RunRows] /\ cache \in [Runs -> Results \cup {None}]
      /\ ended \in [Runs -> BOOLEAN] /\ RunEvidence(r)
  BY DEF TypeOK, DbOK, FlagsOK, Evidence
<1>1. cache'[r] # None => ended'[r]
  <2>1. CASE cache' = cache BY <1>0, <2>1 DEF RunEvidence, Grows
  <2>2. ASSUME NEW w \in Workers, StoreResult(w) PROVE cache'[r] # None => ended'[r]
    <3>1. ended[JobOf(w).run] BY <2>2 DEF Evidence, WorkerEvidence, StoreResult
    <3>2. QED BY <1>0, <2>2, <3>1 DEF StoreResult, RunEvidence
  <2>3. cache' = cache \/ \E w \in Workers : StoreResult(w)
    BY CacheMoves
  <2>4. QED BY <2>1, <2>2, <2>3
<1>2. Applied(r)' => cache'[r] # None
  <2>1. CASE Applied(r) BY <1>0, <2>1 DEF RunEvidence, Grows
  <2>2. ASSUME NEW q \in Requests, ApplyCommit(q), Applied(r)', ~ Applied(r)
        PROVE  cache'[r] # None
    <3>1. r = req[q].run BY <2>2, ApplyVerdict DEF Applied
    <3>2. cache[req[q].run] # None
      BY <2>2 DEF Evidence, RequestEvidence, ApplyCommit
    <3>3. QED BY <3>1, <3>2 DEF Grows
  <2>3. (\E q \in Requests : ApplyCommit(q)) \/ run'[r].verdict = run[r].verdict
    BY VerdictMoves
  <2>4. QED BY <2>1, <2>2, <2>3 DEF Applied
<1>3. QED BY <1>1, <1>2 DEF RunEvidence

LEMMA WorkerEvidenceStep ==
    ASSUME TypeOK, Linked, Evidence, Grows, [Next]_vars, NEW v \in Workers
    PROVE  WorkerEvidence(v)'
<1>0. WorkerEvidence(v) /\ wk \in [Workers -> WorkerRows]
  BY DEF Evidence, TypeOK, WorkersOK
<1>1. CASE wk'[v] = wk[v] \/ wk'[v].pc = "idle" BY <1>0, <1>1, WorkerKept
<1>2. ASSUME NEW w \in Workers, Worker(w) \/ PostFails(w) \/ WorkerCrash(w)
      PROVE  WorkerEvidence(v)'
  <2>1. queue' = queue
    BY <1>2 DEF Worker, PostFails, WorkerCrash, Deliver, Discard, UseCached, Start, Finish,
       Stop, PublishEnd, StoreResult, Post, ClearFlag, Ack, queueVars
  <2>2. CASE Deliver(w)
    <3>1. wk'[v] = wk[v] \/ wk'[v] = Holding(delivered + 1) BY <1>0, <2>2 DEF Deliver
    <3>2. Holding(delivered + 1).pc = "check" BY DEF Holding
    <3>3. wk'[v] = wk[v] \/ wk'[v].pc = "check" BY <3>1, <3>2
    <3>4. QED BY <1>1, <3>3 DEF WorkerEvidence
  <2>3. CASE Discard(w) \/ Ack(w) \/ PostFails(w) \/ WorkerCrash(w)
    BY <1>0, <1>1, <2>3 DEF Discard, Ack, PostFails, WorkerCrash, IdleWorker
  <2>4. ASSUME NEW pc, NEW res, NEW b, wk[w].pc # "idle", Become(w, pc, res, b),
               pc = "store" => ended'[JobOf(w).run],
               pc \in {"post", "await"} => cache'[JobOf(w).run] # None,
               pc \in {"clear", "ack"} => Applied(JobOf(w).run)'
        PROVE  WorkerEvidence(v)'
    <3>1. /\ wk'[w].pc = pc /\ JobOf(w)' = JobOf(w)
          /\ \A x \in Workers \ {w} : wk'[x] = wk[x]
      BY <2>1, <2>4, WorkerMoves
    <3>2. CASE v # w BY <1>1, <3>1, <3>2
    <3>3. CASE v = w BY <2>4, <3>1, <3>3 DEF WorkerEvidence, Applied
    <3>4. QED BY <3>2, <3>3
  <2>5. WorkerEvidence(w) BY DEF Evidence
  <2>6. wk[w].pc # "idle" => JobOf(w).run \in Runs BY JobType
  <2>7. CASE Start(w) \/ Finish(w) \/ Stop(w)
    BY <2>4, <2>7 DEF Start, Finish, Stop
  <2>8. CASE UseCached(w)
    BY <2>4, <2>8 DEF UseCached, flagVars
  <2>9. CASE PublishEnd(w)
    <3>1. ended'[JobOf(w).run] BY <2>6, <2>9 DEF PublishEnd, TypeOK, FlagsOK
    <3>2. QED BY <2>4, <2>9, <3>1 DEF PublishEnd, Step
  <2>10. CASE StoreResult(w)
    <3>1. cache'[JobOf(w).run] = wk[w].result /\ wk[w].result \in Results
      BY <2>6, <2>10 DEF StoreResult, TypeOK, FlagsOK, WorkersOK, WorkerRows
    <3>2. QED BY <2>4, <2>10, <3>1, ResultsAssumption DEF StoreResult, Step
  <2>11. ASSUME NEW q \in Requests, Post(w, q) PROVE WorkerEvidence(v)'
    BY <2>4, <2>5, <2>11 DEF Post, WorkerEvidence, flagVars
  <2>12. CASE ClearFlag(w)
    <3>1. Applied(JobOf(w).run) BY <2>5, <2>12 DEF WorkerEvidence, ClearFlag
    <3>2. (\A r \in Runs : Applied(r) => Applied(r)') /\ JobOf(w)' = JobOf(w)
      BY <2>1, <2>6, <2>12, WorkerMoves DEF Grows, ClearFlag, Step
    <3>3. Applied(JobOf(w).run)'
      BY <2>6, <2>12, <3>1, <3>2 DEF ClearFlag, Applied
    <3>4. QED BY <2>4, <2>12, <3>3 DEF ClearFlag, Step
  <2>13. QED
    BY <1>2, <2>2, <2>3, <2>7, <2>8, <2>9, <2>10, <2>11, <2>12 DEF Worker
<1>3. ASSUME NEW q \in Requests, NEW ok \in BOOLEAN, Reply(q, ok), queue' = queue,
             req[q].worker = v, ok => run'[req[q].run].verdict # "none"
      PROVE  WorkerEvidence(v)'
  <2>1. v # None BY RunsAssumption
  <2>2. wk[v].pc = "await" /\ req[q].run = JobOf(v).run
    BY <1>3, <2>1 DEF Linked
  <2>3. CASE ~ ok
    BY <1>1, <1>3, <2>3 DEF Reply, IdleWorker
  <2>4. CASE ok
    <3>1. wk'[v] = [wk[v] EXCEPT !.pc = IF wk[v].fresh THEN "clear" ELSE "ack"]
      BY <1>3, <2>4 DEF Reply
    <3>2. wk'[v].pc \in {"clear", "ack"} /\ wk'[v].job = wk[v].job
      BY <1>0, <3>1 DEF WorkerRows
    <3>3. JobOf(v)' = JobOf(v) BY <1>3, <3>2 DEF JobOf
    <3>4. QED BY <1>3, <2>2, <2>4, <3>2, <3>3 DEF WorkerEvidence, Applied
  <2>5. QED BY <2>3, <2>4
<1>4. ASSUME NEW q \in Requests, Operator(q) \/ Handler(q) \/ Breaks(q)
      PROVE  WorkerEvidence(v)'
  <2>1. CASE req[q].worker # v \/ ~ (ApplyAgain(q) \/ ApplyCommit(q) \/ ApplyCollision(q) \/ Breaks(q))
    <3>1. wk'[v] = wk[v]
      BY <1>0, <1>4, <2>1 DEF Operator, AskRead, DecideRead, InterruptRead, ResumeRead,
         Handler, AskCommit, ApproveCommit, RejectCommit, InterruptCommit, SetStop,
         ResumeCommit, ClearStop, Enqueue, EnqueueError, EnqueueFailedCommit, ApplyAgain,
         ApplyCommit, ApplyCollision, Breaks, ApiCrash, CallRaises, BreakOff, Reply
    <3>2. QED BY <1>1, <3>1
  <2>2. CASE req[q].worker = v /\ ApplyAgain(q)
    <3>1. Applied(req[q].run) BY <2>2 DEF ApplyAgain, Evidence, RequestEvidence
    <3>2. run'[req[q].run].verdict # "none" BY <2>2, <3>1 DEF ApplyAgain, Applied, dbVars
    <3>3. QED BY <1>3, <2>2, <3>2 DEF ApplyAgain, queueVars
  <2>3. CASE req[q].worker = v /\ ApplyCommit(q)
    <3>1. run'[req[q].run].verdict # "none" BY <2>3, ApplyVerdict
    <3>2. QED BY <1>3, <2>3, <3>1 DEF ApplyCommit, queueVars
  <2>4. CASE req[q].worker = v /\ (ApplyCollision(q) \/ Breaks(q))
    BY <1>3, <2>4 DEF ApplyCollision, Breaks, ApiCrash, CallRaises, BreakOff, queueVars
  <2>5. QED BY <2>1, <2>2, <2>3, <2>4
<1>5. CASE (\E r \in Runs : CreateRun(r)) \/ UNCHANGED vars
  BY <1>1, <1>5 DEF CreateRun, vars
<1>6. QED BY <1>2, <1>4, <1>5 DEF Next

LEMMA RequestEvidenceStep ==
    ASSUME TypeOK, Linked, Evidence, Grows, [Next]_vars, NEW p \in Requests
    PROVE  RequestEvidence(p)'
<1>0. RequestEvidence(p) /\ req \in [Requests -> RequestRows]
  BY DEF Evidence, TypeOK, RequestsOK
<1>1. CASE req'[p] = req[p] \/ req'[p].pc # "apply" BY <1>0, <1>1, RequestKept
<1>2. ASSUME NEW q \in Requests, Operator(q) \/ Handler(q) \/ Breaks(q)
      PROVE  RequestEvidence(p)'
  <2>1. ASSUME NEW s, req' = [req EXCEPT ![q] = s], s.pc # "apply"
        PROVE  RequestEvidence(p)'
    BY <1>0, <1>1, <2>1
  <2>2. CASE Operator(q)
    <3>1. ASSUME NEW r, NEW op, AskRead(q, r, op) PROVE RequestEvidence(p)'
      <4> DEFINE s == [IdleRequest EXCEPT !.pc = "ask", !.run = r, !.op = op]
      <4>1. s.pc # "apply" BY DEF IdleRequest
      <4>2. req' = [req EXCEPT ![q] = s] BY <3>1 DEF AskRead
      <4> HIDE DEF s
      <4>3. QED BY <2>1, <4>1, <4>2
    <3>2. ASSUME NEW pc \in {"approve", "reject", "interrupt", "resume"}, NEW r, NEW a, NEW op,
                 req' = [req EXCEPT ![q] = Read(pc, r, a, op)]
          PROVE  RequestEvidence(p)'
      <4>1. Read(pc, r, a, op).pc # "apply" BY DEF Read
      <4>2. QED BY <2>1, <3>2, <4>1
    <3>3. QED BY <2>2, <3>1, <3>2 DEF Operator, DecideRead, InterruptRead, ResumeRead
  <2>3. CASE Answer(q)
    <3>1. IdleRequest.pc # "apply" BY DEF IdleRequest
    <3>2. QED BY <2>1, <2>3, <3>1 DEF Answer
  <2>4. ASSUME NEW pc, GoTo(q, pc), pc # "apply" PROVE RequestEvidence(p)'
    <3> DEFINE s == [req[q] EXCEPT !.pc = pc]
    <3>1. s.pc # "apply" BY <1>0, <2>4 DEF RequestRows
    <3>2. req' = [req EXCEPT ![q] = s] BY <2>4 DEF GoTo
    <3> HIDE DEF s
    <3>3. QED BY <2>1, <3>1, <3>2
  <2>5. QED
    BY <1>2, <2>2, <2>3, <2>4 DEF Handler, AskCommit, ApproveCommit, RejectCommit,
       InterruptCommit, SetStop, ResumeCommit, ClearStop, Enqueue, EnqueueError,
       EnqueueFailedCommit, ApplyAgain, ApplyCommit, ApplyCollision, Breaks, ApiCrash, CallRaises,
       BreakOff
<1>3. ASSUME NEW w \in Workers, NEW q \in Requests, Post(w, q) PROVE RequestEvidence(p)'
  <2> DEFINE r == JobOf(w).run
             s == [Read("apply", r, 0, "execute_task") EXCEPT !.result = wk[w].result, !.worker = w]
  <2>1. wk[w].pc = "post" /\ r \in Runs /\ cache[r] # None
    BY <1>3, JobType DEF Post, Evidence, WorkerEvidence
  <2>2. s.run = r /\ s.seen = run[r]
    BY DEF Read
  <2>3. req' = [req EXCEPT ![q] = s] /\ cache' = cache /\ run' = run
    BY <1>3 DEF Post, flagVars, dbVars
  <2> HIDE DEF s, r
  <2>4. CASE p = q
    BY <1>0, <2>1, <2>2, <2>3, <2>4 DEF RequestEvidence, Applied
  <2>5. CASE p # q
    BY <1>0, <1>1, <2>3, <2>5
  <2>6. QED BY <2>4, <2>5
<1>4. ASSUME NEW w \in Workers, PostFails(w) \/ WorkerCrash(w) PROVE RequestEvidence(p)'
  <2>1. req'[p] = req[p] \/ req'[p] = [req[p] EXCEPT !.worker = None]
    BY <1>4 DEF PostFails, WorkerCrash
  <2>2. req'[p].pc = req[p].pc /\ req'[p].run = req[p].run /\ req'[p].seen = req[p].seen
    BY <1>0, <2>1 DEF RequestRows
  <2>3. QED BY <1>0, <2>2, RequestKept
<1>5. QED
  BY <1>1, <1>2, <1>3, <1>4 DEF Next, CreateRun, vars, Worker, Deliver, Discard, UseCached, Start,
     Finish, Stop, PublishEnd, StoreResult, ClearFlag, Ack

LEMMA AckStep ==
    ASSUME TypeOK, Evidence, Grows, [Next]_vars
    PROVE  AckImpliesApplied'
<1>0. /\ queue \in Seq(JobRows) /\ delivered \in 0..Len(queue)
      /\ pending \subseteq 1..delivered /\ discarded \subseteq 1..delivered
      /\ \A j \in Acknowledged : Applied(queue[j].run)
  BY DEF TypeOK, QueueOK, Evidence, AckImpliesApplied
<1>1. ASSUME NEW j \in 1..delivered, Applied(queue[j].run) PROVE Applied(queue[j].run)'
  <2>1. j \in 1..Len(queue) /\ queue[j] \in JobRows BY <1>0, ElementOfSeq, LenProperties
  <2>2. QED BY <1>1, <2>1 DEF Grows, JobRows, Applied
<1>2. ASSUME Acknowledged' \subseteq Acknowledged PROVE AckImpliesApplied'
  <2>1. ASSUME NEW j \in Acknowledged' PROVE Applied(queue[j].run)'
    <3>1. j \in Acknowledged /\ j \in 1..delivered BY <1>2, <2>1 DEF Acknowledged
    <3>2. QED BY <1>0, <1>1, <3>1 DEF Applied
  <2>2. QED BY <2>1 DEF AckImpliesApplied, Applied
<1>3. ASSUME NEW w \in Workers, Ack(w) PROVE AckImpliesApplied'
  <2>1. wk[w].job \in 1..delivered /\ Applied(queue[wk[w].job].run)
    BY <1>3, JobType DEF Ack, Evidence, WorkerEvidence, JobOf
  <2>2. Acknowledged' \subseteq Acknowledged \cup {wk[w].job} BY <1>3 DEF Ack, Acknowledged
  <2>3. ASSUME NEW j \in Acknowledged' PROVE Applied(queue[j].run)'
    <3>1. j \in 1..delivered /\ Applied(queue[j].run) BY <1>0, <2>1, <2>2, <2>3 DEF Acknowledged
    <3>2. QED BY <1>1, <3>1 DEF Applied
  <2>4. QED BY <2>3 DEF AckImpliesApplied, Applied
<1>4. ASSUME NEW w \in Workers, Deliver(w) \/ Discard(w) PROVE Acknowledged' \subseteq Acknowledged
  BY <1>0, <1>4, LenProperties DEF Deliver, Discard, Acknowledged
<1>5. ASSUME UNCHANGED <<delivered, pending, discarded>> PROVE AckImpliesApplied'
  BY <1>2, <1>5 DEF Acknowledged
<1>6. QED
  BY <1>2, <1>3, <1>4, <1>5 DEF Next, vars, CreateRun, Operator, AskRead, DecideRead,
     InterruptRead, ResumeRead, Handler, AskCommit, ApproveCommit, RejectCommit, InterruptCommit,
     SetStop, ResumeCommit, ClearStop, Enqueue, EnqueueError, EnqueueFailedCommit, ApplyAgain,
     ApplyCommit, ApplyCollision, Breaks, ApiCrash, CallRaises, BreakOff, Worker, PostFails,
     WorkerCrash, UseCached, Start,
     Finish, Stop, PublishEnd, StoreResult, Post, ClearFlag, queueVars

LEMMA EvidenceInvariant == Spec => []Evidence
<1>1. Init => Evidence
  BY DEF Init, Evidence, RunEvidence, WorkerEvidence, RequestEvidence, AckImpliesApplied,
         Acknowledged, Applied, Absent, IdleWorker, IdleRequest
<1>2. TypeOK /\ Linked /\ Evidence /\ [Next]_vars => Evidence'
  <2> SUFFICES ASSUME TypeOK, Linked, Evidence, [Next]_vars PROVE Evidence'
    OBVIOUS
  <2>1. Grows BY Monotone
  <2>2. QED
    BY <2>1, RunEvidenceStep, WorkerEvidenceStep, RequestEvidenceStep, AckStep DEF Evidence
<1>3. QED BY <1>1, <1>2, TypeCorrect, PTL DEF Spec

(* An acknowledged job has its result in the database, however handlers and *)
(* workers interleave, crash or lose calls: no result is dropped by the     *)
(* acknowledgement that ends process_job.                                  *)
THEOREM AcknowledgedIsApplied == Spec => []AckImpliesApplied
<1>1. Evidence => AckImpliesApplied BY DEF Evidence
<1>2. QED BY <1>1, EvidenceInvariant, PTL

(* Whoever reads a result in the database finds task_end on the stream and  *)
(* the payload in the cache: publish_result comes before post_result.      *)
THEOREM AppliedIsEvident == Spec => []AppliedHasEvidence
<1>1. Evidence => AppliedHasEvidence BY DEF Evidence, RunEvidence, AppliedHasEvidence
<1>2. QED BY <1>1, EvidenceInvariant, PTL

-----------------------------------------------------------------------------
(* The delivery of jobs: RunLifecycle implements JobDelivery.               *)

(* A job that was handed out and not given up belongs to one worker, and is *)
(* pending; a result is cached only for a run of which a job was taken.    *)
Held ==
    /\ \A w \in Workers :
          IF wk[w].pc = "idle" THEN wk[w].job = 0
          ELSE wk[w].job \in pending /\ wk[w].job \notin discarded
    /\ \A v, w \in Workers : wk[v].pc # "idle" /\ wk[v].job = wk[w].job => v = w

Taken == \A r \in Runs : cache[r] # None => \E j \in 1..delivered : queue[j].run = r

-----------------------------------------------------------------------------
(* What a step may do to the stream and to the jobs in the workers' hands.  *)
SameJobs ==
    \A w \in Workers : /\ wk'[w].job = wk[w].job
                       /\ wk'[w].pc = "idle" <=> wk[w].pc = "idle"

Stays == UNCHANGED queueVars /\ SameJobs

Gains ==
    /\ \E job \in JobRows : queue' = Append(queue, job)
    /\ UNCHANGED <<delivered, pending, discarded, wk>>

(* Worker w lets go of its job: gives it up, refuses it or acknowledges it. *)
Frees(w) ==
    /\ wk[w].pc # "idle"
    /\ wk'[w] = IdleWorker /\ \A v \in Workers \ {w} : wk'[v] = wk[v]
    /\ UNCHANGED <<queue, delivered>>
    /\ \/ UNCHANGED <<pending, discarded>>
       \/ pending' = pending \ {wk[w].job} /\ discarded' = discarded \cup {wk[w].job}
       \/ wk[w].pc = "ack" /\ pending' = pending \ {wk[w].job} /\ UNCHANGED discarded

(* A handler's answer frees the worker that awaits it or lets it go on.     *)
LEMMA ReplyMoves ==
    ASSUME TypeOK, Linked, NEW q \in Requests, NEW ok \in BOOLEAN, Reply(q, ok),
           UNCHANGED queueVars
    PROVE  Stays \/ \E w \in Workers : Frees(w)
<1>0. wk \in [Workers -> WorkerRows] /\ req[q].worker \in Workers \cup {None}
  BY DEF TypeOK, WorkersOK, RequestsOK, RequestRows
<1>1. \A w \in Workers : w # req[q].worker => wk'[w] = wk[w]
  BY DEF Reply
<1>2. CASE req[q].worker = None
  BY <1>1, <1>2, RunsAssumption DEF Stays, SameJobs
<1>3. CASE req[q].worker # None
  <2> DEFINE w == req[q].worker
  <2>1. w \in Workers /\ wk[w].pc = "await" /\ wk[w] \in WorkerRows
    BY <1>0, <1>3 DEF Linked
  <2>2. CASE ~ ok
    <3>1. wk'[w] = IdleWorker BY <2>1, <2>2 DEF Reply
    <3>2. Frees(w) BY <1>1, <2>1, <3>1 DEF Frees, queueVars
    <3>3. QED BY <2>1, <3>2
  <2>3. CASE ok
    <3>1. wk'[w].job = wk[w].job /\ wk'[w].pc \in {"clear", "ack"}
      BY <2>1, <2>3 DEF Reply, WorkerRows
    <3>2. QED BY <1>1, <2>1, <3>1 DEF Stays, SameJobs
  <2>4. QED BY <2>2, <2>3
<1>4. QED BY <1>2, <1>3

(* An API handler adds a job, frees the worker it answers, or moves no job. *)
LEMMA HandlerMoves ==
    ASSUME TypeOK, Linked, NEW q \in Requests, Operator(q) \/ Handler(q) \/ Breaks(q)
    PROVE  Stays \/ Gains \/ \E w \in Workers : Frees(w)
<1>1. CASE Operator(q)
  BY <1>1 DEF Operator, AskRead, DecideRead, InterruptRead, ResumeRead, Stays, SameJobs
<1>2. CASE \/ AskCommit(q) \/ ApproveCommit(q) \/ RejectCommit(q) \/ InterruptCommit(q)
           \/ SetStop(q) \/ ResumeCommit(q) \/ ClearStop(q) \/ EnqueueFailedCommit(q)
  BY <1>2 DEF AskCommit, ApproveCommit, RejectCommit, InterruptCommit, SetStop, ResumeCommit,
              ClearStop, EnqueueFailedCommit, Stays, SameJobs
<1>3. CASE Enqueue(q) \/ EnqueueError(q)
  <2>1. queue' \in Seq(JobRows) /\ queue \in Seq(JobRows) /\ Len(queue) \in Nat
    BY <1>3, TypeHandlers, LenProperties DEF Handler, TypeOK, QueueOK
  <2>2. queue' = queue \/ \E job \in JobRows : queue' = Append(queue, job)
    <3>1. ASSUME NEW job, queue' = Append(queue, job) PROVE job \in JobRows
      <4>1. Len(queue') = Len(queue) + 1 /\ queue'[Len(queue) + 1] = job
        BY <2>1, <3>1
      <4>2. QED BY <2>1, <4>1, ElementOfSeq
    <3>2. QED BY <1>3, <3>1 DEF Enqueue, EnqueueError
  <2>3. UNCHANGED <<delivered, pending, discarded, wk>>
    BY <1>3 DEF Enqueue, EnqueueError
  <2>4. QED BY <2>2, <2>3 DEF Stays, SameJobs, Gains, queueVars
<1>4. CASE ApplyAgain(q) \/ ApplyCommit(q) \/ ApplyCollision(q) \/ Breaks(q)
  <2>1. UNCHANGED queueVars /\ \E ok \in BOOLEAN : Reply(q, ok)
    BY <1>4 DEF ApplyAgain, ApplyCommit, ApplyCollision, Breaks, ApiCrash, CallRaises, BreakOff
  <2>2. QED BY <2>1, ReplyMoves
<1>5. QED BY <1>1, <1>2, <1>3, <1>4 DEF Handler

(* A worker takes a job, lets go of its own, or goes on with it.            *)
LEMMA WorkerMovesJob ==
    ASSUME TypeOK, NEW w \in Workers, Worker(w) \/ PostFails(w) \/ WorkerCrash(w)
    PROVE  Stays \/ Deliver(w) \/ Frees(w)
<1>0. wk \in [Workers -> WorkerRows]
  BY DEF TypeOK, WorkersOK
<1>1. ASSUME wk[w].pc # "idle", wk' = [wk EXCEPT ![w] = IdleWorker], UNCHANGED <<queue, delivered>>,
             \/ UNCHANGED <<pending, discarded>>
             \/ pending' = pending \ {wk[w].job} /\ discarded' = discarded \cup {wk[w].job}
             \/ wk[w].pc = "ack" /\ pending' = pending \ {wk[w].job} /\ UNCHANGED discarded
      PROVE  Frees(w)
  BY <1>0, <1>1 DEF Frees
<1>2. CASE Discard(w) \/ Ack(w) \/ PostFails(w) \/ WorkerCrash(w)
  BY <1>1, <1>2 DEF Discard, Ack, PostFails, WorkerCrash, queueVars
<1>3. ASSUME NEW pc, NEW res, NEW b, wk[w].pc # "idle", pc # "idle", Become(w, pc, res, b),
             UNCHANGED queueVars
      PROVE  Stays
  BY <1>0, <1>3, WorkerMoves DEF Stays, SameJobs, queueVars, Become
<1>4. CASE \/ UseCached(w) \/ Start(w) \/ Finish(w) \/ Stop(w) \/ PublishEnd(w)
           \/ StoreResult(w) \/ ClearFlag(w) \/ \E q \in Requests : Post(w, q)
  BY <1>3, <1>4 DEF UseCached, Start, Finish, Stop, PublishEnd, StoreResult, ClearFlag, Post, Step
<1>5. QED BY <1>2, <1>4 DEF Worker

(* Every step is one of these.                                             *)
LEMMA Moves ==
    ASSUME TypeOK, Linked, [Next]_vars
    PROVE  Stays \/ Gains \/ \E w \in Workers : Deliver(w) \/ Frees(w)
<1>1. CASE (\E r \in Runs : CreateRun(r)) \/ UNCHANGED vars
  BY <1>1 DEF CreateRun, vars, Stays, SameJobs
<1>2. QED BY <1>1, HandlerMoves, WorkerMovesJob DEF Next

-----------------------------------------------------------------------------
(* No step gives a job to two workers or takes it from the pending list     *)
(* while a worker has it.                                                  *)
LEMMA HeldStep ==
    ASSUME TypeOK, Linked, Held, [Next]_vars
    PROVE  Held'
<1>0. /\ wk \in [Workers -> WorkerRows] /\ delivered \in Nat
      /\ pending \subseteq 1..delivered /\ discarded \subseteq 1..delivered
      /\ \A w \in Workers : wk[w].pc # "idle" => wk[w].job \in 1..delivered
  BY LenProperties DEF TypeOK, WorkersOK, QueueOK
<1>1. CASE Stays
  BY <1>1 DEF Stays, SameJobs, queueVars, Held
<1>2. CASE Gains
  BY <1>2 DEF Gains, Held
<1>3. ASSUME NEW w \in Workers, Deliver(w) PROVE Held'
  <2>1. /\ wk'[w].job = delivered + 1 /\ wk'[w].pc = "check"
        /\ \A v \in Workers \ {w} : wk'[v] = wk[v]
        /\ pending' = pending \cup {delivered + 1} /\ discarded' = discarded
    BY <1>0, <1>3 DEF Deliver, Holding
  <2>2. \A v \in Workers : wk[v].job # delivered + 1
    BY <1>0 DEF Held
  <2>3. delivered + 1 \notin discarded
    BY <1>0
  <2>4. QED BY <2>1, <2>2, <2>3 DEF Held
<1>4. ASSUME NEW w \in Workers, Frees(w) PROVE Held'
  <2>1. wk'[w].job = 0 /\ wk'[w].pc = "idle" /\ \A v \in Workers \ {w} : wk'[v] = wk[v]
    BY <1>4 DEF Frees, IdleWorker
  <2>2. \A v \in Workers \ {w} : wk[v].job # wk[w].job
    BY <1>4 DEF Frees, Held
  <2>3. wk[w].job \in pending
    BY <1>4 DEF Frees, Held
  <2>4. \A j \in pending \ discarded : j # wk[w].job => j \in pending' \ discarded'
    BY <1>4 DEF Frees
  <2>5. \A v \in Workers : wk'[v].pc # "idle" => wk'[v].job # 0
    BY <1>0, <2>1
  <2>6. QED BY <2>1, <2>2, <2>4, <2>5 DEF Held
<1>5. QED BY <1>1, <1>2, <1>3, <1>4, Moves

(* No step caches a result for a run of which no job was taken.             *)
LEMMA TakenStep ==
    ASSUME TypeOK, Linked, Taken, [Next]_vars
    PROVE  Taken'
<1>0. /\ delivered \in 0..Len(queue) /\ Len(queue) \in Nat /\ delivered' >= delivered
      /\ delivered' \in Nat
  <2>1. delivered \in 0..Len(queue) /\ Len(queue) \in Nat
    BY LenProperties DEF TypeOK, QueueOK
  <2>2. delivered' = delivered \/ delivered' = delivered + 1
    BY Moves DEF Stays, Gains, Frees, Deliver, queueVars
  <2>3. QED BY <2>1, <2>2
<1>1. \A j \in 1..delivered : j \in 1..delivered' /\ queue'[j] = queue[j]
  BY <1>0, Monotone DEF Grows
<1>2. ASSUME NEW r \in Runs, cache'[r] # None PROVE \E j \in 1..delivered : queue[j].run = r
  <2>1. CASE cache[r] # None BY <2>1 DEF Taken
  <2>2. ASSUME NEW w \in Workers, StoreResult(w), cache[r] = None
        PROVE  \E j \in 1..delivered : queue[j].run = r
    <3>1. r = JobOf(w).run
      BY <1>2, <2>2 DEF StoreResult, TypeOK, FlagsOK
    <3>2. wk[w].job \in 1..delivered BY <2>2, JobType DEF StoreResult
    <3>3. QED BY <3>1, <3>2 DEF JobOf
  <2>3. QED BY <1>2, <2>1, <2>2, CacheMoves
<1>3. QED BY <1>1, <1>2 DEF Taken

(* Both hold in every state.                                                *)
LEMMA HeldInvariant == Spec => [](Held /\ Taken)
<1>1. Init => Held /\ Taken
  BY DEF Init, Held, Taken, IdleWorker
<1>2. TypeOK /\ Linked /\ (Held /\ Taken) /\ [Next]_vars => (Held /\ Taken)'
  BY HeldStep, TakenStep
<1>3. QED BY <1>1, <1>2, TypeCorrect, PTL DEF Spec

-----------------------------------------------------------------------------
(* The image of a state.                                                   *)
Owner == [j \in DOMAIN queue |-> queue[j].run]
State == [j \in DOMAIN queue |-> JobState(j)]
Accepted == {r \in Runs : Applied(r)}

(* The image of the stream's entries depends on nothing else.               *)
LEMMA SameState ==
    ASSUME TypeOK, Held, Stays
    PROVE  Owner' = Owner /\ State' = State
<1>1. queue' = queue /\ delivered' = delivered /\ pending' = pending /\ discarded' = discarded
  BY DEF Stays, queueVars
<1>2. \A j \in DOMAIN queue : JobState(j)' = JobState(j)
  BY <1>1 DEF JobState, Stays, SameJobs
<1>3. QED BY <1>1, <1>2 DEF Owner, State

(* Only a projected result changes what was accepted.                       *)
LEMMA SameAccepted ==
    ASSUME TypeOK, [Next]_vars, ~ \E q \in Requests : ApplyCommit(q)
    PROVE  Accepted' = Accepted
<1>1. \A r \in Runs : run'[r].verdict = run[r].verdict
  BY VerdictMoves
<1>2. QED BY <1>1 DEF Accepted, Applied

(* Append as a function.                                                   *)
LEMMA AppendIs ==
    ASSUME NEW S, NEW seq \in Seq(S), NEW e \in S
    PROVE  Append(seq, e) =
             [j \in 1..(Len(seq) + 1) |-> IF j = Len(seq) + 1 THEN e ELSE seq[j]]
<1>1. /\ Append(seq, e) \in Seq(S) /\ Len(Append(seq, e)) = Len(seq) + 1
      /\ \A j \in 1..Len(seq) : Append(seq, e)[j] = seq[j]
      /\ Append(seq, e)[Len(seq) + 1] = e
  BY AppendProperties
<1>2. Len(seq) \in Nat /\ Append(seq, e) = [j \in 1..(Len(seq) + 1) |-> Append(seq, e)[j]]
  BY <1>1, LenProperties
<1>3. \A j \in 1..(Len(seq) + 1) : Append(seq, e)[j] = IF j = Len(seq) + 1 THEN e ELSE seq[j]
  BY <1>1, <1>2
<1> HIDE <1>1
<1>4. QED BY <1>2, <1>3, Zenon

(* XADD is a job put.                                                       *)
LEMMA Puts ==
    ASSUME TypeOK, Held, Gains, Accepted' = Accepted
    PROVE  \E r \in Runs : JD!Put(r)
<1>1. PICK job \in JobRows : queue' = Append(queue, job)
  BY DEF Gains
<1>2. /\ queue \in Seq(JobRows) /\ delivered \in 0..Len(queue) /\ Len(queue) \in Nat
      /\ delivered' = delivered /\ pending' = pending /\ discarded' = discarded /\ wk' = wk
  BY LenProperties DEF TypeOK, QueueOK, Gains
<1>a. PICK n \in Nat : n = Len(queue)
  BY <1>2
<1>3. /\ Len(queue') = n + 1 /\ DOMAIN queue' = 1..(n + 1) /\ DOMAIN queue = 1..n
      /\ queue'[n + 1] = job /\ \A j \in 1..n : queue'[j] = queue[j]
  BY <1>1, <1>2, <1>a
<1>4. \A j \in 1..n : JobState(j)' = JobState(j)
  BY <1>2 DEF JobState
<1>5. JobState(n + 1)' = "ready"
  BY <1>2, <1>a DEF JobState
<1>6. Owner' = Append(Owner, job.run)
  <2>1. Owner \in Seq(Runs) /\ Len(Owner) = n
    <3>1. \A j \in 1..n : queue[j].run \in Runs
      <4>1. \A j \in 1..n : queue[j] \in JobRows BY <1>2, <1>a, ElementOfSeq
      <4>2. QED BY <4>1 DEF JobRows
    <3>2. Owner \in [1..n -> Runs] BY <1>3, <3>1 DEF Owner
    <3>3. QED BY <1>a, <3>2
  <2>2. Append(Owner, job.run) = [j \in 1..(n + 1) |-> IF j = n + 1 THEN job.run ELSE Owner[j]]
    BY <2>1, AppendIs DEF JobRows
  <2>3. \A j \in 1..(n + 1) : queue'[j].run = IF j = n + 1 THEN job.run ELSE Owner[j]
    BY <1>2, <1>3, <1>a DEF Owner
  <2>4. Owner' = [j \in 1..(n + 1) |-> queue'[j].run]
    BY <1>3 DEF Owner
  <2>5. QED BY <2>2, <2>3, <2>4
<1>7. State' = Append(State, "ready")
  <2>1. State \in Seq({"ready", "refused", "settled", "held", "lost"}) /\ Len(State) = n
    BY <1>2, <1>3, <1>a DEF State, JobState
  <2>2. Append(State, "ready") = [j \in 1..(n + 1) |-> IF j = n + 1 THEN "ready" ELSE State[j]]
    BY <2>1, AppendIs
  <2>3. \A j \in 1..(n + 1) : JobState(j)' = IF j = n + 1 THEN "ready" ELSE State[j]
    BY <1>2, <1>3, <1>a, <1>4, <1>5 DEF State
  <2>4. State' = [j \in 1..(n + 1) |-> JobState(j)']
    BY <1>3 DEF State
  <2>5. QED BY <2>2, <2>3, <2>4
<1>8. JD!Put(job.run)
  BY <1>6, <1>7 DEF JD!Put, Owner, State, Accepted
<1>9. QED BY <1>8 DEF JobRows

(* XREADGROUP is the first job taken.                                       *)
LEMMA Takes ==
    ASSUME TypeOK, Held, NEW w \in Workers, Deliver(w), Accepted' = Accepted
    PROVE  \E j \in DOMAIN State : JD!Take(j)
<1>1. /\ queue \in Seq(JobRows) /\ Len(queue) \in Nat /\ delivered \in 0..Len(queue)
      /\ DOMAIN queue = 1..Len(queue) /\ queue' = queue
      /\ pending \subseteq 1..delivered /\ discarded \subseteq 1..delivered
      /\ wk \in [Workers -> WorkerRows]
  BY LenProperties DEF TypeOK, QueueOK, WorkersOK, Deliver
<1>a. PICK d \in Nat : d = delivered + 1
  BY <1>1
<1>2. /\ d \in DOMAIN queue /\ delivered' = d
      /\ pending' = pending \cup {d} /\ discarded' = discarded
      /\ wk'[w].job = d /\ wk[w].job = 0 /\ \A v \in Workers \ {w} : wk'[v] = wk[v]
  BY <1>1, <1>a DEF Deliver, Holding, Held
<1>3. JobState(d) = "ready" /\ JobState(d)' = "held"
  BY <1>1, <1>2, <1>a DEF JobState
<1>4. \A j \in DOMAIN queue : j < d => JobState(j) # "ready"
  BY <1>1, <1>a DEF JobState
<1>5. ASSUME NEW j \in DOMAIN queue, j # d PROVE JobState(j)' = JobState(j)
  <2>1. (\E v \in Workers : wk'[v].job = j) <=> (\E v \in Workers : wk[v].job = j)
    BY <1>1, <1>2, <1>a, <1>5
  <2>2. (j > delivered' <=> j > delivered) /\ (j \in pending' <=> j \in pending)
    BY <1>1, <1>2, <1>a, <1>5
  <2>3. QED BY <1>2, <2>1, <2>2 DEF JobState
<1>6. State' = [State EXCEPT ![d] = "held"]
  BY <1>1, <1>2, <1>a, <1>3, <1>5 DEF State
<1>7. JD!Take(d)
  BY <1>a, <1>1, <1>2, <1>3, <1>4, <1>6 DEF JD!Take, State, Owner, Accepted
<1>8. QED BY <1>1, <1>2, <1>a, <1>7 DEF State

(* A worker that lets go of its job settles, refuses or loses it.           *)
LEMMA Leaves ==
    ASSUME TypeOK, Held, Evidence, NEW w \in Workers, Frees(w), Accepted' = Accepted
    PROVE  \E j \in DOMAIN State, s \in {"settled", "refused", "lost"} : JD!Leave(j, s)
<1>1. /\ queue \in Seq(JobRows) /\ Len(queue) \in Nat /\ delivered \in 0..Len(queue)
      /\ DOMAIN queue = 1..Len(queue) /\ queue' = queue /\ delivered' = delivered
      /\ wk \in [Workers -> WorkerRows]
  BY LenProperties DEF TypeOK, QueueOK, WorkersOK, Frees
<1>a. PICK k \in Nat : k = wk[w].job
  BY <1>1 DEF WorkerRows
<1>2. /\ k \in 1..delivered /\ k \in DOMAIN queue /\ k \in pending /\ k \notin discarded
      /\ \A v \in Workers \ {w} : wk[v].job # k /\ wk'[v] = wk[v]
      /\ wk'[w].job = 0 /\ JobOf(w).run \in Runs
  BY <1>1, <1>a, JobType DEF Frees, Held, IdleWorker
<1>3. JobState(k) = "held"
  BY <1>1, <1>2, <1>a DEF JobState
<1>4. ASSUME NEW j \in DOMAIN queue, j # k PROVE JobState(j)' = JobState(j)
  <2>1. (\E v \in Workers : wk'[v].job = j) <=> (\E v \in Workers : wk[v].job = j)
    BY <1>1, <1>2, <1>a, <1>4
  <2>2. (j \in discarded' <=> j \in discarded) /\ (j \in pending' <=> j \in pending)
    BY <1>4, <1>a DEF Frees
  <2>3. QED BY <1>1, <2>1, <2>2 DEF JobState
<1>5. ASSUME NEW s, JobState(k)' = s PROVE State' = [State EXCEPT ![k] = s]
  BY <1>1, <1>2, <1>a, <1>4, <1>5 DEF State
<1>6. \A v \in Workers : wk'[v].job # k
  BY <1>2, <1>a
<1>7. \E s \in {"settled", "refused", "lost"} :
         JobState(k)' = s /\ (s = "settled" => Owner[k] \in Accepted)
  <2>1. CASE UNCHANGED <<pending, discarded>>
    BY <1>1, <1>2, <1>a, <1>6, <2>1 DEF JobState
  <2>2. CASE pending' = pending \ {k} /\ discarded' = discarded \cup {k}
    BY <1>1, <1>2, <1>a, <2>2 DEF JobState
  <2>3. CASE wk[w].pc = "ack" /\ pending' = pending \ {k} /\ UNCHANGED discarded
    <3>1. JobState(k)' = "settled"
      BY <1>1, <1>2, <1>a, <2>3 DEF JobState
    <3>2. Owner[k] \in Accepted
      BY <1>1, <1>2, <1>a, <2>3 DEF Owner, Accepted, Evidence, WorkerEvidence, JobOf
    <3>3. QED BY <3>1, <3>2
  <2>4. QED BY <1>a, <2>1, <2>2, <2>3 DEF Frees
<1>8. PICK s \in {"settled", "refused", "lost"} :
         JobState(k)' = s /\ (s = "settled" => Owner[k] \in Accepted)
  BY <1>7
<1>9. Owner' = Owner /\ State[k] = "held" /\ State' = [State EXCEPT ![k] = s]
  BY <1>1, <1>2, <1>a, <1>3, <1>5, <1>8 DEF Owner, State
<1>10. JD!Leave(k, s)
  BY <1>8, <1>9 DEF JD!Leave, State, Owner, Accepted
<1>11. QED BY <1>2, <1>10 DEF State

(* A projected result is accepted.                                          *)
LEMMA Accepts ==
    ASSUME TypeOK, Linked, Held, Taken, Evidence, NEW q \in Requests, ApplyCommit(q)
    PROVE  \E r \in Runs : JD!Accept(r)
<1> DEFINE r == req[q].run
<1>1. r \in Runs /\ cache[r] # None
  BY DEF TypeOK, RequestsOK, ApplyCommit, Evidence, RequestEvidence
<1>2. PICK j \in 1..delivered : queue[j].run = r
  BY <1>1 DEF Taken
<1>3. j \in DOMAIN queue /\ JobState(j) # "ready"
  BY <1>2, LenProperties DEF TypeOK, QueueOK, JobState
<1>4. Accepted' = Accepted \cup {r}
  BY <1>1, ApplyVerdict DEF Accepted, Applied
<1>5. SameJobs
  <2>1. wk \in [Workers -> WorkerRows] /\ Reply(q, TRUE)
    BY DEF TypeOK, WorkersOK, ApplyCommit
  <2>2. ASSUME NEW w \in Workers, w = req[q].worker
        PROVE  /\ wk'[w].job = wk[w].job /\ wk'[w].pc \in {"clear", "ack"}
               /\ wk[w].pc = "await"
    <3>1. w # None BY <2>2, RunsAssumption
    <3>2. wk[w] \in WorkerRows /\ wk'[w] = [wk[w] EXCEPT !.pc = IF wk[w].fresh THEN "clear" ELSE "ack"]
      BY <2>1, <2>2 DEF Reply
    <3>3. QED BY <2>2, <3>1, <3>2 DEF Linked, WorkerRows
  <2>3. \A w \in Workers : w # req[q].worker => wk'[w] = wk[w]
    BY <2>1 DEF Reply
  <2>4. QED BY <2>2, <2>3 DEF SameJobs
<1>6. Owner' = Owner /\ State' = State
  BY <1>5, SameState DEF Stays, ApplyCommit
<1>7. JD!Accept(r)
  BY <1>2, <1>3, <1>4, <1>6 DEF JD!Accept, Owner, State, Accepted
<1>8. QED BY <1>1, <1>7

(* Each step of the handlers, Redis and the workers is a step of the        *)
(* delivery or none.                                                       *)
LEMMA StepDelivers ==
    ASSUME TypeOK, Linked, Held, Taken, Evidence, [Next]_vars
    PROVE  [JD!Next]_JD!vars
<1>1. CASE \E q \in Requests : ApplyCommit(q)
  BY <1>1, Accepts DEF JD!Next
<1>2. CASE ~ \E q \in Requests : ApplyCommit(q)
  <2>1. Accepted' = Accepted
    BY <1>2, SameAccepted
  <2>2. CASE Stays
    BY <2>1, <2>2, SameState DEF JD!vars, Owner, State, Accepted
  <2>3. CASE Gains
    BY <2>1, <2>3, Puts DEF JD!Next
  <2>4. ASSUME NEW w \in Workers, Deliver(w) PROVE JD!Next
    BY <2>1, <2>4, Takes DEF JD!Next, State
  <2>5. ASSUME NEW w \in Workers, Frees(w) PROVE JD!Next
    BY <2>1, <2>5, Leaves DEF JD!Next, State
  <2>6. QED BY <2>2, <2>3, <2>4, <2>5, Moves
<1>3. QED BY <1>1, <1>2

(* However handlers, workers, crashes and lost calls interleave, the stream *)
(* delivers a job at most once, first in first out, and settles it only    *)
(* when its run's result was accepted: what XREADGROUP, the callback and   *)
(* XACK of serve amount to.                                                *)
THEOREM DeliveryIsImplemented == Spec => ImplementsJobDelivery
<1>1. Init => JD!Init
  BY DEF Init, JD!Init, Applied, Absent
<1>2. TypeOK /\ Linked /\ Held /\ Taken /\ Evidence /\ [Next]_vars => [JD!Next]_JD!vars
  BY StepDelivers
<1>3. QED
  BY <1>1, <1>2, TypeCorrect, HeldInvariant, EvidenceInvariant, PTL
  DEF Spec, ImplementsJobDelivery, JD!Spec
=============================================================================
