---------------------------- MODULE RunSerialProofs ----------------------------
(* What the control plane promises as long as certain API handlers of one   *)
(* run do not overlap, for any number of runs, workers, handlers, jobs and  *)
(* approvals: all other handlers, the workers and every fault that a        *)
(* theorem does not exclude interleave freely.  No handler locks the rows   *)
(* it reads, so the code itself does not keep them apart; each theorem says *)
(* what keeping them apart would be enough for.                            *)
EXTENDS RunLifecycleProofs

(* No run has two callbacks in progress.                                   *)
CallbacksApart ==
    \A p, q \in Requests :
        p # q /\ req[p].pc = "apply" /\ req[q].pc = "apply" => req[p].run # req[q].run

(* No approval is decided by two handlers at once.                         *)
DecisionsApart ==
    \A p, q \in Requests :
        /\ p # q /\ req[p].pc \in {"approve", "reject"} /\ req[q].pc \in {"approve", "reject"}
        /\ req[p].run = req[q].run
        => req[p].appr # req[q].appr

(* No run has two handlers in progress.                                    *)
OneHandlerPerRun ==
    \A p, q \in Requests :
        p # q /\ req[p].pc # "idle" /\ req[q].pc # "idle" => req[p].run # req[q].run

-----------------------------------------------------------------------------
(* What a step does to one handler, one run, the approvals and the stream.  *)
Same(p) ==
    /\ req'[p].pc = req[p].pc /\ req'[p].run = req[p].run /\ req'[p].appr = req[p].appr
    /\ req'[p].op = req[p].op /\ req'[p].seen = req[p].seen /\ req'[p].result = req[p].result

(* A handler that is where it was, or that step is its own.                *)
LEMMA RequestMoves ==
    ASSUME TypeOK, [Next]_vars, NEW p \in Requests
    PROVE  \/ Same(p) \/ Operator(p) \/ Handler(p) \/ Breaks(p)
           \/ \E w \in Workers : Post(w, p)
<1>1. req \in [Requests -> RequestRows]
  BY DEF TypeOK, RequestsOK
<1>2. ASSUME NEW q \in Requests \ {p}, Operator(q) \/ Handler(q) \/ Breaks(q)
      PROVE  req'[p] = req[p]
  BY <1>1, <1>2 DEF Operator, AskRead, DecideRead, InterruptRead, ResumeRead, Handler,
     AskCommit, ApproveCommit, RejectCommit, InterruptCommit, SetStop, ResumeCommit, ClearStop,
     Enqueue, EnqueueError, EnqueueFailedCommit, ApplyAgain, ApplyCommit, ApplyCollision,
     Breaks, ApiCrash, CallRaises, BreakOff, Answer, GoTo
<1>3. ASSUME NEW w \in Workers, Worker(w) PROVE req'[p] = req[p] \/ Post(w, p)
  BY <1>1, <1>3 DEF Worker, Deliver, Discard, UseCached, Start, Finish, Stop, PublishEnd,
     StoreResult, Post, ClearFlag, Ack
<1>4. ASSUME NEW w \in Workers, PostFails(w) \/ WorkerCrash(w) PROVE Same(p)
  <2>1. req'[p] = req[p] \/ req'[p] = [req[p] EXCEPT !.worker = None]
    BY <1>4 DEF PostFails, WorkerCrash
  <2>2. QED BY <1>1, <2>1 DEF RequestRows, Same
<1>5. CASE (\E r \in Runs : CreateRun(r)) \/ UNCHANGED vars
  BY <1>5 DEF CreateRun, vars, Same
<1>6. QED BY <1>2, <1>3, <1>4, <1>5 DEF Next, Same

(* The handlers' steps that write a run's row.                             *)
Commits(q) ==
    \/ ApproveCommit(q) \/ RejectCommit(q) \/ InterruptCommit(q) \/ ResumeCommit(q)
    \/ EnqueueFailedCommit(q) \/ ApplyCommit(q)

(* Only a handler of the run, and its creation, change its row.            *)
LEMMA RunMoves ==
    ASSUME TypeOK, [Next]_vars, NEW r \in Runs, run'[r] # run[r]
    PROVE  CreateRun(r) \/ \E q \in Requests : Commits(q) /\ req[q].run = r
<1>1. run \in [Runs -> RunRows]
  BY DEF TypeOK, DbOK
<1>2. ASSUME NEW x \in Runs, CreateRun(x) PROVE CreateRun(r)
  BY <1>1, <1>2 DEF CreateRun
<1>3. ASSUME NEW q \in Requests, Operator(q) \/ Handler(q) \/ Breaks(q)
      PROVE  Commits(q) /\ req[q].run = r
  BY <1>1, <1>3 DEF Operator, AskRead, DecideRead, InterruptRead, ResumeRead, Handler,
     AskCommit, ApproveCommit, RejectCommit, InterruptCommit, SetStop, ResumeCommit, ClearStop,
     Enqueue, EnqueueError, EnqueueFailedCommit, ApplyAgain, ApplyCommit, ApplyCollision,
     Breaks, ApiCrash, CallRaises, BreakOff, Commits, SetStatus, dbVars
<1>4. ASSUME NEW w \in Workers, Worker(w) \/ PostFails(w) \/ WorkerCrash(w) PROVE FALSE
  BY <1>4 DEF Worker, PostFails, WorkerCrash, Deliver, Discard, UseCached, Start, Finish,
     Stop, PublishEnd, StoreResult, Post, ClearFlag, Ack, dbVars
<1>5. run' # run
  OBVIOUS
<1>6. QED BY <1>2, <1>3, <1>4, <1>5 DEF Next, vars, dbVars

(* A flushed status: the new one, unless the row had moved on since it was  *)
(* read.                                                                   *)
LEMMA StatusMoves ==
    ASSUME run \in [Runs -> RunRows], NEW r \in Runs, NEW seen \in RunRows, NEW s,
           SetStatus(r, seen, s)
    PROVE  /\ run'[r].status \in {run[r].status, s}
           /\ seen = run[r] => run'[r].status = s
           /\ run'[r].verdict = run[r].verdict
           /\ \A x \in Runs \ {r} : run'[x] = run[x]
<1> DEFINE new == [seen EXCEPT !.status = s]
           row == Flush(run[r], seen, new)
<1>1. new.status = s
  BY DEF RunRows
<1> HIDE DEF new
<1>2. row.status = IF s = seen.status THEN run[r].status ELSE s
  BY <1>1 DEF Flush, RunRows
<1>3. run' = [run EXCEPT ![r] = row]
  BY DEF SetStatus, new
<1> HIDE DEF row
<1>4. run'[r].status = IF s = seen.status THEN run[r].status ELSE s
  BY <1>2, <1>3
<1>5. \A x \in Runs \ {r} : run'[x] = run[x]
  BY <1>3
<1>6. run'[r].verdict = run[r].verdict
  BY StatusKeepsVerdict
<1>7. QED BY <1>4, <1>5, <1>6

(* A projected result: its status passed the gate, its verdict is its own.  *)
LEMMA ResultMoves ==
    ASSUME TypeOK, NEW q \in Requests, ApplyCommit(q)
    PROVE  LET r   == req[q].run
               res == req[q].result
           IN  /\ run'[r].status \in {run[r].status, AcceptedStatus(r, res)}
               /\ req[q].seen = run[r] => run'[r].status = AcceptedStatus(r, res)
               /\ run'[r].verdict = Verdict(res)
               /\ run[r].verdict = "none" \/ req[q].seen # run[r]
               /\ \A x \in Runs \ {r} : run'[x] = run[x]
<1> DEFINE r == req[q].run
           seen == req[q].seen
           res == req[q].result
           acc == AcceptedStatus(r, res)
           new == [seen EXCEPT !.status = acc, !.verdict = Verdict(res)]
           flushed == Flush(run[r], seen, new)
           row == Projected(r, run[r], seen, res)
<1>1. r \in Runs /\ run \in [Runs -> RunRows] /\ seen \in RunRows /\ seen.verdict = "none"
  BY DEF ApplyCommit, TypeOK, DbOK, RequestsOK, RequestRows
<1>2. new.verdict = Verdict(res) /\ Verdict(res) # "none" /\ new.status = acc
  BY <1>1 DEF RunRows, Verdict
<1>3. row = [flushed EXCEPT !.steps = run[r].steps \/ res.plan]
  BY DEF Projected
<1> HIDE DEF new
<1>4. /\ flushed.verdict = Verdict(res)
      /\ flushed.status = (IF acc = seen.status THEN run[r].status ELSE acc)
      /\ flushed = [run[r] EXCEPT !.status = flushed.status, !.verdict = flushed.verdict]
  BY <1>1, <1>2 DEF Flush, RunRows
<1> HIDE DEF flushed
<1>5. row.verdict = Verdict(res) /\ row.status = (IF acc = seen.status THEN run[r].status ELSE acc)
  BY <1>1, <1>3, <1>4 DEF RunRows
<1>6. run' = [run EXCEPT ![r] = row]
  BY DEF ApplyCommit
<1> HIDE DEF row, acc
<1>7. /\ run'[r].verdict = Verdict(res)
      /\ run'[r].status = (IF acc = seen.status THEN run[r].status ELSE acc)
      /\ \A x \in Runs \ {r} : run'[x] = run[x]
  BY <1>1, <1>5, <1>6
<1>8. QED BY <1>1, <1>7 DEF acc

(* Approval a is decided by handler q.                                     *)
Decides(q, a) ==
    /\ req[q].appr = a /\ a \in 1..Len(approvals)
    /\ \/ ApproveCommit(q) /\ approvals'[a].status = "approved"
       \/ RejectCommit(q) /\ approvals'[a].status = "rejected"
    /\ approvals'[a].run = approvals[a].run /\ approvals'[a].op = approvals[a].op

(* Approval a is new and about run r.                                      *)
Appears(a, r) ==
    /\ approvals'[a].run = r /\ approvals'[a].status = "pending"
    /\ \/ CreateRun(r)
       \/ \E q \in Requests : AskCommit(q) /\ req[q].run = r

(* An approval stays, is decided or appears; none goes.                    *)
LEMMA ApprovalMoves ==
    ASSUME TypeOK, [Next]_vars
    PROVE  /\ Len(approvals') >= Len(approvals)
           /\ \A a \in 1..Len(approvals') :
                \/ a \in 1..Len(approvals) /\ approvals'[a] = approvals[a]
                \/ \E q \in Requests : Decides(q, a)
                \/ \E r \in Runs : Appears(a, r)
<1> DEFINE Goal == /\ Len(approvals') >= Len(approvals)
                   /\ \A a \in 1..Len(approvals') :
                        \/ a \in 1..Len(approvals) /\ approvals'[a] = approvals[a]
                        \/ \E q \in Requests : Decides(q, a)
                        \/ \E r \in Runs : Appears(a, r)
<1>1. approvals \in Seq(ApprovalRows) /\ Len(approvals) \in Nat
  BY LenNat DEF TypeOK, DbOK
<1>2. CASE approvals' = approvals
  BY <1>1, <1>2
<1>3. ASSUME NEW r \in Runs, NEW e, approvals' = Append(approvals, e), e.run = r,
             e.status = "pending",
             CreateRun(r) \/ \E q \in Requests : AskCommit(q) /\ req[q].run = r
      PROVE  Goal
  <2>1. /\ Len(approvals') = Len(approvals) + 1
        /\ \A a \in 1..Len(approvals) : approvals'[a] = approvals[a]
        /\ approvals'[Len(approvals) + 1] = e
    BY <1>1, <1>3
  <2>2. Appears(Len(approvals) + 1, r)
    BY <1>3, <2>1 DEF Appears
  <2>3. QED BY <1>1, <2>1, <2>2
<1>4. ASSUME NEW q \in Requests, ApproveCommit(q) \/ RejectCommit(q)
      PROVE  Goal
  <2> DEFINE b == req[q].appr
  <2>1. b \in 1..Len(approvals)
    BY <1>1, <1>4 DEF ApproveCommit, RejectCommit, TypeOK, RequestsOK
  <2>2. PICK st : /\ approvals' = [approvals EXCEPT ![b].status = st]
                  /\ \/ ApproveCommit(q) /\ st = "approved"
                     \/ RejectCommit(q) /\ st = "rejected"
    BY <1>4 DEF ApproveCommit, RejectCommit
  <2>3. approvals[b] \in ApprovalRows
    BY <1>1, <2>1, ElementOfSeq
  <2> DEFINE e == [approvals[b] EXCEPT !.status = st]
  <2>4. e.status = st /\ e.run = approvals[b].run /\ e.op = approvals[b].op
    BY <2>3 DEF ApprovalRows
  <2>5. approvals' = [approvals EXCEPT ![b] = e]
    BY <2>2
  <2> HIDE DEF e
  <2>6. /\ Len(approvals') = Len(approvals)
        /\ approvals'[b] = e
        /\ \A a \in 1..Len(approvals) \ {b} : approvals'[a] = approvals[a]
    BY <1>1, <2>1, <2>5
  <2>7. Decides(q, b)
    BY <2>1, <2>2, <2>4, <2>6 DEF Decides
  <2>8. QED BY <1>1, <2>6, <2>7
<1>5. ASSUME NEW r \in Runs, CreateRun(r) PROVE Goal
  <2> DEFINE e == [run |-> r, op |-> StartOp(r), status |-> "pending"]
  <2>1. approvals' = Append(approvals, e) /\ e.run = r /\ e.status = "pending"
    BY <1>5 DEF CreateRun
  <2> HIDE DEF e
  <2>2. QED BY <1>3, <1>5, <2>1
<1>6. ASSUME NEW q \in Requests, AskCommit(q) PROVE Goal
  <2> DEFINE e == [run |-> req[q].run, op |-> req[q].op, status |-> "pending"]
  <2>1. approvals' = Append(approvals, e) \/ approvals' = approvals
    BY <1>6 DEF AskCommit
  <2>2. e.run = req[q].run /\ e.status = "pending" /\ req[q].run \in Runs
    BY <1>6 DEF AskCommit, TypeOK, RequestsOK
  <2> HIDE DEF e
  <2>3. QED BY <1>2, <1>3, <1>6, <2>1, <2>2
<1>7. ASSUME NEW q \in Requests, Operator(q) \/ Handler(q) \/ Breaks(q) PROVE Goal
  <2>1. AskCommit(q) \/ ApproveCommit(q) \/ RejectCommit(q) \/ approvals' = approvals
    BY <1>7 DEF Operator, AskRead, DecideRead, InterruptRead, ResumeRead, Handler,
       InterruptCommit, SetStop, ResumeCommit, ClearStop,
       Enqueue, EnqueueError, EnqueueFailedCommit, ApplyAgain, ApplyCommit, ApplyCollision,
       Breaks, ApiCrash, CallRaises, BreakOff, dbVars
  <2>2. QED BY <1>2, <1>4, <1>6, <2>1
<1>8. ASSUME NEW w \in Workers, Worker(w) \/ PostFails(w) \/ WorkerCrash(w) PROVE Goal
  <2>1. approvals' = approvals
    BY <1>8 DEF Worker, PostFails, WorkerCrash, Deliver, Discard, UseCached, Start, Finish,
       Stop, PublishEnd, StoreResult, Post, ClearFlag, Ack, dbVars
  <2>2. QED BY <1>2, <2>1
<1>9. CASE UNCHANGED vars
  BY <1>2, <1>9 DEF vars, dbVars
<1>10. QED BY <1>5, <1>7, <1>8, <1>9 DEF Next

(* Handler q adds entry j.                                                 *)
Adds(q, j) ==
    /\ Enqueue(q) \/ EnqueueError(q)
    /\ queue'[j].run = req[q].run /\ queue'[j].op \in JobOps(q)

(* An entry stays or is added; none goes.                                  *)
LEMMA QueueMoves ==
    ASSUME TypeOK, [Next]_vars
    PROVE  /\ Len(queue') >= Len(queue)
           /\ \A j \in 1..Len(queue) : queue'[j] = queue[j]
           /\ \A j \in 1..Len(queue') :
                \/ j \in 1..Len(queue)
                \/ \E q \in Requests : Adds(q, j)
<1>1. queue \in Seq(JobRows) /\ Len(queue) \in Nat
  BY DEF TypeOK, QueueOK
<1>2. ASSUME NEW q \in Requests, NEW job \in NewJobs(q), Enqueue(q) \/ EnqueueError(q),
             queue' = Append(queue, job)
      PROVE  /\ Len(queue') >= Len(queue)
             /\ \A j \in 1..Len(queue) : queue'[j] = queue[j]
             /\ \A j \in 1..Len(queue') : j \in 1..Len(queue) \/ Adds(q, j)
  <2>1. job.run = req[q].run /\ job.op \in JobOps(q)
    BY DEF NewJobs
  <2>2. /\ Len(queue') = Len(queue) + 1
        /\ \A j \in 1..Len(queue) : queue'[j] = queue[j]
        /\ queue'[Len(queue) + 1] = job
    BY <1>1, <1>2
  <2>3. Adds(q, Len(queue) + 1)
    BY <1>2, <2>1, <2>2 DEF Adds
  <2>4. QED BY <1>1, <2>2, <2>3
<1>3. queue' = queue \/ \E q \in Requests : /\ Enqueue(q) \/ EnqueueError(q)
                                           /\ \E job \in NewJobs(q) : queue' = Append(queue, job)
  BY DEF Next, vars, CreateRun, Operator, AskRead, DecideRead, InterruptRead, ResumeRead,
     Handler, AskCommit, ApproveCommit, RejectCommit, InterruptCommit, SetStop, ResumeCommit,
     ClearStop, Enqueue, EnqueueError, EnqueueFailedCommit, ApplyAgain, ApplyCommit,
     ApplyCollision, Breaks, ApiCrash, CallRaises, BreakOff, Worker, PostFails, WorkerCrash,
     Deliver, Discard,
     UseCached, Start, Finish, Stop, PublishEnd, StoreResult, Post, ClearFlag, Ack, queueVars
<1>4. CASE queue' = queue
  BY <1>1, <1>4
<1>5. CASE queue' # queue
  BY <1>2, <1>3, <1>5
<1>6. QED BY <1>4, <1>5

(* Only a handler that deletes the stop flag, or was about to when a call   *)
(* raised, and a worker that has had its result applied, take it away.     *)
LEMMA ControlMoves ==
    ASSUME TypeOK, [Next]_vars, NEW r \in Runs, control[r]
    PROVE  \/ control'[r]
           \/ \E q \in Requests : req[q].pc = "clear_stop" /\ req[q].run = r
           \/ \E w \in Workers : ClearFlag(w) /\ JobOf(w).run = r
<1>1. control \in [Runs -> BOOLEAN]
  BY DEF TypeOK, FlagsOK
<1>2. ASSUME NEW q \in Requests, SetStop(q) \/ ClearStop(q) \/ CallRaises(q)
      PROVE  control'[r] \/ (req[q].pc = "clear_stop" /\ req[q].run = r)
  BY <1>1, <1>2 DEF SetStop, ClearStop, CallRaises, FlagAfterCall
<1>3. ASSUME NEW w \in Workers, ClearFlag(w)
      PROVE  control'[r] \/ JobOf(w).run = r
  BY <1>1, <1>3 DEF ClearFlag
<1>4. \/ control' = control
      \/ \E q \in Requests : SetStop(q) \/ ClearStop(q) \/ CallRaises(q)
      \/ \E w \in Workers : ClearFlag(w)
  BY DEF Next, vars, CreateRun, Operator, AskRead, DecideRead, InterruptRead, ResumeRead,
     Handler, AskCommit, ApproveCommit, RejectCommit, InterruptCommit, ResumeCommit,
     Enqueue, EnqueueError, EnqueueFailedCommit, ApplyAgain, ApplyCommit,
     ApplyCollision, Breaks, ApiCrash, Worker, PostFails, WorkerCrash,
     Deliver, Discard,
     UseCached, Start, Finish, Stop, PublishEnd, StoreResult, Post, Ack, flagVars
<1>5. QED BY <1>2, <1>3, <1>4

(* Handler q commits status s to its run.                                  *)
Sets(q, s) ==
    \/ (ApproveCommit(q) \/ ResumeCommit(q)) /\ s = "queued"
    \/ RejectCommit(q) /\ s = "cancelled"
    \/ InterruptCommit(q) /\ s = "interrupted"
    \/ EnqueueFailedCommit(q) /\ s = "failed"
    \/ ApplyCommit(q) /\ s = AcceptedStatus(req[q].run, req[q].result)

(* The row of run r becomes what handler q makes of it.                    *)
Written(r, q, s) ==
    /\ Sets(q, s) /\ req[q].run = r /\ s \in RunStatuses \ {"none"}
    /\ run'[r].status \in {run[r].status, s}
    /\ req[q].seen = run[r] => run'[r].status = s

(* A row that changes is a new run's or was written by a handler.           *)
LEMMA RowMoves ==
    ASSUME TypeOK, [Next]_vars, NEW r \in Runs, run'[r] # run[r]
    PROVE  \/ CreateRun(r) /\ run'[r].status = "awaiting_approval"
           \/ \E q \in Requests : \E s \in RunStatuses \ {"none"} : Written(r, q, s)
<1>1. run \in [Runs -> RunRows]
  BY DEF TypeOK, DbOK
<1>2. CASE CreateRun(r)
  BY <1>1, <1>2 DEF CreateRun, RunRows
<1>3. ASSUME NEW q \in Requests, Commits(q), req[q].run = r
      PROVE  \E s \in RunStatuses \ {"none"} : Written(r, q, s)
  <2>0. req[q] \in RequestRows /\ req[q].seen \in RunRows /\ req[q].result \in Results
    BY DEF TypeOK, RequestsOK, RequestRows
  <2>1. ASSUME NEW s \in RunStatuses \ {"none"}, Sets(q, s), SetStatus(r, req[q].seen, s)
        PROVE  Written(r, q, s)
    BY <1>1, <1>3, <2>0, <2>1, StatusMoves DEF Written
  <2>2. CASE ApproveCommit(q) \/ ResumeCommit(q)
    BY <1>3, <2>1, <2>2 DEF ApproveCommit, ResumeCommit, Sets, RunStatuses
  <2>3. CASE RejectCommit(q)
    BY <1>3, <2>1, <2>3 DEF RejectCommit, Sets, RunStatuses
  <2>4. CASE InterruptCommit(q)
    BY <1>3, <2>1, <2>4 DEF InterruptCommit, Sets, RunStatuses
  <2>5. CASE EnqueueFailedCommit(q)
    <3>1. run'[r].status = "failed"
      BY <1>1, <1>3, <2>5 DEF EnqueueFailedCommit, RunRows
    <3>2. QED BY <1>3, <2>5, <3>1 DEF Sets, Written, RunStatuses
  <2>6. CASE ApplyCommit(q)
    <3>1. AcceptedStatus(r, req[q].result) \in RunStatuses \ {"none"}
      BY <2>0 DEF AcceptedStatus, RunStatuses, Results
    <3>2. Written(r, q, AcceptedStatus(r, req[q].result))
      BY <1>3, <2>6, <3>1, ResultMoves DEF Sets, Written
    <3>3. QED BY <3>1, <3>2
  <2>7. QED BY <1>3, <2>2, <2>3, <2>4, <2>5, <2>6 DEF Commits
<1>4. QED BY <1>2, <1>3, RunMoves

-----------------------------------------------------------------------------
(* What the inductive invariants say of handlers, and what one that begins  *)
(* or goes on makes true of itself.                                        *)

(* The pcs at which a handler still has to commit what it read, and those   *)
(* at which it has committed "queued" and still has to add the job.        *)
Reading  == {"approve", "reject", "interrupt", "resume", "apply"}
Queueing == {"clear_stop", "enqueue", "enqueue_failed"}

(* Whatever refers to a run refers to one that exists, so that creating a    *)
(* run disturbs nobody.                                                    *)
Known ==
    /\ \A a \in 1..Len(approvals) : run[approvals[a].run].status # "none"
    /\ \A j \in 1..Len(queue) : run[queue[j].run].status # "none"
    /\ \A q \in Requests : req[q].pc # "idle" => run[req[q].run].status # "none"

(* The approval a handler is about is as the handler takes it to be, and    *)
(* only the handlers of approvals have one.                                *)
DecidedBy(q) ==
    LET a == req[q].appr IN
    /\ req[q].pc \in {"resume", "clear_stop"} => a = 0
    /\ a # 0 /\ req[q].pc \in {"approve", "reject", "enqueue"} =>
         /\ approvals[a].run = req[q].run /\ approvals[a].op = req[q].op
         /\ approvals[a].status = IF req[q].pc = "enqueue" THEN "approved" ELSE "pending"

Decided == \A q \in Requests : DecidedBy(q)

(* A handler that begins: where it goes on and what it read.               *)
LEMMA Begins ==
    ASSUME TypeOK, NEW p \in Requests,
           Operator(p) \/ \E w \in Workers : Post(w, p)
    PROVE  /\ run' = run /\ approvals' = approvals
           /\ req'[p].pc \in Reading \cup {"ask"} /\ req'[p].run \in Runs
           /\ Known => run[req'[p].run].status # "none"
           /\ req'[p].pc \in Reading => req'[p].seen = run[req'[p].run]
           /\ DecidedBy(p)'
<1>0. req \in [Requests -> RequestRows] /\ approvals \in Seq(ApprovalRows)
  BY DEF TypeOK, RequestsOK, DbOK
<1>1. run' = run /\ approvals' = approvals
  BY DEF Operator, AskRead, DecideRead, InterruptRead, ResumeRead, Post, dbVars
<1> DEFINE Begun ==
       /\ req'[p].pc \in Reading \cup {"ask"} /\ req'[p].run \in Runs
       /\ Known => run[req'[p].run].status # "none"
       /\ req'[p].pc \in Reading => req'[p].seen = run[req'[p].run]
       /\ DecidedBy(p)'
<1>2. ASSUME NEW r \in Runs, NEW op, AskRead(p, r, op) PROVE Begun
  <2> DEFINE s == [IdleRequest EXCEPT !.pc = "ask", !.run = r, !.op = op]
  <2>1. s.pc = "ask" /\ s.run = r
    BY DEF IdleRequest
  <2>2. req' = [req EXCEPT ![p] = s] /\ run[r].status # "none"
    BY <1>2 DEF AskRead
  <2> HIDE DEF s
  <2>3. req'[p] = s
    BY <1>0, <2>2
  <2>4. QED BY <2>1, <2>2, <2>3 DEF Reading, DecidedBy
<1>3. ASSUME NEW pc \in {"approve", "reject", "interrupt", "resume"}, NEW r \in Runs, NEW a,
             NEW op, Known => run[r].status # "none", req' = [req EXCEPT ![p] = Read(pc, r, a, op)],
             pc = "resume" => a = 0,
             a # 0 => /\ approvals[a].run = r /\ approvals[a].op = op
                      /\ approvals[a].status = "pending"
      PROVE  Begun
  <2> DEFINE s == Read(pc, r, a, op)
  <2>1. s.pc = pc /\ s.run = r /\ s.seen = run[r] /\ s.appr = a /\ s.op = op
    BY DEF Read
  <2>2. req'[p] = s
    BY <1>0, <1>3
  <2> HIDE DEF s
  <2>3. DecidedBy(p)'
    BY <1>1, <1>3, <2>1, <2>2 DEF DecidedBy
  <2>4. QED BY <1>3, <2>1, <2>2, <2>3 DEF Reading
<1>4. ASSUME NEW a \in DOMAIN approvals, NEW d \in {"approve", "reject"}, DecideRead(p, a, d)
      PROVE  Begun
  <2> DEFINE r == approvals[a].run
             op == approvals[a].op
  <2>1. a \in 1..Len(approvals) /\ approvals[a] \in ApprovalRows
    BY <1>0, LenProperties, ElementOfSeq
  <2>2. r \in Runs /\ (Known => run[r].status # "none")
    BY <2>1 DEF ApprovalRows, Known
  <2>3. req' = [req EXCEPT ![p] = Read(d, r, a, op)] /\ approvals[a].status = "pending"
    BY <1>4 DEF DecideRead
  <2>4. QED BY <1>3, <2>2, <2>3
<1>5. ASSUME NEW r \in Runs, InterruptRead(p, r) \/ ResumeRead(p, r) PROVE Begun
  <2>1. run[r].status # "none"
    BY <1>5 DEF InterruptRead, ResumeRead
  <2>2. QED BY <1>3, <1>5, <2>1 DEF InterruptRead, ResumeRead
<1>6. ASSUME NEW w \in Workers, Post(w, p) PROVE Begun
  <2> DEFINE r == JobOf(w).run
             s == [Read("apply", r, 0, "execute_task") EXCEPT !.result = wk[w].result, !.worker = w]
  <2>1. r \in Runs /\ wk[w].job \in 1..Len(queue)
    BY <1>6, JobType DEF Post
  <2>2. Known => run[r].status # "none"
    BY <2>1 DEF Known, JobOf
  <2>3. s.pc = "apply" /\ s.run = r /\ s.seen = run[r] /\ s.appr = 0
    BY DEF Read
  <2>4. req' = [req EXCEPT ![p] = s]
    BY <1>6 DEF Post
  <2> HIDE DEF s, r
  <2>5. req'[p] = s
    BY <1>0, <2>4
  <2>6. DecidedBy(p)'
    BY <2>3, <2>5 DEF DecidedBy
  <2>7. QED BY <2>1, <2>2, <2>3, <2>5, <2>6 DEF Reading
<1>7. QED
  BY <1>1, <1>2, <1>4, <1>5, <1>6 DEF Operator

(* A handler that goes on to another of its steps.                         *)
LEMMA GoToMoves ==
    ASSUME TypeOK, NEW p \in Requests, NEW pc, GoTo(p, pc)
    PROVE  /\ req'[p].run = req[p].run /\ req'[p].appr = req[p].appr
           /\ req'[p].op = req[p].op /\ req'[p].pc = pc
<1> DEFINE s == [req[p] EXCEPT !.pc = pc]
<1>0. req \in [Requests -> RequestRows]
  BY DEF TypeOK, RequestsOK
<1>1. /\ s.run = req[p].run /\ s.appr = req[p].appr
      /\ s.op = req[p].op /\ s.pc = pc
  BY <1>0 DEF RequestRows
<1>2. req' = [req EXCEPT ![p] = s]
  BY DEF GoTo
<1> HIDE DEF s
<1>3. QED BY <1>0, <1>1, <1>2

(* A handler's step ends it or takes it to its next one, about the same run *)
(* and approval.                                                           *)
LEMMA GoesOn ==
    ASSUME TypeOK, NEW p \in Requests, Handler(p) \/ Breaks(p)
    PROVE  \/ req'[p].pc = "idle"
           \/ /\ req'[p].run = req[p].run /\ req'[p].appr = req[p].appr /\ req'[p].op = req[p].op
              /\ \/ ApproveCommit(p) /\ req'[p].pc = "enqueue"
                 \/ InterruptCommit(p) /\ req'[p].pc = "set_stop"
                 \/ ResumeCommit(p) /\ req'[p].pc = "clear_stop"
                 \/ ClearStop(p) /\ req'[p].pc = "enqueue"
                 \/ EnqueueError(p) /\ req'[p].pc = "enqueue_failed"
<1>0. req \in [Requests -> RequestRows]
  BY DEF TypeOK, RequestsOK
<1>1. CASE Answer(p)
  <2>1. req'[p] = IdleRequest
    BY <1>0, <1>1 DEF Answer
  <2>2. QED BY <2>1 DEF IdleRequest
<1>2. CASE ApproveCommit(p) \/ InterruptCommit(p) \/ ResumeCommit(p) \/ ClearStop(p)
           \/ EnqueueError(p)
  BY <1>2, GoToMoves DEF ApproveCommit, InterruptCommit, ResumeCommit, ClearStop, EnqueueError
<1>3. CASE ~ (ApproveCommit(p) \/ InterruptCommit(p) \/ ResumeCommit(p) \/ ClearStop(p)
              \/ EnqueueError(p))
  BY <1>1, <1>3 DEF Handler, AskCommit, RejectCommit, SetStop, Enqueue, EnqueueFailedCommit,
     ApplyAgain, ApplyCommit, ApplyCollision, Breaks, ApiCrash, CallRaises, BreakOff
<1>4. QED BY <1>2, <1>3

-----------------------------------------------------------------------------
(* Callbacks of one run apart.                                             *)

(* A callback's handler knows whether its run has a result.                *)
Fresh ==
    \A q \in Requests :
        req[q].pc = "apply" => req[q].seen.verdict = run[req[q].run].verdict

(* A result was projected as often as the row shows one.                   *)
Counted == \A r \in Runs : projections[r] = IF Applied(r) THEN 1 ELSE 0

CallbackInv == Fresh /\ Counted /\ WriteSuccessIsVerified

(* A result that is projected is its run's first.                          *)
LEMMA FirstResult ==
    ASSUME Fresh, NEW q \in Requests, ApplyCommit(q)
    PROVE  run[req[q].run].verdict = "none"
BY DEF Fresh, ApplyCommit

(* Another handler projects no result into the run of a callback, ...       *)
LEMMA FreshStep ==
    ASSUME TypeOK, CallbacksApart, Fresh, [Next]_vars
    PROVE  Fresh'
<1> SUFFICES ASSUME NEW p \in Requests, req'[p].pc = "apply"
             PROVE  req'[p].seen.verdict = run'[req'[p].run].verdict
  BY DEF Fresh
<1>1. CASE Operator(p) \/ \E w \in Workers : Post(w, p)
  BY <1>1, Begins DEF Reading
<1>2. CASE Handler(p) \/ Breaks(p)
  BY <1>2, GoesOn
<1>3. CASE Same(p) /\ ~ Handler(p)
  <2>1. req[p].pc = "apply" /\ req[p].run \in Runs
    BY <1>3 DEF Same, TypeOK, RequestsOK
  <2>2. ASSUME NEW q \in Requests, ApplyCommit(q)
        PROVE  run'[req[p].run].verdict = run[req[p].run].verdict
    <3>1. q # p /\ req[q].pc = "apply"
      BY <1>3, <2>2 DEF Handler, ApplyCommit
    <3>2. req[q].run # req[p].run
      BY <2>1, <3>1 DEF CallbacksApart
    <3>3. QED BY <2>1, <2>2, <3>2, ResultMoves
  <2>3. run'[req[p].run].verdict = run[req[p].run].verdict
    BY <2>1, <2>2, VerdictMoves
  <2>4. QED BY <1>3, <2>1, <2>3 DEF Same, Fresh
<1>4. QED BY <1>1, <1>2, <1>3, RequestMoves

(* ... so it is projected once, ...                                        *)
LEMMA CountedStep ==
    ASSUME TypeOK, Fresh, Counted, [Next]_vars
    PROVE  Counted'
<1> SUFFICES ASSUME NEW r \in Runs
             PROVE  projections'[r] = IF run'[r].verdict # "none" THEN 1 ELSE 0
  BY DEF Counted, Applied
<1>0. projections \in [Runs -> Nat] /\ projections[r] = IF run[r].verdict # "none" THEN 1 ELSE 0
  BY DEF TypeOK, DbOK, Counted, Applied
<1>1. ASSUME NEW q \in Requests, ApplyCommit(q)
      PROVE  projections'[r] = IF run'[r].verdict # "none" THEN 1 ELSE 0
  <2>1. CASE r # req[q].run
    <3>1. run'[r] = run[r]
      BY <1>1, <2>1, ResultMoves
    <3>2. projections'[r] = projections[r]
      BY <1>0, <1>1, <2>1 DEF ApplyCommit
    <3>3. QED BY <1>0, <3>1, <3>2
  <2>2. CASE r = req[q].run
    <3>1. run[r].verdict = "none"
      BY <1>1, <2>2, FirstResult
    <3>2. run'[r].verdict # "none"
      BY <1>1, <2>2, ResultMoves DEF Verdict
    <3>3. projections'[r] = projections[r] + 1
      BY <1>0, <1>1, <2>2 DEF ApplyCommit
    <3>4. QED BY <1>0, <3>1, <3>2, <3>3
  <2>3. QED BY <2>1, <2>2
<1>2. projections' = projections \/ \E q \in Requests : ApplyCommit(q)
  BY DEF Next, vars, CreateRun, Operator, AskRead, DecideRead, InterruptRead, ResumeRead,
     Handler, AskCommit, ApproveCommit, RejectCommit, InterruptCommit, SetStop, ResumeCommit,
     ClearStop, Enqueue, EnqueueError, EnqueueFailedCommit, ApplyAgain,
     ApplyCollision, Breaks, ApiCrash, CallRaises, BreakOff, Worker, PostFails, WorkerCrash,
     Deliver, Discard,
     UseCached, Start, Finish, Stop, PublishEnd, StoreResult, Post, ClearFlag, Ack, dbVars
<1>3. QED BY <1>0, <1>1, <1>2, VerdictMoves

(* ... and a status that passed the gate has its verdict.                  *)
LEMMA WriteSuccessStep ==
    ASSUME TypeOK, Fresh, WriteSuccessIsVerified, [Next]_vars
    PROVE  WriteSuccessIsVerified'
<1> SUFFICES ASSUME NEW r \in Runs, run'[r].status = "succeeded", Permission[r] \in {"edit", "full"}
             PROVE  run'[r].verdict = "passed"
  BY DEF WriteSuccessIsVerified
<1>1. CASE run[r].status = "succeeded" /\ run'[r].verdict = run[r].verdict
  BY <1>1 DEF WriteSuccessIsVerified
<1>2. ASSUME NEW q \in Requests, ApplyCommit(q) PROVE run'[r].verdict = "passed"
  <2>1. CASE req[q].run # r
    BY <1>1, <1>2, <2>1, ResultMoves
  <2>2. CASE req[q].run = r
    <3>1. run[r].verdict = "none"
      BY <1>2, <2>2, FirstResult
    <3>2. run[r].status # "succeeded"
      BY <3>1 DEF WriteSuccessIsVerified
    <3>3. /\ AcceptedStatus(r, req[q].result) = "succeeded"
          /\ run'[r].verdict = Verdict(req[q].result)
      BY <1>2, <2>2, <3>2, ResultMoves
    <3>4. QED BY <3>3 DEF AcceptedStatus, Verdict
  <2>3. QED BY <2>1, <2>2
<1>3. CASE ~ \E q \in Requests : ApplyCommit(q)
  <2>1. run'[r].verdict = run[r].verdict
    BY <1>3, VerdictMoves
  <2>2. CASE run'[r] = run[r]
    BY <1>1, <2>1, <2>2
  <2>3. CASE run'[r] # run[r]
    <3>1. PICK q \in Requests, s \in RunStatuses \ {"none"} : Written(r, q, s)
      BY <2>3, RowMoves
    <3>2. run[r].status = "succeeded"
      BY <1>3, <3>1 DEF Written, Sets
    <3>3. QED BY <1>1, <2>1, <3>2
  <2>4. QED BY <2>2, <2>3
<1>4. QED BY <1>2, <1>3

(* All three hold throughout a behaviour that keeps callbacks apart.        *)
LEMMA CallbackInvariant == Spec /\ []CallbacksApart => []CallbackInv
<1>1. Init => CallbackInv
  BY DEF Init, CallbackInv, Fresh, Counted, WriteSuccessIsVerified, Applied, Absent, IdleRequest
<1>2. TypeOK /\ CallbacksApart /\ CallbackInv /\ [Next]_vars => CallbackInv'
  BY FreshStep, CountedStep, WriteSuccessStep DEF CallbackInv
<1>3. QED BY <1>1, <1>2, TypeCorrect, PTL DEF Spec

(* As long as callbacks of one run do not overlap, a result is projected at *)
(* most once, however often workers call back and whatever operators do.    *)
THEOREM CallbackProjectsOnce == Spec /\ []CallbacksApart => []ProjectedOnce
<1>1. CallbackInv => ProjectedOnce BY DEF CallbackInv, Counted, ProjectedOnce
<1>2. QED BY <1>1, CallbackInvariant, PTL

(* As long as callbacks of one run do not overlap, a write-capable run      *)
(* shown as succeeded has passed its verification: no later callback takes *)
(* the verdict away, no operator's stale session brings the status back.   *)
THEOREM CallbackSuccessIsVerified == Spec /\ []CallbacksApart => []WriteSuccessIsVerified
<1>1. CallbackInv => WriteSuccessIsVerified BY DEF CallbackInv
<1>2. QED BY <1>1, CallbackInvariant, PTL

-----------------------------------------------------------------------------
(* Decisions of one approval apart.                                        *)

(* Only the handler of the approval's run decides it.                      *)
LEMMA DecidesPending ==
    ASSUME Decided, NEW q \in Requests, NEW a, Decides(q, a)
    PROVE  /\ approvals[a].status = "pending" /\ approvals[a].run = req[q].run
           /\ req[q].pc \in {"approve", "reject"}
<1>1. req[q].pc \in {"approve", "reject"} /\ req[q].appr = a /\ a # 0
  BY DEF Decides, ApproveCommit, RejectCommit
<1>2. QED BY <1>1 DEF Decided, DecidedBy

(* A decided approval stays as it is.                                      *)
LEMMA DecidedStays ==
    ASSUME TypeOK, Decided, [Next]_vars, NEW a \in 1..Len(approvals),
           approvals[a].status # "pending"
    PROVE  a \in 1..Len(approvals') /\ approvals'[a] = approvals[a]
<1>1. Len(approvals) \in Nat /\ a \in 1..Len(approvals')
  BY ApprovalMoves, LenNat DEF TypeOK
<1>2. ASSUME NEW q \in Requests, Decides(q, a) PROVE FALSE
  BY <1>2, DecidesPending
<1>3. ASSUME NEW r \in Runs, Appears(a, r) PROVE approvals'[a] = approvals[a]
  <2>1. CASE CreateRun(r)
    <3>1. PICK e : approvals' = Append(approvals, e)
      BY <2>1 DEF CreateRun
    <3>2. QED BY <3>1, <1>1 DEF TypeOK, DbOK
  <2>2. ASSUME NEW q \in Requests, AskCommit(q) PROVE approvals'[a] = approvals[a]
    <3>1. PICK e : approvals' = Append(approvals, e) \/ approvals' = approvals
      BY <2>2 DEF AskCommit
    <3>2. QED BY <3>1, <1>1 DEF TypeOK, DbOK
  <2>3. QED BY <1>3, <2>1, <2>2 DEF Appears
<1>4. QED BY <1>1, <1>2, <1>3, ApprovalMoves

(* The approval of a handler that is in progress stays as the handler takes *)
(* it to be.                                                               *)
LEMMA DecidedStep ==
    ASSUME TypeOK, Decided, DecisionsApart, [Next]_vars
    PROVE  Decided'
<1> SUFFICES ASSUME NEW p \in Requests PROVE DecidedBy(p)'
  BY DEF Decided
<1>0. DecidedBy(p) /\ req[p].appr \in 0..Len(approvals) /\ Len(approvals) \in Nat
  BY LenNat DEF Decided, TypeOK, RequestsOK
<1>1. CASE Operator(p) \/ \E w \in Workers : Post(w, p)
  BY <1>1, Begins
(* The approval of a handler that is in progress is decided by that handler. *)
<1>2. ASSUME req[p].pc \in {"approve", "reject", "enqueue"}, req[p].appr # 0,
             ~ ApproveCommit(p), ~ RejectCommit(p)
      PROVE  LET a == req[p].appr IN approvals'[a] = approvals[a]
  <2> DEFINE a == req[p].appr
  <2>1. a \in 1..Len(approvals) /\ approvals[a].run = req[p].run
    BY <1>0, <1>2 DEF DecidedBy
  <2>2. ASSUME NEW q \in Requests, Decides(q, a) PROVE FALSE
    <3>1. q # p
      BY <1>2, <2>2 DEF Decides
    <3>2. /\ req[q].pc \in {"approve", "reject"} /\ req[q].run = req[p].run
          /\ req[q].appr = a /\ approvals[a].status = "pending"
      BY <2>1, <2>2, DecidesPending DEF Decides
    <3>3. req[p].pc \in {"approve", "reject"}
      BY <1>0, <1>2, <3>2 DEF DecidedBy
    <3>4. QED BY <3>1, <3>2, <3>3 DEF DecisionsApart
  <2>3. a \in 1..Len(approvals')
    BY <1>0, <2>1, ApprovalMoves
  <2>4. ASSUME NEW r \in Runs, Appears(a, r) PROVE approvals'[a] = approvals[a]
    <3>1. CASE CreateRun(r)
      <4>1. PICK e : approvals' = Append(approvals, e)
        BY <3>1 DEF CreateRun
      <4>2. QED BY <2>1, <4>1 DEF TypeOK, DbOK
    <3>2. ASSUME NEW q \in Requests, AskCommit(q) PROVE approvals'[a] = approvals[a]
      <4>1. PICK e : approvals' = Append(approvals, e) \/ approvals' = approvals
        BY <3>2 DEF AskCommit
      <4>2. QED BY <2>1, <4>1 DEF TypeOK, DbOK
    <3>3. QED BY <2>4, <3>1, <3>2 DEF Appears
  <2>5. QED BY <2>2, <2>3, <2>4, ApprovalMoves
<1>3. CASE Handler(p) \/ Breaks(p)
  <2>1. CASE req'[p].pc = "idle"
    BY <2>1 DEF DecidedBy
  <2> DEFINE a == req[p].appr
             Kept == /\ req'[p].run = req[p].run /\ req'[p].appr = a /\ req'[p].op = req[p].op
  <2>2. CASE Kept /\ ApproveCommit(p) /\ req'[p].pc = "enqueue"
    <3>1. req[p].pc = "approve" /\ a \in 1..Len(approvals)
      BY <1>0, <2>2 DEF ApproveCommit, TypeOK, RequestsOK
    <3>2. approvals[a].run = req[p].run /\ approvals[a].op = req[p].op
      BY <1>0, <3>1 DEF DecidedBy
    <3>3. approvals' = [approvals EXCEPT ![a].status = "approved"]
      BY <2>2 DEF ApproveCommit
    <3>4. approvals[a] \in ApprovalRows /\ approvals \in Seq(ApprovalRows)
      BY <3>1, ElementOfSeq DEF TypeOK, DbOK
    <3> DEFINE e == [approvals[a] EXCEPT !.status = "approved"]
    <3>5. e.status = "approved" /\ e.run = req[p].run /\ e.op = req[p].op
      BY <3>2, <3>4 DEF ApprovalRows
    <3>6. approvals' = [approvals EXCEPT ![a] = e]
      BY <3>3
    <3> HIDE DEF e
    <3>7. approvals'[a] = e
      BY <3>1, <3>4, <3>6
    <3> HIDE DEF a
    <3>8. QED BY <2>2, <3>1, <3>5, <3>7 DEF DecidedBy
  <2>3. CASE Kept /\ (InterruptCommit(p) \/ EnqueueError(p))
             /\ req'[p].pc \in {"set_stop", "enqueue_failed"}
    BY <2>3 DEF DecidedBy
  <2>4. CASE Kept /\ (ResumeCommit(p) \/ ClearStop(p)) /\ req'[p].pc \in {"clear_stop", "enqueue"}
    <3>1. a = 0
      BY <1>0, <2>4 DEF DecidedBy, ResumeCommit, ClearStop
    <3>2. QED BY <2>4, <3>1 DEF DecidedBy
  <2>5. QED BY <1>3, <2>1, <2>2, <2>3, <2>4, GoesOn
<1>4. CASE Same(p) /\ ~ Handler(p)
  <2>1. ~ ApproveCommit(p) /\ ~ RejectCommit(p)
    BY <1>4 DEF Handler
  <2>2. QED BY <1>0, <1>2, <1>4, <2>1 DEF Same, DecidedBy
<1>5. QED BY <1>1, <1>3, <1>4, RequestMoves

(* A job that a handler adds carries what an approved approval says.        *)
LEMMA JobWasApproved ==
    ASSUME TypeOK, Decided, NEW q \in Requests, req[q].pc = "enqueue",
           NEW op \in JobOps(q), op \in AllCapabilityOps
    PROVE  \E a \in 1..Len(approvals) : /\ approvals[a].run = req[q].run
                                        /\ approvals[a].op = op
                                        /\ approvals[a].status = "approved"
<1> DEFINE a == req[q].appr
<1>0. /\ a \in 0..Len(approvals) /\ Len(approvals) \in Nat
      /\ DOMAIN approvals = 1..Len(approvals)
  BY LenNat DEF TypeOK, RequestsOK, DbOK
<1>1. CASE a # 0
  <2>1. op = req[q].op
    BY <1>1 DEF JobOps
  <2>2. a \in 1..Len(approvals)
    BY <1>0, <1>1
  <2>3. /\ approvals[a].run = req[q].run /\ approvals[a].op = req[q].op
        /\ approvals[a].status = "approved"
    BY <1>1 DEF Decided, DecidedBy
  <2>4. QED BY <2>1, <2>2, <2>3
<1>2. CASE a = 0 /\ Approved(req[q].run) = {}
  <2>1. op = "execute_task"
    BY <1>2 DEF JobOps
  <2>2. QED BY <2>1 DEF AllCapabilityOps
<1>3. CASE a = 0 /\ Approved(req[q].run) # {}
  <2>1. op \in {approvals[b].op : b \in Latest(Approved(req[q].run))}
    BY <1>3 DEF JobOps
  <2>2. PICK b \in Approved(req[q].run) : op = approvals[b].op
    BY <2>1 DEF Latest
  <2>3. QED BY <1>0, <2>2 DEF Approved
<1>4. QED BY <1>1, <1>2, <1>3

(* Approval a permits entry j of a stream.                                 *)
Permits(a, job) == a.run = job.run /\ a.op = job.op /\ a.status = "approved"

(* ... in the words of CapabilityWasApproved.                              *)
LEMMA PermitsIsApproval ==
    ASSUME NEW a \in ApprovalRows, NEW job \in JobRows
    PROVE  Permits(a, job) <=> a = [run |-> job.run, op |-> job.op, status |-> "approved"]
BY DEF Permits, ApprovalRows, JobRows

(* A job keeps its approval.                                              *)
LEMMA CapabilityStep ==
    ASSUME TypeOK, TypeOK', Decided, CapabilityWasApproved, [Next]_vars
    PROVE  CapabilityWasApproved'
<1>0. /\ approvals \in Seq(ApprovalRows) /\ approvals' \in Seq(ApprovalRows)
      /\ queue \in Seq(JobRows) /\ queue' \in Seq(JobRows)
  BY DEF TypeOK, DbOK, QueueOK
<1>1. /\ DOMAIN approvals = 1..Len(approvals) /\ DOMAIN approvals' = 1..Len(approvals')
      /\ DOMAIN queue = 1..Len(queue) /\ DOMAIN queue' = 1..Len(queue')
  BY <1>0
<1> SUFFICES ASSUME NEW j \in 1..Len(queue'), queue'[j].op \in AllCapabilityOps
             PROVE  \E a \in 1..Len(approvals') :
                      approvals'[a] = [run |-> queue'[j].run, op |-> queue'[j].op,
                                       status |-> "approved"]
  BY <1>1 DEF CapabilityWasApproved
<1>2. queue'[j] \in JobRows
  BY <1>0, ElementOfSeq
<1>3. SUFFICES \E a \in 1..Len(approvals) : Permits(approvals[a], queue'[j])
  <2>1. PICK a \in 1..Len(approvals) : Permits(approvals[a], queue'[j])
    BY <1>3
  <2>2. a \in 1..Len(approvals') /\ approvals'[a] = approvals[a]
    BY <2>1, DecidedStays DEF Permits
  <2>3. approvals[a] \in ApprovalRows
    BY <1>0, ElementOfSeq
  <2>4. QED BY <1>2, <2>1, <2>2, <2>3, PermitsIsApproval
<1>4. CASE j \in 1..Len(queue)
  <2>1. queue'[j] = queue[j]
    BY <1>4, QueueMoves
  <2>2. PICK a \in 1..Len(approvals) :
          approvals[a] = [run |-> queue[j].run, op |-> queue[j].op, status |-> "approved"]
    BY <1>1, <1>4, <2>1 DEF CapabilityWasApproved
  <2>3. approvals[a] \in ApprovalRows
    BY <1>0, ElementOfSeq
  <2>4. Permits(approvals[a], queue'[j])
    BY <1>2, <2>1, <2>2, <2>3, PermitsIsApproval
  <2>5. QED BY <2>4
<1>5. ASSUME NEW q \in Requests, Adds(q, j)
      PROVE  \E a \in 1..Len(approvals) : Permits(approvals[a], queue'[j])
  <2>1. req[q].pc = "enqueue" /\ queue'[j].run = req[q].run /\ queue'[j].op \in JobOps(q)
    BY <1>5 DEF Adds, Enqueue, EnqueueError
  <2>2. \E a \in 1..Len(approvals) : /\ approvals[a].run = req[q].run
                                     /\ approvals[a].op = queue'[j].op
                                     /\ approvals[a].status = "approved"
    BY <2>1, JobWasApproved
  <2>3. QED BY <2>1, <2>2 DEF Permits
<1>6. QED BY <1>4, <1>5, QueueMoves

(* Both hold throughout a behaviour that keeps decisions apart.             *)
LEMMA DecisionInvariant == Spec /\ []DecisionsApart => [](Decided /\ CapabilityWasApproved)
<1>1. Init => Decided /\ CapabilityWasApproved
  BY DEF Init, Decided, DecidedBy, CapabilityWasApproved, IdleRequest
<1>2. TypeOK /\ TypeOK' /\ DecisionsApart /\ Decided /\ CapabilityWasApproved /\ [Next]_vars
        => Decided' /\ CapabilityWasApproved'
  BY DecidedStep, CapabilityStep
<1>3. QED BY <1>1, <1>2, TypeCorrect, PTL DEF Spec

(* As long as no two handlers decide one approval at once, every job with a *)
(* capability carries an approved approval's, resumed jobs included.        *)
THEOREM DecisionApprovesCapability == Spec /\ []DecisionsApart => []CapabilityWasApproved
BY DecisionInvariant, PTL

-----------------------------------------------------------------------------
(* All handlers of one run apart.                                          *)

(* A run that exists goes on to exist.                                     *)
LEMMA RunStays ==
    ASSUME TypeOK, [Next]_vars, NEW r \in Runs, run[r].status # "none"
    PROVE  run'[r].status # "none"
<1>1. CASE run'[r] = run[r]
  BY <1>1
<1>2. CASE run'[r] # run[r]
  BY <1>2, RowMoves DEF Written
<1>3. QED BY <1>1, <1>2

(* Nothing refers to a run that does not exist.                            *)
LEMMA KnownStep ==
    ASSUME TypeOK, Known, TypeOK', [Next]_vars
    PROVE  Known'
<1>0. /\ approvals \in Seq(ApprovalRows) /\ approvals' \in Seq(ApprovalRows)
      /\ queue \in Seq(JobRows) /\ queue' \in Seq(JobRows) /\ req' \in [Requests -> RequestRows]
  BY DEF TypeOK, DbOK, QueueOK, RequestsOK
<1>1. \A r \in Runs : run[r].status # "none" => run'[r].status # "none"
  BY RunStays
<1>2. ASSUME NEW a \in 1..Len(approvals') PROVE run'[approvals'[a].run].status # "none"
  <2>0. approvals'[a] \in ApprovalRows
    BY <1>0, ElementOfSeq
  <2>1. approvals'[a].run \in Runs
    BY <2>0 DEF ApprovalRows
  <2>2. CASE a \in 1..Len(approvals) /\ approvals'[a].run = approvals[a].run
    BY <1>1, <2>1, <2>2 DEF Known
  <2>3. ASSUME NEW r \in Runs, Appears(a, r) PROVE run'[r].status # "none"
    <3>1. CASE CreateRun(r)
      BY <3>1 DEF CreateRun, TypeOK, DbOK, RunRows
    <3>2. ASSUME NEW q \in Requests, AskCommit(q), req[q].run = r PROVE run[r].status # "none"
      BY <3>2 DEF AskCommit, Known
    <3>3. QED BY <1>1, <2>3, <3>1, <3>2 DEF Appears
  <2>4. QED BY <2>2, <2>3, ApprovalMoves DEF Decides, Appears
<1>3. ASSUME NEW j \in 1..Len(queue') PROVE run'[queue'[j].run].status # "none"
  <2>0. queue'[j] \in JobRows
    BY <1>0, ElementOfSeq
  <2>1. queue'[j].run \in Runs
    BY <2>0 DEF JobRows
  <2>2. CASE j \in 1..Len(queue)
    BY <1>1, <2>1, <2>2, QueueMoves DEF Known
  <2>3. ASSUME NEW q \in Requests, Adds(q, j) PROVE run[queue'[j].run].status # "none"
    BY <2>3 DEF Adds, Enqueue, EnqueueError, Known
  <2>4. QED BY <1>1, <2>1, <2>2, <2>3, QueueMoves
<1>4. ASSUME NEW p \in Requests, req'[p].pc # "idle" PROVE run'[req'[p].run].status # "none"
  <2>1. CASE req'[p].run = req[p].run /\ req[p].pc # "idle"
    BY <1>1, <2>1 DEF Known, TypeOK, RequestsOK
  <2>2. CASE Operator(p) \/ \E w \in Workers : Post(w, p)
    BY <2>2, Begins
  <2>3. CASE Handler(p) \/ Breaks(p)
    BY <1>4, <2>1, <2>3, GoesOn DEF ApproveCommit, InterruptCommit, ResumeCommit, ClearStop,
       EnqueueError
  <2>4. CASE Same(p)
    BY <1>4, <2>1, <2>4 DEF Same
  <2>5. QED BY <2>2, <2>3, <2>4, RequestMoves
<1>5. QED BY <1>2, <1>3, <1>4 DEF Known

(* This needs no handlers apart.                                            *)
LEMMA KnownInvariant == Spec => []Known
<1>1. Init => Known
  BY DEF Init, Known, IdleRequest
<1>2. QED BY <1>1, KnownStep, TypeCorrect, PTL DEF Spec

(* What a handler read is still so when it commits, and the status it       *)
(* committed is still there when it adds its job.                          *)
Current ==
    \A q \in Requests :
        /\ req[q].pc \in Reading => req[q].seen = run[req[q].run]
        /\ req[q].pc \in Queueing => run[req[q].run].status = "queued"

(* As long as its handlers do not overlap, a run that has one in progress   *)
(* is changed by that one only.                                            *)
LEMMA Undisturbed ==
    ASSUME TypeOK, Known, OneHandlerPerRun, [Next]_vars, NEW p \in Requests,
           req[p].pc # "idle", ~ Commits(p)
    PROVE  run'[req[p].run] = run[req[p].run]
<1> DEFINE r == req[p].run
<1>1. r \in Runs /\ run[r].status # "none"
  BY DEF TypeOK, RequestsOK, Known
<1>2. ~ CreateRun(r)
  BY <1>1 DEF CreateRun
<1>3. ASSUME NEW q \in Requests, Commits(q), req[q].run = r PROVE FALSE
  <2>1. req[q].pc # "idle"
    BY <1>3 DEF Commits, ApproveCommit, RejectCommit, InterruptCommit, ResumeCommit,
       EnqueueFailedCommit, ApplyCommit
  <2>2. QED BY <1>3, <2>1 DEF OneHandlerPerRun
<1>4. QED BY <1>1, <1>2, <1>3, RunMoves

(* What a handler read stays so until it commits.                           *)
LEMMA CurrentStep ==
    ASSUME TypeOK, Known, Current, OneHandlerPerRun, [Next]_vars
    PROVE  Current'
<1> SUFFICES ASSUME NEW p \in Requests
             PROVE  /\ req'[p].pc \in Reading => req'[p].seen = run'[req'[p].run]
                    /\ req'[p].pc \in Queueing => run'[req'[p].run].status = "queued"
  BY DEF Current
<1> USE DEF Reading, Queueing
<1>0. req[p].pc # "idle" => req[p].run \in Runs /\ req[p].seen \in RunRows
  BY DEF TypeOK, RequestsOK, RequestRows
<1>1. CASE Operator(p) \/ \E w \in Workers : Post(w, p)
  BY <1>1, Begins
<1>2. CASE Handler(p) \/ Breaks(p)
  <2>1. CASE req'[p].pc = "idle"
    BY <2>1
  <2>2. CASE req'[p].run = req[p].run /\ InterruptCommit(p) /\ req'[p].pc = "set_stop"
    BY <2>2
  <2>3. CASE req'[p].run = req[p].run /\ (ApproveCommit(p) \/ ResumeCommit(p))
             /\ req'[p].pc \in {"enqueue", "clear_stop"}
    <3>1. req[p].seen = run[req[p].run] /\ run \in [Runs -> RunRows] /\ req[p].pc # "idle"
      BY <2>3 DEF Current, ApproveCommit, ResumeCommit, TypeOK, DbOK
    <3>2. SetStatus(req[p].run, req[p].seen, "queued")
      BY <2>3 DEF ApproveCommit, ResumeCommit
    <3>3. run'[req[p].run].status = "queued"
      BY <1>0, <3>1, <3>2, StatusMoves
    <3>4. QED BY <2>3, <3>3
  <2>4. CASE req'[p].run = req[p].run /\ (ClearStop(p) \/ EnqueueError(p))
             /\ req'[p].pc \in {"enqueue", "enqueue_failed"}
    <3>1. run[req[p].run].status = "queued" /\ run' = run
      BY <2>4 DEF Current, ClearStop, EnqueueError, dbVars
    <3>2. QED BY <2>4, <3>1
  <2>5. QED BY <1>2, <2>1, <2>2, <2>3, <2>4, GoesOn
<1>3. CASE Same(p)
  <2>1. CASE req[p].pc = "idle"
    BY <1>3, <2>1 DEF Same
  <2>2. CASE req[p].pc # "idle" /\ ~ Commits(p)
    <3>1. run'[req[p].run] = run[req[p].run]
      BY <2>2, Undisturbed
    <3>2. QED BY <1>3, <3>1 DEF Same, Current
  <2>3. CASE Commits(p)
    BY <1>2, <2>3 DEF Commits, Handler
  <2>4. QED BY <2>1, <2>2, <2>3
<1>4. QED BY <1>1, <1>2, <1>3, RequestMoves

(* This does.                                                              *)
LEMMA CurrentInvariant == Spec /\ []OneHandlerPerRun => []Current
<1>1. Init => Current
  BY DEF Init, Current, Reading, Queueing, IdleRequest
<1>2. TypeOK /\ Known /\ OneHandlerPerRun /\ Current /\ [Next]_vars => Current'
  BY CurrentStep
<1>3. QED BY <1>1, <1>2, TypeCorrect, KnownInvariant, PTL DEF Spec

(* The steps a handler broke off before stay undone, and what a handler     *)
(* that breaks off leaves undone is among them.                            *)
LEMMA BrokenMoves ==
    ASSUME [Next]_vars
    PROVE  /\ broken \subseteq broken'
           /\ \A q \in Requests : Breaks(q) => LeftUndone(q) \subseteq broken'
<1>1. ASSUME NEW q \in Requests, Breaks(q) PROVE broken' = broken \cup LeftUndone(q)
  BY <1>1 DEF Breaks, ApiCrash, CallRaises, BreakOff
<1>2. broken' = broken \/ \E q \in Requests : Breaks(q)
  BY DEF Next, vars, CreateRun, Operator, AskRead, DecideRead, InterruptRead, ResumeRead,
     Handler, AskCommit, ApproveCommit, RejectCommit, InterruptCommit, SetStop, ResumeCommit,
     ClearStop, Enqueue, EnqueueError, EnqueueFailedCommit, ApplyAgain, ApplyCommit,
     ApplyCollision, Worker, PostFails, WorkerCrash, Deliver, Discard,
     UseCached, Start, Finish, Stop, PublishEnd, StoreResult, Post, ClearFlag, Ack, flagVars
<1>3. QED BY <1>1, <1>2

(* The inductive invariant of the stop flag: an interrupted run without a   *)
(* result has it, from the moment its handler has set it, unless a handler *)
(* broke off before it did.                                                *)
Flagged ==
    \A r \in Runs :
        /\ run[r].status = "interrupted" /\ run[r].verdict = "none"
        /\ \A q \in Requests : req[q].run = r => req[q].pc # "set_stop"
        /\ <<r, "flag">> \notin broken
        => control[r]

(* The flag is deleted only by a resume and for a run that has a result.     *)
LEMMA FlaggedStep ==
    ASSUME TypeOK, Linked, Evidence, Current, Flagged, [Next]_vars
    PROVE  Flagged'
<1> SUFFICES ASSUME NEW r \in Runs, run'[r].status = "interrupted", run'[r].verdict = "none",
                    \A q \in Requests : req'[q].run = r => req'[q].pc # "set_stop",
                    <<r, "flag">> \notin broken'
             PROVE  control'[r]
  BY DEF Flagged
<1>0. run[r].verdict = "none" /\ <<r, "flag">> \notin broken
  BY Monotone, BrokenMoves DEF Grows, Applied
<1>1. CASE run[r].status = "interrupted"
           /\ \A q \in Requests : req[q].run = r => req[q].pc # "set_stop"
  <2>1. control[r]
    BY <1>0, <1>1 DEF Flagged
  <2>2. ASSUME NEW q \in Requests, req[q].pc = "clear_stop", req[q].run = r PROVE FALSE
    BY <1>1, <2>2 DEF Current, Queueing
  <2>3. ASSUME NEW w \in Workers, ClearFlag(w), JobOf(w).run = r PROVE FALSE
    BY <1>0, <2>3 DEF ClearFlag, Evidence, WorkerEvidence, Applied
  <2>4. QED BY <2>1, <2>2, <2>3, ControlMoves
<1>2. ASSUME NEW q \in Requests, req[q].run = r, req[q].pc = "set_stop" PROVE control'[r]
  <2>0. ~ Breaks(q)
    BY <1>2, BrokenMoves DEF LeftUndone
  <2>1. ~ Same(q) /\ ~ Operator(q) /\ ~ (\E w \in Workers : Post(w, q))
    BY <1>2 DEF Same, Operator, AskRead, DecideRead, InterruptRead, ResumeRead, Post
  <2>2. Handler(q)
    BY <2>0, <2>1, RequestMoves
  <2>3. SetStop(q)
    BY <1>2, <2>2 DEF Handler, AskCommit, ApproveCommit, RejectCommit, InterruptCommit,
       ResumeCommit, ClearStop, Enqueue, EnqueueError, EnqueueFailedCommit, ApplyAgain,
       ApplyCommit, ApplyCollision
  <2>4. QED BY <1>2, <2>3 DEF SetStop, TypeOK, FlagsOK
<1>3. CASE run[r].status # "interrupted"
  <2>1. PICK q \in Requests, s \in RunStatuses \ {"none"} : Written(r, q, s)
    BY <1>3, RowMoves
  <2>2. s = "interrupted" /\ req[q].run = r /\ Sets(q, s)
    BY <1>3, <2>1 DEF Written
  <2>3. CASE InterruptCommit(q)
    <3>1. req'[q].run = r /\ req'[q].pc = "set_stop"
      BY <2>2, <2>3, GoToMoves DEF InterruptCommit
    <3>2. QED BY <3>1
  <2>4. CASE ApplyCommit(q)
    BY <2>2, <2>4, ApplyVerdict
  <2>5. QED BY <2>2, <2>3, <2>4 DEF Sets
<1>4. QED BY <1>1, <1>2, <1>3

(* As long as handlers of one run do not overlap, an answered interrupt     *)
(* reaches the worker that executes the run, whatever dies or raises: the  *)
(* stop flag stays until the run has a result.                             *)
THEOREM SerialInterruptReachesWorker ==
    Spec /\ []OneHandlerPerRun => []InterruptReachesWorker
<1>1. Init => Flagged
  BY DEF Init, Flagged, Absent
<1>2. TypeOK /\ Linked /\ Evidence /\ Current /\ Flagged /\ [Next]_vars => Flagged'
  BY FlaggedStep
<1>3. Flagged => InterruptReachesWorker
  BY DEF Flagged, InterruptReachesWorker, Applied
<1>4. QED
  BY <1>1, <1>2, <1>3, TypeCorrect, EvidenceInvariant, CurrentInvariant, PTL DEF Spec

(* One handler in all, as the run that checks these properties has it, is   *)
(* one handler of every run.                                               *)
THEOREM OneHandlerIsSerial ==
    ASSUME \A p, q \in Requests : p = q
    PROVE  Spec => []OneHandlerPerRun
<1>1. OneHandlerPerRun
  BY DEF OneHandlerPerRun
<1>2. QED BY <1>1, PTL

(* Keeping all handlers of a run apart keeps callbacks and decisions apart. *)
THEOREM SerialIsApart == OneHandlerPerRun => CallbacksApart /\ DecisionsApart
BY DEF OneHandlerPerRun, CallbacksApart, DecisionsApart

-----------------------------------------------------------------------------
(* No handler apart.                                                       *)

(* Run r has a job, or a handler that is still to add it.                  *)
HasJob(r) ==
    \/ \E j \in 1..Len(queue) : queue[j].run = r
    \/ \E q \in Requests : req[q].run = r /\ req[q].pc \in Queueing

(* ... in the words of QueuedHasJob.                                       *)
LEMMA QueuedMeansHasJob ==
    ASSUME queue \in Seq(JobRows)
    PROVE  QueuedHasJob <=>
             \A r \in Runs : run[r].status = "queued" => HasJob(r) \/ <<r, "job">> \in broken
BY DEF QueuedHasJob, HasJob, Queueing

(* A job stays, and its handler adds it unless it marks the run failed or   *)
(* breaks off.                                                             *)
LEMMA HasJobStays ==
    ASSUME TypeOK, [Next]_vars, NEW r \in Runs, HasJob(r), run'[r].status = "queued",
           <<r, "job">> \notin broken'
    PROVE  HasJob(r)'
<1>0. queue \in Seq(JobRows) /\ Len(queue) \in Nat /\ run \in [Runs -> RunRows]
  BY DEF TypeOK, QueueOK, DbOK
<1>1. ASSUME NEW j \in 1..Len(queue), queue[j].run = r PROVE HasJob(r)'
  <2>1. Len(queue') >= Len(queue) /\ queue'[j] = queue[j]
    BY QueueMoves
  <2>2. CASE queue' = queue
    BY <1>1, <2>2 DEF HasJob
  <2>3. CASE queue' # queue
    <3>1. PICK job : queue' = Append(queue, job)
      BY <2>3 DEF Next, vars, CreateRun, Operator, AskRead, DecideRead, InterruptRead, ResumeRead,
         Handler, AskCommit, ApproveCommit, RejectCommit, InterruptCommit, SetStop, ResumeCommit,
         ClearStop, Enqueue, EnqueueError, EnqueueFailedCommit, ApplyAgain, ApplyCommit,
         ApplyCollision, Breaks, ApiCrash, CallRaises, BreakOff, Worker, PostFails, WorkerCrash,
     Deliver, Discard, UseCached,
         Start, Finish, Stop, PublishEnd, StoreResult, Post, ClearFlag, Ack, queueVars
    <3>2. Len(queue') \in Nat
      BY <1>0, <3>1
    <3>3. j \in 1..Len(queue')
      BY <1>0, <2>1, <3>2
    <3>4. QED BY <1>1, <2>1, <3>3 DEF HasJob
  <2>4. QED BY <2>2, <2>3
<1>2. ASSUME NEW q \in Requests, req[q].run = r, req[q].pc \in Queueing PROVE HasJob(r)'
  <2> USE DEF Queueing
  <2>1. CASE Same(q)
    BY <1>2, <2>1 DEF Same, HasJob
  <2>2. ~ Operator(q) /\ ~ (\E w \in Workers : Post(w, q)) /\ ~ Breaks(q)
    <3>1. ~ Breaks(q)
      BY <1>2, BrokenMoves DEF LeftUndone
    <3>2. QED
      BY <1>2, <3>1 DEF Operator, AskRead, DecideRead, InterruptRead, ResumeRead, Post
  <2>3. CASE ClearStop(q) \/ EnqueueError(q)
    <3>1. req'[q].run = r /\ req'[q].pc \in {"enqueue", "enqueue_failed"}
      BY <1>2, <2>3, GoToMoves DEF ClearStop, EnqueueError
    <3>2. QED BY <3>1 DEF HasJob
  <2>4. CASE Enqueue(q)
    <3>1. PICK job \in NewJobs(q) : queue' = Append(queue, job)
      BY <2>4 DEF Enqueue
    <3>2. job.run = r
      BY <1>2 DEF NewJobs
    <3>3. Len(queue') = Len(queue) + 1 /\ queue'[Len(queue) + 1] = job
      BY <1>0, <3>1
    <3>4. Len(queue) + 1 \in 1..Len(queue')
      BY <1>0, <3>3
    <3>5. QED BY <3>2, <3>3, <3>4 DEF HasJob
  <2>5. CASE EnqueueFailedCommit(q)
    <3>1. run'[r].status = "failed"
      BY <1>0, <1>2, <2>5 DEF EnqueueFailedCommit, RunRows
    <3>2. QED BY <3>1
  <2>6. Handler(q) => ClearStop(q) \/ Enqueue(q) \/ EnqueueError(q) \/ EnqueueFailedCommit(q)
    BY <1>2 DEF Handler, AskCommit, ApproveCommit, RejectCommit, InterruptCommit, SetStop,
       ResumeCommit, ApplyAgain, ApplyCommit, ApplyCollision
  <2>7. QED BY <2>1, <2>2, <2>3, <2>4, <2>5, <2>6, RequestMoves
<1>3. QED BY <1>1, <1>2 DEF HasJob

(* Whoever commits queued goes on to add the job.                          *)
LEMMA QueuedStep ==
    ASSUME TypeOK, TypeOK', QueuedHasJob, [Next]_vars
    PROVE  QueuedHasJob'
<1>0. queue \in Seq(JobRows) /\ queue' \in Seq(JobRows)
  BY DEF TypeOK, QueueOK
<1>1. ASSUME NEW r \in Runs, run'[r].status = "queued", <<r, "job">> \notin broken'
      PROVE  HasJob(r)'
  <2>1. CASE run[r].status = "queued"
    BY <1>0, <1>1, <2>1, QueuedMeansHasJob, HasJobStays, BrokenMoves
  <2>2. CASE run[r].status # "queued"
    <3>1. PICK q \in Requests, s \in RunStatuses \ {"none"} : Written(r, q, s)
      BY <1>1, <2>2, RowMoves
    <3>2. s = "queued" /\ req[q].run = r /\ Sets(q, s)
      BY <1>1, <2>2, <3>1 DEF Written
    <3>3. ~ ApplyCommit(q) \/ AcceptedStatus(r, req[q].result) # "queued"
      BY DEF AcceptedStatus, TypeOK, RequestsOK, RequestRows, Results
    <3>4. ApproveCommit(q) \/ ResumeCommit(q)
      BY <3>2, <3>3 DEF Sets
    <3>5. req'[q].run = r /\ req'[q].pc \in {"enqueue", "clear_stop"}
      BY <3>2, <3>4, GoToMoves DEF ApproveCommit, ResumeCommit
    <3>6. QED BY <3>5 DEF HasJob, Queueing
  <2>3. QED BY <2>1, <2>2
<1>2. (QueuedHasJob <=>
          \A r \in Runs : run[r].status = "queued" => HasJob(r) \/ <<r, "job">> \in broken)'
  BY <1>0 DEF QueuedHasJob, HasJob, Queueing
<1>3. QED BY <1>1, <1>2

(* A run shown as queued has a job or a handler about to add it, however    *)
(* the handlers of the run overlap, unless a handler of it broke off       *)
(* between its commit and XADD: no other interleaving loses a job.         *)
THEOREM QueuedHasItsJob == Spec => []QueuedHasJob
<1>1. Init => QueuedHasJob
  BY DEF Init, QueuedHasJob, Absent
<1>2. TypeOK /\ TypeOK' /\ QueuedHasJob /\ [Next]_vars => QueuedHasJob'
  BY QueuedStep
<1>3. QED BY <1>1, <1>2, TypeCorrect, PTL DEF Spec
=============================================================================
