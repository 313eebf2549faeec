---------------------------- MODULE LegacyTasks -----------------------------
(***************************************************************************)
(* The deprecated task service: requests that create a task or stop and    *)
(* resume it write to three places one after the other, the execution      *)
(* engine in the memory of the API, Redis, and the database.  Requests     *)
(* interleave at every call of Redis and of the database.                  *)
(***************************************************************************)
EXTENDS Naturals, FiniteSets

CONSTANTS
    Requests,   \* the requests that are ever made
    Tokens,     \* the idempotency tokens their clients use
    MaxTasks,   \* bound on the tasks (ids of the auto-increment)
    Limit       \* creations a space may ask for in a minute

VARIABLES
    req,        \* the handlers of the requests
    asked,      \* the counter of the rate limit
    taskIds,    \* ids given out
    row,        \* per task: its committed status, or none
    engine,     \* per task: its status in the engine of this API process, or none
    state,      \* tasks whose execution id is in Redis (task:run:<id>)
    control,    \* tasks with a stop command in Redis (task:run:<id>:control)
    answers,    \* per token: the task of the saved answer, 0 if there is none
    torn,       \* history: tasks with handlers that overlapped or failed half-way
    expired,    \* history: tasks whose stop command ran out in Redis
    promised    \* history: per request, the saved answer when it came, 0 if none

vars == <<req, asked, taskIds, row, engine, state, control, answers, torn, expired, promised>>

Tasks == 1..MaxTasks
Idle == [kind |-> "none", at |-> "new", token |-> "none", task |-> 0]

Init ==
    /\ req = [r \in Requests |-> Idle]
    /\ asked = 0 /\ taskIds = 0
    /\ row = [t \in Tasks |-> "none"] /\ engine = [t \in Tasks |-> "none"]
    /\ state = {} /\ control = {}
    /\ answers = [k \in Tokens |-> 0]
    /\ torn = {} /\ expired = {} /\ promised = [r \in Requests |-> 0]

At(r, kind, step) == req[r].kind = kind /\ req[r].at = step
Goes(r, step) == req' = [req EXCEPT ![r].at = step]
Stops(r) == Goes(r, "over")

-----------------------------------------------------------------------------
(* create: the rate limit counts every request, a refused one too.          *)
Asks(r, token) ==
    /\ At(r, "none", "new")
    /\ asked' = asked + 1
    /\ req' = [req EXCEPT ![r] = [kind |-> "create", at |-> IF asked' > Limit THEN "over" ELSE "ask",
                                  token |-> token, task |-> 0]]
    /\ promised' = [promised EXCEPT ![r] = answers[token]]
    /\ UNCHANGED <<taskIds, row, engine, state, control, answers, torn, expired>>

(* The minute is over: the counter expires.  It never does if its EXPIRE    *)
(* was lost, which is a minute that does not pass.                         *)
MinutePasses ==
    /\ asked > 0
    /\ asked' = 0
    /\ UNCHANGED <<req, taskIds, row, engine, state, control, answers, torn, expired, promised>>

(* A saved answer is given again.                                          *)
LooksUp(r) ==
    /\ At(r, "create", "ask")
    /\ LET saved == answers[req[r].token] IN
       req' = [req EXCEPT ![r].at = IF saved # 0 THEN "over" ELSE "insert", ![r].task = saved]
    /\ UNCHANGED <<asked, taskIds, row, engine, state, control, answers, torn, expired, promised>>

(* The row is flushed, which gives it an id, and the engine has it.         *)
Submits(r) ==
    /\ At(r, "create", "insert")
    /\ taskIds < MaxTasks
    /\ taskIds' = taskIds + 1
    /\ engine' = [engine EXCEPT ![taskIds + 1] = "running"]
    /\ req' = [req EXCEPT ![r].at = "state", ![r].task = taskIds + 1]
    /\ UNCHANGED <<asked, row, state, control, answers, torn, expired, promised>>

(* task_state_set.                                                         *)
SetsState(r) ==
    /\ At(r, "create", "state")
    /\ state' = state \cup {req[r].task}
    /\ Goes(r, "commit")
    /\ UNCHANGED <<asked, taskIds, row, engine, control, answers, torn, expired, promised>>

Commits(r) ==
    /\ At(r, "create", "commit")
    /\ row' = [row EXCEPT ![req[r].task] = "running"]
    /\ Goes(r, "save")
    /\ UNCHANGED <<asked, taskIds, engine, state, control, answers, torn, expired, promised>>

(* idempotency_save: the first answer to a token stays, for a day.          *)
Saves(r) ==
    /\ At(r, "create", "save")
    /\ answers' = [answers EXCEPT ![req[r].token] = IF @ = 0 THEN req[r].task ELSE @]
    /\ Stops(r)
    /\ UNCHANGED <<asked, taskIds, row, engine, state, control, torn, expired, promised>>

AnswerExpires(token) ==
    /\ answers[token] # 0
    /\ answers' = [answers EXCEPT ![token] = 0]
    /\ promised' = [r \in Requests |-> IF req[r].token = token THEN 0 ELSE promised[r]]
    /\ UNCHANGED <<req, asked, taskIds, row, engine, state, control, torn, expired>>

-----------------------------------------------------------------------------
From(kind) == IF kind = "interrupt" THEN "running" ELSE "interrupted"
To(kind) == IF kind = "interrupt" THEN "interrupted" ELSE "running"

(* control: the row is read and its status tested.                         *)
Controls(r, kind, t) ==
    /\ At(r, "none", "new")
    /\ row[t] # "none"
    /\ req' = [req EXCEPT ![r] = [kind |-> kind, token |-> "none", task |-> t,
                                  at |-> IF row[t] = From(kind) THEN "call" ELSE "over"]]
    /\ UNCHANGED <<asked, taskIds, row, engine, state, control, answers, torn, expired, promised>>

(* Handlers of a task that are between the engine and the database.         *)
Between(t) == {r \in Requests : req[r].task = t /\ req[r].at \in {"flag", "write"}}

(* Its execution id is looked up, and the engine tests and sets its own     *)
(* status: it refuses the second of two requests.                          *)
Calls(r) ==
    LET t == req[r].task IN
    /\ req[r].kind \in {"interrupt", "resume"} /\ req[r].at = "call"
    /\ IF t \in state /\ engine[t] = From(req[r].kind)
       THEN /\ engine' = [engine EXCEPT ![t] = To(req[r].kind)]
            /\ torn' = IF Between(t) # {} THEN torn \cup {t} ELSE torn
            /\ Goes(r, "flag")
       ELSE Stops(r) /\ UNCHANGED <<engine, torn>>
    /\ UNCHANGED <<asked, taskIds, row, state, control, answers, expired, promised>>

\* Mutant: the stop command is left when the task is resumed.
FlagsOnce(r) ==
    /\ req[r].at = "flag"
    /\ control' = control \cup {req[r].task}
    /\ expired' = expired \ {req[r].task}
    /\ Goes(r, "write")
    /\ UNCHANGED <<asked, taskIds, row, engine, state, answers, torn, promised>>

(* task_control_set or task_control_clear.                                 *)
Flags(r) ==
    /\ req[r].at = "flag"
    /\ control' = IF req[r].kind = "interrupt" THEN control \cup {req[r].task}
                                               ELSE control \ {req[r].task}
    /\ expired' = expired \ {req[r].task}
    /\ Goes(r, "write")
    /\ UNCHANGED <<asked, taskIds, row, engine, state, answers, torn, promised>>

(* A stop command lasts a day in Redis, and the row says interrupted after. *)
FlagExpires(t) ==
    /\ t \in control
    /\ control' = control \ {t}
    /\ expired' = expired \cup {t}
    /\ UNCHANGED <<req, asked, taskIds, row, engine, state, answers, torn, promised>>

Writes(r) ==
    /\ req[r].at = "write"
    /\ row' = [row EXCEPT ![req[r].task] = To(req[r].kind)]
    /\ Stops(r)
    /\ UNCHANGED <<asked, taskIds, engine, state, control, answers, torn, expired, promised>>

-----------------------------------------------------------------------------
(* A call of Redis or of the database raises, or the client hangs up: the   *)
(* transaction is rolled back, the rest of what was done stays.            *)
Breaks(r) ==
    /\ req[r].kind # "none" /\ req[r].at # "over"
    /\ torn' = IF req[r].at \in {"flag", "write"} THEN torn \cup {req[r].task} ELSE torn
    /\ Stops(r)
    /\ UNCHANGED <<asked, taskIds, row, engine, state, control, answers, expired, promised>>

(* The API restarts: its engine is empty, and stays so for these tasks.     *)
Restart ==
    /\ taskIds > 0
    /\ req' = [r \in Requests |-> IF req[r].kind = "none" THEN req[r] ELSE [req[r] EXCEPT !.at = "over"]]
    /\ torn' = torn \cup {t \in Tasks : Between(t) # {}}
    /\ engine' = [t \in Tasks |-> "none"]
    /\ UNCHANGED <<asked, taskIds, row, state, control, answers, expired, promised>>

Next ==
    \/ MinutePasses \/ Restart
    \/ \E token \in Tokens : AnswerExpires(token)
    \/ \E t \in Tasks : FlagExpires(t)
    \/ \E r \in Requests :
          \/ \E token \in Tokens : Asks(r, token)
          \/ LooksUp(r) \/ Submits(r) \/ SetsState(r) \/ Commits(r) \/ Saves(r)
          \/ \E kind \in {"interrupt", "resume"}, t \in Tasks : Controls(r, kind, t)
          \/ Calls(r) \/ Flags(r) \/ Writes(r) \/ Breaks(r)

Spec == Init /\ [][Next]_vars

-----------------------------------------------------------------------------
Steps == {"new", "ask", "insert", "state", "commit", "save", "call", "flag", "write", "over"}

TypeOK ==
    /\ req \in [Requests -> [kind : {"none", "create", "interrupt", "resume"}, at : Steps,
                             token : Tokens \cup {"none"}, task : 0..MaxTasks]]
    /\ asked \in 0..Cardinality(Requests) /\ taskIds \in 0..MaxTasks
    /\ row \in [Tasks -> {"none", "running", "interrupted"}]
    /\ engine \in [Tasks -> {"none", "running", "interrupted"}]
    /\ state \cup control \cup torn \cup expired \subseteq Tasks
    /\ answers \in [Tokens -> 0..MaxTasks] /\ promised \in [Requests -> 0..MaxTasks]

(* Tasks the last control request of which left a stop command.             *)
Flagged == control \cup expired

(* The three places tell the same story of a task nobody is changing, unless *)
(* a handler of it failed half-way or overlapped one that was past the      *)
(* engine: the row is interrupted just when the stop command is there, or  *)
(* has run out since it was left, and the engine, if it has not been       *)
(* restarted, has stopped.                                                 *)
TasksAgree ==
    \A t \in Tasks \ torn :
        row[t] # "none" /\ Between(t) = {} =>
            /\ t \in state
            /\ row[t] = "interrupted" <=> t \in Flagged
            /\ engine[t] \in {"none", row[t]}

(* A request that comes when its token has an answer, and before this runs  *)
(* out, creates no second task: it gets that answer, or none.  This is what *)
(* the code keeps of the promise to check for repeated requests; two that   *)
(* come together, or one after a save that failed, create a task each.      *)
AnswersAreKept ==
    \A r \in Requests : promised[r] # 0 => req[r].task \in {0, promised[r]}

PlacesAgree == TasksAgree /\ AnswersAreKept
=============================================================================
