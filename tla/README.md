# Verification of zhixiao-agent in TLA+

Formal models of the zhixiao-agent platform (a control plane that queues coding
runs for workers, the agent that executes them, and the services and clients
around the two), the TLC configurations that check them and the proofs TLAPS
checks. Paths are relative to the repository; `ps` is
`apps/api/app/service/platform_service.py`, `wm` is `apps/worker/main.py`, `rt` is
`packages/agent_core/src/zhixiao_agent/runtime.py`, and `sc` is
`session_controller.py` beside it; other bare file names are in the package
`zhixiao_agent` too unless a path is given.

## The system

| Component | State it keeps | Operations | Makes it correct |
|---|---|---|---|
| Control plane (`ps`, `router/platform.py`) | MySQL: `task_runs`, `approvals`, `run_steps`, result rows | create, fork, ask, decide, interrupt, resume, apply a worker's result | a queued run has a job; an answered interrupt reaches the worker; a capability only with its approval; a result is projected once; a writing run succeeds only when verified |
| Job stream (`core/jobs.py`) | Redis stream `run:queue`, consumer group and pending list | XADD, XREADGROUP `>`, XACK | a job is taken once and in order, acknowledged only when its result is accepted |
| Worker (`wm`) | `run:result:{id}`, `run:events:{id}`, `run:control:{id}` | verify signature, reuse result, prepare, execute, stop, publish, call back, acknowledge | event, cache, callback and acknowledgement in that order |
| Agent state graph (`rt`) | `AgentState` in a LangGraph checkpoint, the worktree | intake … finalize, pause, resume, stop file | budget, approval first, no success without verification, termination |
| Workflow graphs (`workflow.py`, `rt` 890–1110) | the same state, routed by a user's graph | validation; configured nodes with retries, loops and approval gates | exactly the acyclic, reachable, deterministic graphs are accepted; every gate asks first; no success after a failed test |
| Local sessions (`sc`, `cli_state.py`) | manifests, checkpoints, stop files | execute, resume, fork, interrupt, delete, hooks | the manifest agrees with the checkpoint, hooks wait for the approval (but those around discover's listing), a stop request is heeded |
| Run events (`core/events.py`, `router/sse.py`, `useSSE.ts`, `remote.py`) | event streams and cursors | publish, trim, read after a cursor, reconnect | nothing skipped or repeated; the follow loop ends, also when a look at the run fails |
| Console run page (`TaskExec.vue`, `stores/task.ts`, the graph composable) | one store shared by all pages | load, subscribe, leave | the page shows its own run, and the status it has |
| TUI (`tui.py`) | the sessions of one terminal, a queued prompt | prompt, cancel, resume, fork, drain | one session at a time, a queued prompt is started |
| Multi-agent runtime and sub-agents (`metagpt_runtime.py`, `subagent.py`) | a message queue, roles' results, usage | role loop, nested run, verification | success within budget, no failed role, every check passed |
| Model client and conversation (`model.py`, `context_compact.py`) | a semaphore, a window of a minute, the messages | call, retry, fall back; compact | the rate limit; tool results belong to their calls; nothing said is lost or repeated |
| Tools, hooks, commands (`tools/*`, `hook_runtime.py`, `runner.py`) | files, processes | batches of calls, hooks around them, timeouts | effects in order and permitted; a result is final |
| Worktrees (`tools/git.py`) | branches and directories | create, manifest, remove | a run's worktree is its own |
| Plugins (`plugin.py`) | services, names, listeners | list, order, apply | loaded exactly when they can be composed |
| Retrieval (`rag/*`, `apps/api/app/service/knowledge_service.py`) | Chroma, Milvus, `index.jsonl`, knowledge rows | dual write, migrate, roll back; index, search; count usage | stores agree; an index is what the files say; usage is counted |
| Space data (`ps`, `onboarding_service.py`) | workflow versions, MCP servers, repositories, onboarding | create, publish, rename, delete, index, complete a step | one published version, sound keys, indexing ends |
| Legacy tasks (`task_service.py`, `engine/*`) | `tasks`, idempotency keys, the engine's memory | create, interrupt, resume | three places agree |
| Training registry (`training/registry.py`) | one JSON file | register, read | no model lost, versions without gaps |
| Accounts, statistics, observability, API plumbing | rows of their own | CRUD, aggregation | single transactions |

How they interact: an HTTP handler changes MySQL and then Redis; a worker takes
the job from Redis, runs the agent graph in its own process, publishes events and
the result to Redis and calls the API back over HTTP, whose handler changes MySQL
again. An operator's interrupt reaches a worker through a Redis flag, and a local
run through a stop file. Nothing spans MySQL and Redis atomically, no row is
locked, and no version is compared. Around this core, the clients (console, TUI,
`follow`) learn of a run only from its events and from rows they read now and
then, and each service keeps its state in one or two places of its own.

What is hard: handlers interleave between their read, their commit and their
Redis call; workers, API processes and local processes die between steps; a
callback is lost, or times out while its handler goes on; a run may have several
jobs; the agent's process dies after a tool ran and before its checkpoint; loops
of the graph share three counters and a status that later nodes overwrite; a
configured node retries in memory what its checkpoint knows nothing of; clients
reconnect, reload and leave while answers are outstanding; files are rewritten in
place or read, changed and replaced. `PROJECT.json` lists each of these at its
line, with the properties that cover it.

## Modules

| Module | Models |
|---|---|
| `JobDelivery` | abstract: at-most-once, first-in-first-out delivery of jobs, settled only when accepted |
| `RunLifecycle` | control plane, job stream and workers together; refines `JobDelivery` |
| `RunLifecycleProofs`, `RunSerialProofs` | theorems about `RunLifecycle`: what holds whatever interleaves, its refinement of `JobDelivery` at the end; what holds as long as handlers are kept apart |
| `AgentSession` | abstract: what one run of the agent may do next (a set-valued operator) |
| `AbstractRun` | `AgentSession` as a state machine |
| `AgentGraph` | one run of the agent's default state graph |
| `AgentRefinement` | the refinement mapping by which `AgentGraph` implements `AbstractRun` |
| `AgentGraphProofs` | theorems about `AgentGraph`, its refinement of `AbstractRun` included |
| `WorkflowGraph` | one run of a user's workflow; validation and routing of workflows |
| `WorkflowGraphProofs` | theorems about `WorkflowGraph` |
| `LocalSession` | processes that execute, fork, resume, stop and delete runs of one state directory; what the graph does is `AgentSession` |
| `LocalSessionProofs` | theorems about `LocalSession` |
| `RunStream` | a run's event stream, its SSE connections, the console and `follow` |
| `RunStories`, `RunPage` | what may become of a run as events and rows; the console's page of a run |
| `Terminal` | the sessions of one TUI |
| `AgentTeam` | a MetaGPT team: message queue, roles, sub-agent, verification |
| `ModelCalls`, `Conversation` | the shared model client; the messages sent to a model |
| `ToolCalls`, `Commands` | the tool calls of one turn; one external command and its processes |
| `Worktrees` | git worktrees of runs |
| `Plugins` | composition of a local runtime |
| `VectorStores`, `WorkspaceIndex`, `Knowledge` | dual vector stores and migration; the index file; knowledge items |
| `SpaceCatalog` | workflow versions, MCP servers, repository index, onboarding |
| `LegacyTasks` | the deprecated task service |
| `ModelRegistry` | the registry of trained models |
| `AgentServices`, `AgentServicesProofs` | the teams, terminals, commands, tool calls, legacy tasks, worktrees, model clients and conversations beside each other, one moving at a time; theorems about each and all |
| `DataServices`, `DataServicesProofs` | the same for knowledge items, space data, vector stores, workspace index, model registry, plugins and a run's event stream |
| `PageServices`, `RunPageProofs` | the same for the console's pages of runs |
| `MCRunLifecycle`, `MCAgentGraph`, `MCWorkflowGraph`, `MCLocalSession`, `MCServices` | constants and constraints of the runs |

`PROJECT.json` maps each definition to the lines it models. An operator whose
comment begins with "Mutant:" is no part of the model: it is a definition changed
the way a bug would change it, kept to show that a property notices.

### RunLifecycle and the code

State: `run`, `approvals` and `projections` are MySQL (a `verdict` other than
`"none"` is `verification.callback_applied`; `projections` counts the times the
result rows were added); `queue`, `delivered` and `pending` are the stream, the
group's last-delivered entry and its pending list; `cache`, `control` and `ended`
are the result hash, the stop flag and the `task_end` event; `req` holds the API
handlers in progress with the row each has read, `wk` the workers.

A handler is split where another process can get in between: after its read, after
its commit and around each Redis call. `ask` and `decide` read, then commit;
`approve` and `resume` then XADD; `interrupt` raises the flag after the commit and
`resume` deletes it after its own. `Flush` is SQLAlchemy's unit of work: only
columns that differ from the value read are written, which is what makes a stale
handler harmful or harmless. `fork_run` has the same shape as `create_run` and is
the same action. A worker step is one Redis command, one HTTP call or one turn of
its poll loop.

A handler may end at each of these points without going on. `ApiCrash` is the
process that dies; `CallRaises` is any call that raises and that nobody catches: a
commit (rolled back), the SET or DELETE of the stop flag (which Redis may have obeyed
all the same, `FlagAfterCall`), or the reads that `_enqueue_run` makes before its `try`
(`ps` 902–934). What was committed before stays. `broken` is history: what such a
handler had committed to and left undone, the job of a queued run or the stop flag of an
interrupted one. An XADD that raises is something else (`EnqueueError`): the code
catches it and makes the run failed.

Simplifications: the read of the last approved approval and the XADD after it are
one step, though a decision could be committed between the two; the commit of
`execution_id` after XADD (`ps` 1046) is left out, because nothing reads it; a
stop flag does not expire and the stream is not trimmed; the status `running` is
left out, because no code path of this repository sets it on a task run. An
operator asks only for what the handler would accept, so rejected requests are not
steps.

### AgentGraph, AgentSession and the code

`s` is the `AgentState` saved after each node, `node` the node that is next,
`phase` whether a process is running the graph, `answer` the value `resume`
brought, `stop` the stop file. What a process spends in a node is in the checkpoint only
when the node completes: `CrashInPlan`, `CrashInBatch` and `CrashInVerify` are the nodes that
call the model, the tools and the tests and do not, and the history variables `spent` and
`deaths` count what really ran and how many processes died so. `dirty`, `touched` and `lost` are history
variables: whether files changed since tests last passed, whether the source
workspace was changed although isolation is wanted, and whether a change was made
in a node that never completed. Each node is one action (`intake` and `discover`
are one, since nothing branches between them); the conditional edges are
`AfterExecute` and `AfterVerify`, and the edges out of `plan` and `awaiting` are
the successors in their actions. What the model answers and the tools do is a free
choice of a kind (no call, reading calls, a batch with a writing call) and a number.

Simplifications: a checkpoint is complete after each node (with LangGraph's
asynchronous durability one more node could be lost); the token, cost and duration
budgets are one flag that may be raised at any time; that the same call three times,
or the same root cause three times, is a loop is a free choice once three calls were
made. The branches for an `interrupted` status in `execute`, `after_execute` and
`finalize` cannot be reached in the default graph and are left out.

`AgentSession!SessionSteps` is what a caller may rely on: a run plans, asks, works,
pauses for a stop file or uses an answer up, and ends for good. `AgentRefinement`
maps the graph's nodes to these stages (`StageOf`), and `AgentRun` checks that every
step of the graph is one of them. `LocalSession` then uses the same operator in the
place of the graph, so what is shown of local sessions is about a run the graph
really is.

### WorkflowGraph and the code

A configured node is one superstep of LangGraph: `m` is what it holds in memory
(`current`, `updated`, the attempt, and `raised` for `last_error`), and only
`NodeFinishes` writes the checkpoint `s`. One step of the model is one call of the
role's handler; `HandlerReturns` decides between the tool loop (`rt` 1010–1018), the
next attempt and the end of the node, and `HandlerRaises` is the `except Exception`
that every failure of an attempt meets, the interrupt of a stop file included.
`Sorted`, `Reached`, `Deterministic` and `NoSelfCycle` are `validate_graph`, written
as it computes (counts that are used up, a frontier) and compared with a reference
over paths. History: `dirty`, `tested`, `spent`, `discarded` and `finished` record
what really happened, also where the state forgets it. The approval of a plan, the
budget, the tools and verification are those of `AgentGraph`, reduced to what the
routing and the gates depend on: node positions decide which gate asks first.

### LocalSession and the code

`manifest[r]` is the status in `runs/<id>.json`, `graph[r]` the checkpoint's stage
and outcome, `stop[r]` the stop file, `proc[p]` what process p holds in memory
(the run, whether it resumed it, the answer, the status to be saved). A process goes
through `before` (lifecycle hooks), `graph`, `after` (hooks again) and `save`, and
can be cancelled, raise, fail to build its runtime, or die in each; `mark` is an
interrupt between its stop file and its manifest. `Status` is
`_pending_interrupt_state`. `gated`/`asks` are the run's permission and approval policy, `granted`, `hooked`, `tooled`, `vouched` and `abandoned` history. `ToolHooks` is a
node that calls a tool through `HookedToolRegistry`, with the hooks before and after it:
`discover` lists the directory so while the run is planning, before any approval (`rt` 282,
`hook_runtime.py` 231), `execute` and `verify` do while it is working; `tooled` records at
which stages that happened. One assumption on
the operator is in the guard of `Resume`: nobody resumes a run that some process is
executing (`resume_local` does not test it, `sc` 354; two processes on one
checkpoint are out of scope and the hazard says so).

### The services and the code

Each of these modules follows one component and says in its header what it stands
for; here is what the steps are split at and what is left out.

- `RunStream`: the worker's publication, the API's, XTRIM at `MaxLen`, the server's
  read of a batch after a cursor, delivery of one event, a broken connection,
  reconnection with the last id and its retry limit. `follow` returns on `task_end`
  once the row can be read as finished. Its look at the run may fail after the event's id
  was kept (`LookFails`, `remote.py` 235–240): it then connects again after that event. Not here: the SSE wire format, and
  `follow`'s `wait_timeout`, which is looked at only when it (re)connects.
- `RunPage`: loads are answered in any order, also after the page was left; the
  store keeps the last `Kept` events (500 in the code). `RunStories` lists runs from
  start to end as `wm` and `ps` publish and commit them: of the default graph, of
  workflows and of teams, whose nodes begin, are retried and finish by role and id. `Graph`
  is the fold by which the page derives the stages of a run from its events; `StageOf`
  is how a role or a node's id stands for a stage of the default graph, and `NodeOf` prefers
  the role (`executionGraph.ts` 107–137).
- `Terminal`: a worker task starts, learns its run id, is cancelled and later
  arrives at its `finally`; the drain is a callback of its own. `held` marks a prompt
  that came between a cancellation and its arrival.
- `AgentTeam`: a round lets every role with unread messages it watches act; acting
  is a loop of model turns with calls, one of which may be a sub-agent, if the
  role's tools have it (`Delegable`); the sub-agent keeps turns of its own.
- `VectorStores`: a write is sent to both stores, each answers by itself; a
  migration reads a batch by offset, writes it, retries it record by record.
  `doubtful` are records a write was degraded or overtaken for, `quiet` is no write
  during the migration.
- `WorkspaceIndex`: texts are short sequences of characters cut into chunks by the
  code's arithmetic (size, overlap, dropped blanks); the index is rewritten file by
  file while another process reads it.
- `Knowledge`: transactions with row locks; the count is an increment in SQL.
- `LegacyTasks`: a step is one call of Redis, of the database or of the engine; a
  task whose handler died half-way, or which two handlers changed past the engine, is
  `torn`. Stop commands and saved answers last a day in Redis and then are gone
  (`FlagExpires`, `AnswerExpires`); `expired` and `promised` are history: which stop
  commands ran out, and which answer was saved when a request looked.
- `Worktrees`: one git command a step; branch names cut to 64 characters (`Cut`
  makes two ids share one), directories and branches left behind.
- `SpaceCatalog`: read, decide, commit, with the unique keys of the schema.
- `ModelRegistry`: load, open the temporary file, write, replace; a crash anywhere.
- `Commands`: the leader, a child in its group, one in a session of its own, one
  that let go of the pipes; what each runner can kill and what it waits for.
- `ToolCalls`: hooks before and after, the registry's refusal, the thread that
  reads the file and then writes it (nobody can cancel it), the gather of a batch
  that only reads.
- `ModelCalls`: one request is followed; all others are counts (requests by age,
  sleepers by time left, sends under way). A tick is a unit of the minute, the profile
  is chosen in `Init`.
- `Conversation`: a message is its role and the number of a call; `said` numbers
  what was said, so that loss, repetition and order can be seen.
- `Plugins`: listing, trust, the applied order by fixpoint, names and services. A
  listing is what is built in or the user's own and, apart, what the workspace
  adds, as `load_plugin_tree` collects them before trust decides.
- `AgentServices` and `DataServices` add nothing to their parts: `AgentStep(p)` is a
  step of part p and leaves the other parts alone.

## Runs

| Run | Instance | Shows |
|---|---|---|
| `RunSerial` | 1 run with full permission, 1 worker, **one** handler at a time, 2 jobs, 3 approvals, one capability; API and worker crashes, calls that raise, lost callbacks, failed XADD, expired jobs (578 464 states) | `QueuedHasJob`, `InterruptReachesWorker`, `CapabilityWasApproved`, `ProjectedOnce`, `WriteSuccessIsVerified`, and under fairness `EveryJobIsDelivered` |
| `RunConcurrent` | 1 run, 2 workers, 2 handlers, 2 jobs, a repository to clone; API crashes, lost callbacks (964 thousand states up to a permutation of workers and handlers) | `TypeOK`, `AckImpliesApplied`, `AppliedHasEvidence`, refinement of `JobDelivery` |
| `RunResume` | 1 worker, 1 handler, no fault | **violates** `ResumedRunEnds` |
| `RunCallbacks` | 2 workers, 2 handlers, no fault | **violates** `ProjectedOnce` |
| `RunPending` | 1 worker, lost callbacks | **violates** `PendingIsRedelivered` |
| `AgentRun` | 5 turns, 4 calls, batches of 2, 2 iterations, 1 repair round, all faults, 1 process that dies inside a node (467 376 states) | `TypeOK`, `WithinBudget`, `SuccessIsVerified`, `ActsOnlyWhenApproved`, `FailureIsFinal`, refinement of `AbstractRun`, and under fairness `RunComesToRest` |
| `AgentIsolation` | worktree refused | **violates** `SourceIsIsolated` |
| `AgentCrash` | process crashes | **violates** `EveryChangeIsVerified` |
| `Workflow` | every graph of up to three edges over three nodes, and nine workflows with roles, gates, retries and denied tools; 3 turns, 2 iterations, all faults | `TypeOK`, `ValidationIsExact`, `GatesComeFirst`, `NoSuccessAfterFailedTest`, and under fairness `WorkflowComesToRest` |
| `Local` | a run and its fork, 2 processes, crashes and cancellations (1.8 million states) | `TypeOK`, `ManifestIsTruthful`, `HooksInOrder`, `StopPausesUnlessResumed` |
| `CommandTimeout` | every kind of command, runner and process tree | **violates** `TimeoutEndsTree` |
| `Services` | each part listed below by itself (515 209 states) | `TypeOK`, one property per component, and under fairness `FollowEnds` |

Deadlock is not checked: every system here may stop (all jobs done, operators
silent, bounds reached, the graph at its end).

`MCServices` checks the parts that share no state with the run lifecycle but its
events and rows: those of `AgentServices`, `DataServices` and
`PageServices`. `focus` names the part a behaviour is about; only that part moves, the others stay in one initial state. Parts of one family are conjuncts of one
property:

| Property | Parts and their instances |
|---|---|
| `NothingSkipped`, `FollowEnds` | `RunStream`: 4 events, stream of 2, reads of 2, 1 retry, links and looks at the run that fail. What was trimmed before it was read is the only thing a reader may miss |
| `TerminalKeepsOrder` | `Terminal`: 3 sessions |
| `SuccessIsEarned` | `AgentTeam`: 2 roles, 2 rounds, 2 turns, 2 turns of a sub-agent |
| `StoresAgree` | `VectorStores` with 2 records and either one write or two of the same record (`WritesAreFew`), batches of 1; `WorkspaceIndex`: one file with three texts (two chunks, a blank chunk, none), size 2, overlap 1, 1 edit, 2 builds |
| `PlacesAgree` | `LegacyTasks`: 3 requests, 1 token, 2 tasks, limit 2; `Worktrees`: 3 runs, two of which share a cut branch name, 2 commits |
| `CatalogKeepsOrder` | `SpaceCatalog`: 2 members, 2 names, 2 steps, 4 requests; `Knowledge`: 2 items in 2 spaces, 2 handlers, 2 requests; `ModelRegistry`: 3 writers, 2 names |
| `PageIsHonest` | `RunPage`: eight stories told out with one visit (five of the default graph, two of a workflow, one of a team), one story with two visits (a run that dies, another that waits), 6 events kept |
| `ResultIsFinal` | `Commands`: every kind of command, runner and process tree; `ToolCalls`: three batches under every setting of permission, trust and hooks |
| `RateIsBounded` | `ModelCalls` with profiles of 2 and of 1 concurrent request, 2 per minute of 3 ticks |
| `ConversationIsSound` | `Conversation`: keeps 2, 4 turns, 2 calls |
| `ComposedByNeed` | `Plugins`: 2 built in, any of 4 of a user and any of 3 of a workspace, in every order |

Bounds and why they are enough. Two jobs of one run are the least for every
interaction of jobs of the same run (cached result, stale flag, second callback),
two workers the least for two jobs at once, three approvals the least for a start and a
capability that is asked for twice and decided differently (hence the last-approved
rule). `RunSerial` has one worker: with every fault two make it too large, its
properties relate handlers to one run's job, and a job that is left (a crash, a lost
callback) and one that is taken after it meet with one worker too; `RunConcurrent` has two, and
the theorems any number. `RunConcurrent` declares the workers and the handlers symmetric:
each runs one program, no action or invariant tells them apart, and the run checks
safety only. No run has a gated workflow; the theorems do. One run is enough because all state is
keyed by run except the stream, whose order `JobDelivery` states per entry; the
proved theorems hold for any number. In `AgentRun` two iterations and one repair
round pass each counter's limit, four calls in batches of two reach the budget both
exactly and by overshooting, and five turns let a run spend its turns in a second
round; one process that dies inside a node is enough to spend beyond the budget as far as
`WithinBudget` allows. `MCConfigs` has read-only, edit and full runs: asking or not, isolated or
not, with and without a test command, the test tool and a waiver. Three nodes are
the least for a workflow that branches, detours or chains two gates; the graphs
whose routing alone matters are enumerated completely. `Local` constrains
its state space to one of the two runs moving at a time (`OneAtATime`,
`ParentFirst`); its theorems hold without the constraint. In `Services` each bound
is one more than what is handled at once (a stream longer than its limit, a request
beyond the limit, a record beyond the batch, a writer beyond the pair that races).

What a property leaves open, because the code leaves it open:

- `CatalogKeepsOrder` promises one published version unless two publishes
  overlapped, and that no registered model is lost unless writers overlapped.
- `QueuedHasJob` excepts a run whose handler broke off between its commit and its
  XADD, `InterruptReachesWorker` one whose handler broke off before the stop flag was
  written: the code repairs neither. They show that nothing else loses a job or a flag.
- `WithinBudget` bounds what is recorded by the budget, and what really ran by the budget
  and one turn and one batch for each process that died inside a node: the counters of such
  a node are lost with it. No budget counts the tests of a verification.
- `HooksInOrder` lets the tool hooks of `discover`'s listing run before the approval.
- `FollowEnds` excepts a follower whose look at the run failed after the very last
  event: it waits on a stream that has nothing more until its link ends.
- `ResultIsFinal` claims only what the kill of each runner reaches (see `CommandTimeout`).
- `PlacesAgree` says nothing of a `torn` legacy task, lets a stop command run out after a day
  while the row stays interrupted, and of the check for repeated requests that the
  service's docstring promises (`task_service.py` 4) claims only that a request which comes
  when its token has an answer makes no second task: two that come together, or one
  after a save that failed, do make two; `StoresAgree` nothing of a
  `doubtful` record, and accounts for a migration only when it was `quiet`.
- `RateIsBounded` allows as many late requests in one instant as may be in flight:
  a client that slept for the window sends without looking again.
- `WorkflowComesToRest` allows the loop of `rt` 1014 to spin on a failed state with
  tool calls until a stop file comes.
- `PageIsHonest` lets a page be behind while a load was overtaken or led astray. Its graph
  shows of each stage what the last event about it left, whatever the run did: a
  workflow's failed node stays failed in a run that succeeded, and a `reviewer` node moves
  `finalize` before the run has finished, as in the code.
- `SuccessIsEarned` judges the roles that have a result: one that never acted is not
  among them, in the code as in the property.
- `NothingSkipped` is modulo truncation.

What needs handlers of one run kept apart (`RunSerialProofs` says which). With two
handlers `CapabilityWasApproved` and `ProjectedOnce` are false: an approval and a rejection that
both read the approval as pending both commit, and the second overwrites the first
after the job of the first was queued. `RunSerial` shows that one handler at a time
(a single API process that does not interleave requests on a run) keeps them;
`RunCallbacks` is the counterexample for results. The approve/reject race is the
same missing lock and is recorded as a hazard (`ps` 787); that a decision is never changed is
not claimed: with one handler it is the guard there, with two it is false.

Fairness. `RunLifecycle`: weak fairness for each handler (the server runs each to
its end) and for each worker (it polls every half second; a run is bounded by its
duration budget), strong fairness for a worker's post among busy handlers (its
request waits in the server's queue). `AgentGraph` and `WorkflowGraph`: weak fairness
for the graph while its process lives (the event loop goes on); none for resumption.
`RunStream`: weak fairness for the publication of what has happened and for the client's
own loop. No fairness anywhere for operators, crashes or losses. `Local` and the
other parts of `Services` are checked for safety only.

## Findings

Each is the trace of a violation run; `PROJECT.json` quotes the line it contradicts.

1. **A resumed run may never end** (`RunResume`). Interrupting a run whose worker
   stops posts an `interrupted` result; resuming it adds a job, which the worker
   answers from `run:result:{id}`, which the API ignores because a result was already
   applied. The run stays `queued`. Nothing deletes the cached result or clears
   `callback_applied`. A capability approved after success meets the same end, and so
   does a run interrupted while the callback is under way.
2. **A result may be projected twice** (`RunCallbacks`): no lock between the test of
   `callback_applied` and the commit.
3. **A pending entry is never retried** (`RunPending`): `serve` reads `>` only.
4. **A command's timeout does not end its process tree** (`CommandTimeout`): of a Docker
   command only the client is killed and the container goes on; a group whose leader was
   already reaped is left alone (`runner.py` 92).
5. **A refused worktree does not stop the run** (`AgentIsolation`): verification
   resets the failed status, and a repair round edits the source workspace. The run
   still ends as failed (`FailureIsFinal`).
6. **A crash can hide a change from verification** (`AgentCrash`).

Met while reading; most are what a history variable or an exception in a property
stands for, none has a run of its own:

- Control plane: `TaskRun.can_transition` (`apps/api/app/model/platform.py` 71) is
  tested, but no handler calls it. Two publishes that overlap leave two published
  versions. The unique key of MCP servers (space, name) ignores soft deletion: a
  deleted name cannot be used again, and the commit raises. A workflow node that requires
  approval leaves the run awaiting an approval that has no row to decide (`ps` 1063), though
  `docs/API.md` 76 has the client read the approvals and submit one's id. Resuming a
  run that awaits its start approval queues an `execute_task` job without any. A repository's indexing
  status stays as it was after a crash. `index_repository` publishes under
  `run:events:<id>` with the repository's id, the namespace of runs (`ps` 191, 210).
- Graph: a stop file written between a resumption and the node's re-execution is
  removed unheeded (`rt` 1304, docstring "Pause on a cooperative stop file").
- Workflows: the `except Exception` of a configured node (`rt` 1019) takes the
  interrupt of a stop file for a failure; an attempt that raised forgets the usage
  and the changes it made; a node that succeeded when retried counts as failed, since
  `last_error` is kept; a run without a tester succeeds with verification skipped; a
  planner whose plan needs approval ends the run as awaiting without a pause. The
  starter workflow of the console (`apps/web/src/views/Workflow/WorkflowStudio.vue`
  143) puts the planner before the explorer, so that the plan fails on the missing
  project context.
- Local sessions: `execute_local` runs the after-hooks of a run the operator stopped
  (`sc` 314), `resume_local` does not; `resume_local` has no clause for a
  cancellation; an interrupt of a paused run leaves a stop file that stops the next
  resumption; `zhixiao resume` approves unless told otherwise; `--deny` of a stopped
  run continues it without hooks; a fork inherits the approved operations; a runtime
  that cannot be built leaves its manifest pending.
- TUI: a prompt queued between a cancellation and its arrival waits for a later
  session's end; a second queued prompt replaces the first; `_drain_queue` does not
  look whether a session is running, and cancels one started just before.
- Console: the status is taken from `run` and `task_end` events only
  (`stores/task.ts` 85), so a run that the API's gate fails is shown as succeeded
  until it is read again; a row read between `task_end` and the commit puts the old
  status back; a page left while it loads subscribes afterwards and is not
  cancelled; a load that failed never subscribes.
- `follow`: an event's id is kept before the look at the run that the event causes
  (`remote.py` 235, 240), so that a failed look is not repeated; its `wait_timeout` is looked
  at only when it (re)connects, which heartbeats put off for good, and a resumed
  run that stays queued keeps it waiting.
- Teams: roles that all watch something other than the user never act and the run
  succeeds (`metagpt_runtime.py` 380); a role that failed and then succeeded counts as
  success; a sub-agent's turns are not counted and its error is reported as a
  success; an exception of the tests escapes the verification.
- Tools: an after-hook that fails reports an error though the tool has run; a file
  tool's thread writes after its run was cancelled; a write that fails leaves the
  file empty.
- Commands: a command whose leader ends while a child keeps its pipes is waited for
  past its timeout (`runner.py` 76, 92; `docs/SECURITY.md` 16 promises a timeout that
  ends the process tree); a cancelled hook,
  git or MCP call leaves its process; background jobs are not reaped.
- Model: sleepers may exceed the requests per minute (`model.py` 88); a Retry-After is
  used again after a later network error (`model.py` 133). The prompt of a team's role
  is not protected from compaction.
- Stores: the batches of a migration are offsets, so deletions make it skip records;
  it overwrites newer dual writes; a rollback deletes records written after it began.
  `index.jsonl` is rewritten in place: a search meanwhile fails or degrades, and after
  a crash until the next build. `FileModelRegistry.register` loses a concurrent
  registration or fails on the shared temporary file. Soft-deleted knowledge items are
  still found, and a quality of 0 reads as 0.5 (`knowledge_service.py` 128).
- Legacy tasks: a handler that fails between the engine and the commit leaves the two
  at odds for good; two creations with one token make two tasks; a restart empties the
  engine.
- Worktrees: run ids are cut to 64 characters in branch names (`tools/git.py` 134); a
  branch left behind is checked out as it is, while the manifest names the source's
  head (`tools/git.py` 187); nothing removes worktrees.
- Plugins: no plugin provides `prompt`; skipped plugins are reported before anybody
  listens (`plugin.py` 302); a markdown command of a workspace can make a user's plugin
  of the same name fail the whole composition.

## Proofs

All theorems hold for every value of the constants that satisfies the named
assumptions (`RunsAssumption`, `PermissionAssumption`, `OperationAssumption`,
`BoundAssumption`, `ResultsAssumption`; `ConfigAssumption`, `LimitAssumption`,
`FaultAssumption`; for workflows `NodesAssumption` and `StartAssumption` as well;
`LocalSession` needs none; for the services `TasksAssumption`, `BranchesAssumption`,
`CallsAssumption`, `ProfilesAssumption`, `TalkAssumption`, `VectorsAssumption`,
`PluginsAssumption`, `IndexAssumption`, `StreamAssumption` and `StoriesAssumption`), and
TLC evaluates those assumptions in every run. They are types (ids are numbers, a batch is
a sequence of calls, a listing a sequence of plugins, a text a sequence of characters), or what the code itself sees to: `_chunk_text` raises unless the size is
positive and the overlap smaller (`workspace_index.py` 121), a migration unless its
batch is positive (`vector.py` 140, 231), compaction unless it keeps something
(`context_compact.py` 48), and a branch has a name (`tools/git.py` 134). One is a
condition of use: a profile allows at least one request per minute
(`requests_per_minute`, 60 unless configured); with none `_throttle` would look up the
first entry of an empty list (`model.py` 88). `StoriesAssumption`
says that what becomes of a run is a sequence of at least one step, in any order.

- `RunLifecycleProofs!TypeCorrect`: `Spec => [](TypeOK /\ Linked)`. `TypeOK` alone is
  not inductive: the answer of a callback handler moves the worker that awaits it, and
  that worker keeps a well-typed entry only because it is the handler's own.
  `Linked` says so: a handler with a worker is in `apply`, on that worker's run, the
  worker awaits it, and no other handler has it.
- `RunLifecycleProofs!AcknowledgedIsApplied` and `AppliedIsEvident`: the invariant
  `Evidence` records what each process knows: `task_end` exists once a worker is at
  `store`, the cache once it is at `post` or a handler at `apply`, the verdict once it
  is at `clear` or `ack`. The key lemma, `Monotone`, is that no step takes evidence
  back; its delicate case is a stale handler's flush, which never rewrites a verdict it
  has not changed.
- `AgentGraphProofs`: one inductive invariant, `IInv`, for all five theorems. That `WithinBudget`
  holds of what really ran and not of the checkpoint only is because every step that
  spends either completes its node, and records as much, or counts a death. Besides
  the properties it has `RoundLeft` (at `repair` a round is left, so the count stays
  within `MaxRepairs`), `Judged` (what `finalize` may conclude from the verdict and the
  history), `Unapproved` (a run that asks has changed nothing before its approval and
  is then at a node before `prepare_workspace`) and `Doomed` (a doomed state has not
  succeeded). `FailureStays` is the action property from the same invariant.
- `AgentGraphProofs!GraphIsSession`: `Spec => ImplementsSession`, every run of
  the graph is an abstract session. The images of two states are compared as records,
  field by field. One lemma per stage says what a step of the session is
  (`PlanningSteps`, `AskingSteps`, `PauseSteps`, `WorkingSteps`); nodes that heed the
  stop file and nodes that pass it on are told apart (the latter stutter while a stop is
  outstanding); deaths, stops and resumptions have a lemma each. Type correctness is
  the only invariant it needs.
- `WorkflowGraphProofs`: `IInv` is `TypeOK`, `GatesComeFirst`, `NoSuccessAfterFailedTest`
  and what makes them inductive: `MemoryIsClean` (a run holds a state in memory only in a
  configured node, and that state has the approvals of the checkpoint and has not
  succeeded), `GatesPassed` (beyond the gate everything gated is approved, before it
  nothing is spent) and `FailureIsKnown` (a failed verification is the outcome of
  whichever state the node will go on with, until a result is thrown away). What a
  handler does around the state it returns is `Around`; whether the node then loops,
  tries again or completes is settled once, in `ReturnMoves`, `AttemptMoves` and
  `RaiseMoves`, for all handlers. That a first gated node exists (`PendingType`) is the
  well-foundedness of the positions.
- `WorkflowGraphProofs!ValidationHolds`: the topological sort and the reachability
  search of `validate_graph` are recursive functions over the states of their loops.
  `LoopExists` shows that such a function exists once a number of its state gets
  smaller each turn, `LoopFinds` that an invariant of the loop (`SortKeeps`: the count of
  a node is the number of its edges from nodes not visited yet, and nodes are visited
  once, after their predecessors) holds of what it returns. A `Path` leads exactly to the
  nodes that are in every closed set (`PathFollows`, `FollowsPath`: sets of nodes at
  most k edges away grow until one is closed). The last conjunct needs the execution
  too: `FinishedFollow`, the current node follows every node that finished, so that a
  second completion would close a cycle.
- `LocalSessionProofs`: `IInv` is `TypeOK`, `ManifestIsTruthful`, `HooksInOrder` and
  what makes them inductive: `AllGrounded` (what a process will write as the status is
  what the checkpoint it executes supports), `Alone` (no two processes execute one run,
  from the guard of `Resume`), `Fresh` (a run nobody created has left no trace) and
  `Sound` (hooks, approvals and outcomes fit). `TypeOK` alone is not inductive: `Save`
  writes the process's status, and `Grounded` says there is one. `StopIsHeeded` is an
  action property from `StopStep`.
- `RunLifecycleProofs!DeliveryIsImplemented`: `Spec => ImplementsJobDelivery`. Every step
  does one of four things to the stream (`Moves`): nothing, a job is added, a worker
  takes one, a worker lets go of its own. `Held` says that a job in a worker's hands is
  pending and is in no other worker's, `Taken` that a result is cached only for a run
  of which a job was taken; with `Evidence` they make each of these a step of the
  delivery.

- `RunSerialProofs`: what the invariants of `RunSerial` need. No handler locks the
  rows it reads, so the code does not keep two handlers of one run apart, and without
  that some of them are false (`RunCallbacks` has one counterexample). Each theorem
  therefore says how much apart is enough, for any number of runs, workers, jobs and
  approvals and with all other interleavings and faults: `CallbacksApart` (no run has
  two callbacks in progress) for `ProjectedOnce` and `WriteSuccessIsVerified`;
  `DecisionsApart` (no approval is decided by two handlers at once) for
  `CapabilityWasApproved`; `OneHandlerPerRun` for `InterruptReachesWorker`. `QueuedHasJob`
  needs no handler kept apart. Crashes and calls that raise are in all of them. The instance of `RunSerial`, one handler
  in all, satisfies the strongest of the three (`OneHandlerIsSerial`, `SerialIsApart`).
  The invariants: `Fresh` and `Counted` (a callback's handler knows whether there is
  a result; results were added as often as the row shows one), `Decided` (an approval
  is as its handler takes it to be), `Known` and `Current` (what a handler read is so
  when it commits, and what it committed is there when it adds its job), `Flagged`
  (an interrupted run has its flag from the moment its handler has set it).
- `AgentServicesProofs`. A team: `TeamJudged`, the judgement is passed once, on usage
  and results that no later step touches. A terminal: `OnlyLastWorks`, only the worker
  started last is at work. A command: what is known of its processes before it is over.
  Legacy tasks: `HandlerIsAlone`, at most one handler of an untorn task is past the
  engine, `TaskIsKnown`, and `PromisesKeep`, a request has no other task than its token's
  answer says. Worktrees: `TreeIsItsRuns` and `TreeLearnt`, a worktree is
  on its run's branch and git gives no branch to two. Tool calls: `OneByOne`,
  `CallKnows` and `EffectsInOrder`. At the end `AgentStepsAreParts` lifts each to the
  composition.
- `ModelsKeepRate`, in the same module: a sum over a window is a recursive function of
  sets (`SumExists`), whose entries can be added in any order (`BelowFacts`). `RateKeeps`:
  who is let in holds a place, so the sleepers, the late of one instant and the calls
  under way are within the semaphore; with one place a sleeper is alone, and `Delay`
  ticks from now enough of the window will have aged out, which the invariant says
  for every remaining time of its sleep (`TickKeeps`: one tick less to sleep, one entry
  less in the window).
- `ConversationsAreSound`, in the same module: `Held`, a flattening, is a recursive
  function of positions (`JoinedExists`) and holds for two parts what each holds
  (`HeldConcat`). `TalkKeeps`: leading messages, then at most one summary, then whole
  turns (`Whole`: every result has its asker and every asker its results), and what is
  held is 1 to `said`. The key is that a cut falls between whole turns, because it walks
  back over tool results.
- `DataServicesProofs`. Knowledge items: `ItemTypes` with the property itself. Space
  data: what a request has read still holds when it commits, by the unique keys.
  Registry: a writer's copy is the file it read, until another overlaps it. Vector
  stores: what each write under way will leave in each store, and how far the copy is:
  `Rank`, the place of an id among those held, makes the pages of the migration exact.
  Plugins: `AppliedInTurn`, `Placed`, `Fitting` and `StillMissing` say what a round has
  settled, and `Defect` why a composition fails. Workspace index: `BuildKnows` (what a
  build has read, written and yet to write holds each word of the files and nothing
  else), `WholeIsDone` and `SearchKnows` (a search no rebuild wrote into has the hits
  of the lines it has read). The event stream: `LogIsNumbered`, the stream holds the
  last of its entries without a gap, so that a read is an interval of it
  (`AfterIsNext`), and `LinkIsSound`, what is on its way to a client is what lies
  between it and the generator, in order.
  Two places are inductions over data and are done without the library's induction
  theorems: `RankIsOnto` by the pigeonhole principle, and `ChunksAreFaithful`, that the
  recursive `Chunks` exists and covers every text, from the largest counterexample
  (`LargestExists`), a descent to which `WindowMoves` has the step.
- `RunPageProofs!PagesAreHonest`: first the graph. The fold that draws it is a recursive
  function of sets of positions (`DrawingsExist`); `GraphFits` says of each stage, after the
  first k events, what the last of them about it left and what those drawn since have made of
  that (`DrawSets`: who was active is succeeded, and a good end settles all). It needs nothing of
  the story or of the events that were dropped. Then the page: `PageKeeps` has,
  unless something of an earlier page was outstanding (`astray`), that all that is under
  way is of the last visit (`OfVisit`), that the store is a gapless window of that run's
  events (`Viewed`), and where the status shown comes from (`Knows`): the row read last
  or the last event that carried one, whichever is newer.
- Each bundle of `MCServices` is one theorem of the composition: `AgentsEarnSuccess`,
  `TerminalsKeepOrder`, `ResultsAreFinal`, `TasksAndTreesAgree`, `RecordsKeepOrder`,
  `StoresStayFaithful`, `RuntimesAreComposed`, `RunsAreReadWhole`, `ModelsKeepRate` and
  `ConversationsAreSound`. `PagesAreHonest` is the one of `PageSpec`. The others are about `AgentSpec` and
  `DataSpec`, where the parts interleave freely; TLC looks at one part at a time.

Only model-checked, and why:

- all liveness properties (`EveryJobIsDelivered`, `RunComesToRest`,
  `WorkflowComesToRest`, `FollowEnds`): out of the prover's reach;
- the types of the services (`TypeOK` of `MCServices`): each proof has the types it
  needs in its own invariant.

## Plan

Done, in this order: the lifecycle of runs and its delivery of jobs; the agent graph;
the events of a run and their readers; workflows; local sessions; the services and
clients; the theorems above. Left, in this order:

1. `AckImpliesApplied`'s counterpart for trimmed streams, once trimming is modelled in
   `RunLifecycle`.
2. The exports and templates of `ps`, and the loop of the RAG graph.

## Not modelled

- Accounts, authentication, statistics, observability: single transactions and
  read-only aggregation; onboarding is in `SpaceCatalog`.
- API infrastructure beyond the rate limit and the idempotency key: its errors appear
  as the faults of the models.
- Ranking, embedding, the code graph, training and evaluation: numerical or textual
  batch code without state between calls.
- Rendering and argument parsing of CLI, TUI and console; the SSE wire format; the
  MCP protocol (an external process with its own state); settings, instructions and
  skills, which are read once.
- Trimming of the job stream and the expiry of a stop flag in `RunLifecycle`
  (10 000 entries and an hour in the code), `follow`'s `wait_timeout`, exports and
  templates of `ps`.
