------------------------------ MODULE AgentGraph ------------------------------
(***************************************************************************)
(* One run of the agent: the default state graph of AgentRuntime,          *)
(*                                                                         *)
(*   intake -> discover -> plan -> (awaiting) -> prepare_workspace         *)
(*          -> execute* -> verify -> (repair -> execute* -> verify)*       *)
(*          -> finalize                                                    *)
(*                                                                         *)
(* with its checkpoints: after every node the state s is saved, so a run   *)
(* that paused for an approval or for a stop file, or whose process died,  *)
(* is resumed at the node it had reached.  The answer given to resume is   *)
(* seen by the first node only.                                            *)
(*                                                                         *)
(* What the model and the tools do is chosen freely; dirty, touched and    *)
(* lost record what really happened to the files, spent what really ran: a *)
(* process that dies inside a node has spent what no checkpoint counts.    *)
(***************************************************************************)
EXTENDS Naturals

CONSTANTS
    Configs,        \* the configurations a run may have
    MaxTurns,       \* budget.max_model_turns
    MaxCalls,       \* budget.max_tool_calls
    MaxBatch,       \* bound on the tool calls of one model turn
    MaxIterations,  \* config.max_tool_iterations
    MaxRepairs,     \* config.max_repair_rounds
    MaxDeaths,      \* bound on the processes that die inside a node
    Faults          \* what may go wrong around the run

PermissionModes == {"read_only", "edit", "execute", "full"}

(* asks: the plan needs an approval the run was not started with; isolates: *)
(* a Git worktree is wanted and the workspace is a repository; commands:    *)
(* there is something to verify with (never for explore and review tasks); *)
(* canTest: run_tests is among the route's tools; waiver: allow_unverified. *)
ConfigRows == [permission : PermissionModes, asks : BOOLEAN, isolates : BOOLEAN,
               commands : BOOLEAN, canTest : BOOLEAN, waiver : BOOLEAN]

ASSUME ConfigAssumption ==
    /\ Configs \subseteq ConfigRows
    /\ \A c \in Configs : c.asks \/ c.isolates => c.permission # "read_only"
ASSUME LimitAssumption ==
    /\ MaxTurns \in Nat /\ MaxCalls \in Nat /\ MaxBatch \in Nat
    /\ MaxIterations \in Nat /\ MaxRepairs \in Nat /\ MaxDeaths \in Nat
ASSUME FaultAssumption == Faults \subseteq {"crash", "worktree", "model"}

VARIABLES
    cfg,        \* RuntimeConfig
    s,          \* AgentState, as checkpointed
    node,       \* the next node of the graph
    phase,      \* is a process running the graph?
    answer,     \* the value resume brought, until a node completed
    stop,       \* the stop file {state_dir}/control/{run_id} exists
    exhausted,  \* the token, cost or duration budget is used up
    dirty,      \* files changed since tests last passed
    touched,    \* files of the source workspace changed though cfg.isolates
    lost,       \* a change was made in a node that did not complete
    spent,      \* history: turns, tool calls and rounds of tests that really ran
    deaths      \* history: how many processes died inside a node

vars == <<cfg, s, node, phase, answer, stop, exhausted, dirty, touched, lost, spent, deaths>>
given == <<cfg, exhausted>>
env  == <<given, spent, deaths>>
files == <<dirty, touched, lost>>

Doom == {"budget_exhausted", "model_error", "tool_loop", "runtime_error"}

Initial == [status |-> "pending", reason |-> "none", had |-> FALSE, iterations |-> 0,
            repairs |-> 0, turns |-> 0, calls |-> 0, mutated |-> FALSE,
            place |-> "source", approved |-> FALSE, outcome |-> "skipped",
            waived |-> FALSE, exit |-> "none"]

Init ==
    /\ cfg \in Configs
    /\ s = Initial
    /\ node = "intake" /\ phase = "running" /\ answer = "none"
    /\ stop = FALSE /\ exhausted = FALSE
    /\ dirty = FALSE /\ touched = FALSE /\ lost = FALSE
    /\ spent = [turns |-> 0, calls |-> 0, tests |-> 0] /\ deaths = 0

-----------------------------------------------------------------------------
(* _budget_reason                                                          *)
Over(t) == t.turns >= MaxTurns \/ t.calls >= MaxCalls \/ exhausted

(* _budget_failure and _model_failure                                      *)
Failed(t, why) == [t EXCEPT !.status = "failed", !.reason = why]

At(n) == phase = "running" /\ node = n

(* A node completed: its result is checkpointed and n is next.             *)
Complete(t, n) ==
    /\ s' = t
    /\ node' = n
    /\ phase' = IF n = "end" THEN "ended" ELSE "running"
    /\ answer' = "none"

Spend(turns, calls, tests) ==
    spent' = [turns |-> spent.turns + turns, calls |-> spent.calls + calls,
              tests |-> spent.tests + tests]

(* _interrupt_if_stop_requested: interrupt() pauses the graph, unless the   *)
(* node is the one that was resumed, for which it returns the answer.  The *)
(* file is removed either way.                                             *)
Heeds == stop /\ answer = "none"

-----------------------------------------------------------------------------
Intake ==
    /\ At("intake")
    /\ Complete([s EXCEPT !.status = "planning"], "plan")
    /\ UNCHANGED <<env, files, stop>>

(* A plan that cannot be made ends the run without finalize.               *)
PlanFails ==
    /\ At("plan")
    /\ IF Over(s) THEN Complete(Failed(s, "budget_exhausted"), "end")
       ELSE /\ "model" \in Faults
            /\ Complete(Failed(s, "model_error"), "end")
    /\ UNCHANGED <<env, files, stop>>

\* Mutant: the plan goes on without asking.
PlanWithoutAsking ==
    /\ At("plan")
    /\ ~ Over(s)
    /\ Complete([s EXCEPT !.turns = @ + 1], "prepare_workspace")
    /\ Spend(1, 0, 0)
    /\ UNCHANGED <<given, deaths, files, stop>>

Plan ==
    LET t == [s EXCEPT !.turns = @ + 1] IN
    /\ At("plan")
    /\ ~ Over(s)
    /\ IF cfg.asks
       THEN Complete([t EXCEPT !.status = "awaiting_approval", !.reason = "awaiting_approval"],
                     "awaiting")
       ELSE Complete(t, "prepare_workspace")
    /\ Spend(1, 0, 0)
    /\ UNCHANGED <<given, deaths, files, stop>>

AwaitPause ==
    /\ At("awaiting")
    /\ answer = "none"
    /\ phase' = "paused"
    /\ UNCHANGED <<env, files, s, node, answer, stop>>

\* Mutant: the answer, a record, is itself taken for the decision.
AwaitDecidedAnyhow ==
    /\ At("awaiting")
    /\ answer # "none"
    /\ Complete([s EXCEPT !.approved = TRUE, !.status = "running", !.reason = "none"],
                "prepare_workspace")
    /\ UNCHANGED <<env, files, stop>>

AwaitDecided ==
    /\ At("awaiting")
    /\ answer # "none"
    /\ IF answer = "approved"
       THEN Complete([s EXCEPT !.approved = TRUE, !.status = "running", !.reason = "none"],
                     "prepare_workspace")
       ELSE Complete([s EXCEPT !.status = "interrupted", !.reason = "approval_denied"], "end")
    /\ UNCHANGED <<env, files, stop>>

(* A worktree is made where one is wanted; a read-only run and a directory  *)
(* that is no Git repository use the source workspace.                     *)
Prepare ==
    /\ At("prepare_workspace")
    /\ Complete(IF cfg.isolates THEN [s EXCEPT !.place = "worktree"] ELSE s, "execute")
    /\ UNCHANGED <<env, files, stop>>

(* WorktreeManager refuses, for instance because the source has uncommitted *)
(* changes: the state is failed, and the graph goes on to execute.         *)
PrepareFails ==
    /\ At("prepare_workspace")
    /\ "worktree" \in Faults /\ cfg.isolates
    /\ Complete(Failed(s, "runtime_error"), "execute")
    /\ UNCHANGED <<env, files, stop>>

-----------------------------------------------------------------------------
StopPauses ==
    /\ At("execute") \/ At("verify")
    /\ Heeds
    /\ phase' = "paused"
    /\ stop' = FALSE
    /\ UNCHANGED <<env, files, s, node, answer>>

\* Mutant: a failed state is executed again.
ExecuteFailsAgain ==
    /\ At("execute") /\ ~ Heeds
    /\ \/ s.status = "failed" /\ Complete(s, "execute")
       \/ /\ s.status # "failed" /\ Over(s)
          /\ Complete(Failed(s, "budget_exhausted"), "verify")
       \/ /\ s.status # "failed" /\ ~ Over(s)
          /\ "model" \in Faults
          /\ Complete(Failed(s, "model_error"), "verify")
    /\ stop' = FALSE
    /\ UNCHANGED <<env, files>>

(* execute hands a failed state on; a used-up budget and a model error      *)
(* fail it.                                                                *)
ExecuteFails ==
    /\ At("execute") /\ ~ Heeds
    /\ \/ s.status = "failed" /\ Complete(s, "verify")
       \/ /\ s.status # "failed" /\ Over(s)
          /\ Complete(Failed(s, "budget_exhausted"), "verify")
       \/ /\ s.status # "failed" /\ ~ Over(s)
          /\ "model" \in Faults
          /\ Complete(Failed(s, "model_error"), "verify")
    /\ stop' = FALSE
    /\ UNCHANGED <<env, files>>

(* The model answers with a batch of tool calls.                           *)
Turn(kind, n) ==
    /\ At("execute") /\ ~ Heeds
    /\ s.status # "failed" /\ ~ Over(s)
    /\ n \in 0..MaxBatch
    /\ kind = "none" <=> n = 0

(* A batch beyond the budget is not run at all.                            *)
\* Mutant: the batch itself is not counted.
FitsAlready(n) == s.calls <= MaxCalls

Fits(n) == s.calls + n <= MaxCalls

BatchRefused(kind, n) ==
    /\ Turn(kind, n)
    /\ ~ Fits(n)
    /\ Complete(Failed([s EXCEPT !.turns = @ + 1], "budget_exhausted"), "verify")
    /\ Spend(1, 0, 0)
    /\ stop' = FALSE
    /\ UNCHANGED <<given, deaths, files>>

(* after_execute                                                           *)
AfterExecute(t) ==
    IF /\ t.reason # "tool_loop"
       /\ ~ Over(t)
       /\ t.had /\ t.iterations < MaxIterations
    THEN "execute" ELSE "verify"

(* What a batch does to the files: a call outside READ_ONLY_TOOLS may       *)
(* change them unless the permission is read_only.                         *)
Changes(kind) == kind = "write" /\ cfg.permission # "read_only"

Touch(kind) ==
    /\ dirty' = (dirty \/ Changes(kind))
    /\ touched' = (touched \/ (Changes(kind) /\ cfg.isolates /\ s.place = "source"))

(* looped: the same call three times in a row, or the same root cause three *)
(* times, which takes three calls.                                         *)
\* Mutant: a turn that did not loop clears the reason of an earlier failure.
AfterBatchForgiving(kind, n, looped) ==
    [s EXCEPT !.turns = @ + 1, !.calls = @ + n, !.iterations = @ + 1,
              !.status = "running", !.had = (n > 0), !.mutated = @ \/ kind = "write",
              !.reason = IF looped THEN "tool_loop" ELSE "none"]

AfterBatch(kind, n, looped) ==
    [s EXCEPT !.turns = @ + 1, !.calls = @ + n, !.iterations = @ + 1,
              !.status = "running", !.had = (n > 0), !.mutated = @ \/ kind = "write",
              !.reason = IF looped THEN "tool_loop" ELSE @]

BatchRuns(kind, n, looped) ==
    LET t == AfterBatch(kind, n, looped) IN
    /\ Turn(kind, n)
    /\ Fits(n)
    /\ looped => t.calls >= 3
    /\ Complete(t, AfterExecute(t))
    /\ Touch(kind)
    /\ Spend(1, n, 0)
    /\ stop' = FALSE
    /\ UNCHANGED <<given, deaths, lost>>

(* The process dies inside a node: what the node did stays done, and the    *)
(* checkpoint is that of the node before.                                  *)
Dies ==
    /\ "crash" \in Faults
    /\ deaths < MaxDeaths
    /\ deaths' = deaths + 1
    /\ phase' = "dead"
    /\ UNCHANGED <<given, s, node, answer>>

(* ... with the plan that the model made,                                   *)
CrashInPlan ==
    /\ At("plan") /\ ~ Over(s)
    /\ Dies
    /\ Spend(1, 0, 0)
    /\ UNCHANGED <<files, stop>>

(* ... with the model's turn and the n calls of its batch that had run,     *)
CrashInBatch(kind, n) ==
    /\ Turn(kind, n)
    /\ Fits(n)
    /\ Dies
    /\ Spend(1, n, 0)
    /\ Touch(kind)
    /\ lost' = (lost \/ Changes(kind))
    /\ stop' = FALSE

-----------------------------------------------------------------------------
Runnable == cfg.commands /\ cfg.permission \in {"execute", "full"}

(* after_verify                                                            *)
\* Mutant: one round too many.
AfterVerifyOnceMore(t) ==
    IF t.exit = "nonzero" /\ t.repairs <= MaxRepairs THEN "repair" ELSE "finalize"

AfterVerify(t) ==
    IF t.exit = "nonzero" /\ t.repairs < MaxRepairs THEN "repair" ELSE "finalize"

\* Mutant: a run that may not test is not blocked.
VerifySkippedLeniently ==
    LET t == [s EXCEPT !.status = "verifying", !.exit = "none", !.waived = cfg.waiver,
                       !.outcome = "skipped"]
    IN
    /\ At("verify") /\ ~ Heeds
    /\ ~ Runnable
    /\ Complete(t, AfterVerify(t))
    /\ stop' = FALSE
    /\ UNCHANGED <<env, files>>

(* Without tests to run, a run that used a writing tool is blocked unless   *)
(* the change was waived.                                                  *)
VerifySkipped ==
    LET t == [s EXCEPT !.status = "verifying", !.exit = "none", !.waived = cfg.waiver,
                       !.outcome = IF s.mutated /\ ~ cfg.waiver THEN "blocked" ELSE "skipped"]
    IN
    /\ At("verify") /\ ~ Heeds
    /\ ~ Runnable
    /\ Complete(t, AfterVerify(t))
    /\ stop' = FALSE
    /\ UNCHANGED <<env, files>>

(* The stages run in order up to the first failure; a route without         *)
(* run_tests is refused the tool, which counts as a failure.  The status of *)
(* a failed state becomes verifying, its reason stays.                     *)
VerifyRuns(passes) ==
    LET t == [s EXCEPT !.status = "verifying", !.waived = FALSE,
                       !.exit = IF passes THEN "zero" ELSE "nonzero",
                       !.outcome = IF passes THEN "passed" ELSE "failed"]
    IN
    /\ At("verify") /\ ~ Heeds
    /\ Runnable
    /\ passes => cfg.canTest
    /\ Complete(t, AfterVerify(t))
    /\ dirty' = (dirty /\ ~ passes)
    /\ Spend(0, 0, 1)
    /\ stop' = FALSE
    /\ UNCHANGED <<given, deaths, touched, lost>>

(* ... or with the tests, which then run once more.                         *)
CrashInVerify ==
    /\ At("verify") /\ ~ Heeds
    /\ Runnable
    /\ Dies
    /\ Spend(0, 0, 1)
    /\ stop' = FALSE
    /\ UNCHANGED files

Repair ==
    /\ At("repair")
    /\ Complete([s EXCEPT !.repairs = @ + 1, !.iterations = 0], "execute")
    /\ UNCHANGED <<env, files, stop>>

(* The gate of the run.                                                    *)
Fails(t, why) == t.exit = "nonzero" \/ t.outcome \in {"failed", "blocked"} \/ why \in Doom

Ending(t) == IF Over(t) /\ t.reason = "none" THEN "budget_exhausted" ELSE t.reason

Finalize ==
    LET why == Ending(s) IN
    /\ At("finalize")
    /\ Complete([s EXCEPT
            !.status = IF Fails(s, why) THEN "failed" ELSE "succeeded",
            !.reason = IF why # "none" THEN why
                       ELSE IF s.outcome = "failed" THEN "verification_failed"
                       ELSE IF s.outcome = "blocked" THEN "verification_blocked"
                       ELSE "completed"], "end")
    /\ UNCHANGED <<env, files, stop>>

-----------------------------------------------------------------------------
(* interrupt_local writes the stop file, whatever the run is doing.        *)
RequestStop ==
    /\ ~ stop
    /\ stop' = TRUE
    /\ UNCHANGED <<env, files, s, node, phase, answer>>

(* resume_local, on a paused run or on one whose process died.             *)
Resume(decision) ==
    /\ phase \in {"paused", "dead"}
    /\ phase' = "running"
    /\ answer' = decision
    /\ UNCHANGED <<env, files, s, node, stop>>

Crash ==
    /\ "crash" \in Faults
    /\ phase = "running"
    /\ phase' = "dead"
    /\ UNCHANGED <<env, files, s, node, answer, stop>>

Exhaust ==
    /\ ~ exhausted
    /\ exhausted' = TRUE
    /\ UNCHANGED <<cfg, spent, deaths, s, node, phase, answer, stop, files>>

Tools == {"none", "read", "write"}

Run ==
    \/ Intake \/ PlanFails \/ Plan \/ AwaitPause \/ AwaitDecided
    \/ Prepare \/ PrepareFails \/ StopPauses \/ ExecuteFails
    \/ \E kind \in Tools, n \in 0..MaxBatch :
          \/ BatchRefused(kind, n)
          \/ \E looped \in BOOLEAN : BatchRuns(kind, n, looped)
    \/ VerifySkipped
    \/ \E passes \in BOOLEAN : VerifyRuns(passes)
    \/ Repair \/ Finalize

Next ==
    \/ Run
    \/ \E kind \in Tools, n \in 0..MaxBatch : CrashInBatch(kind, n)
    \/ CrashInPlan \/ CrashInVerify
    \/ Crash \/ RequestStop \/ Exhaust
    \/ \E decision \in {"approved", "denied"} : Resume(decision)

Spec == Init /\ [][Next]_vars

(* The event loop runs the graph as long as its process lives.  Nobody is   *)
(* bound to resume a paused run.                                           *)
FairSpec == Spec /\ WF_vars(Run)

-----------------------------------------------------------------------------
States == [status : {"pending", "planning", "awaiting_approval", "running", "verifying",
                     "interrupted", "failed", "succeeded"},
           reason : Doom \cup {"none", "awaiting_approval", "approval_denied", "completed",
                               "verification_failed", "verification_blocked"},
           had : BOOLEAN, iterations : Nat, repairs : 0..MaxRepairs, turns : Nat, calls : Nat,
           mutated : BOOLEAN, place : {"source", "worktree"}, approved : BOOLEAN,
           outcome : {"skipped", "passed", "failed", "blocked"}, waived : BOOLEAN,
           exit : {"none", "zero", "nonzero"}]

(* Every variable has its type, the graph is at one of its nodes, and no    *)
(* more rounds of repair are made than configured.                         *)
TypeOK ==
    /\ cfg \in Configs
    /\ s \in States
    /\ node \in {"intake", "plan", "awaiting", "prepare_workspace", "execute", "verify",
                 "repair", "finalize", "end"}
    /\ phase \in {"running", "paused", "dead", "ended"}
    /\ answer \in {"none", "approved", "denied"}
    /\ <<stop, exhausted, dirty, touched, lost>> \in
            BOOLEAN \X BOOLEAN \X BOOLEAN \X BOOLEAN \X BOOLEAN
    /\ spent \in [turns : Nat, calls : Nat, tests : Nat]
    /\ deaths \in Nat

(* Over all its rounds of repair, pauses and resumptions a run never        *)
(* records a model turn or a tool call beyond its budget, and what really  *)
(* ran exceeds it by at most one turn and one batch for every process that *)
(* died inside a node.  The tests of verify are charged to no budget: they *)
(* run once a round, and once more for such a death.                       *)
WithinBudget ==
    /\ s.turns <= MaxTurns /\ s.calls <= MaxCalls
    /\ spent.turns <= MaxTurns + deaths
    /\ spent.calls <= MaxCalls + deaths * MaxBatch
    /\ spent.tests <= 1 + MaxRepairs + deaths

(* A run that succeeded left no file changed since tests last passed,       *)
(* unless a waiver is recorded (or a process died in the middle of the     *)
(* change).                                                                *)
SuccessIsVerified ==
    s.status = "succeeded" /\ dirty => s.waived \/ lost

(* No file changes before the plan was approved, where approval is asked.   *)
ActsOnlyWhenApproved == cfg.asks /\ dirty => s.approved

(* Budget exhaustion, a model error, a tool loop or a failed isolation are  *)
(* final: no repair, verification or resumption turns them into success.   *)
FailureIsFinal ==
    [][s.reason \in Doom => s'.reason \in Doom /\ s'.status # "succeeded"]_vars

(* A run that is being executed ends, or waits for the operator: the loops  *)
(* of the graph are bounded.                                               *)
RunComesToRest == phase = "running" ~> phase # "running"

(* A run that wants isolation changes nothing in the source workspace.      *)
SourceIsIsolated == ~ touched

(* A writing run succeeds only when verification passed or a waiver is      *)
(* recorded, also when its process died and it was resumed.                *)
EveryChangeIsVerified == s.status = "succeeded" /\ dirty => s.waived
=============================================================================
