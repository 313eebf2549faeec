---------------------------- MODULE LocalSession ----------------------------
(***************************************************************************)
(* Runs without a server: processes of the zhixiao command (or terminals   *)
(* of its TUI) that execute, fork, resume, interrupt and delete runs of    *)
(* one state directory.  They share, per run, a manifest                   *)
(* (runs/<id>.json), the checkpoint of the graph and a stop file           *)
(* (control/<id>), and coordinate by nothing else.                         *)
(*                                                                         *)
(* What the graph does is AgentSession, which AgentGraph implements.  Hooks *)
(* are commands of the workspace, run before and after the graph, and      *)
(* around every tool call inside it.                                       *)
(***************************************************************************)
EXTENDS AgentSession

CONSTANTS
    Runs,       \* run ids (uuid4)
    Procs       \* processes that may be at work at the same time

VARIABLES
    manifest,   \* the status of the run's manifest
    graph,      \* the checkpoint: the stage reached and how the run ended
    stop,       \* the stop file exists
    gated,      \* the run may write and its policy is on_request
    asks,       \* ... and it was not started as approved
    proc,       \* what each process is doing
    granted,    \* history: the operator approved this very run
    hooked,     \* history: a hook ran for it before or after the graph
    tooled,     \* history: the stages in which hooks ran around its tool calls
    vouched,    \* history: the after-hooks passed in the process that saved last
    abandoned   \* history: the last process left without saving

vars == <<manifest, graph, stop, gated, asks, proc, granted, hooked, tooled, vouched, abandoned>>
policy == <<gated, asks>>
history == <<granted, hooked, tooled, vouched, abandoned>>

Idle == [pc |-> "idle"]

NoGraph == [stage |-> "none", outcome |-> "none"]

Init ==
    /\ manifest = [r \in Runs |-> "new"]
    /\ graph = [r \in Runs |-> NoGraph]
    /\ stop = [r \in Runs |-> FALSE]
    /\ gated \in {[r \in Runs |-> g] : g \in BOOLEAN}
    /\ asks = [r \in Runs |-> FALSE]
    /\ proc = [p \in Procs |-> Idle]
    /\ granted = [r \in Runs |-> FALSE] /\ hooked = [r \in Runs |-> FALSE]
    /\ tooled = [r \in Runs |-> {}]
    /\ vouched = [r \in Runs |-> FALSE] /\ abandoned = [r \in Runs |-> FALSE]

At(p, pc) == proc[p].pc = pc
Executes(p, r) == proc[p].pc \in {"before", "graph", "after", "save"} /\ proc[p].run = r
Known(r) == manifest[r] \notin {"new", "deleted"}
Busy(r) == \E p \in Procs : Executes(p, r)

-----------------------------------------------------------------------------
(* execute_local saves a manifest before anything else.                    *)
Starts(p, r, approved) ==
    /\ At(p, "idle")
    /\ manifest[r] = "new"
    /\ manifest' = [manifest EXCEPT ![r] = "pending"]
    /\ asks' = [asks EXCEPT ![r] = gated[r] /\ ~ approved]
    /\ proc' = [proc EXCEPT ![p] = [pc |-> "before", run |-> r, resumed |-> FALSE,
                    approved |-> approved, answer |-> "none", status |-> "none",
                    checked |-> FALSE]]
    /\ UNCHANGED <<graph, stop, gated, hooked, tooled, vouched, abandoned>>

Execute(p, r, approved) ==
    /\ Starts(p, r, approved)
    /\ granted' = [granted EXCEPT ![r] = approved]

\* Mutant: the child inherits its parent's approval.
ForkApproved(p, parent, r) ==
    /\ parent # r /\ Known(parent)
    /\ Starts(p, r, granted[parent])
    /\ UNCHANGED granted

(* fork_local: a new run from the parent's manifest, never as approved.    *)
Fork(p, parent, r) ==
    /\ parent # r /\ Known(parent)
    /\ Starts(p, r, FALSE)
    /\ UNCHANGED granted

\* Mutant: a stop file found on the way is removed.
ResumeClearing(p, r, approved) ==
    /\ At(p, "idle") /\ Known(r) /\ ~ Busy(r)
    /\ proc' = [proc EXCEPT ![p] = [pc |-> "before", run |-> r, resumed |-> TRUE,
                    approved |-> approved, status |-> "none", checked |-> FALSE,
                    answer |-> IF approved THEN "approved" ELSE "denied"]]
    /\ granted' = [granted EXCEPT ![r] = @ \/ approved]
    /\ stop' = [stop EXCEPT ![r] = FALSE]
    /\ UNCHANGED <<manifest, graph, policy, hooked, tooled, vouched, abandoned>>

(* resume_local tests nothing but that there is a manifest.  That nobody    *)
(* resumes a run which a process still executes is left to the operator.   *)
Resume(p, r, approved) ==
    /\ At(p, "idle") /\ Known(r) /\ ~ Busy(r)
    /\ proc' = [proc EXCEPT ![p] = [pc |-> "before", run |-> r, resumed |-> TRUE,
                    approved |-> approved, status |-> "none", checked |-> FALSE,
                    answer |-> IF approved THEN "approved" ELSE "denied"]]
    /\ granted' = [granted EXCEPT ![r] = @ \/ approved]
    /\ UNCHANGED <<manifest, graph, stop, policy, hooked, tooled, vouched, abandoned>>

(* Hooks are deferred to the approval, and a resume that denies runs none. *)
HooksDue(q) == IF q.resumed THEN q.approved ELSE ~ asks[q.run]

(* A hook that fails, that the command policy refuses or that an untrusted  *)
(* workspace may not run ends the process's work with status failed.       *)
BeforeHooks(p, passes) ==
    LET q == proc[p] IN
    /\ At(p, "before")
    /\ passes \/ HooksDue(q)
    /\ hooked' = [hooked EXCEPT ![q.run] = @ \/ HooksDue(q)]
    /\ IF passes
       THEN /\ proc' = [proc EXCEPT ![p].pc = "graph"]
            /\ graph' = IF q.resumed THEN graph ELSE [graph EXCEPT ![q.run].stage = "planning"]
       ELSE /\ proc' = [proc EXCEPT ![p].pc = "save", ![p].status = "failed"]
            /\ UNCHANGED graph
    /\ UNCHANGED <<manifest, stop, policy, granted, tooled, vouched, abandoned>>

(* The status of a pause is made up by _pending_interrupt_state.           *)
\* Mutant: every pending interrupt is taken for an approval.
StatusOfAnyPause(c) == IF c.stage = "ended" THEN c.outcome ELSE "awaiting_approval"

\* Mutant: the status in the checkpoint is returned.
StatusUnmade(c) == c.outcome

Status(c) ==
    IF c.stage = "ended" THEN c.outcome
    ELSE IF c.stage = "asking" THEN "awaiting_approval" ELSE "interrupted"

(* The run as process q has it.                                            *)
View(q) == [stage |-> graph[q.run].stage, outcome |-> graph[q.run].outcome,
            answer |-> q.answer, stop |-> stop[q.run], live |-> TRUE]

GraphSteps(p) ==
    LET q == proc[p] IN
    /\ At(p, "graph") /\ graph[q.run] # NoGraph
    /\ \E c \in SessionSteps(View(q)) :
          /\ asks[q.run] /\ graph[q.run].stage = "planning" => c.stage # "working"
          /\ graph' = [graph EXCEPT ![q.run] = [stage |-> c.stage, outcome |-> c.outcome]]
          /\ stop' = [stop EXCEPT ![q.run] = c.stop]
          /\ proc' = [proc EXCEPT
                ![p] = IF c.live THEN [q EXCEPT !.answer = c.answer]
                       ELSE [q EXCEPT !.pc = "after", !.answer = "none", !.status = Status(c)]]
    /\ UNCHANGED <<manifest, policy, history>>

(* A node calls a tool, with the hooks before and after it: discover lists   *)
(* the directory while the run is planning, whatever approval it needs;    *)
(* execute and verify do what was planned.  A hook that fails is an error   *)
(* the tool returns, and the node goes on.                                 *)
ToolHooks(p) ==
    LET q == proc[p] IN
    /\ At(p, "graph") /\ graph[q.run].stage \in {"planning", "working"}
    /\ tooled' = [tooled EXCEPT ![q.run] = @ \cup {graph[q.run].stage}]
    /\ UNCHANGED <<manifest, graph, stop, policy, proc, granted, hooked, vouched, abandoned>>

(* An executing process leaves the hooks out for a run that waits for its   *)
(* approval only, a resuming one also for a run that was stopped.          *)
AfterHooksDue(q) ==
    HooksDue(q) /\ q.status \notin (IF q.resumed THEN {"awaiting_approval", "interrupted"}
                                                 ELSE {"awaiting_approval"})

AfterHooks(p, passes) ==
    LET q == proc[p] IN
    /\ At(p, "after")
    /\ passes \/ AfterHooksDue(q)
    /\ hooked' = [hooked EXCEPT ![q.run] = @ \/ AfterHooksDue(q)]
    /\ proc' = [proc EXCEPT ![p].pc = "save", ![p].checked = passes /\ AfterHooksDue(q),
                            ![p].status = IF passes THEN @ ELSE "failed"]
    /\ UNCHANGED <<manifest, graph, stop, policy, granted, tooled, vouched, abandoned>>

(* Saving replaces the whole manifest, also one deleted in the meantime.   *)
Save(p) ==
    LET q == proc[p] IN
    /\ At(p, "save")
    /\ manifest' = [manifest EXCEPT ![q.run] = q.status]
    /\ vouched' = [vouched EXCEPT ![q.run] = q.checked \/ ~ HooksDue(q)]
    /\ abandoned' = [abandoned EXCEPT ![q.run] = FALSE]
    /\ proc' = [proc EXCEPT ![p] = Idle]
    /\ UNCHANGED <<graph, stop, policy, granted, hooked, tooled>>

-----------------------------------------------------------------------------
(* The task is cancelled, or something raises (a resume without checkpoint  *)
(* always does): execute_local records it, resume_local does not.          *)
Aborts(p, cancelled) ==
    LET q == proc[p] IN
    /\ q.pc \in {"before", "graph", "after"}
    /\ manifest' = IF q.resumed THEN manifest
                   ELSE [manifest EXCEPT ![q.run] = IF cancelled THEN "interrupted" ELSE "failed"]
    /\ abandoned' = [abandoned EXCEPT ![q.run] = q.resumed]
    /\ proc' = [proc EXCEPT ![p] = Idle]
    /\ UNCHANGED <<graph, stop, policy, granted, hooked, tooled, vouched>>

(* Building the runtime raises (no API key is set): the manifest was saved  *)
(* already, and this is outside the try of execute_local.                  *)
BuildFails(p) ==
    /\ At(p, "before")
    /\ abandoned' = [abandoned EXCEPT ![proc[p].run] = TRUE]
    /\ proc' = [proc EXCEPT ![p] = Idle]
    /\ UNCHANGED <<manifest, graph, stop, policy, granted, hooked, tooled, vouched>>

Crash(p) ==
    /\ ~ At(p, "idle")
    /\ abandoned' = [abandoned EXCEPT ![proc[p].run] = @ \/ ~ At(p, "mark")]
    /\ proc' = [proc EXCEPT ![p] = Idle]
    /\ UNCHANGED <<manifest, graph, stop, policy, granted, hooked, tooled, vouched>>

(* interrupt_local, whatever the run is doing: the stop file, then the      *)
(* manifest.  The TUI's cancel does it and aborts its own task.            *)
Interrupt(p, r) ==
    /\ At(p, "idle") /\ Known(r)
    /\ stop' = [stop EXCEPT ![r] = TRUE]
    /\ proc' = [proc EXCEPT ![p] = [pc |-> "mark", run |-> r]]
    /\ UNCHANGED <<manifest, graph, policy, history>>

InterruptSaves(p) ==
    /\ At(p, "mark")
    /\ manifest' = [manifest EXCEPT ![proc[p].run] = "interrupted"]
    /\ proc' = [proc EXCEPT ![p] = Idle]
    /\ UNCHANGED <<graph, stop, policy, history>>

(* The checkpoint and the stop file stay.                                  *)
Delete(r) ==
    /\ Known(r)
    /\ manifest' = [manifest EXCEPT ![r] = "deleted"]
    /\ UNCHANGED <<graph, stop, policy, proc, history>>

Next ==
    \/ \E p \in Procs :
          \/ \E passes \in BOOLEAN : BeforeHooks(p, passes) \/ AfterHooks(p, passes)
          \/ GraphSteps(p) \/ ToolHooks(p) \/ Save(p) \/ InterruptSaves(p) \/ BuildFails(p) \/ Crash(p)
          \/ \E cancelled \in BOOLEAN : Aborts(p, cancelled)
          \/ \E r \in Runs :
                \/ \E approved \in BOOLEAN : Execute(p, r, approved) \/ Resume(p, r, approved)
                \/ \E parent \in Runs : Fork(p, parent, r)
                \/ Interrupt(p, r)
    \/ \E r \in Runs : Delete(r)

Spec == Init /\ [][Next]_vars

-----------------------------------------------------------------------------
Working == [pc : {"before", "graph", "after", "save"}, run : Runs, resumed : BOOLEAN,
            approved : BOOLEAN, answer : {"none", "approved", "denied"},
            status : {"none", "awaiting_approval", "interrupted", "failed", "succeeded"},
            checked : BOOLEAN]
Marking == [pc : {"mark"}, run : Runs]

(* Every variable has its type; a manifest only ever gets a final or        *)
(* waiting status, whatever the graph returned.                            *)
TypeOK ==
    /\ manifest \in [Runs -> {"new", "deleted", "pending", "awaiting_approval",
                              "interrupted", "failed", "succeeded"}]
    /\ graph \in [Runs -> [stage : Stages \cup {"none"}, outcome : Outcomes]]
    /\ proc \in [Procs -> {Idle} \cup Working \cup Marking]
    /\ {stop, gated, asks, granted, hooked, vouched, abandoned} \subseteq [Runs -> BOOLEAN]
    /\ tooled \in [Runs -> SUBSET {"planning", "working"}]

(* What the manifest says is what the checkpoint holds: success is never    *)
(* made up, a run said to await its approval does, and one said to be       *)
(* pending is at work, unless a process left it without saving (it was      *)
(* killed, or never came to run): once the hooks and the graph are under    *)
(* way, every way out of execute_local records a status.                   *)
ManifestIsTruthful ==
    \A r \in Runs :
        /\ manifest[r] = "succeeded" =>
               graph[r] = [stage |-> "ended", outcome |-> "succeeded"]
        /\ manifest[r] = "awaiting_approval" /\ ~ Busy(r) /\ ~ abandoned[r] =>
               graph[r].stage = "asking"
        /\ manifest[r] = "pending" => Busy(r) \/ abandoned[r]

(* Until the operator has approved this very run, a gated run gets none of  *)
(* the hooks before and after the graph, over forks, resumptions and       *)
(* interruptions, and of the hooks around tool calls only those of the      *)
(* listing that discover makes for the plan; and a run is recorded as      *)
(* succeeded only by a process whose after-hooks passed, or which was to    *)
(* run none (a resume with --deny).                                        *)
HooksInOrder ==
    \A r \in Runs :
        /\ gated[r] /\ ~ granted[r] => ~ hooked[r] /\ tooled[r] \subseteq {"planning"}
        /\ manifest[r] = "succeeded" => vouched[r]

(* A stop file disappears only as the run pauses for it, or under a process *)
(* that was resumed and has not used its answer yet.                       *)
StopPausesUnlessResumed ==
    [][\A r \in Runs : stop[r] /\ ~ stop'[r] =>
          \E p \in Procs : /\ Executes(p, r)
                           /\ \/ proc[p].answer # "none"
                              \/ proc'[p].pc = "after" /\ proc'[p].status = "interrupted"]_vars
=============================================================================
