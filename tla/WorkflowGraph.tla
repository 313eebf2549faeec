---------------------------- MODULE WorkflowGraph ----------------------------
(***************************************************************************)
(* One run of a user's workflow: the graph AgentRuntime builds from a      *)
(* WorkflowDefinition instead of its default graph,                        *)
(*                                                                         *)
(*   intake -> gate* -> prepare_workspace -> entrypoint -> ... -> finalize *)
(*                                                                         *)
(* A configured node is one superstep: it calls its role's handler, again  *)
(* while the model asks for tools, and again when it failed and may retry; *)
(* only its result is checkpointed.  m is what the node holds in memory    *)
(* meanwhile.  Its retry loop catches every exception, the one by which a  *)
(* stop file is to pause the run included.                                 *)
(*                                                                         *)
(* What the model and the tools do is chosen freely; dirty, spent,         *)
(* discarded, tested and finished record what really happened.             *)
(***************************************************************************)
EXTENDS Integers, Sequences, FiniteSets

CONSTANTS
    Nodes,          \* ids of the nodes
    Position,       \* their order in the definition
    Starts,         \* the workflow definitions and configurations a run may have
    MaxTurns,       \* budget.max_model_turns
    MaxIterations,  \* config.max_tool_iterations
    Faults          \* what may go wrong around the run

Roles == {"planner", "explorer", "implementer", "tester", "reviewer", "knowledge"}
Conditions == {"always", "success", "failure"}
Tools == {"write", "run_tests"}

WorkflowEdges == [source : Nodes, target : Nodes, condition : Conditions]

(* denied[n]: the tools that the allowlist of n leaves out; gated: the      *)
(* nodes with approval_required.                                           *)
WorkflowDefinitions ==
    [entrypoint : Nodes, edges : SUBSET WorkflowEdges, role : [Nodes -> Roles],
     retry_limit : [Nodes -> 0..5], gated : SUBSET Nodes, denied : [Nodes -> SUBSET Tools]]

(* asks: a plan needs an approval the run was not started with; writes: the *)
(* permission is not read_only; runs: there are commands to verify with     *)
(* and the permission to run them; waiver: allow_unverified.               *)
ConfigRows == [asks : BOOLEAN, writes : BOOLEAN, runs : BOOLEAN, waiver : BOOLEAN]

(* No node is named as one of the fixed nodes of the graph (their names     *)
(* begin with workflow_ there).                                            *)
Fixed == {"validate", "intake", "gate", "prepare_workspace", "finalize", "end"}

ASSUME NodesAssumption ==
    /\ IsFiniteSet(Nodes) /\ Nodes # {} /\ Nodes \cap Fixed = {}
    /\ Position \in [Nodes -> Nat]
ASSUME StartAssumption == Starts \subseteq WorkflowDefinitions \X ConfigRows
ASSUME LimitAssumption == MaxTurns \in Nat /\ MaxIterations \in Nat
ASSUME FaultAssumption == Faults \subseteq {"crash", "worktree", "model", "raise"}

VARIABLES
    graph,      \* the WorkflowDefinition
    cfg,        \* RuntimeConfig
    s,          \* AgentState, as checkpointed
    node,       \* the next node of the graph
    phase,      \* is a process running the graph?
    answer,     \* the value resume brought, until a node completed
    stop,       \* the stop file exists
    m,          \* what the configured node that runs holds in memory
    dirty,      \* files changed since tests last passed
    spent,      \* model turns really taken, until a result was thrown away
    discarded,  \* the result of a handler that had begun was thrown away
    tested,     \* how the last verification that ran to its end came out
    finished    \* how often each configured node completed: 0, 1, 2 or more

vars == <<graph, cfg, s, node, phase, answer, stop, m, dirty, spent, discarded, tested, finished>>
given   == <<graph, cfg>>
history == <<dirty, spent, discarded, tested, finished>>

-----------------------------------------------------------------------------
(* validate_graph                                                          *)
EdgesFrom(g, n) == {e \in g.edges : e.source = n}
EdgesInto(g, n) == {e \in g.edges : e.target = n}

NoSelfCycle(g) == \A e \in g.edges : e.source # e.target

(* The conditions of a node's edges differ, and always stands alone.       *)
Deterministic(g) ==
    \A e, f \in g.edges :
        e.source = f.source /\ e # f => e.condition # f.condition /\ e.condition # "always"

(* How often visiting n decrements the count of k.                         *)
\* Mutant: once, however many edges lead there.
UsesUpOnce(g, n, k) == IF EdgesFrom(g, n) \cap EdgesInto(g, k) = {} THEN 0 ELSE 1

UsesUp(g, n, k) == Cardinality(EdgesFrom(g, n) \cap EdgesInto(g, k))

(* The topological sort: a node whose incoming edges are used up is        *)
(* pending; visiting it uses up its outgoing ones.                         *)
Visits(g) ==
    LET Sort[q \in [incoming : [Nodes -> Int], pending : SUBSET Nodes, visits : Seq(Nodes)]] ==
            IF q.pending = {} THEN q.visits
            ELSE LET n    == CHOOSE n \in q.pending : TRUE
                     left == [k \in Nodes |-> q.incoming[k] - UsesUp(g, n, k)]
                 IN  Sort[[incoming |-> left,
                           pending  |-> (q.pending \ {n})
                                          \cup {e.target : e \in {e \in EdgesFrom(g, n) :
                                                                    left[e.target] = 0}},
                           visits   |-> Append(q.visits, n)]]
        count == [k \in Nodes |-> Cardinality(EdgesInto(g, k))]
    IN  Sort[[incoming |-> count, pending |-> {k \in Nodes : count[k] = 0}, visits |-> <<>>]]

Sorted(g) == {Visits(g)[i] : i \in DOMAIN Visits(g)}

Reached(g) ==
    LET Reach[q \in SUBSET Nodes] ==
            LET more == q \cup {e.target : e \in {e \in g.edges : e.source \in q}}
            IN  IF more = q THEN q ELSE Reach[more]
    IN  Reach[{g.entrypoint}]

Valid(g) ==
    /\ NoSelfCycle(g)
    /\ Deterministic(g)
    /\ Sorted(g) = Nodes
    /\ Reached(g) = Nodes

(* The same of WorkflowDSL, by which the API accepts a workflow: it counts  *)
(* the visits of the sort.                                                 *)
Accepts(g) ==
    /\ NoSelfCycle(g)
    /\ Deterministic(g)
    /\ Len(Visits(g)) = Cardinality(Nodes)
    /\ Reached(g) = Nodes

(* next_node: the edge of the outcome, else the unconditional one, else     *)
(* none, which is finalize.                                                *)
NextNode(g, n, failed) ==
    LET wanted == IF failed THEN "failure" ELSE "success"
        match(c) == {e \in EdgesFrom(g, n) : e.condition = c}
    IN  IF match(wanted) # {} THEN (CHOOSE e \in match(wanted) : TRUE).target
        ELSE IF match("always") # {} THEN (CHOOSE e \in match("always") : TRUE).target
        ELSE "finalize"

-----------------------------------------------------------------------------
Doom == {"budget_exhausted", "model_error", "tool_loop", "runtime_error"}

Initial == [status |-> "pending", reason |-> "none", error |-> FALSE, had |-> FALSE,
            iterations |-> 0, turns |-> 0, exit |-> "none", outcome |-> "skipped",
            mutated |-> FALSE, explored |-> FALSE, allowed |-> {}, approved |-> {}]

Idle == [pc |-> "idle", current |-> Initial, updated |-> Initial, attempt |-> 0, raised |-> FALSE]

Init ==
    /\ \E start \in Starts : graph = start[1] /\ cfg = start[2]
    /\ s = Initial
    /\ node = "validate" /\ phase = "running" /\ answer = "none"
    /\ stop = FALSE
    /\ m = Idle
    /\ dirty = FALSE /\ spent = 0 /\ discarded = FALSE /\ tested = "none"
    /\ finished = [n \in Nodes |-> 0]

At(n) == phase = "running" /\ node = n

Complete(t, n) ==
    /\ s' = t
    /\ node' = n
    /\ phase' = IF n = "end" THEN "ended" ELSE "running"
    /\ answer' = "none"

Over(t) == t.turns >= MaxTurns

Failed(t, why) == [t EXCEPT !.status = "failed", !.reason = why, !.error = TRUE]

-----------------------------------------------------------------------------
(* WorkflowDefinition.model_validate: building the graph raises.           *)
Validate ==
    /\ At("validate")
    /\ IF Valid(graph) THEN Complete(s, "intake") ELSE Complete(s, "end")
    /\ UNCHANGED <<given, stop, m, history>>

Intake ==
    /\ At("intake")
    /\ Complete([s EXCEPT !.status = "planning"], "gate")
    /\ UNCHANGED <<given, stop, m, history>>

(* pending_workflow_approval: the first gated node not approved yet.       *)
Unasked(t) == graph.gated \ t.approved
Pending(t) == CHOOSE n \in Unasked(t) : \A k \in Unasked(t) : Position[n] <= Position[k]

\* Mutant: one approval opens the gate.
AfterGateOnce(t) == IF t.approved # {} THEN "prepare_workspace" ELSE
                    IF Unasked(t) # {} THEN "gate" ELSE "prepare_workspace"

AfterGate(t) == IF Unasked(t) # {} THEN "gate" ELSE "prepare_workspace"

GatePasses ==
    /\ At("gate")
    /\ Unasked(s) = {}
    /\ Complete(s, AfterGate(s))
    /\ UNCHANGED <<given, stop, m, history>>

GateAsks ==
    /\ At("gate")
    /\ Unasked(s) # {} /\ answer = "none"
    /\ phase' = "paused"
    /\ UNCHANGED <<given, s, node, answer, stop, m, history>>

GateDecided ==
    LET t == [s EXCEPT !.approved = @ \cup {Pending(s)}, !.status = "running", !.reason = "none"]
    IN
    /\ At("gate")
    /\ Unasked(s) # {} /\ answer # "none"
    /\ IF answer = "approved" THEN Complete(t, AfterGate(t))
       ELSE Complete([s EXCEPT !.status = "interrupted", !.reason = "approval_denied"], "end")
    /\ UNCHANGED <<given, stop, m, history>>

(* A worktree that is refused leaves a failed state to the first node.     *)
Prepare ==
    /\ At("prepare_workspace")
    /\ \/ Complete(s, graph.entrypoint)
       \/ /\ "worktree" \in Faults /\ cfg.writes
          /\ Complete(Failed(s, "runtime_error"), graph.entrypoint)
    /\ UNCHANGED <<given, stop, m, history>>

-----------------------------------------------------------------------------
(* A configured node begins: the tools of the route that its allowlist has. *)
RouteTools == IF cfg.writes THEN Tools ELSE {"run_tests"}

NodeStarts(n) ==
    /\ At(n)
    /\ m.pc = "idle"
    /\ m' = [Idle EXCEPT !.pc = "call",
                         !.current = [s EXCEPT !.allowed = RouteTools \ graph.denied[n]]]
    /\ UNCHANGED <<given, s, node, phase, answer, stop, history>>

Role == graph.role[node]
Loops == Role \in {"implementer", "reviewer", "knowledge"}

(* Did the node fail?  A tester is judged by its exit code.                *)
HasFailed(t) == IF Role = "tester" THEN t.exit = "nonzero" ELSE t.error

Route(t) ==
    IF t.status \in {"interrupted", "awaiting_approval"} THEN "end"
    ELSE NextNode(graph, node, HasFailed(t))

NodeFinishes(t) ==
    /\ Complete(t, Route(t))
    /\ m' = Idle
    /\ finished' = [finished EXCEPT ![node] = IF @ = 2 THEN @ ELSE @ + 1]

(* interrupt() uses up the answer when it returns it.                      *)
Answered == IF stop /\ Role \notin {"planner", "explorer"} THEN "none" ELSE answer

(* One attempt came to updated state t: again, or done.  The last exception *)
(* is remembered over the attempts and makes the node's error.             *)
\* Mutant: one attempt too many.
AttemptEndsLate(t, raised) ==
    IF HasFailed(t) /\ m.attempt <= graph.retry_limit[node]
    THEN /\ m' = [m EXCEPT !.pc = "call", !.current = t, !.updated = Initial,
                           !.attempt = @ + 1, !.raised = raised]
         /\ answer' = Answered
         /\ UNCHANGED <<s, node, phase, finished>>
    ELSE NodeFinishes([t EXCEPT !.error = @ \/ raised])

AttemptEnds(t, raised) ==
    IF HasFailed(t) /\ m.attempt < graph.retry_limit[node]
    THEN /\ m' = [m EXCEPT !.pc = "call", !.current = t, !.updated = Initial,
                           !.attempt = @ + 1, !.raised = raised]
         /\ answer' = Answered
         /\ UNCHANGED <<s, node, phase, finished>>
    ELSE NodeFinishes([t EXCEPT !.error = @ \/ raised])

(* A handler returned t.  An implementer, a reviewer and a knowledge node   *)
(* go on as long as t asks for tools and has iterations left.              *)
HandlerReturns(t) ==
    IF Loops /\ t.had /\ t.iterations < MaxIterations
    THEN /\ m' = [m EXCEPT !.pc = "loop", !.updated = t]
         /\ answer' = Answered
         /\ UNCHANGED <<s, node, phase, finished>>
    ELSE AttemptEnds(t, m.raised)

(* The attempt raised: whatever the calls of this attempt returned is lost. *)
\* Mutant: what earlier attempts returned is lost too.
HandlerRaisesForgetful ==
    /\ AttemptEnds([s EXCEPT !.error = TRUE, !.status = "running",
                             !.allowed = m.current.allowed], TRUE)
    /\ discarded' = (discarded \/ m.pc = "loop")

HandlerRaises ==
    /\ AttemptEnds([m.current EXCEPT !.error = TRUE, !.status = "running"], TRUE)
    /\ discarded' = (discarded \/ m.pc = "loop")

InNode == phase = "running" /\ node \in Nodes /\ m.pc # "idle"
Calls(role) == InNode /\ Role = role
Given == IF m.pc = "loop" THEN m.updated ELSE m.current

(* _interrupt_if_stop_requested: interrupt() raises, unless this node is    *)
(* the one that was resumed and its answer was not used.                   *)
ChecksStop == InNode /\ Role \notin {"planner", "explorer"}
Heeds == stop /\ answer = "none"

\* Mutant: the stop file is looked for at the first call only.
StopIsCaughtFirst ==
    /\ ChecksStop /\ Heeds /\ m.pc = "call"
    /\ stop' = FALSE
    /\ HandlerRaises
    /\ UNCHANGED <<given, dirty, spent, tested>>

StopIsCaught ==
    /\ ChecksStop /\ Heeds
    /\ stop' = FALSE
    /\ HandlerRaises
    /\ UNCHANGED <<given, dirty, spent, tested>>

(* A tool or the file system raises: before the handler did anything that   *)
(* lasts.                                                                  *)
ToolRaises ==
    /\ "raise" \in Faults
    /\ InNode /\ Role # "planner"
    /\ ~ (ChecksStop /\ Heeds)
    /\ Loops => Given.status # "failed"
    /\ stop' = (stop /\ ~ ChecksStop)
    /\ HandlerRaises
    /\ UNCHANGED <<given, dirty, spent, tested>>

(* The model was asked.                                                    *)
TurnTaken == spent' = IF discarded THEN spent ELSE spent + 1

(* discover                                                                *)
Explores ==
    /\ Calls("explorer")
    /\ HandlerReturns([m.current EXCEPT !.explored = TRUE])
    /\ UNCHANGED <<given, stop, dirty, spent, discarded, tested>>

(* plan: without an explorer before it there is no project_context, and the *)
(* KeyError is taken for a model error.                                    *)
PlanFails ==
    /\ Calls("planner")
    /\ \/ Over(m.current) /\ HandlerReturns(Failed(m.current, "budget_exhausted"))
       \/ /\ ~ Over(m.current)
          /\ ~ m.current.explored \/ "model" \in Faults
          /\ HandlerReturns(Failed(m.current, "model_error"))
    /\ UNCHANGED <<given, stop, dirty, spent, discarded, tested>>

Plans ==
    LET t == [m.current EXCEPT !.turns = @ + 1] IN
    /\ Calls("planner")
    /\ ~ Over(m.current) /\ m.current.explored
    /\ HandlerReturns(IF cfg.asks /\ cfg.writes
                      THEN [t EXCEPT !.status = "awaiting_approval",
                                     !.reason = "awaiting_approval"]
                      ELSE t)
    /\ TurnTaken
    /\ UNCHANGED <<given, stop, dirty, discarded, tested>>

-----------------------------------------------------------------------------
Executing == InNode /\ Loops /\ ~ Heeds

(* A failed state is handed back as it is: in the loop, for ever.          *)
ExecuteReturns ==
    /\ Executing
    /\ Given.status = "failed"
    /\ stop' = FALSE
    /\ HandlerReturns(Given)
    /\ UNCHANGED <<given, dirty, spent, discarded, tested>>

MayTurn(t) == t.status # "failed" /\ ~ Over(t)

ExecuteFails ==
    /\ Executing
    /\ Given.status # "failed"
    /\ \/ Over(Given) /\ HandlerReturns(Failed(Given, "budget_exhausted"))
       \/ "model" \in Faults /\ HandlerReturns(Failed(Given, "model_error"))
    /\ stop' = FALSE
    /\ UNCHANGED <<given, dirty, spent, discarded, tested>>

(* A batch of tool calls beyond the budget: the turn counts, no call runs.  *)
BatchRefused ==
    /\ Executing /\ MayTurn(Given)
    /\ HandlerReturns(Failed([Given EXCEPT !.turns = @ + 1], "budget_exhausted"))
    /\ TurnTaken
    /\ stop' = FALSE
    /\ UNCHANGED <<given, dirty, discarded, tested>>

(* A turn with no call, reading calls, or a writing call; failed: the last  *)
(* call failed; looped: the same call or root cause three times.           *)
AfterBatch(t, kind, failed, looped) ==
    [t EXCEPT !.turns = @ + 1, !.iterations = @ + 1, !.status = "running",
              !.had = (kind # "none"), !.error = failed \/ looped,
              !.mutated = @ \/ kind = "write",
              !.reason = IF looped THEN "tool_loop" ELSE @]

BatchRuns(kind, failed, looped) ==
    /\ Executing /\ MayTurn(Given)
    /\ kind = "none" => ~ failed
    /\ looped => Given.turns >= 2
    /\ HandlerReturns(AfterBatch(Given, kind, failed, looped))
    /\ dirty' = (dirty \/ (kind = "write" /\ "write" \in Given.allowed))
    /\ TurnTaken
    /\ stop' = FALSE
    /\ UNCHANGED <<given, discarded, tested>>

(* verify, without anything to run: blocked, or skipped.                   *)
VerifySkipped ==
    /\ Calls("tester") /\ ~ Heeds
    /\ ~ cfg.runs
    /\ HandlerReturns([m.current EXCEPT !.status = "verifying", !.exit = "none",
            !.outcome = IF m.current.mutated /\ ~ cfg.waiver THEN "blocked" ELSE "skipped"])
    /\ stop' = FALSE
    /\ UNCHANGED <<given, dirty, spent, discarded, tested>>

VerifyRuns(passes) ==
    /\ Calls("tester") /\ ~ Heeds
    /\ cfg.runs
    /\ passes => "run_tests" \in m.current.allowed
    /\ HandlerReturns([m.current EXCEPT !.status = "verifying", !.error = ~ passes,
            !.exit = IF passes THEN "zero" ELSE "nonzero",
            !.outcome = IF passes THEN "passed" ELSE "failed"])
    /\ dirty' = (dirty /\ ~ passes)
    /\ tested' = IF passes THEN "passed" ELSE "failed"
    /\ stop' = FALSE
    /\ UNCHANGED <<given, spent, discarded>>

-----------------------------------------------------------------------------
Ending(t) == IF Over(t) /\ t.reason = "none" THEN "budget_exhausted" ELSE t.reason

Fails(t) ==
    t.exit = "nonzero" \/ t.outcome \in {"failed", "blocked"} \/ Ending(t) \in Doom

Finalize ==
    /\ At("finalize")
    /\ Complete([s EXCEPT
            !.status = IF Fails(s) THEN "failed" ELSE "succeeded",
            !.reason = IF Ending(s) # "none" THEN Ending(s)
                       ELSE IF s.outcome = "failed" THEN "verification_failed"
                       ELSE IF s.outcome = "blocked" THEN "verification_blocked"
                       ELSE "completed"], "end")
    /\ UNCHANGED <<given, stop, m, history>>

(* interrupt_local, or the worker that saw the run's stop flag.            *)
RequestStop ==
    /\ ~ stop
    /\ stop' = TRUE
    /\ UNCHANGED <<given, s, node, phase, answer, m, history>>

(* The process dies: what the node held in memory is lost.                 *)
Crash ==
    /\ "crash" \in Faults
    /\ phase = "running" /\ node # "validate"
    /\ phase' = "dead"
    /\ m' = Idle
    /\ discarded' = (discarded \/ m.pc = "loop" \/ m.attempt > 0)
    /\ UNCHANGED <<given, s, node, answer, stop, dirty, spent, tested, finished>>

Resume(decision) ==
    /\ phase \in {"paused", "dead"}
    /\ phase' = "running"
    /\ answer' = decision
    /\ UNCHANGED <<given, s, node, stop, m, history>>

Run ==
    \/ Validate \/ Intake \/ GatePasses \/ GateAsks \/ GateDecided \/ Prepare
    \/ \E n \in Nodes : NodeStarts(n)
    \/ StopIsCaught \/ Explores \/ PlanFails \/ Plans
    \/ ExecuteReturns \/ ExecuteFails \/ BatchRefused
    \/ \E kind \in {"none", "read", "write"}, failed, looped \in BOOLEAN :
          BatchRuns(kind, failed, looped)
    \/ VerifySkipped
    \/ \E passes \in BOOLEAN : VerifyRuns(passes)
    \/ Finalize

Next ==
    \/ Run
    \/ ToolRaises \/ RequestStop \/ Crash
    \/ \E decision \in {"approved", "denied"} : Resume(decision)

Spec == Init /\ [][Next]_vars

(* The event loop runs the graph as long as its process lives.             *)
FairSpec == Spec /\ WF_vars(Run)

-----------------------------------------------------------------------------
States == [status : {"pending", "planning", "awaiting_approval", "running", "verifying",
                     "interrupted", "failed", "succeeded"},
           reason : Doom \cup {"none", "awaiting_approval", "approval_denied", "completed",
                               "verification_failed", "verification_blocked"},
           error : BOOLEAN, had : BOOLEAN, iterations : Nat, turns : Nat,
           exit : {"none", "zero", "nonzero"},
           outcome : {"skipped", "passed", "failed", "blocked"},
           mutated : BOOLEAN, explored : BOOLEAN, allowed : SUBSET Tools,
           approved : SUBSET Nodes]

Memories == [pc : {"idle", "call", "loop"}, current : States, updated : States,
             attempt : 0..5, raised : BOOLEAN]

(* Every variable has its type, and a node is attempted once and then at    *)
(* most as often as its retry_limit says.                                  *)
TypeOK ==
    /\ <<graph, cfg>> \in Starts
    /\ s \in States /\ m \in Memories
    /\ node \in Nodes => m.attempt <= graph.retry_limit[node]
    /\ node \in Nodes \cup Fixed
    /\ phase \in {"running", "paused", "dead", "ended"}
    /\ answer \in {"none", "approved", "denied"}
    /\ <<stop, dirty, discarded>> \in BOOLEAN \X BOOLEAN \X BOOLEAN
    /\ spent \in Nat /\ tested \in {"none", "passed", "failed"}
    /\ finished \in [Nodes -> 0..2]

(* A path of edges leads from node a to node b; as many edges as there are  *)
(* nodes are enough.                                                       *)
Path(g, a, b) ==
    \E k \in 1..Cardinality(Nodes) : \E p \in [0..k -> Nodes] :
        /\ p[0] = a /\ p[k] = b
        /\ \A i \in 1..k : \E e \in g.edges : e.source = p[i - 1] /\ e.target = p[i]

(* validate_graph accepts exactly the graphs it promises, and those that    *)
(* the API accepts: no path leads from a node back to itself, every node    *)
(* is on a path from the entrypoint, and no outcome of a node has two       *)
(* edges.  So, however its nodes succeed, fail, are retried or re-executed *)
(* after a crash, a workflow completes each of its nodes at most once.     *)
ValidationIsExact ==
    /\ node = "validate" =>
        /\ Accepts(graph) <=> Valid(graph)
        /\ Valid(graph) <=>
            /\ \A n \in Nodes : ~ Path(graph, n, n)
            /\ \A n \in Nodes \ {graph.entrypoint} : Path(graph, graph.entrypoint, n)
            /\ \A n \in Nodes, c \in {"success", "failure"} :
                  Cardinality({e \in EdgesFrom(graph, n) : e.condition \in {c, "always"}}) <= 1
    /\ \A n \in Nodes : finished[n] <= 1

(* The model is not asked for a turn, and no file changes, before every     *)
(* gated node of the workflow was approved.                                *)
GatesComeFirst == spent > 0 \/ dirty => graph.gated \subseteq s.approved

(* A run whose last complete verification failed does not succeed, whatever *)
(* was retried, raised or lost since.                                      *)
NoSuccessAfterFailedTest == s.status = "succeeded" => tested # "failed" \/ discarded

(* A loop node whose handler hands back a failed state repeats within its   *)
(* superstep and asks nobody.                                              *)
Spinning == InNode /\ m.pc = "loop" /\ m.updated.status = "failed"

(* A workflow that is being executed ends or waits for the operator, or it  *)
(* spins in a loop node, and then a stop file gets it out of there.        *)
WorkflowComesToRest ==
    /\ phase = "running" ~> phase # "running" \/ Spinning
    /\ Spinning /\ stop /\ answer = "none" ~> ~ Spinning
=============================================================================
