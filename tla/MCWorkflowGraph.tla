--------------------------- MODULE MCWorkflowGraph ---------------------------
(* Workflows of three nodes.                                               *)
EXTENDS WorkflowGraph

MCNodes == {"a", "b", "c"}
MCPosition == [a |-> 1, b |-> 2, c |-> 3]

Edge(n, c, k) == [source |-> n, target |-> k, condition |-> c]

Draft(entry, edges, role, retry, gated, denied) ==
    [entrypoint |-> entry, edges |-> edges, role |-> role, retry_limit |-> retry,
     gated |-> gated, denied |-> denied]

None == [n \in MCNodes |-> 0]
Free == [n \in MCNodes |-> {}]

(* Every graph with up to three edges, self-cycles and cycles included: its *)
(* nodes only explore, so that its routing is all that matters.            *)
Shapes ==
    {Draft("a", edges, [n \in MCNodes |-> "explorer"], None, {}, Free) :
        edges \in {{e, f, h} : e, f, h \in WorkflowEdges} \cup {{}}}

(* A chain, a fork on the outcome, and a detour after a failure.           *)
Chain  == {Edge("a", "success", "b"), Edge("b", "always", "c")}
Fork   == {Edge("a", "success", "b"), Edge("a", "failure", "c")}
Detour == {Edge("a", "failure", "b"), Edge("a", "success", "c"), Edge("b", "success", "c")}

Reading == [asks |-> FALSE, writes |-> FALSE, runs |-> FALSE, waiver |-> FALSE]
Testing == [asks |-> FALSE, writes |-> TRUE, runs |-> TRUE, waiver |-> FALSE]
Asking  == [asks |-> TRUE, writes |-> TRUE, runs |-> FALSE, waiver |-> FALSE]

(* The second node may be retried; the third may not write.                *)
Flow(edges, role, gated) ==
    Draft("a", edges, role, [None EXCEPT !["b"] = 1], gated, [Free EXCEPT !["c"] = {"write"}])

RolesOf(x, y, z) == [a |-> x, b |-> y, c |-> z]

MCStarts ==
    (Shapes \X {Reading}) \cup
    {<<Flow(Detour, RolesOf("implementer", "reviewer", "tester"), {}), Testing>>,
     <<Flow(Chain, RolesOf("implementer", "tester", "tester"), {"c"}), Testing>>,
     <<Flow(Chain, RolesOf("explorer", "implementer", "tester"), {"a", "c"}), Asking>>,
     <<Flow(Chain, RolesOf("explorer", "planner", "knowledge"), {"b"}), Testing>>,
     <<Flow(Chain, RolesOf("explorer", "planner", "implementer"), {}), Asking>>,
     <<Flow(Chain, RolesOf("explorer", "implementer", "reviewer"), {"a", "b", "c"}), Testing>>,
     <<Flow(Detour, RolesOf("tester", "implementer", "tester"), {}), Testing>>,
     <<Flow(Detour, RolesOf("explorer", "explorer", "planner"), {"b"}), Testing>>,
     <<Flow(Fork, RolesOf("planner", "implementer", "tester"), {"a"}), Testing>>}
=============================================================================
