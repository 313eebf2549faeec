---------------------------- MODULE MCAgentGraph ----------------------------
(* Runs that may write, asking first or not: with edit permission (tests    *)
(* cannot run), isolated or not, with and without a waiver; with full      *)
(* permission, isolated, with and without a test command and the test      *)
(* tool; and one read-only run.                                            *)
EXTENDS AgentRefinement

MCConfigs ==
    {c \in ConfigRows :
        /\ c.permission \in {"edit", "full"}
        /\ c.commands \/ ~ c.canTest
        /\ c.permission = "edit" => ~ c.commands
        /\ c.permission = "full" => ~ c.waiver /\ c.isolates}
    \cup {[permission |-> "read_only", asks |-> FALSE, isolates |-> FALSE,
           commands |-> TRUE, canTest |-> TRUE, waiver |-> FALSE]}
=============================================================================
