------------------------- MODULE WorkflowGraphProofs -------------------------
(* Theorems of WorkflowGraph, for any workflow, configuration, budget and   *)
(* faults.                                                                 *)
EXTENDS WorkflowGraph, FiniteSetTheorems, WellFoundedInduction, TLAPS

(* The run's memory is empty unless a configured node is being executed,    *)
(* and a node approves nothing and succeeds in nothing.                    *)
MemoryIsClean ==
    /\ m.pc = "idle" => m = Idle
    /\ m.pc # "idle" => node \in Nodes /\ m.current.approved = s.approved
                                       /\ m.current.status # "succeeded"
    /\ m.pc = "loop" => /\ m.updated.approved = s.approved /\ m.updated.status # "succeeded"
                        /\ Loops
    /\ s.status = "succeeded" => phase = "ended"

(* Where a run is says what was asked.                                     *)
GatesPassed ==
    /\ node \in Nodes \cup {"prepare_workspace", "finalize"} => graph.gated \subseteq s.approved
    /\ node \in {"validate", "intake", "gate"} => spent = 0 /\ ~ dirty
    /\ GatesComeFirst

(* A failed verification is known to whoever holds the state, until what a  *)
(* handler returned is thrown away.                                        *)
FailureIsKnown ==
    /\ tested = "failed" => cfg.runs
    /\ tested = "failed" /\ ~ discarded =>
          /\ m.pc = "idle" => s.outcome = "failed"
          /\ m.pc = "call" => /\ m.current.outcome = "failed"
                              /\ m.attempt = 0 => s.outcome = "failed"
          /\ m.pc = "loop" => m.updated.outcome = "failed"

IInv == TypeOK /\ MemoryIsClean /\ GatesPassed /\ FailureIsKnown /\ NoSuccessAfterFailedTest

-----------------------------------------------------------------------------
(* A run begins with a state and a memory of their types.                  *)
LEMMA InitialType == Initial \in States /\ Idle \in Memories
BY DEF Initial, Idle, States, Memories, Doom

(* What a start gives a run.                                               *)
LEMMA GraphType ==
    ASSUME TypeOK
    PROVE  /\ graph \in WorkflowDefinitions /\ cfg \in ConfigRows
           /\ graph.entrypoint \in Nodes /\ graph.edges \subseteq WorkflowEdges
           /\ graph.role \in [Nodes -> Roles] /\ graph.retry_limit \in [Nodes -> 0..5]
           /\ graph.gated \subseteq Nodes
BY StartAssumption DEF TypeOK, WorkflowDefinitions

(* A node that has no edge for its outcome goes on to finalize.             *)
LEMMA NextNodeType ==
    ASSUME TypeOK, NEW n, NEW failed
    PROVE  NextNode(graph, n, failed) \in Nodes \cup {"finalize"}
<1> DEFINE wanted == IF failed THEN "failure" ELSE "success"
           match(c) == {e \in EdgesFrom(graph, n) : e.condition = c}
<1>1. \A c : match(c) \subseteq WorkflowEdges
  BY GraphType DEF EdgesFrom
<1>2. \A c : match(c) # {} => (CHOOSE e \in match(c) : TRUE) \in match(c)
  OBVIOUS
<1>3. \A c : match(c) # {} => (CHOOSE e \in match(c) : TRUE).target \in Nodes
  BY <1>1, <1>2 DEF WorkflowEdges
<1>4. NextNode(graph, n, failed) =
        IF match(wanted) # {} THEN (CHOOSE e \in match(wanted) : TRUE).target
        ELSE IF match("always") # {} THEN (CHOOSE e \in match("always") : TRUE).target
        ELSE "finalize"
  BY DEF NextNode
<1> HIDE DEF match, wanted
<1>5. QED BY <1>3, <1>4

(* A set of numbers that is not empty has a smallest.                       *)
LEMMA SmallestNumber ==
    ASSUME NEW P \in SUBSET Nat, P # {}
    PROVE  \E x \in P : \A y \in P : x <= y
<1>1. \E x \in P : \A y \in P : ~ (<<y, x>> \in OpToRel(<, Nat))
  BY NatLessThanWellFounded, WFMin
<1>2. \A x, y \in Nat : <<y, x>> \in OpToRel(<, Nat) <=> y < x
  BY DEF OpToRel
<1>3. \A x, y \in Nat : ~ (y < x) => x <= y
  OBVIOUS
<1>4. QED BY <1>1, <1>2, <1>3, Zenon

(* Among the nodes that were not asked yet there is a first.                *)
LEMMA PendingType ==
    ASSUME TypeOK, Unasked(s) # {}
    PROVE  Pending(s) \in Nodes
<1> DEFINE U == Unasked(s)
           P == {Position[n] : n \in U}
<1>1. U \subseteq Nodes /\ Position \in [Nodes -> Nat]
  BY GraphType, NodesAssumption DEF Unasked
<1>2. P \in SUBSET Nat /\ P # {}
  BY <1>1
<1>3. \E x \in P : \A y \in P : x <= y
  <2> HIDE DEF P
  <2>1. QED BY <1>2, SmallestNumber
<1>4. \E n \in U : \A k \in U : Position[n] <= Position[k]
  BY <1>3
<1>5. QED BY <1>1, <1>4 DEF Pending

-----------------------------------------------------------------------------
(* What a step in a node does around the state it works on.                 *)
Around(t) ==
    /\ UNCHANGED given
    /\ stop' \in BOOLEAN /\ dirty' \in BOOLEAN /\ discarded' \in BOOLEAN
    /\ spent' \in Nat /\ tested' \in {"none", "passed", "failed"}
    /\ t \in States /\ t.approved = s.approved /\ t.status # "succeeded"
    /\ tested' = "failed" => cfg.runs
    /\ tested' = "failed" /\ ~ discarded' => t.outcome = "failed"

(* A node that finished leads to a node, to finalize or to the end.         *)
LEMMA RouteType ==
    ASSUME TypeOK, NEW t
    PROVE  Route(t) \in Nodes \cup {"finalize", "end"}
BY NextNodeType DEF Route

(* A node completes with state t and forgets what it held.                  *)
LEMMA FinishMoves ==
    ASSUME IInv, InNode, NEW t, Around(t), NodeFinishes(t)
    PROVE  IInv'
<1>1. /\ s' = t /\ node' = Route(t) /\ answer' = "none" /\ m' = Idle
      /\ phase' = IF Route(t) = "end" THEN "ended" ELSE "running"
      /\ finished' = [finished EXCEPT ![node] = IF @ = 2 THEN @ ELSE @ + 1]
  BY DEF NodeFinishes, Complete
<1>2. Idle.pc = "idle" /\ Idle.attempt = 0
  BY DEF Idle
<1>3. node \in Nodes /\ graph.gated \subseteq s.approved /\ s.status # "succeeded"
  BY DEF IInv, InNode, GatesPassed, MemoryIsClean
<1>4. Route(t) \in Nodes \cup {"finalize", "end"}
  BY RouteType DEF IInv
<1>5. TypeOK'
  <2>1. finished' \in [Nodes -> 0..2]
    <3>1. finished \in [Nodes -> 0..2] BY DEF IInv, TypeOK
    <3>2. QED BY <1>1, <1>3, <3>1
  <2>2. \A n \in Nodes : graph.retry_limit[n] \in 0..5
    BY GraphType DEF IInv
  <2>3. QED
    BY <1>1, <1>2, <1>4, <2>1, <2>2, InitialType DEF Around, given, TypeOK, Fixed, IInv
<1>6. MemoryIsClean'
  BY <1>1, <1>2 DEF MemoryIsClean, Around
<1>7. GatesPassed'
  <2>1. graph'.gated \subseteq s'.approved BY <1>1, <1>3 DEF Around, given
  <2>2. node' \notin {"validate", "intake", "gate"}
    BY <1>1, <1>4, NodesAssumption DEF Fixed
  <2>3. QED BY <2>1, <2>2 DEF GatesPassed, GatesComeFirst
<1>8. FailureIsKnown' /\ NoSuccessAfterFailedTest'
  BY <1>1, <1>2 DEF FailureIsKnown, NoSuccessAfterFailedTest, Around, given
<1>9. QED BY <1>5, <1>6, <1>7, <1>8 DEF IInv

(* The node goes on, in its loop or with another attempt.                   *)
LEMMA StayMoves ==
    ASSUME IInv, InNode, NEW t, Around(t), UNCHANGED <<s, node, phase, finished>>,
           answer' \in {"none", "approved", "denied"},
           m' \in Memories, m'.attempt <= graph.retry_limit[node],
           \/ m'.pc = "loop" /\ m'.updated = t /\ m'.current = m.current /\ Loops
           \/ m'.pc = "call" /\ m'.current = t /\ m'.attempt > 0
    PROVE  IInv'
<1>1. node \in Nodes /\ graph.gated \subseteq s.approved /\ s.status # "succeeded"
  BY DEF IInv, InNode, GatesPassed, MemoryIsClean
<1>2. node \notin {"validate", "intake", "gate"}
  BY <1>1, NodesAssumption DEF Fixed
<1>3. TypeOK'
  BY DEF IInv, TypeOK, Around, given
<1>4. MemoryIsClean'
  BY <1>1 DEF IInv, InNode, MemoryIsClean, Around, Loops, Role, given
<1>5. GatesPassed'
  BY <1>1, <1>2 DEF GatesPassed, GatesComeFirst, Around, given
<1>6. FailureIsKnown' /\ NoSuccessAfterFailedTest'
  BY <1>1 DEF FailureIsKnown, NoSuccessAfterFailedTest, Around, given
<1>7. QED BY <1>3, <1>4, <1>5, <1>6 DEF IInv

(* An attempt ended with t: the node makes another or completes.            *)
LEMMA AttemptMoves ==
    ASSUME IInv, InNode, NEW t, NEW raised \in BOOLEAN, Around(t), AttemptEnds(t, raised)
    PROVE  IInv'
<1>1. /\ node \in Nodes /\ m \in Memories /\ t \in States
      /\ graph.retry_limit[node] \in 0..5 /\ m.attempt \in 0..5
  BY GraphType DEF IInv, InNode, TypeOK, Around, Memories
<1>2. CASE HasFailed(t) /\ m.attempt < graph.retry_limit[node]
  <2>0. PICK a \in 0..5 : a = m.attempt + 1
    BY <1>1, <1>2
  <2> DEFINE n == [m EXCEPT !.pc = "call", !.current = t, !.updated = Initial,
                            !.attempt = a, !.raised = raised]
  <2>1. m' = n /\ answer' = Answered /\ UNCHANGED <<s, node, phase, finished>>
    BY <1>2, <2>0 DEF AttemptEnds
  <2>2. n \in Memories /\ n.pc = "call" /\ n.current = t /\ n.attempt = a
    BY <1>1, InitialType DEF Memories
  <2>3. answer' \in {"none", "approved", "denied"}
    BY <2>1 DEF Answered, IInv, TypeOK
  <2> HIDE DEF n
  <2>4. QED BY <1>1, <1>2, <2>0, <2>1, <2>2, <2>3, StayMoves
<1>3. CASE ~ (HasFailed(t) /\ m.attempt < graph.retry_limit[node])
  <2> DEFINE u == [t EXCEPT !.error = @ \/ raised]
  <2>1. NodeFinishes(u)
    BY <1>3 DEF AttemptEnds
  <2>2. /\ u \in States /\ u.approved = t.approved /\ u.status = t.status
        /\ u.outcome = t.outcome
    BY <1>1 DEF States
  <2> HIDE DEF u
  <2>3. Around(u)
    BY <2>2 DEF Around
  <2>4. QED BY <2>1, <2>3, FinishMoves
<1>4. QED BY <1>2, <1>3

(* A handler returned t: the node loops, or the attempt ends.               *)
LEMMA ReturnMoves ==
    ASSUME IInv, InNode, NEW t, Around(t), HandlerReturns(t)
    PROVE  IInv'
<1>1. /\ node \in Nodes /\ m \in Memories /\ t \in States /\ m.raised \in BOOLEAN
      /\ m.attempt <= graph.retry_limit[node]
  BY DEF IInv, InNode, TypeOK, Around, Memories
<1>2. CASE Loops /\ t.had /\ t.iterations < MaxIterations
  <2> DEFINE n == [m EXCEPT !.pc = "loop", !.updated = t]
  <2>1. m' = n /\ answer' = Answered /\ UNCHANGED <<s, node, phase, finished>>
    BY <1>2 DEF HandlerReturns
  <2>2. /\ n \in Memories /\ n.pc = "loop" /\ n.updated = t /\ n.current = m.current
        /\ n.attempt = m.attempt
    BY <1>1 DEF Memories
  <2>3. answer' \in {"none", "approved", "denied"}
    BY <2>1 DEF Answered, IInv, TypeOK
  <2> HIDE DEF n
  <2>4. QED BY <1>1, <1>2, <2>1, <2>2, <2>3, StayMoves
<1>3. CASE ~ (Loops /\ t.had /\ t.iterations < MaxIterations)
  <2>1. AttemptEnds(t, m.raised)
    BY <1>3 DEF HandlerReturns
  <2>2. QED BY <1>1, <2>1, AttemptMoves
<1>4. QED BY <1>2, <1>3

(* What a raised exception leaves is the state the attempt began with.      *)
LEMMA RaiseMoves ==
    ASSUME IInv, InNode, HandlerRaises, stop' \in BOOLEAN, UNCHANGED <<given, dirty, spent, tested>>
    PROVE  IInv'
<1> DEFINE t == [m.current EXCEPT !.error = TRUE, !.status = "running"]
<1>1. m.current \in States /\ m.current.approved = s.approved
  BY DEF IInv, TypeOK, Memories, MemoryIsClean, InNode
<1>2. /\ t \in States /\ t.approved = s.approved /\ t.status = "running"
      /\ t.outcome = m.current.outcome
  BY <1>1 DEF States
<1>3. AttemptEnds(t, TRUE) /\ discarded' = (discarded \/ m.pc = "loop")
  BY DEF HandlerRaises
<1> HIDE DEF t
<1>4. tested' = "failed" /\ ~ discarded' => t.outcome = "failed"
  BY <1>2, <1>3 DEF IInv, FailureIsKnown, InNode, TypeOK, Memories
<1>5. Around(t)
  BY <1>2, <1>3, <1>4 DEF Around, IInv, TypeOK, FailureIsKnown
<1>6. QED BY <1>3, <1>5, AttemptMoves

-----------------------------------------------------------------------------
(* The state a handler is called with.                                     *)
LEMMA GivenType ==
    ASSUME IInv, InNode
    PROVE  /\ Given \in States /\ Given.approved = s.approved /\ Given.status # "succeeded"
           /\ tested = "failed" /\ ~ discarded => Given.outcome = "failed"
           /\ m.current \in States /\ m.current.approved = s.approved
           /\ m.current.status # "succeeded"
           /\ ~ Loops => m.current = Given
<1>1. m.pc \in {"call", "loop"} /\ m.current \in States /\ m.updated \in States
  BY DEF IInv, TypeOK, Memories, InNode
<1>2. QED BY <1>1 DEF Given, IInv, MemoryIsClean, FailureIsKnown, InNode

(* A state that is given up keeps the approvals and the outcome.           *)
LEMMA FailedType ==
    ASSUME NEW t \in States, NEW why \in Doom
    PROVE  /\ Failed(t, why) \in States /\ Failed(t, why).approved = t.approved
           /\ Failed(t, why).status = "failed" /\ Failed(t, why).outcome = t.outcome
BY DEF Failed, States, Doom

(* A handler that took a turn.                                             *)
LEMMA TurnType ==
    ASSUME NEW t \in States
    PROVE  LET u == [t EXCEPT !.turns = @ + 1]
           IN  u \in States /\ u.approved = t.approved /\ u.status = t.status
               /\ u.outcome = t.outcome
BY DEF States

(* The steps that stay in the state they were given, or are given up.       *)
LEMMA PlannerMoves ==
    ASSUME IInv, Explores \/ PlanFails \/ Plans
    PROVE  IInv'
<1>0. InNode BY DEF Explores, PlanFails, Plans, Calls
<1>1. ~ Loops BY DEF Explores, PlanFails, Plans, Calls, Loops
<1> DEFINE c == m.current
<1>2. /\ c \in States /\ c.approved = s.approved /\ c.status # "succeeded"
      /\ tested = "failed" /\ ~ discarded => c.outcome = "failed"
  BY <1>0, <1>1, GivenType
<1>3. /\ stop \in BOOLEAN /\ dirty \in BOOLEAN /\ discarded \in BOOLEAN /\ spent \in Nat
      /\ tested \in {"none", "passed", "failed"} /\ (tested = "failed" => cfg.runs)
  BY DEF IInv, TypeOK, FailureIsKnown
<1> HIDE DEF c
<1>4. ASSUME NEW t \in States, t.approved = c.approved, t.status # "succeeded",
             t.outcome = c.outcome, HandlerReturns(t), spent' \in Nat,
             UNCHANGED <<given, stop, dirty, discarded, tested>>
      PROVE  IInv'
  BY <1>0, <1>2, <1>3, <1>4, ReturnMoves DEF Around, given
<1>5. CASE Explores
  <2> DEFINE t == [c EXCEPT !.explored = TRUE]
  <2>1. t \in States /\ t.approved = c.approved /\ t.status = c.status /\ t.outcome = c.outcome
    BY <1>2 DEF States
  <2>2. HandlerReturns(t) BY <1>5 DEF Explores, c
  <2> HIDE DEF t
  <2>3. QED BY <1>2, <1>3, <1>4, <1>5, <2>1, <2>2 DEF Explores
<1>6. CASE PlanFails
  <2>1. PICK why \in Doom : HandlerReturns(Failed(c, why))
    BY <1>6 DEF PlanFails, Doom, c
  <2>2. QED BY <1>2, <1>3, <1>4, <1>6, <2>1, FailedType DEF PlanFails
<1>7. CASE Plans
  <2> DEFINE u == [c EXCEPT !.turns = @ + 1]
             a == [u EXCEPT !.status = "awaiting_approval", !.reason = "awaiting_approval"]
  <2>1. u \in States /\ u.approved = c.approved /\ u.status = c.status /\ u.outcome = c.outcome
    BY <1>2, TurnType
  <2>2. HandlerReturns(u) \/ HandlerReturns(a)
    BY <1>7 DEF Plans, c
  <2> HIDE DEF u
  <2>3. /\ a \in States /\ a.approved = u.approved /\ a.outcome = u.outcome
        /\ a.status = "awaiting_approval"
    BY <2>1 DEF States
  <2> HIDE DEF a
  <2>4. spent' \in Nat BY <1>3, <1>7 DEF Plans, TurnTaken
  <2>5. QED BY <1>2, <1>4, <1>7, <2>1, <2>2, <2>3, <2>4 DEF Plans
<1>8. QED BY <1>5, <1>6, <1>7

(* AfterBatch, its new values given.                                       *)
Batched(t, a, b, h, e, w, r) ==
    [t EXCEPT !.turns = a, !.iterations = b, !.status = "running", !.had = h,
              !.error = e, !.mutated = w, !.reason = r]

(* A batch of tool calls keeps the approvals and the outcome.              *)
LEMMA BatchType ==
    ASSUME NEW t \in States, NEW h \in BOOLEAN, NEW e \in BOOLEAN, NEW w \in BOOLEAN,
           NEW a \in Nat, NEW b \in Nat,
           NEW r \in Doom \cup {"none", "awaiting_approval", "approval_denied", "completed",
                               "verification_failed", "verification_blocked"}
    PROVE  /\ Batched(t, a, b, h, e, w, r) \in States
           /\ Batched(t, a, b, h, e, w, r).approved = t.approved
           /\ Batched(t, a, b, h, e, w, r).status = "running"
           /\ Batched(t, a, b, h, e, w, r).outcome = t.outcome
<1> DEFINE u1 == [t EXCEPT !.turns = a, !.iterations = b, !.status = "running"]
           u2 == [u1 EXCEPT !.had = h, !.error = e]
           u3 == [u2 EXCEPT !.mutated = w, !.reason = r]
<1>1. Batched(t, a, b, h, e, w, r) = u3
  BY DEF Batched
<1>2. /\ u1 \in States /\ u1.approved = t.approved /\ u1.status = "running"
      /\ u1.outcome = t.outcome
  BY DEF States
<1> HIDE DEF u1
<1>3. /\ u2 \in States /\ u2.approved = t.approved /\ u2.status = "running"
      /\ u2.outcome = t.outcome
  BY <1>2 DEF States
<1> HIDE DEF u2
<1>4. /\ u3 \in States /\ u3.approved = t.approved /\ u3.status = "running"
      /\ u3.outcome = t.outcome
  BY <1>3 DEF States
<1> HIDE DEF u3
<1>5. QED BY <1>1, <1>4

(* The implementer, the reviewer and the knowledge node.                    *)
LEMMA ExecuteMoves ==
    ASSUME IInv,
           \/ ExecuteReturns \/ ExecuteFails \/ BatchRefused
           \/ \E kind \in {"none", "read", "write"}, failed, looped \in BOOLEAN :
                 BatchRuns(kind, failed, looped)
    PROVE  IInv'
<1>0. InNode
  BY DEF ExecuteReturns, ExecuteFails, BatchRefused, BatchRuns, Executing
<1> DEFINE g == Given
<1>1. /\ g \in States /\ g.approved = s.approved /\ g.status # "succeeded"
      /\ tested = "failed" /\ ~ discarded => g.outcome = "failed"
  BY <1>0, GivenType
<1>2. /\ stop \in BOOLEAN /\ dirty \in BOOLEAN /\ discarded \in BOOLEAN /\ spent \in Nat
      /\ tested \in {"none", "passed", "failed"} /\ (tested = "failed" => cfg.runs)
  BY DEF IInv, TypeOK, FailureIsKnown
<1> HIDE DEF g
<1>3. ASSUME NEW t \in States, t.approved = g.approved, t.status # "succeeded",
             t.outcome = g.outcome, HandlerReturns(t), spent' \in Nat, dirty' \in BOOLEAN,
             stop' \in BOOLEAN, UNCHANGED <<given, discarded, tested>>
      PROVE  IInv'
  BY <1>0, <1>1, <1>2, <1>3, ReturnMoves DEF Around, given
<1>4. TurnTaken => spent' \in Nat
  BY <1>2 DEF TurnTaken
<1>5. CASE ExecuteReturns
  BY <1>1, <1>2, <1>3, <1>5 DEF ExecuteReturns, g
<1>6. CASE ExecuteFails
  <2>1. PICK why \in Doom : HandlerReturns(Failed(g, why))
    BY <1>6 DEF ExecuteFails, Doom, g
  <2>2. QED BY <1>1, <1>2, <1>3, <1>6, <2>1, FailedType DEF ExecuteFails
<1>7. CASE BatchRefused
  <2> DEFINE u == [g EXCEPT !.turns = @ + 1]
  <2>1. u \in States /\ u.approved = g.approved /\ u.outcome = g.outcome
    BY <1>1, TurnType
  <2>2. HandlerReturns(Failed(u, "budget_exhausted"))
    BY <1>7 DEF BatchRefused, g
  <2> HIDE DEF u
  <2>3. "budget_exhausted" \in Doom BY DEF Doom
  <2>4. QED BY <1>2, <1>3, <1>4, <1>7, <2>1, <2>2, <2>3, FailedType DEF BatchRefused
<1>8. ASSUME NEW kind \in {"none", "read", "write"}, NEW failed \in BOOLEAN,
             NEW looped \in BOOLEAN, BatchRuns(kind, failed, looped)
      PROVE  IInv'
  <2> DEFINE h == (kind # "none")
             e == (failed \/ looped)
             w == (g.mutated \/ kind = "write")
             r == IF looped THEN "tool_loop" ELSE g.reason
             a == g.turns + 1
             b == g.iterations + 1
             t == Batched(g, a, b, h, e, w, r)
  <2>0. HandlerReturns(t)
    <3>1. AfterBatch(g, kind, failed, looped) = t
      BY DEF AfterBatch, Batched
    <3> HIDE DEF t
    <3>2. QED BY <1>8, <3>1 DEF BatchRuns, g
  <2>1. h \in BOOLEAN /\ e \in BOOLEAN /\ w \in BOOLEAN
    BY Zenon
  <2>2. /\ r \in Doom \cup {"none", "awaiting_approval", "approval_denied", "completed",
                           "verification_failed", "verification_blocked"}
        /\ a \in Nat /\ b \in Nat
    BY <1>1 DEF States, Doom
  <2> HIDE DEF h, e, w, r, a, b
  <2>5. t \in States /\ t.approved = g.approved /\ t.status = "running" /\ t.outcome = g.outcome
    BY <1>1, <2>1, <2>2, BatchType
  <2> HIDE DEF t
  <2>3. dirty' \in BOOLEAN BY <1>2, <1>8 DEF BatchRuns
  <2>4. QED BY <1>2, <1>3, <1>4, <1>8, <2>0, <2>3, <2>5 DEF BatchRuns
<1>9. QED BY <1>5, <1>6, <1>7, <1>8

(* The tester: with nothing to run there never was a failed verification.   *)
LEMMA TesterMoves ==
    ASSUME IInv, VerifySkipped \/ \E passes \in BOOLEAN : VerifyRuns(passes)
    PROVE  IInv'
<1>0. InNode BY DEF VerifySkipped, VerifyRuns, Calls
<1>1. m.current \in States /\ m.current.approved = s.approved
  BY <1>0, GivenType
<1>2. /\ stop \in BOOLEAN /\ dirty \in BOOLEAN /\ discarded \in BOOLEAN /\ spent \in Nat
      /\ tested \in {"none", "passed", "failed"} /\ (tested = "failed" => cfg.runs)
  BY DEF IInv, TypeOK, FailureIsKnown
<1>3. CASE VerifySkipped
  <2> DEFINE o == IF m.current.mutated /\ ~ cfg.waiver THEN "blocked" ELSE "skipped"
             t == [m.current EXCEPT !.status = "verifying", !.exit = "none", !.outcome = o]
  <2>1. o \in {"blocked", "skipped"} OBVIOUS
  <2>2. HandlerReturns(t) BY <1>3 DEF VerifySkipped
  <2> HIDE DEF o
  <2>3. t \in States /\ t.approved = s.approved /\ t.status = "verifying"
    BY <1>1, <2>1 DEF States
  <2> HIDE DEF t
  <2>4. Around(t)
    BY <1>2, <1>3, <2>3 DEF VerifySkipped, Around
  <2>5. QED BY <1>0, <2>2, <2>4, ReturnMoves
<1>4. ASSUME NEW passes \in BOOLEAN, VerifyRuns(passes) PROVE IInv'
  <2> DEFINE x == IF passes THEN "zero" ELSE "nonzero"
             o == IF passes THEN "passed" ELSE "failed"
             e == ~ passes
             t == [m.current EXCEPT !.status = "verifying", !.error = e, !.exit = x, !.outcome = o]
  <2>1. x \in {"zero", "nonzero"} /\ o \in {"passed", "failed"}
    OBVIOUS
  <2>6. e \in BOOLEAN BY Zenon
  <2>2. /\ HandlerReturns(t) /\ tested' = o /\ dirty' = (dirty /\ ~ passes) /\ stop' = FALSE
        /\ cfg.runs /\ UNCHANGED <<given, spent, discarded>>
    BY <1>4 DEF VerifyRuns
  <2> HIDE DEF o, x, e
  <2>3. t \in States /\ t.approved = s.approved /\ t.status = "verifying" /\ t.outcome = o
    BY <1>1, <2>1, <2>6 DEF States
  <2> HIDE DEF t
  <2>4. Around(t)
    BY <1>2, <2>1, <2>2, <2>3 DEF Around
  <2>5. QED BY <1>0, <2>2, <2>4, ReturnMoves
<1>5. QED BY <1>3, <1>4

(* A stop file that a retry loop catches, and a tool that raises.           *)
LEMMA RaisingMoves ==
    ASSUME IInv, StopIsCaught \/ ToolRaises
    PROVE  IInv'
<1>1. stop \in BOOLEAN BY DEF IInv, TypeOK
<1>2. InNode /\ HandlerRaises /\ stop' \in BOOLEAN /\ UNCHANGED <<given, dirty, spent, tested>>
  BY <1>1 DEF StopIsCaught, ToolRaises, ChecksStop
<1>3. QED BY <1>2, RaiseMoves

-----------------------------------------------------------------------------
(* The fixed nodes before the workflow's own: nothing is spent before the   *)
(* last gate has passed.                                                   *)
LEMMA GateMoves ==
    ASSUME IInv, Validate \/ Intake \/ GatePasses \/ GateAsks \/ GateDecided \/ Prepare
    PROVE  IInv'
<1>0. /\ TypeOK /\ s \in States /\ (s.status # "succeeded" \/ phase = "ended")
      /\ graph.entrypoint \in Nodes /\ graph.gated \subseteq Nodes
      /\ node \in {"validate", "intake", "gate", "prepare_workspace"} /\ phase = "running"
  BY GraphType DEF IInv, TypeOK, MemoryIsClean, Validate, Intake, GatePasses, GateAsks,
     GateDecided, Prepare, At
<1>1. m.pc = "idle" /\ m = Idle /\ node \notin Nodes
  BY <1>0, NodesAssumption DEF IInv, MemoryIsClean, Fixed
<1>2. Idle.pc = "idle" /\ Idle.attempt = 0
  BY DEF Idle
<1>3. ASSUME NEW t \in States, NEW n \in Nodes \cup Fixed, Complete(t, n),
             UNCHANGED <<given, stop, m, history>>,
             t.status # "succeeded", t.outcome = s.outcome, s.approved \subseteq t.approved,
             n \in Nodes \cup {"prepare_workspace", "finalize"} => graph.gated \subseteq t.approved,
             n \in {"validate", "intake", "gate"} => spent = 0 /\ ~ dirty
      PROVE  IInv'
  <2>1. /\ s' = t /\ node' = n /\ answer' = "none" /\ phase' \in {"running", "ended"}
        /\ UNCHANGED <<graph, cfg, m, stop, dirty, spent, discarded, tested, finished>>
    BY <1>3 DEF Complete, given, history
  <2>2. TypeOK'
    <3>1. n \in Nodes => graph.retry_limit[n] \in 0..5
      BY <1>0, GraphType
    <3>2. QED BY <1>0, <1>1, <1>2, <2>1, <3>1 DEF TypeOK
  <2>3. MemoryIsClean'
    BY <1>1, <1>2, <1>3, <2>1 DEF MemoryIsClean
  <2>4. GatesPassed'
    BY <1>3, <2>1 DEF IInv, GatesPassed, GatesComeFirst
  <2>5. FailureIsKnown' /\ NoSuccessAfterFailedTest'
    BY <1>1, <1>2, <1>3, <2>1 DEF IInv, FailureIsKnown, NoSuccessAfterFailedTest
  <2>6. QED BY <2>2, <2>3, <2>4, <2>5 DEF IInv
<1>4. node \in {"validate", "intake", "gate"} => spent = 0 /\ ~ dirty
  BY DEF IInv, GatesPassed
<1>5. CASE Validate
  BY <1>0, <1>3, <1>4, <1>5, NodesAssumption DEF Validate, At, Fixed
<1>6. CASE Intake
  <2> DEFINE t == [s EXCEPT !.status = "planning"]
  <2>1. t \in States /\ t.status = "planning" /\ t.outcome = s.outcome /\ t.approved = s.approved
    BY <1>0 DEF States
  <2>2. Complete(t, "gate") BY <1>6 DEF Intake
  <2> HIDE DEF t
  <2>3. QED BY <1>0, <1>3, <1>4, <1>6, <2>1, <2>2, NodesAssumption DEF Intake, At, Fixed
<1>7. CASE GatePasses
  <2>1. Complete(s, "prepare_workspace") /\ graph.gated \subseteq s.approved
    BY <1>7 DEF GatePasses, AfterGate, Unasked
  <2>2. QED BY <1>0, <1>3, <1>7, <2>1, NodesAssumption DEF GatePasses, Fixed
<1>8. CASE GateAsks
  BY <1>0, <1>1, <1>8 DEF GateAsks, IInv, TypeOK, MemoryIsClean, GatesPassed, GatesComeFirst,
     FailureIsKnown, NoSuccessAfterFailedTest, given, history, Loops, Role
<1>9. CASE GateDecided
  <2>0. Unasked(s) # {} /\ node = "gate" /\ s.approved \subseteq Nodes
    BY <1>0, <1>9 DEF GateDecided, At, States
  <2>1. Pending(s) \in Nodes
    BY <1>0, <2>0, PendingType
  <2> DEFINE a == s.approved \cup {Pending(s)}
             t == [s EXCEPT !.approved = a, !.status = "running", !.reason = "none"]
             d == [s EXCEPT !.status = "interrupted", !.reason = "approval_denied"]
  <2>2. a \subseteq Nodes /\ s.approved \subseteq a BY <2>0, <2>1
  <2>3. Complete(t, AfterGate(t)) \/ Complete(d, "end")
    BY <1>9 DEF GateDecided
  <2> HIDE DEF a
  <2>4. /\ t \in States /\ t.approved = a /\ t.status = "running" /\ t.outcome = s.outcome
        /\ d \in States /\ d.approved = s.approved /\ d.status = "interrupted"
        /\ d.outcome = s.outcome
    BY <1>0, <2>2 DEF States
  <2> HIDE DEF t, d
  <2>5. CASE Complete(d, "end")
    BY <1>3, <1>9, <2>4, <2>5, NodesAssumption DEF GateDecided, Fixed
  <2>6. CASE Complete(t, AfterGate(t))
    <3>1. /\ AfterGate(t) \in {"gate", "prepare_workspace"}
          /\ AfterGate(t) = "prepare_workspace" => graph.gated \subseteq t.approved
      BY DEF AfterGate, Unasked
    <3>2. QED BY <1>3, <1>4, <1>9, <2>0, <2>2, <2>4, <2>6, <3>1, NodesAssumption DEF GateDecided, Fixed
  <2>7. QED BY <2>3, <2>5, <2>6
<1>10. CASE Prepare
  <2>1. graph.gated \subseteq s.approved
    BY <1>10 DEF IInv, GatesPassed, Prepare, At
  <2>2. graph.entrypoint \notin Fixed BY <1>0, NodesAssumption
  <2>3. CASE Complete(s, graph.entrypoint)
    BY <1>0, <1>3, <1>10, <2>1, <2>2, <2>3 DEF Prepare, Fixed
  <2>4. CASE Complete(Failed(s, "runtime_error"), graph.entrypoint)
    <3>1. "runtime_error" \in Doom BY DEF Doom
    <3>2. QED BY <1>0, <1>3, <1>10, <2>1, <2>2, <2>4, <3>1, FailedType DEF Prepare, Fixed
  <2>5. QED BY <1>10, <2>3, <2>4 DEF Prepare
<1>11. QED BY <1>5, <1>6, <1>7, <1>8, <1>9, <1>10

(* A node takes the state over as it is, but for its tools.                 *)
LEMMA StartMoves ==
    ASSUME IInv, NEW n \in Nodes, NodeStarts(n)
    PROVE  IInv'
<1> DEFINE c == [s EXCEPT !.allowed = RouteTools \ graph.denied[n]]
           x == [Idle EXCEPT !.pc = "call", !.current = c]
<1>1. s \in States /\ node = n /\ phase = "running" /\ s.status # "succeeded"
  BY DEF IInv, TypeOK, MemoryIsClean, NodeStarts, At
<1>2. RouteTools \ graph.denied[n] \subseteq Tools
  BY DEF RouteTools, Tools
<1>3. /\ c \in States /\ c.approved = s.approved /\ c.status = s.status /\ c.outcome = s.outcome
  BY <1>1, <1>2 DEF States
<1>4. /\ m.pc = "idle" /\ m' = x
      /\ UNCHANGED <<graph, cfg, s, node, phase, answer, stop, dirty, spent, discarded, tested, finished>>
  BY DEF NodeStarts, given, history
<1> HIDE DEF c
<1>5. x \in Memories /\ x.pc = "call" /\ x.current = c /\ x.attempt = 0
  BY <1>3, InitialType DEF Memories, Idle
<1> HIDE DEF x
<1>6. TypeOK'
  <2>1. graph.retry_limit[n] \in 0..5 BY GraphType DEF IInv
  <2>2. QED BY <1>1, <1>4, <1>5, <2>1 DEF IInv, TypeOK
<1>7. MemoryIsClean'
  BY <1>1, <1>3, <1>4, <1>5 DEF IInv, MemoryIsClean
<1>8. GatesPassed' /\ NoSuccessAfterFailedTest'
  BY <1>4 DEF IInv, GatesPassed, GatesComeFirst, NoSuccessAfterFailedTest
<1>9. FailureIsKnown'
  BY <1>3, <1>4, <1>5 DEF IInv, FailureIsKnown
<1>10. QED BY <1>6, <1>7, <1>8, <1>9 DEF IInv

(* finalize succeeds only with an outcome that did not fail.                *)
LEMMA FinalMoves ==
    ASSUME IInv, Finalize
    PROVE  IInv'
<1> DEFINE st == IF Fails(s) THEN "failed" ELSE "succeeded"
           re == IF Ending(s) # "none" THEN Ending(s)
                 ELSE IF s.outcome = "failed" THEN "verification_failed"
                 ELSE IF s.outcome = "blocked" THEN "verification_blocked"
                 ELSE "completed"
           t == [s EXCEPT !.status = st, !.reason = re]
<1>1. s \in States /\ node = "finalize" /\ node \notin Nodes
  BY NodesAssumption DEF IInv, TypeOK, Finalize, At, Fixed
<1>2. m.pc = "idle" /\ m = Idle /\ Idle.pc = "idle"
  BY <1>1 DEF IInv, MemoryIsClean, Idle
<1>3. /\ s' = t /\ node' = "end" /\ phase' = "ended" /\ answer' = "none"
      /\ UNCHANGED <<graph, cfg, m, stop, dirty, spent, discarded, tested, finished>>
  BY DEF Finalize, Complete, given, history
<1>4. st \in {"failed", "succeeded"} /\ (st = "succeeded" => s.outcome # "failed")
  BY DEF Fails
<1>5. re \in Doom \cup {"none", "awaiting_approval", "approval_denied", "completed",
                        "verification_failed", "verification_blocked"}
  BY <1>1 DEF Ending, States, Doom
<1> HIDE DEF st, re
<1>6. t \in States /\ t.status = st /\ t.outcome = s.outcome /\ t.approved = s.approved
  BY <1>1, <1>4, <1>5 DEF States
<1> HIDE DEF t
<1>7. "end" \notin Nodes BY NodesAssumption DEF Fixed
<1>8. TypeOK'
  BY <1>3, <1>6, <1>7 DEF IInv, TypeOK, Fixed
<1>9. MemoryIsClean' /\ GatesPassed'
  BY <1>2, <1>3, <1>6, <1>7 DEF IInv, MemoryIsClean, GatesPassed, GatesComeFirst
<1>10. FailureIsKnown' /\ NoSuccessAfterFailedTest'
  BY <1>2, <1>3, <1>4, <1>6 DEF IInv, FailureIsKnown, NoSuccessAfterFailedTest
<1>11. QED BY <1>8, <1>9, <1>10 DEF IInv

(* Operators and deaths: what a node held in memory is lost with it.        *)
LEMMA OutsideMoves ==
    ASSUME IInv, RequestStop \/ Crash \/ \E decision \in {"approved", "denied"} : Resume(decision)
    PROVE  IInv'
<1>0. Idle.pc = "idle" /\ Idle.attempt = 0
  BY DEF Idle
<1>1. CASE RequestStop
  <2>1. /\ stop' = TRUE
        /\ UNCHANGED <<graph, cfg, s, node, phase, answer, m, dirty, spent, discarded,
                      tested, finished>>
    BY <1>1 DEF RequestStop, given, history
  <2>2. TypeOK'
    BY <2>1 DEF IInv, TypeOK
  <2>3. MemoryIsClean' /\ GatesPassed'
    BY <2>1 DEF IInv, MemoryIsClean, GatesPassed, GatesComeFirst, Loops, Role
  <2>4. FailureIsKnown' /\ NoSuccessAfterFailedTest'
    BY <2>1 DEF IInv, FailureIsKnown, NoSuccessAfterFailedTest
  <2>5. QED BY <2>2, <2>3, <2>4 DEF IInv
<1>2. ASSUME NEW decision \in {"approved", "denied"}, Resume(decision) PROVE IInv'
  <2>1. /\ phase \in {"paused", "dead"} /\ phase' = "running" /\ answer' = decision
        /\ UNCHANGED <<graph, cfg, s, node, stop, m, dirty, spent, discarded, tested, finished>>
    BY <1>2 DEF Resume, given, history
  <2>2. TypeOK'
    BY <1>2, <2>1 DEF IInv, TypeOK
  <2>3. MemoryIsClean' /\ GatesPassed'
    BY <2>1 DEF IInv, MemoryIsClean, GatesPassed, GatesComeFirst, Loops, Role
  <2>4. FailureIsKnown' /\ NoSuccessAfterFailedTest'
    BY <2>1 DEF IInv, FailureIsKnown, NoSuccessAfterFailedTest
  <2>5. QED BY <2>2, <2>3, <2>4 DEF IInv
<1>3. CASE Crash
  <2>1. /\ phase = "running" /\ phase' = "dead" /\ m' = Idle
        /\ discarded' = (discarded \/ m.pc = "loop" \/ m.attempt > 0)
        /\ UNCHANGED <<graph, cfg, s, node, answer, stop, dirty, spent, tested, finished>>
    BY <1>3 DEF Crash, given
  <2>2. m.pc \in {"idle", "call", "loop"} /\ m.attempt \in 0..5
    BY DEF IInv, TypeOK, Memories
  <2> DEFINE lost == (discarded \/ m.pc = "loop" \/ m.attempt > 0)
  <2>7. lost \in BOOLEAN BY Zenon
  <2>8. ~ lost => ~ discarded /\ m.pc # "loop" /\ ~ (m.attempt > 0)
    BY Zenon
  <2>9. discarded' = lost BY <2>1
  <2> HIDE DEF lost
  <2>3. TypeOK'
    <3>1. node \in Nodes => graph.retry_limit[node] \in 0..5 BY GraphType DEF IInv
    <3>2. <<stop, dirty, discarded>>' \in BOOLEAN \X BOOLEAN \X BOOLEAN
      <4>1. stop \in BOOLEAN /\ dirty \in BOOLEAN BY DEF IInv, TypeOK
      <4>2. QED BY <2>1, <2>7, <2>9, <4>1
    <3>3. QED BY <1>0, <2>1, <3>1, <3>2, InitialType DEF IInv, TypeOK
  <2>4. MemoryIsClean' /\ GatesPassed'
    BY <1>0, <2>1 DEF IInv, MemoryIsClean, GatesPassed, GatesComeFirst
  <2>5. FailureIsKnown' /\ NoSuccessAfterFailedTest'
    <3>1. tested' = "failed" /\ ~ discarded' => s'.outcome = "failed"
      BY <2>1, <2>2, <2>8, <2>9 DEF IInv, FailureIsKnown
    <3>2. m'.pc = "idle"
      BY <1>0, <2>1
    <3>3. (tested' = "failed" => cfg'.runs) /\ NoSuccessAfterFailedTest'
      BY <2>1, <2>8, <2>9 DEF IInv, FailureIsKnown, NoSuccessAfterFailedTest
    <3>4. QED BY <3>1, <3>2, <3>3 DEF FailureIsKnown
  <2>6. QED BY <2>3, <2>4, <2>5 DEF IInv
<1>4. QED BY <1>1, <1>2, <1>3

-----------------------------------------------------------------------------
(* The invariant of which the three theorems are parts.                    *)
LEMMA WorkflowInvariant == Spec => []IInv
<1>1. Init => IInv
  <2> SUFFICES ASSUME Init PROVE IInv
    OBVIOUS
  <2>1. Idle.pc = "idle" /\ Idle.attempt = 0 /\ Initial.status = "pending"
    BY DEF Idle, Initial
  <2>2. <<graph, cfg>> \in Starts
    <3>1. PICK start \in Starts : graph = start[1] /\ cfg = start[2]
      BY DEF Init
    <3>2. start = <<start[1], start[2]>>
      BY <3>1, StartAssumption
    <3>3. QED BY <3>1, <3>2
  <2>3. TypeOK
    <3>1. finished \in [Nodes -> 0..2] BY DEF Init
    <3>2. <<stop, dirty, discarded>> \in BOOLEAN \X BOOLEAN \X BOOLEAN BY DEF Init
    <3>3. node = "validate" /\ node \notin Nodes /\ node \in Fixed
      BY NodesAssumption DEF Init, Fixed
    <3>4. QED BY <2>2, <3>1, <3>2, <3>3, InitialType DEF Init, TypeOK
  <2>4. MemoryIsClean /\ GatesPassed /\ FailureIsKnown /\ NoSuccessAfterFailedTest
    BY <2>1, NodesAssumption DEF Init, MemoryIsClean, GatesPassed, GatesComeFirst, FailureIsKnown,
       NoSuccessAfterFailedTest, Fixed
  <2>5. QED BY <2>3, <2>4 DEF IInv
<1>2. IInv /\ [Next]_vars => IInv'
  <2> SUFFICES ASSUME IInv, [Next]_vars PROVE IInv'
    OBVIOUS
  <2>1. CASE UNCHANGED vars
    BY <2>1 DEF vars, IInv, TypeOK, MemoryIsClean, GatesPassed, GatesComeFirst,
       FailureIsKnown, NoSuccessAfterFailedTest, Loops, Role
  <2>2. QED
    BY <2>1, PlannerMoves, ExecuteMoves, TesterMoves, RaisingMoves, GateMoves, StartMoves,
       FinalMoves, OutsideMoves DEF Next, Run
<1>3. QED BY <1>1, <1>2, PTL DEF Spec

(* In every state of every workflow: a node is attempted once and then no   *)
(* more often than its retry_limit says, through crashes and resumptions.   *)
THEOREM WorkflowTypeCorrect == Spec => []TypeOK
<1>1. IInv => TypeOK BY DEF IInv
<1>2. QED BY <1>1, WorkflowInvariant, PTL

(* No turn of the model and no change of a file before every gated node was *)
(* approved, in whatever order the definition lists them.                  *)
THEOREM GatesHold == Spec => []GatesComeFirst
<1>1. IInv => GatesComeFirst BY DEF IInv, GatesPassed
<1>2. QED BY <1>1, WorkflowInvariant, PTL

(* No retry, route, crash or resumption turns a failed verification that    *)
(* nobody threw away into success.                                         *)
THEOREM FailedTestsStay == Spec => []NoSuccessAfterFailedTest
<1>1. IInv => NoSuccessAfterFailedTest BY DEF IInv
<1>2. QED BY <1>1, WorkflowInvariant, PTL

-----------------------------------------------------------------------------
(* A loop: from state q of D go on with next[q], until the state is one of  *)
(* over, whose result is out.                                              *)
Looping(D, over, out, next, f) ==
    f = [q \in D |-> IF q \in over THEN out[q] ELSE f[next[q]]]

(* Every turn of the loop makes a number of its state smaller.              *)
LoopDescends(D, over, next, size) ==
    /\ size \in [D -> Nat]
    /\ \A q \in D : q \notin over => next[q] \in D /\ size[next[q]] < size[q]

(* What such a loop finds from a state within keeps, which its turns do not *)
(* leave, is the result of a state of keeps where it stops.                 *)
LEMMA LoopFinds ==
    ASSUME NEW D, NEW over, NEW out, NEW next, NEW size, LoopDescends(D, over, next, size),
           NEW f, Looping(D, over, out, next, f),
           NEW keeps \in SUBSET D, \A q \in keeps : q \notin over => next[q] \in keeps,
           NEW start \in keeps
    PROVE  \E q \in keeps : q \in over /\ f[start] = out[q]
<1> DEFINE Found(q) == \E r \in keeps : r \in over /\ f[q] = out[r]
           Bad == {q \in keeps : ~ Found(q)}
           P == {size[q] : q \in Bad}
<1> SUFFICES ASSUME ~ Found(start) PROVE FALSE
  OBVIOUS
<1>0. \A q \in keeps : /\ f[q] = IF q \in over THEN out[q] ELSE f[next[q]]
                       /\ q \notin over => size[next[q]] < size[q]
                       /\ size[q] \in Nat
  BY DEF Looping, LoopDescends
<1>1. P \in SUBSET Nat /\ P # {}
  BY <1>0
<1>2. PICK x \in P : \A y \in P : x <= y
  <2> HIDE DEF P
  <2>1. QED BY <1>1, SmallestNumber
<1>3. PICK q \in Bad : x = size[q]
  OBVIOUS
<1>4. q \in keeps /\ ~ Found(q)
  OBVIOUS
<1>5. q \notin over
  BY <1>0, <1>4
<1>6. next[q] \in keeps /\ f[q] = f[next[q]] /\ size[next[q]] < size[q]
  BY <1>0, <1>4, <1>5
<1>7. next[q] \in Bad
  BY <1>4, <1>6
<1>8. size[q] <= size[next[q]] /\ size[q] \in Nat /\ size[next[q]] \in Nat
  <2>1. size[next[q]] \in P BY <1>7
  <2>2. QED BY <1>0, <1>2, <1>3, <1>4, <1>6, <2>1
<1>9. QED BY <1>6, <1>8

(* The recursion of a loop whose sizes are bounded is well founded.         *)
LEMMA LoopExists ==
    ASSUME NEW D, NEW over, NEW out, NEW next, NEW size, LoopDescends(D, over, next, size),
           NEW N \in Nat, \A q \in D : size[q] <= N
    PROVE  \E f : Looping(D, over, out, next, f)
<1> DEFINE Part(n) == {q \in D : size[q] <= n}
           E(n) == \E f : Looping(Part(n), over, out, next, f)
           Bad == {n \in Nat : ~ E(n)}
<1>0. \A q \in D : /\ size[q] \in Nat
                   /\ q \notin over => next[q] \in D /\ size[next[q]] < size[q]
  BY DEF LoopDescends
<1>1. E(0)
  <2> DEFINE h == [q \in Part(0) |-> out[q]]
  <2>1. ASSUME NEW q \in Part(0) PROVE q \in over
    <3>1. q \in D /\ size[q] <= 0 OBVIOUS
    <3>2. QED BY <1>0, <3>1
  <2>2. h = [q \in Part(0) |-> IF q \in over THEN out[q] ELSE h[next[q]]]
    BY <2>1
  <2>3. QED BY <2>2 DEF Looping
<1>2. ASSUME NEW n \in Nat, E(n) PROVE E(n + 1)
  <2>1. PICK f : f = [q \in Part(n) |-> IF q \in over THEN out[q] ELSE f[next[q]]]
    BY <1>2 DEF Looping
  <2> DEFINE h == [q \in Part(n + 1) |-> IF q \in over THEN out[q] ELSE f[next[q]]]
  <2>2. ASSUME NEW q \in Part(n + 1), q \notin over
        PROVE  next[q] \in Part(n) /\ next[q] \in Part(n + 1)
    <3>1. q \in D /\ size[q] <= n + 1 OBVIOUS
    <3>2. next[q] \in D /\ size[next[q]] < size[q] /\ size[q] \in Nat /\ size[next[q]] \in Nat
      BY <1>0, <2>2, <3>1
    <3>3. size[next[q]] <= n /\ size[next[q]] <= n + 1 BY <3>1, <3>2
    <3>4. QED BY <3>2, <3>3
  <2>3. ASSUME NEW q \in Part(n), q \in Part(n + 1) PROVE h[q] = f[q]
    <3>1. f[q] = IF q \in over THEN out[q] ELSE f[next[q]]
      <4> HIDE DEF Part
      <4>1. QED BY <2>1
    <3>2. QED BY <2>3, <3>1
  <2>4. ASSUME NEW q \in Part(n + 1)
        PROVE  h[q] = IF q \in over THEN out[q] ELSE h[next[q]]
    <3>1. h[q] = IF q \in over THEN out[q] ELSE f[next[q]] OBVIOUS
    <3> HIDE DEF h, Part
    <3>2. q \notin over => h[next[q]] = f[next[q]] BY <2>2, <2>3
    <3>3. QED BY <3>1, <3>2
  <2>5. h = [q \in Part(n + 1) |-> h[q]]
    OBVIOUS
  <2> HIDE DEF h, Part
  <2>6. h = [q \in Part(n + 1) |-> IF q \in over THEN out[q] ELSE h[next[q]]]
    BY <2>4, <2>5
  <2>7. QED BY <2>6 DEF Looping
<1>3. E(N)
  <2> HIDE DEF E
  <2> SUFFICES ASSUME ~ E(N) PROVE FALSE
    OBVIOUS
  <2>1. Bad \in SUBSET Nat /\ Bad # {}
    OBVIOUS
  <2>2. PICK n \in Bad : \A j \in Bad : n <= j
    <3> HIDE DEF Bad
    <3>1. QED BY <2>1, SmallestNumber
  <2>3. n \in Nat /\ ~ E(n)
    OBVIOUS
  <2>4. n # 0 BY <1>1, <2>3
  <2>5. n - 1 \in Nat /\ ~ (n <= n - 1) BY <2>3, <2>4
  <2>6. E(n - 1) BY <2>2, <2>5
  <2>7. E((n - 1) + 1) BY <1>2, <2>5, <2>6
  <2>8. (n - 1) + 1 = n BY <2>3
  <2>9. QED BY <2>3, <2>7, <2>8
<1>4. Part(N) = D
  OBVIOUS
<1>5. QED BY <1>3, <1>4

-----------------------------------------------------------------------------
(* S holds whatever the edges from a, or from a member of S, lead to.       *)
Closed(g, a, S) == \A e \in g.edges : e.source = a \/ e.source \in S => e.target \in S

(* Path, without the paths: b is in every such set.                         *)
Follows(g, a, b) == \A S \in SUBSET Nodes : Closed(g, a, S) => b \in S

Acyclic(g) == \A n \in Nodes : ~ Follows(g, n, n)

LEMMA EdgeFields ==
    ASSUME NEW g \in WorkflowDefinitions
    PROVE  /\ \A e \in g.edges : /\ e.source \in Nodes /\ e.target \in Nodes
                                 /\ e.condition \in Conditions
                                 /\ e = [source |-> e.source, target |-> e.target,
                                         condition |-> e.condition]
           /\ g.entrypoint \in Nodes
BY DEF WorkflowDefinitions, WorkflowEdges

LEMMA NodesAreCounted == Cardinality(Nodes) \in Nat /\ Cardinality(Nodes) >= 1
<1>1. IsFiniteSet(Nodes) /\ Nodes # {} BY NodesAssumption
<1>2. Cardinality(Nodes) \in Nat BY <1>1, FS_CardinalityType
<1>3. Cardinality(Nodes) # 0 BY <1>1, FS_EmptySet
<1>4. QED BY <1>2, <1>3

(* The target of an edge follows its source, and what follows the target.   *)
LEMMA EdgeLeads ==
    ASSUME NEW g \in WorkflowDefinitions, NEW e \in g.edges
    PROVE  /\ Follows(g, e.source, e.target)
           /\ \A n : Follows(g, e.target, n) => Follows(g, e.source, n)
           /\ \A n : Follows(g, n, e.source) => Follows(g, n, e.target)
BY DEF Follows, Closed

(* A walk of k edges.                                                      *)
Walk(g, a, b, k) ==
    \E p \in [0..k -> Nodes] :
        /\ p[0] = a /\ p[k] = b
        /\ \A i \in 1..k : \E e \in g.edges : e.source = p[i - 1] /\ e.target = p[i]

LEMMA PathIsWalk ==
    ASSUME NEW g, NEW a, NEW b
    PROVE  Path(g, a, b) <=> \E k \in 1..Cardinality(Nodes) : Walk(g, a, b, k)
BY DEF Path, Walk

(* One more edge.                                                          *)
LEMMA WalkGrows ==
    ASSUME NEW g \in WorkflowDefinitions, NEW a \in Nodes, NEW k \in Nat, NEW e \in g.edges,
           Walk(g, a, e.source, k)
    PROVE  Walk(g, a, e.target, k + 1)
<1>1. PICK p \in [0..k -> Nodes] :
        /\ p[0] = a /\ p[k] = e.source
        /\ \A i \in 1..k : \E d \in g.edges : d.source = p[i - 1] /\ d.target = p[i]
  BY DEF Walk
<1> DEFINE q == [i \in 0..(k + 1) |-> IF i = k + 1 THEN e.target ELSE p[i]]
<1>2. \A i \in 0..(k + 1) : i # k + 1 => i \in 0..k
  OBVIOUS
<1>3. q \in [0..(k + 1) -> Nodes]
  BY <1>2, EdgeFields
<1>4. q[0] = a /\ q[k + 1] = e.target /\ q[k] = e.source
  BY <1>1
<1>5. ASSUME NEW i \in 1..(k + 1)
      PROVE  \E d \in g.edges : d.source = q[i - 1] /\ d.target = q[i]
  <2>1. CASE i = k + 1
    <3>1. i - 1 = k BY <2>1
    <3> HIDE DEF q
    <3>2. QED BY <1>4, <2>1, <3>1
  <2>2. CASE i # k + 1
    <3>1. i \in 1..k /\ i \in 0..(k + 1) /\ i - 1 \in 0..(k + 1) /\ i - 1 # k + 1
      BY <2>2
    <3>2. q[i] = p[i] /\ q[i - 1] = p[i - 1] BY <2>2, <3>1
    <3> HIDE DEF q
    <3>3. QED BY <1>1, <3>1, <3>2
  <2>3. QED BY <2>1, <2>2
<1> HIDE DEF q
<1>6. QED BY <1>3, <1>4, <1>5 DEF Walk

(* Wherever a path leads, follows.                                         *)
LEMMA PathFollows ==
    ASSUME NEW g \in WorkflowDefinitions, NEW a \in Nodes, NEW b, Path(g, a, b)
    PROVE  Follows(g, a, b)
<1>0. PICK k \in 1..Cardinality(Nodes) : Walk(g, a, b, k)
  BY PathIsWalk
<1>1. PICK p \in [0..k -> Nodes] :
        /\ p[0] = a /\ p[k] = b
        /\ \A i \in 1..k : \E e \in g.edges : e.source = p[i - 1] /\ e.target = p[i]
  BY <1>0 DEF Walk
<1>9. k \in Nat /\ k >= 1
  BY NodesAreCounted
<1> SUFFICES ASSUME NEW S \in SUBSET Nodes, Closed(g, a, S), b \notin S PROVE FALSE
  BY DEF Follows
<1> DEFINE Out == {i \in 1..k : p[i] \notin S}
<1>2. Out \in SUBSET Nat /\ k \in Out
  BY <1>1, <1>9
<1>3. PICK i \in Out : \A j \in Out : i <= j
  <2> HIDE DEF Out
  <2>1. QED BY <1>2, SmallestNumber
<1>4. i \in 1..k /\ p[i] \notin S
  OBVIOUS
<1>5. i = 1 \/ p[i - 1] \in S
  <2>1. i # 1 => i - 1 \in 1..k /\ ~ (i <= i - 1) BY <1>9, <1>4
  <2>2. QED BY <1>3, <2>1
<1>6. PICK e \in g.edges : e.source = p[i - 1] /\ e.target = p[i]
  BY <1>1, <1>4
<1>7. e.source = a \/ e.source \in S
  BY <1>1, <1>5, <1>6
<1>8. QED BY <1>4, <1>6, <1>7 DEF Closed

(* A path leads to whatever follows: the sets of nodes that are at most k   *)
(* edges away grow with k, until one is closed, and there are not more than *)
(* Nodes.                                                                  *)
LEMMA FollowsPath ==
    ASSUME NEW g \in WorkflowDefinitions, NEW a \in Nodes, NEW b, Follows(g, a, b)
    PROVE  Path(g, a, b)
<1> DEFINE N == Cardinality(Nodes)
           R(k) == {n \in Nodes : \E j \in 1..k : Walk(g, a, n, j)}
<1>0. N \in Nat /\ N >= 1 /\ IsFiniteSet(Nodes)
  BY NodesAreCounted, NodesAssumption
<1> HIDE DEF N
<1>1. \A k \in Nat : R(k) \in SUBSET Nodes /\ R(k) \subseteq R(k + 1)
  <2>1. \A k \in Nat : 1..k \subseteq 1..(k + 1) OBVIOUS
  <2>2. QED BY <2>1
<1>2. ASSUME NEW k \in Nat \ {0}, NEW e \in g.edges, e.source = a
      PROVE  e.target \in R(k)
  <2>1. Walk(g, a, e.source, 0)
    <3> DEFINE p == [i \in 0..0 |-> a]
    <3>1. p \in [0..0 -> Nodes] /\ p[0] = a /\ 1..0 = {} OBVIOUS
    <3> HIDE DEF p
    <3>2. QED BY <1>2, <3>1 DEF Walk
  <2>2. 0 \in Nat /\ 0 + 1 = 1 /\ 1 \in 1..k OBVIOUS
  <2>3. Walk(g, a, e.target, 1) BY <2>1, <2>2, WalkGrows
  <2>4. QED BY <2>2, <2>3, EdgeFields
<1>3. ASSUME NEW k \in Nat, NEW e \in g.edges, e.source \in R(k)
      PROVE  e.target \in R(k + 1)
  <2>1. PICK j \in 1..k : Walk(g, a, e.source, j) BY <1>3
  <2>2. j \in Nat /\ j + 1 \in 1..(k + 1) OBVIOUS
  <2>3. Walk(g, a, e.target, j + 1) BY <2>1, <2>2, WalkGrows
  <2>4. QED BY <2>2, <2>3, EdgeFields
<1> HIDE DEF R
<1>4. \A k \in Nat \ {0} : R(k + 1) = R(k) => Closed(g, a, R(k))
  BY <1>2, <1>3 DEF Closed
<1>5. ASSUME \A k \in 1..N : ~ Closed(g, a, R(k)) PROVE FALSE
  <2> DEFINE Small == {k \in 1..N : ~ (k <= Cardinality(R(k)))}
  <2>1. \A k \in Nat : IsFiniteSet(R(k)) /\ Cardinality(R(k)) \in Nat
    BY <1>0, <1>1, FS_Subset, FS_CardinalityType
  <2>2. \A k \in 1..N : k \in Nat \ {0} /\ Cardinality(R(k)) < Cardinality(R(k + 1))
    <3> TAKE k \in 1..N
    <3>1. k \in Nat \ {0} /\ k \in Nat /\ k + 1 \in Nat BY <1>0
    <3>2. R(k) # R(k + 1) /\ R(k) \in SUBSET R(k + 1) BY <1>1, <1>4, <1>5, <3>1
    <3>3. Cardinality(R(k)) <= Cardinality(R(k + 1)) /\ Cardinality(R(k)) # Cardinality(R(k + 1))
      BY <2>1, <3>1, <3>2, FS_Subset
    <3>4. QED BY <2>1, <3>1, <3>3
  <2>3. R(1) # {}
    <3>1. Closed(g, a, {}) => Closed(g, a, R(1)) \/ R(1) # {} OBVIOUS
    <3>2. 1 \in 1..N /\ 1 \in Nat \ {0} BY <1>0
    <3>3. ~ Closed(g, a, R(1)) BY <1>5, <3>2
    <3>4. QED BY <1>2, <3>2, <3>3 DEF Closed
  <2>4. Small = {}
    <3> SUFFICES ASSUME Small # {} PROVE FALSE
      OBVIOUS
    <3>1. Small \in SUBSET Nat BY <1>0
    <3>2. PICK k \in Small : \A j \in Small : k <= j
      <4> HIDE DEF Small
      <4>1. QED BY <3>1, SmallestNumber
    <3>3. k \in 1..N /\ ~ (k <= Cardinality(R(k))) /\ k \in Nat BY <1>0
    <3>4. CASE k = 1
      <4>1. IsFiniteSet(R(1)) /\ Cardinality(R(1)) \in Nat BY <2>1
      <4>2. Cardinality(R(1)) # 0 BY <2>3, <4>1, FS_EmptySet
      <4>3. QED BY <3>3, <3>4, <4>1, <4>2
    <3>5. CASE k # 1
      <4>1. k - 1 \in 1..N /\ ~ (k <= k - 1) /\ (k - 1) + 1 = k BY <1>0, <3>3, <3>5
      <4>2. k - 1 <= Cardinality(R(k - 1)) BY <3>2, <4>1
      <4>3. Cardinality(R(k - 1)) < Cardinality(R(k)) BY <2>2, <4>1
      <4>4. Cardinality(R(k - 1)) \in Nat /\ Cardinality(R(k)) \in Nat BY <2>1, <3>3, <4>1
      <4>5. QED BY <3>3, <4>2, <4>3, <4>4
    <3>6. QED BY <3>4, <3>5
  <2>5. N \in 1..N BY <1>0
  <2>6. N <= Cardinality(R(N)) /\ R(N) \in SUBSET Nodes /\ ~ Closed(g, a, R(N))
    BY <1>0, <1>1, <1>5, <2>4, <2>5
  <2>7. Cardinality(R(N)) <= N /\ (N = Cardinality(R(N)) => R(N) = Nodes)
    BY <1>0, <2>6, FS_Subset DEF N
  <2>8. R(N) = Nodes BY <1>0, <2>1, <2>6, <2>7
  <2>9. QED BY <2>6, <2>8, EdgeFields DEF Closed
<1>6. PICK k \in 1..N : Closed(g, a, R(k))
  BY <1>5
<1>7. b \in R(k)
  BY <1>0, <1>1, <1>6 DEF Follows
<1>8. PICK j \in 1..k : Walk(g, a, b, j)
  BY <1>7 DEF R
<1>9. j \in 1..N
  BY <1>0
<1>10. QED BY <1>8, <1>9, PathIsWalk DEF N

-----------------------------------------------------------------------------
(* The states of the topological sort and its turn.                        *)
SortStates == [incoming : [Nodes -> Int], pending : SUBSET Nodes, visits : Seq(Nodes)]

Visited(q) == CHOOSE n \in q.pending : TRUE
Left(g, q) == [k \in Nodes |-> q.incoming[k] - UsesUp(g, Visited(q), k)]
Turn(g, q) ==
    [incoming |-> Left(g, q),
     pending  |-> (q.pending \ {Visited(q)})
                    \cup {e.target : e \in {e \in EdgesFrom(g, Visited(q)) :
                                              Left(g, q)[e.target] = 0}},
     visits   |-> Append(q.visits, Visited(q))]

Sorting(g) ==
    CHOOSE sort : sort = [q \in SortStates |-> IF q.pending = {} THEN q.visits ELSE sort[Turn(g, q)]]

SortStart(g) ==
    LET count == [k \in Nodes |-> Cardinality(EdgesInto(g, k))]
    IN  [incoming |-> count, pending |-> {k \in Nodes : count[k] = 0}, visits |-> <<>>]

LEMMA VisitsAreSorted == ASSUME NEW g PROVE Visits(g) = Sorting(g)[SortStart(g)]
BY DEF Visits, Sorting, SortStart, Turn, Left, Visited, SortStates

LEMMA EdgesAreFinite ==
    ASSUME NEW g \in WorkflowDefinitions
    PROVE  /\ IsFiniteSet(g.edges)
           /\ \A S \in SUBSET g.edges : IsFiniteSet(S) /\ Cardinality(S) \in Nat
<1> DEFINE P == (Nodes \X Nodes) \X Conditions
           f == [x \in P |-> [source |-> x[1][1], target |-> x[1][2], condition |-> x[2]]]
<1>1. IsFiniteSet(Conditions)
  <2>1. IsFiniteSet({}) BY FS_EmptySet
  <2>2. IsFiniteSet({} \cup {"always"}) BY <2>1, FS_AddElement
  <2>3. IsFiniteSet(({} \cup {"always"}) \cup {"success"}) BY <2>2, FS_AddElement
  <2>4. IsFiniteSet((({} \cup {"always"}) \cup {"success"}) \cup {"failure"}) BY <2>3, FS_AddElement
  <2>5. Conditions = (({} \cup {"always"}) \cup {"success"}) \cup {"failure"} BY DEF Conditions
  <2>6. QED BY <2>4, <2>5
<1>2. IsFiniteSet(P)
  <2>1. IsFiniteSet(Nodes \X Nodes) BY NodesAssumption, FS_Product
  <2>2. QED BY <1>1, <2>1, FS_Product
<1>3. f \in Surjection(P, WorkflowEdges)
  <2>1. f \in [P -> WorkflowEdges] BY DEF WorkflowEdges
  <2>2. ASSUME NEW e \in WorkflowEdges PROVE \E x \in P : f[x] = e
    <3>1. <<<<e.source, e.target>>, e.condition>> \in P BY DEF WorkflowEdges
    <3>2. f[<<<<e.source, e.target>>, e.condition>>] = e BY <3>1 DEF WorkflowEdges
    <3>3. QED BY <3>1, <3>2
  <2> HIDE DEF f, P
  <2>3. QED BY <2>1, <2>2 DEF Surjection
<1>4. IsFiniteSet(WorkflowEdges)
  <2> HIDE DEF P, f
  <2>1. QED BY <1>2, <1>3, FS_Surjection
<1>5. g.edges \in SUBSET WorkflowEdges
  BY DEF WorkflowDefinitions
<1>6. IsFiniteSet(g.edges)
  BY <1>4, <1>5, FS_Subset
<1>7. QED BY <1>6, FS_Subset, FS_CardinalityType

(* How often visiting n decrements the count of k: once for every edge.     *)
LEMMA UsesUpType ==
    ASSUME NEW g \in WorkflowDefinitions, NEW n, NEW k
    PROVE  /\ UsesUp(g, n, k) \in Nat
           /\ UsesUp(g, n, k) = 0 <=> \A e \in g.edges : ~ (e.source = n /\ e.target = k)
<1>1. EdgesFrom(g, n) \cap EdgesInto(g, k) \in SUBSET g.edges
  BY DEF EdgesFrom, EdgesInto
<1>2. IsFiniteSet(EdgesFrom(g, n) \cap EdgesInto(g, k)) /\ UsesUp(g, n, k) \in Nat
  BY <1>1, EdgesAreFinite DEF UsesUp
<1>3. UsesUp(g, n, k) = 0 <=> EdgesFrom(g, n) \cap EdgesInto(g, k) = {}
  BY <1>2, FS_EmptySet DEF UsesUp
<1>4. QED BY <1>2, <1>3 DEF EdgesFrom, EdgesInto

(* What the sort still has to do: every turn visits a pending node, and     *)
(* makes a node pending only when it uses up its count.                     *)
SortSize(q) == Cardinality(q.pending) + Cardinality({k \in Nodes : q.incoming[k] > 0})

LEMMA TurnIsSort ==
    ASSUME NEW g \in WorkflowDefinitions, NEW q \in SortStates, q.pending # {}
    PROVE  /\ Turn(g, q) \in SortStates
           /\ Visited(q) \in q.pending /\ Visited(q) \in Nodes
           /\ Left(g, q) \in [Nodes -> Int]
           /\ \A k \in Nodes : Left(g, q)[k] = q.incoming[k] - UsesUp(g, Visited(q), k)
<1>1. Visited(q) \in q.pending /\ Visited(q) \in Nodes /\ q.incoming \in [Nodes -> Int]
      /\ q.visits \in Seq(Nodes) /\ q.pending \subseteq Nodes
  BY DEF Visited, SortStates
<1>2. \A k \in Nodes : Left(g, q)[k] = q.incoming[k] - UsesUp(g, Visited(q), k)
  BY DEF Left
<1>3. Left(g, q) \in [Nodes -> Int]
  BY <1>1, UsesUpType DEF Left
<1>4. {e.target : e \in {e \in EdgesFrom(g, Visited(q)) : Left(g, q)[e.target] = 0}} \subseteq Nodes
  BY EdgeFields DEF EdgesFrom
<1>5. Append(q.visits, Visited(q)) \in Seq(Nodes)
  BY <1>1
<1>6. QED BY <1>1, <1>2, <1>3, <1>4, <1>5 DEF Turn, SortStates

LEMMA TurnsDescend ==
    ASSUME NEW g \in WorkflowDefinitions, NEW q \in SortStates
    PROVE  /\ SortSize(q) \in Nat /\ SortSize(q) <= 2 * Cardinality(Nodes)
           /\ q.pending # {} => SortSize(Turn(g, q)) < SortSize(q)
<1> DEFINE Live(r) == {k \in Nodes : r.incoming[k] > 0}
<1>1. ASSUME NEW r \in SortStates
      PROVE  /\ IsFiniteSet(r.pending) /\ Cardinality(r.pending) \in 0..Cardinality(Nodes)
             /\ IsFiniteSet(Live(r)) /\ Cardinality(Live(r)) \in 0..Cardinality(Nodes)
             /\ SortSize(r) = Cardinality(r.pending) + Cardinality(Live(r))
  <2>1. r.pending \in SUBSET Nodes /\ Live(r) \in SUBSET Nodes BY DEF SortStates
  <2>2. \A S \in SUBSET Nodes : IsFiniteSet(S) /\ Cardinality(S) \in Nat
                                /\ Cardinality(S) <= Cardinality(Nodes)
    BY NodesAssumption, FS_Subset, FS_CardinalityType
  <2>3. Cardinality(Nodes) \in Nat BY NodesAreCounted
  <2>4. QED BY <2>1, <2>2, <2>3 DEF SortSize
<1>2. SortSize(q) \in Nat /\ SortSize(q) <= 2 * Cardinality(Nodes)
  <2>1. Cardinality(Nodes) \in Nat BY NodesAreCounted
  <2> HIDE DEF Live
  <2>2. QED BY <1>1, <2>1
<1>3. ASSUME q.pending # {} PROVE SortSize(Turn(g, q)) < SortSize(q)
  <2> DEFINE n == Visited(q)
             r == Turn(g, q)
             T == {e.target : e \in {e \in EdgesFrom(g, n) : Left(g, q)[e.target] = 0}}
  <2>1. r \in SortStates /\ n \in q.pending
    BY <1>3, TurnIsSort
  <2>2. r.pending = (q.pending \ {n}) \cup T /\ r.incoming = Left(g, q)
    BY DEF Turn
  <2>3. \A k \in Nodes : /\ q.incoming[k] \in Int /\ UsesUp(g, n, k) \in Nat
                         /\ r.incoming[k] = q.incoming[k] - UsesUp(g, n, k)
    <3>1. q.incoming \in [Nodes -> Int] BY DEF SortStates
    <3>2. \A k \in Nodes : Left(g, q)[k] = q.incoming[k] - UsesUp(g, n, k) BY DEF Left
    <3>3. \A k \in Nodes : UsesUp(g, n, k) \in Nat BY UsesUpType
    <3> HIDE DEF r, n
    <3>4. QED BY <2>2, <3>1, <3>2, <3>3
  <2>4. ASSUME NEW k \in T PROVE k \in Live(q) /\ k \notin Live(r)
    <3>1. PICK e \in g.edges : e.source = n /\ e.target = k /\ Left(g, q)[k] = 0
      BY <2>4 DEF EdgesFrom
    <3>2. k \in Nodes /\ UsesUp(g, n, k) # 0 BY <3>1, EdgeFields, UsesUpType
    <3>3. r.incoming[k] = 0 BY <2>2, <3>1
    <3> HIDE DEF r, n
    <3>4. QED BY <2>3, <3>2, <3>3
  <2>5. Live(r) \subseteq Live(q)
    <3> HIDE DEF r, n
    <3>1. QED BY <2>3
  <2> HIDE DEF r, n, T, Live
  <2>6. /\ IsFiniteSet(T) /\ Cardinality(T) \in Nat
        /\ Cardinality(Live(r)) <= Cardinality(Live(q)) - Cardinality(T)
    <3>1. T \in SUBSET Live(q) /\ Live(r) \in SUBSET (Live(q) \ T) BY <2>4, <2>5
    <3>2. IsFiniteSet(Live(q)) BY <1>1
    <3>3. IsFiniteSet(T) /\ Cardinality(T) \in Nat BY <3>1, <3>2, FS_Subset, FS_CardinalityType
    <3>4. /\ IsFiniteSet(Live(q) \ T)
          /\ Cardinality(Live(q) \ T) = Cardinality(Live(q)) - Cardinality(Live(q) \cap T)
      BY <3>2, FS_Difference
    <3>5. Live(q) \cap T = T BY <3>1
    <3>6. Cardinality(Live(r)) <= Cardinality(Live(q) \ T) BY <3>1, <3>4, FS_Subset
    <3>7. QED BY <3>3, <3>4, <3>5, <3>6
  <2>7. Cardinality(r.pending) <= Cardinality(q.pending) - 1 + Cardinality(T)
    <3>1. IsFiniteSet(q.pending) /\ Cardinality(q.pending) \in Nat BY <1>1
    <3>2. /\ IsFiniteSet(q.pending \ {n})
          /\ Cardinality(q.pending \ {n}) = Cardinality(q.pending) - 1
      BY <2>1, <3>1, FS_RemoveElement
    <3>3. /\ Cardinality(r.pending) = Cardinality(q.pending \ {n}) + Cardinality(T)
                                        - Cardinality((q.pending \ {n}) \cap T)
      BY <2>2, <2>6, <3>2, FS_Union
    <3>4. Cardinality((q.pending \ {n}) \cap T) \in Nat
      BY <3>2, FS_Intersection, FS_CardinalityType
    <3>5. QED BY <2>6, <3>1, <3>2, <3>3, <3>4
  <2>8. QED BY <1>1, <2>1, <2>6, <2>7 DEF r
<1>4. QED BY <1>2, <1>3

(* What the sort keeps: the count of a node is the number of its edges from *)
(* nodes that were not visited, those with none are pending, and a node is  *)
(* visited once, after the sources of all its edges.                       *)
Seen(q) == {q.visits[i] : i \in DOMAIN q.visits}
Unseen(g, q, k) == {e \in EdgesInto(g, k) : e.source \notin Seen(q)}

SortKeeps(g, q) ==
    /\ q \in SortStates
    /\ \A i, j \in DOMAIN q.visits : q.visits[i] = q.visits[j] => i = j
    /\ \A k \in Nodes : q.incoming[k] = Cardinality(Unseen(g, q, k))
    /\ q.pending = {k \in Nodes \ Seen(q) : q.incoming[k] = 0}
    /\ \A j \in DOMAIN q.visits : \A e \in EdgesInto(g, q.visits[j]) :
          \E i \in DOMAIN q.visits : i < j /\ q.visits[i] = e.source

LEMMA SortBegins ==
    ASSUME NEW g \in WorkflowDefinitions
    PROVE  SortKeeps(g, SortStart(g))
<1> DEFINE q == SortStart(g)
           count == [k \in Nodes |-> Cardinality(EdgesInto(g, k))]
<1>1. q.incoming = count /\ q.pending = {k \in Nodes : count[k] = 0} /\ q.visits = <<>>
      /\ q = [incoming |-> q.incoming, pending |-> q.pending, visits |-> q.visits]
  BY DEF SortStart
<1>2. DOMAIN q.visits = {} /\ Seen(q) = {} /\ q.visits \in Seq(Nodes)
  BY <1>1 DEF Seen
<1>3. \A k : Unseen(g, q, k) = EdgesInto(g, k) /\ EdgesInto(g, k) \in SUBSET g.edges
  BY <1>2 DEF Unseen, EdgesInto
<1>4. \A k \in Nodes : Cardinality(EdgesInto(g, k)) \in Nat
  BY <1>3, EdgesAreFinite
<1>5. count \in [Nodes -> Int] /\ \A k \in Nodes : count[k] = Cardinality(EdgesInto(g, k))
  BY <1>4
<1> HIDE DEF q, count
<1>6. q \in SortStates
  BY <1>1, <1>2, <1>5 DEF SortStates
<1>7. SortKeeps(g, q)
  BY <1>1, <1>2, <1>3, <1>5, <1>6 DEF SortKeeps
<1>8. QED BY <1>7 DEF q

LEMMA SortGoesOn ==
    ASSUME NEW g \in WorkflowDefinitions, NEW q, SortKeeps(g, q), q.pending # {}
    PROVE  SortKeeps(g, Turn(g, q))
<1> DEFINE n == Visited(q)
           r == Turn(g, q)
           l == Len(q.visits)
<1>0. q \in SortStates /\ q.visits \in Seq(Nodes) /\ q.incoming \in [Nodes -> Int]
  BY DEF SortKeeps, SortStates
<1>1. /\ r \in SortStates /\ n \in q.pending /\ n \in Nodes
      /\ \A k \in Nodes : Left(g, q)[k] = q.incoming[k] - UsesUp(g, n, k)
  BY <1>0, TurnIsSort
<1>2. /\ r.visits = Append(q.visits, n) /\ r.incoming = Left(g, q)
      /\ r.pending = (q.pending \ {n})
                       \cup {e.target : e \in {e \in EdgesFrom(g, n) : Left(g, q)[e.target] = 0}}
  BY DEF Turn
<1> HIDE DEF n, r
<1>3. /\ DOMAIN q.visits = 1..l /\ DOMAIN r.visits = 1..(l + 1) /\ l \in Nat
      /\ \A i \in 1..l : r.visits[i] = q.visits[i]
      /\ r.visits[l + 1] = n
  BY <1>0, <1>1, <1>2
<1> HIDE DEF l
<1>4. Seen(r) = Seen(q) \cup {n}
  <2>1. \A i \in 1..(l + 1) : i \in 1..l \/ i = l + 1 BY <1>3
  <2>2. \A i \in 1..l : i \in 1..(l + 1) BY <1>3
  <2>3. l + 1 \in 1..(l + 1) BY <1>3
  <2>4. QED BY <1>3, <2>1, <2>2, <2>3 DEF Seen
<1>5. n \notin Seen(q) /\ q.incoming[n] = 0
  BY <1>1 DEF SortKeeps
<1>6. \A k \in Nodes : /\ IsFiniteSet(Unseen(g, q, k)) /\ IsFiniteSet(Unseen(g, r, k))
                       /\ Cardinality(Unseen(g, q, k)) \in Nat
                       /\ Cardinality(Unseen(g, r, k)) \in Nat
  <2>1. \A k : Unseen(g, q, k) \in SUBSET g.edges /\ Unseen(g, r, k) \in SUBSET g.edges
    BY DEF Unseen, EdgesInto
  <2>2. QED BY <2>1, EdgesAreFinite
<1>7. \A e \in EdgesInto(g, n) : e.source \in Seen(q)
  <2>1. Cardinality(Unseen(g, q, n)) = 0 BY <1>1, <1>5 DEF SortKeeps
  <2>2. Unseen(g, q, n) = {} BY <1>1, <1>6, <2>1, FS_EmptySet
  <2>3. QED BY <2>2 DEF Unseen
<1>8. \A i, j \in 1..(l + 1) : r.visits[i] = r.visits[j] => i = j
  <2>1. \A i \in 1..l : r.visits[i] # n BY <1>3, <1>5 DEF Seen
  <2>2. \A i, j \in 1..l : r.visits[i] = r.visits[j] => i = j BY <1>3 DEF SortKeeps
  <2>3. \A i \in 1..(l + 1) : i \in 1..l \/ i = l + 1 BY <1>3
  <2>4. QED BY <1>3, <2>1, <2>2, <2>3
<1>9. ASSUME NEW k \in Nodes PROVE r.incoming[k] = Cardinality(Unseen(g, r, k))
  <2> DEFINE A == EdgesFrom(g, n) \cap EdgesInto(g, k)
  <2>1. A \in SUBSET Unseen(g, q, k) /\ Unseen(g, r, k) = Unseen(g, q, k) \ A
    BY <1>4, <1>5 DEF Unseen, EdgesFrom, EdgesInto
  <2>2. Cardinality(Unseen(g, q, k) \ A) = Cardinality(Unseen(g, q, k)) - Cardinality(A)
    <3>1. Unseen(g, q, k) \cap A = A BY <2>1
    <3> HIDE DEF A
    <3>2. QED BY <1>6, <3>1, FS_Difference
  <2>3. q.incoming[k] = Cardinality(Unseen(g, q, k)) BY DEF SortKeeps
  <2>4. UsesUp(g, n, k) = Cardinality(A) BY DEF UsesUp
  <2> HIDE DEF A
  <2>5. QED BY <1>1, <1>2, <2>1, <2>2, <2>3, <2>4
<1>10. ASSUME NEW j \in 1..(l + 1), NEW e \in EdgesInto(g, r.visits[j])
       PROVE  \E i \in 1..(l + 1) : i < j /\ r.visits[i] = e.source
  <2>1. CASE j = l + 1
    <3>1. e.source \in Seen(q) BY <1>3, <1>7, <2>1
    <3>2. PICK i \in 1..l : q.visits[i] = e.source BY <1>3, <3>1 DEF Seen
    <3>3. i \in 1..(l + 1) /\ i < j BY <1>3, <2>1
    <3>4. QED BY <1>3, <3>2, <3>3
  <2>2. CASE j # l + 1
    <3>1. j \in 1..l BY <1>3, <2>2
    <3>2. e \in EdgesInto(g, q.visits[j]) BY <1>3, <3>1
    <3>3. PICK i \in 1..l : i < j /\ q.visits[i] = e.source BY <1>3, <3>1, <3>2 DEF SortKeeps
    <3>4. i \in 1..(l + 1) BY <1>3
    <3>5. QED BY <1>3, <3>3, <3>4
  <2>3. QED BY <2>1, <2>2
<1>11. r.pending = {k \in Nodes \ Seen(r) : r.incoming[k] = 0}
  <2>1. ASSUME NEW k \in r.pending
        PROVE  k \in Nodes \ Seen(r) /\ r.incoming[k] = 0
    <3>0. k \in Nodes BY <1>1 DEF SortStates
    <3>1. CASE k \in q.pending \ {n}
      <4>1. k \notin Seen(q) /\ q.incoming[k] = 0 /\ k # n BY <3>1 DEF SortKeeps
      <4>2. r.incoming[k] = 0 - UsesUp(g, n, k) BY <1>1, <1>2, <3>0, <4>1
      <4>3. r.incoming[k] \in Nat /\ UsesUp(g, n, k) \in Nat BY <1>6, <1>9, <3>0, UsesUpType
      <4>4. QED BY <1>4, <3>0, <4>1, <4>2, <4>3
    <3>2. CASE k \notin q.pending \ {n}
      <4>1. PICK e \in EdgesFrom(g, n) : k = e.target /\ Left(g, q)[k] = 0
        BY <1>2, <3>2
      <4>2. e \in EdgesInto(g, k) /\ e.source = n BY <4>1 DEF EdgesFrom, EdgesInto
      <4>3. k # n BY <1>5, <1>7, <4>2
      <4>4. k \notin Seen(q)
        <5> SUFFICES ASSUME k \in Seen(q) PROVE FALSE
          OBVIOUS
        <5>1. PICK j \in DOMAIN q.visits : q.visits[j] = k BY DEF Seen
        <5>2. \E i \in DOMAIN q.visits : q.visits[i] = n BY <4>2, <5>1 DEF SortKeeps
        <5>3. QED BY <1>5, <5>2 DEF Seen
      <4>5. QED BY <1>2, <1>4, <3>0, <4>1, <4>3, <4>4
    <3>3. QED BY <3>1, <3>2
  <2>2. ASSUME NEW k \in Nodes \ Seen(r), r.incoming[k] = 0
        PROVE  k \in r.pending
    <3>1. k \notin Seen(q) /\ k # n BY <1>4
    <3>2. CASE q.incoming[k] = 0
      <4>1. k \in q.pending BY <3>1, <3>2 DEF SortKeeps
      <4>2. QED BY <1>2, <3>1, <4>1
    <3>3. CASE q.incoming[k] # 0
      <4>1. UsesUp(g, n, k) # 0
        <5>1. 0 = q.incoming[k] - UsesUp(g, n, k) BY <1>1, <1>2, <2>2
        <5>2. UsesUp(g, n, k) \in Nat /\ q.incoming[k] \in Int BY <1>0, UsesUpType
        <5>3. QED BY <3>3, <5>1, <5>2
      <4>2. PICK e \in g.edges : e.source = n /\ e.target = k BY <4>1, UsesUpType
      <4>3. e \in EdgesFrom(g, n) /\ Left(g, q)[e.target] = 0 BY <1>2, <2>2, <4>2 DEF EdgesFrom
      <4>4. QED BY <1>2, <4>2, <4>3
    <3>4. QED BY <3>2, <3>3
  <2>3. r.pending \subseteq Nodes BY <1>1 DEF SortStates
  <2>4. QED BY <2>1, <2>2, <2>3
<1>12. SortKeeps(g, r)
  BY <1>1, <1>3, <1>8, <1>9, <1>10, <1>11 DEF SortKeeps
<1>13. QED BY <1>12 DEF r

(* The sort ends with nothing pending, and its visits are the nodes seen.   *)
LEMMA SortEnds ==
    ASSUME NEW g \in WorkflowDefinitions
    PROVE  \E q : SortKeeps(g, q) /\ q.pending = {} /\ Visits(g) = q.visits
<1> DEFINE done  == {q \in SortStates : q.pending = {}}
           out   == [q \in SortStates |-> q.visits]
           next  == [q \in SortStates |-> Turn(g, q)]
           size  == [q \in SortStates |-> SortSize(q)]
           keeps == {q \in SortStates : SortKeeps(g, q)}
           Once(sort) == sort = [q \in SortStates |-> IF q.pending = {} THEN q.visits
                                                      ELSE sort[Turn(g, q)]]
<1>1. LoopDescends(SortStates, done, next, size)
  <2>1. size \in [SortStates -> Nat] BY TurnsDescend
  <2>2. ASSUME NEW q \in SortStates, q \notin done
        PROVE  next[q] \in SortStates /\ size[next[q]] < size[q]
    <3>1. q.pending # {} /\ Turn(g, q) \in SortStates BY <2>2, TurnIsSort
    <3>2. next[q] = Turn(g, q) /\ size[q] = SortSize(q) /\ size[Turn(g, q)] = SortSize(Turn(g, q))
      BY <3>1
    <3>3. QED BY <3>1, <3>2, TurnsDescend
  <2>3. QED BY <2>1, <2>2 DEF LoopDescends
<1>2. 2 * Cardinality(Nodes) \in Nat /\ \A q \in SortStates : size[q] <= 2 * Cardinality(Nodes)
  BY NodesAreCounted, TurnsDescend
<1>3. \A f : Looping(SortStates, done, out, next, f) <=> Once(f)
  <2>1. \A q \in SortStates : /\ q \in done <=> q.pending = {}
                              /\ out[q] = q.visits /\ next[q] = Turn(g, q)
    OBVIOUS
  <2> HIDE DEF done, out, next
  <2>2. QED BY <2>1 DEF Looping
<1> HIDE DEF done, out, next, size
<1>4. \E f : Once(f)
  BY <1>1, <1>2, <1>3, LoopExists
<1>5. Once(Sorting(g))
  BY <1>4 DEF Sorting
<1>6. Looping(SortStates, done, out, next, Sorting(g))
  BY <1>3, <1>5
<1>7. \A q \in keeps : q \notin done => next[q] \in keeps
  <2> TAKE q \in keeps
  <2> HAVE q \notin done
  <2>1. q.pending # {} BY DEF done
  <2>2. SortKeeps(g, Turn(g, q)) BY <2>1, SortGoesOn
  <2>3. Turn(g, q) \in SortStates /\ next[q] = Turn(g, q) BY <2>2 DEF SortKeeps, next
  <2>4. QED BY <2>2, <2>3
<1>8. SortStart(g) \in keeps
  BY SortBegins DEF SortKeeps
<1>9. PICK q \in keeps : q \in done /\ Sorting(g)[SortStart(g)] = out[q]
  <2>1. keeps \in SUBSET SortStates OBVIOUS
  <2> HIDE DEF keeps
  <2>2. QED BY <1>1, <1>6, <1>7, <1>8, <2>1, LoopFinds
<1>10. q.pending = {} /\ Visits(g) = q.visits
  BY <1>9, VisitsAreSorted DEF done, out
<1>11. QED BY <1>10

(* What the sort visits: every node once, and all of them exactly when no   *)
(* node follows itself.                                                    *)
LEMMA SortIsExact ==
    ASSUME NEW g \in WorkflowDefinitions
    PROVE  /\ Sorted(g) = Nodes <=> Acyclic(g)
           /\ Len(Visits(g)) = Cardinality(Nodes) <=> Sorted(g) = Nodes
<1>1. PICK q : SortKeeps(g, q) /\ q.pending = {} /\ Visits(g) = q.visits
  BY SortEnds
<1> DEFINE V == Seen(q)
<1>2. V = Sorted(g) /\ q.visits \in Seq(Nodes) /\ V \subseteq Nodes
  BY <1>1 DEF Seen, Sorted, SortKeeps, SortStates
<1>3. /\ \A i, j \in DOMAIN q.visits : q.visits[i] = q.visits[j] => i = j
      /\ \A j \in DOMAIN q.visits : \A e \in EdgesInto(g, q.visits[j]) :
            \E i \in DOMAIN q.visits : i < j /\ q.visits[i] = e.source
  BY <1>1 DEF SortKeeps
<1>4. ASSUME V = Nodes, NEW n \in Nodes PROVE ~ Follows(g, n, n)
  <2>1. PICK h \in DOMAIN q.visits : q.visits[h] = n
    BY <1>4 DEF Seen
  <2> DEFINE S == {q.visits[j] : j \in {j \in DOMAIN q.visits : h < j}}
  <2>0. DOMAIN q.visits \subseteq Nat BY <1>2
  <2>2. ASSUME NEW e \in g.edges, e.source = n \/ e.source \in S PROVE e.target \in S
    <3>1. PICK j \in DOMAIN q.visits : q.visits[j] = e.target
      BY <1>4, EdgeFields DEF Seen
    <3>2. e \in EdgesInto(g, q.visits[j]) BY <3>1 DEF EdgesInto
    <3>3. PICK i \in DOMAIN q.visits : i < j /\ q.visits[i] = e.source BY <1>3, <3>2
    <3>4. h <= i
      <4>1. CASE e.source = n BY <1>3, <2>0, <2>1, <3>3, <4>1
      <4>2. CASE e.source \in S
        <5>1. PICK l \in DOMAIN q.visits : h < l /\ q.visits[l] = e.source BY <4>2
        <5>2. l = i BY <1>3, <3>3, <5>1
        <5>3. QED BY <2>0, <5>1, <5>2
      <4>3. QED BY <2>2, <4>1, <4>2
    <3>5. h < j BY <2>0, <3>3, <3>4
    <3>6. QED BY <3>1, <3>5
  <2>3. S \in SUBSET Nodes
    <3>1. \A j \in DOMAIN q.visits : q.visits[j] \in V BY DEF Seen
    <3>2. QED BY <1>2, <3>1
  <2>4. n \notin S
    <3> SUFFICES ASSUME n \in S PROVE FALSE
      OBVIOUS
    <3>1. PICK j \in DOMAIN q.visits : h < j /\ q.visits[j] = n OBVIOUS
    <3>2. j = h BY <1>3, <2>1, <3>1
    <3>3. QED BY <2>0, <3>1, <3>2
  <2> HIDE DEF S
  <2>5. QED BY <2>2, <2>3, <2>4 DEF Follows, Closed
<1>5. ASSUME Acyclic(g), V # Nodes PROVE FALSE
  <2> DEFINE U == Nodes \ V
             After(n) == {b \in Nodes : Follows(g, n, b)}
             N == Cardinality(Nodes)
             P == {N - Cardinality(After(n)) : n \in U}
  <2>1. U # {} /\ U \subseteq Nodes BY <1>2, <1>5
  <2>2. ASSUME NEW u \in U PROVE \E e \in g.edges : e.target = u /\ e.source \in U
    <3>1. u \notin q.pending /\ u \in Nodes \ Seen(q) BY <1>1
    <3>2. q.incoming[u] # 0 /\ q.incoming[u] = Cardinality(Unseen(g, q, u))
      BY <1>1, <3>1 DEF SortKeeps
    <3>3. Unseen(g, q, u) # {} BY <3>2, FS_EmptySet
    <3>4. PICK e \in g.edges : e.target = u /\ e.source \notin Seen(q)
      BY <3>3 DEF Unseen, EdgesInto
    <3>5. QED BY <3>4, EdgeFields
  <2> HIDE DEF V
  <2>3. N \in Nat BY NodesAreCounted
  <2>4. \A n : /\ IsFiniteSet(After(n)) /\ Cardinality(After(n)) \in Nat
               /\ Cardinality(After(n)) <= N
    <3>1. \A n : After(n) \in SUBSET Nodes OBVIOUS
    <3> HIDE DEF After
    <3>2. QED BY <3>1, NodesAssumption, FS_Subset, FS_CardinalityType
  <2> HIDE DEF After, N
  <2>5. P \in SUBSET Nat /\ P # {} BY <2>1, <2>3, <2>4
  <2>6. PICK x \in P : \A y \in P : x <= y
    <3> HIDE DEF P
    <3>1. QED BY <2>5, SmallestNumber
  <2>7. PICK u \in U : x = N - Cardinality(After(u))
    OBVIOUS
  <2>8. PICK e \in g.edges : e.target = u /\ e.source \in U
    BY <2>2
  <2> DEFINE w == e.source
  <2>9. After(u) \subseteq After(w) /\ u \in After(w) /\ u \notin After(u)
    BY <1>5, <2>1, <2>8, EdgeLeads DEF After, Acyclic
  <2>10. Cardinality(After(u)) < Cardinality(After(w))
    <3>1. Cardinality(After(u)) <= Cardinality(After(w))
          /\ (Cardinality(After(w)) = Cardinality(After(u)) => After(w) = After(u))
      BY <2>4, <2>9, FS_Subset
    <3>2. QED BY <2>4, <2>9, <3>1
  <2>11. N - Cardinality(After(w)) \in P
    BY <2>8
  <2>12. N - Cardinality(After(u)) <= N - Cardinality(After(w))
    BY <2>6, <2>7, <2>11
  <2>13. QED BY <2>3, <2>4, <2>10, <2>12
<1>6. Len(q.visits) = Cardinality(V)
  <2> DEFINE f == [i \in 1..Len(q.visits) |-> q.visits[i]]
  <2>0. Len(q.visits) \in Nat /\ DOMAIN q.visits = 1..Len(q.visits) BY <1>2
  <2>1. f \in [1..Len(q.visits) -> V] BY <2>0 DEF Seen
  <2>2. \A i, j \in 1..Len(q.visits) : f[i] = f[j] => i = j BY <1>3, <2>0
  <2>3. \A v \in V : \E i \in 1..Len(q.visits) : f[i] = v BY <2>0 DEF Seen
  <2> HIDE DEF f, V
  <2>4. f \in Bijection(1..Len(q.visits), V)
    BY <2>1, <2>2, <2>3 DEF Bijection, Injection, Surjection, IsInjective
  <2>5. ExistsBijection(1..Len(q.visits), V) BY <2>4 DEF ExistsBijection
  <2>6. QED BY <2>0, <2>5, FS_CountingElements
<1>7. Cardinality(V) = Cardinality(Nodes) <=> V = Nodes
  <2> HIDE DEF V
  <2>1. V \in SUBSET Nodes BY <1>2
  <2>2. QED BY <2>1, NodesAssumption, FS_Subset
<1>8. QED
  <2> HIDE DEF V
  <2>1. V = Nodes <=> Acyclic(g) BY <1>4, <1>5 DEF Acyclic
  <2>2. QED BY <1>1, <1>2, <1>6, <1>7, <2>1

(* The search from the entrypoint.                                         *)
More(g, q) == q \cup {e.target : e \in {e \in g.edges : e.source \in q}}

Reaching(g) ==
    CHOOSE reach : reach = [q \in SUBSET Nodes |-> IF More(g, q) = q THEN q ELSE reach[More(g, q)]]

LEMMA ReachedIsReaching == ASSUME NEW g PROVE Reached(g) = Reaching(g)[{g.entrypoint}]
BY DEF Reached, Reaching, More

(* It reaches the entrypoint and what follows it, and nothing else.         *)
LEMMA ReachIsExact ==
    ASSUME NEW g \in WorkflowDefinitions
    PROVE  /\ Reached(g) \subseteq Nodes
           /\ Reached(g) = Nodes <=> \A n \in Nodes \ {g.entrypoint} : Follows(g, g.entrypoint, n)
<1> DEFINE N == Cardinality(Nodes)
           D == SUBSET Nodes
           done == {q \in D : More(g, q) = q}
           out  == [q \in D |-> q]
           next == [q \in D |-> More(g, q)]
           size == [q \in D |-> N - Cardinality(q)]
           keeps == {q \in D : g.entrypoint \in q /\
                               \A n \in q : n = g.entrypoint \/ Follows(g, g.entrypoint, n)}
           Once(reach) == reach = [q \in D |-> IF More(g, q) = q THEN q ELSE reach[More(g, q)]]
<1>1. \A q \in D : More(g, q) \in D /\ q \in SUBSET More(g, q)
  BY EdgeFields DEF More
<1>2. N \in Nat /\ \A q \in D : IsFiniteSet(q) /\ Cardinality(q) \in Nat /\ Cardinality(q) <= N
  BY NodesAreCounted, NodesAssumption, FS_Subset, FS_CardinalityType
<1> HIDE DEF N, D
<1>3. LoopDescends(D, done, next, size)
  <2>1. size \in [D -> Nat] BY <1>2
  <2>2. ASSUME NEW q \in D, q \notin done
        PROVE  next[q] \in D /\ size[next[q]] < size[q]
    <3>1. More(g, q) # q /\ More(g, q) \in D BY <1>1, <2>2
    <3>2. Cardinality(q) <= Cardinality(More(g, q)) /\ Cardinality(q) # Cardinality(More(g, q))
      BY <1>1, <1>2, <3>1, FS_Subset
    <3>3. next[q] = More(g, q) /\ size[q] = N - Cardinality(q)
          /\ size[More(g, q)] = N - Cardinality(More(g, q))
      BY <3>1
    <3>4. Cardinality(q) \in Nat /\ Cardinality(More(g, q)) \in Nat BY <1>2, <3>1
    <3> HIDE DEF next, size
    <3>5. QED BY <1>2, <3>1, <3>2, <3>3, <3>4
  <2>3. QED BY <2>1, <2>2 DEF LoopDescends
<1>4. \A q \in D : size[q] <= N
  BY <1>2
<1>5. \A f : Looping(D, done, out, next, f) <=> Once(f)
  <2>1. \A q \in D : /\ q \in done <=> More(g, q) = q
                     /\ out[q] = q /\ next[q] = More(g, q)
    OBVIOUS
  <2> HIDE DEF done, out, next
  <2>2. QED BY <2>1 DEF Looping
<1> HIDE DEF done, out, next, size
<1>6. \E f : Once(f)
  BY <1>2, <1>3, <1>4, <1>5, LoopExists
<1>7. Once(Reaching(g))
  BY <1>6 DEF Reaching, D
<1>8. Looping(D, done, out, next, Reaching(g))
  BY <1>5, <1>7
<1>9. \A q \in keeps : q \notin done => next[q] \in keeps
  <2> TAKE q \in keeps
  <2> HAVE q \notin done
  <2>1. next[q] = More(g, q) /\ More(g, q) \in D /\ g.entrypoint \in More(g, q)
    BY <1>1 DEF next
  <2>2. ASSUME NEW n \in More(g, q) PROVE n = g.entrypoint \/ Follows(g, g.entrypoint, n)
    <3>1. CASE n \in q BY <3>1
    <3>2. CASE n \notin q
      <4>1. PICK e \in g.edges : e.source \in q /\ n = e.target BY <3>2 DEF More
      <4>2. QED BY <4>1, EdgeLeads
    <3>3. QED BY <3>1, <3>2
  <2>3. QED BY <2>1, <2>2
<1>10. {g.entrypoint} \in keeps
  BY EdgeFields DEF D
<1>11. PICK q \in keeps : q \in done /\ Reaching(g)[{g.entrypoint}] = out[q]
  <2>1. keeps \in SUBSET D OBVIOUS
  <2> HIDE DEF keeps
  <2>2. QED BY <1>3, <1>8, <1>9, <1>10, <2>1, LoopFinds
<1>12. Reached(g) = q /\ More(g, q) = q /\ q \in SUBSET Nodes /\ g.entrypoint \in q
  BY <1>11, ReachedIsReaching DEF done, out, D
<1>13. Closed(g, g.entrypoint, q)
  BY <1>12 DEF Closed, More
<1>14. \A n : Follows(g, g.entrypoint, n) => n \in q
  BY <1>12, <1>13 DEF Follows
<1>15. \A n \in q : n = g.entrypoint \/ Follows(g, g.entrypoint, n)
  OBVIOUS
<1> HIDE DEF keeps
<1>16. QED BY <1>12, <1>14, <1>15

(* A set of at most one element.                                           *)
LEMMA OneAtMost ==
    ASSUME NEW S, IsFiniteSet(S)
    PROVE  Cardinality(S) <= 1 <=> \A x, y \in S : x = y
<1>1. Cardinality(S) \in Nat /\ (Cardinality(S) = 0 <=> S = {})
      /\ (Cardinality(S) = 1 <=> \E x : S = {x})
  BY FS_CardinalityType, FS_EmptySet, FS_Singleton
<1>2. (\A x, y \in S : x = y) <=> S = {} \/ \E x : S = {x}
  OBVIOUS
<1>3. Cardinality(S) <= 1 <=> Cardinality(S) = 0 \/ Cardinality(S) = 1
  BY <1>1
<1>4. QED BY <1>1, <1>2, <1>3, Zenon

LEMMA ConditionsAreExact ==
    ASSUME NEW g \in WorkflowDefinitions
    PROVE  Deterministic(g) <=>
             \A n \in Nodes, c \in {"success", "failure"} :
                Cardinality({e \in EdgesFrom(g, n) : e.condition \in {c, "always"}}) <= 1
<1> DEFINE E(n, c) == {e \in EdgesFrom(g, n) : e.condition \in {c, "always"}}
<1>1. \A n, c : Cardinality(E(n, c)) <= 1 <=> \A e, f \in E(n, c) : e = f
  <2>1. \A n, c : E(n, c) \in SUBSET g.edges BY DEF EdgesFrom
  <2> HIDE DEF E
  <2>2. QED BY <2>1, EdgesAreFinite, OneAtMost
<1>2. ASSUME Deterministic(g), NEW n, NEW c \in {"success", "failure"},
             NEW e \in E(n, c), NEW f \in E(n, c), e # f
      PROVE  FALSE
  BY <1>2 DEF Deterministic, EdgesFrom
<1>3. ASSUME \A n \in Nodes, c \in {"success", "failure"} : \A e, f \in E(n, c) : e = f,
             NEW e \in g.edges, NEW f \in g.edges, e.source = f.source, e # f
      PROVE  e.condition # f.condition /\ e.condition # "always"
  <2>1. e.source \in Nodes /\ e \in EdgesFrom(g, e.source) /\ f \in EdgesFrom(g, e.source)
    BY <1>3, EdgeFields DEF EdgesFrom
  <2>2. e.condition \in Conditions /\ f.condition \in Conditions BY EdgeFields
  <2>3. \A c \in {"success", "failure"} :
          ~ (e.condition \in {c, "always"} /\ f.condition \in {c, "always"})
    BY <1>3, <2>1
  <2>4. QED BY <2>2, <2>3 DEF Conditions
<1>4. QED
  <2> HIDE DEF E
  <2>1. Deterministic(g) <=> \A n \in Nodes, c \in {"success", "failure"} :
                               \A e, f \in E(n, c) : e = f
    BY <1>2, <1>3 DEF Deterministic
  <2>2. Deterministic(g) <=> \A n \in Nodes, c \in {"success", "failure"} : Cardinality(E(n, c)) <= 1
    BY <1>1, <2>1, Zenon
  <2>3. QED BY <2>2 DEF E

(* The validation, as ValidationIsExact says it.                           *)
LEMMA ValidIsExact ==
    ASSUME NEW g \in WorkflowDefinitions
    PROVE  /\ Accepts(g) <=> Valid(g)
           /\ Valid(g) => Acyclic(g)
           /\ Valid(g) <=>
                /\ \A n \in Nodes : ~ Path(g, n, n)
                /\ \A n \in Nodes \ {g.entrypoint} : Path(g, g.entrypoint, n)
                /\ \A n \in Nodes, c \in {"success", "failure"} :
                      Cardinality({e \in EdgesFrom(g, n) : e.condition \in {c, "always"}}) <= 1
<1>1. \A a \in Nodes : \A b : Path(g, a, b) <=> Follows(g, a, b)
  BY PathFollows, FollowsPath
<1>2. g.entrypoint \in Nodes
  BY EdgeFields
<1>3. Acyclic(g) => NoSelfCycle(g)
  BY EdgeLeads, EdgeFields DEF Acyclic, NoSelfCycle
<1>4. Acyclic(g) <=> \A n \in Nodes : ~ Path(g, n, n)
  BY <1>1 DEF Acyclic
<1>5. (\A n \in Nodes \ {g.entrypoint} : Path(g, g.entrypoint, n)) <=> Reached(g) = Nodes
  BY <1>1, <1>2, ReachIsExact
<1>6. Sorted(g) = Nodes <=> Acyclic(g)
  BY SortIsExact
<1>7. Len(Visits(g)) = Cardinality(Nodes) <=> Sorted(g) = Nodes
  BY SortIsExact
<1>8. QED BY <1>3, <1>4, <1>5, <1>6, <1>7, ConditionsAreExact DEF Valid, Accepts

-----------------------------------------------------------------------------
(* A run goes on from a validated graph only, and whichever configured node *)
(* completed, the one the run is at follows it.                            *)
FinishedFollow ==
    /\ node \in {"validate", "intake", "gate", "prepare_workspace"} =>
          \A n \in Nodes : finished[n] = 0
    /\ node \notin {"validate", "end"} => Acyclic(graph)
    /\ node \in Nodes => \A n \in Nodes : finished[n] > 0 => Follows(graph, n, node)
    /\ \A n \in Nodes : finished[n] <= 1

(* An attempt, or a handler that returns, completes the node or leaves it.  *)
Finishes == \E t : NodeFinishes(t)

LEMMA AttemptFinishes ==
    ASSUME NEW t, NEW raised, AttemptEnds(t, raised)
    PROVE  Finishes \/ UNCHANGED <<node, finished>>
BY DEF AttemptEnds, Finishes

LEMMA ReturnFinishes ==
    ASSUME NEW t, HandlerReturns(t)
    PROVE  Finishes \/ UNCHANGED <<node, finished>>
BY AttemptFinishes DEF HandlerReturns

LEMMA RaiseFinishes ==
    ASSUME HandlerRaises
    PROVE  Finishes \/ UNCHANGED <<node, finished>>
BY AttemptFinishes DEF HandlerRaises

(* A step of a configured node.                                            *)
LEMMA InNodeFinishes ==
    ASSUME StopIsCaught \/ ToolRaises \/ Explores \/ PlanFails \/ Plans \/ ExecuteReturns
           \/ ExecuteFails \/ BatchRefused \/ VerifySkipped
           \/ (\E kind \in {"none", "read", "write"}, failed, looped \in BOOLEAN :
                  BatchRuns(kind, failed, looped))
           \/ (\E passes \in BOOLEAN : VerifyRuns(passes))
    PROVE  InNode /\ UNCHANGED given /\ (Finishes \/ UNCHANGED <<node, finished>>)
<1> DEFINE Goal == InNode /\ UNCHANGED given /\ (Finishes \/ UNCHANGED <<node, finished>>)
<1>1. StopIsCaught \/ ToolRaises => Goal
  BY RaiseFinishes DEF StopIsCaught, ToolRaises, ChecksStop
<1>2. Explores => Goal
  BY ReturnFinishes DEF Explores, Calls
<1>3. PlanFails => Goal
  BY ReturnFinishes DEF PlanFails, Calls
<1>4. Plans => Goal
  BY ReturnFinishes DEF Plans, Calls
<1>5. ExecuteReturns => Goal
  BY ReturnFinishes DEF ExecuteReturns, Executing
<1>6. ExecuteFails => Goal
  BY ReturnFinishes DEF ExecuteFails, Executing
<1>7. BatchRefused => Goal
  BY ReturnFinishes DEF BatchRefused, Executing
<1>8. VerifySkipped => Goal
  BY ReturnFinishes DEF VerifySkipped, Calls
<1>9. ASSUME NEW kind, NEW failed, NEW looped, BatchRuns(kind, failed, looped) PROVE Goal
  BY <1>9, ReturnFinishes DEF BatchRuns, Executing
<1>10. ASSUME NEW passes, VerifyRuns(passes) PROVE Goal
  BY <1>10, ReturnFinishes DEF VerifyRuns, Calls
<1> HIDE DEF Goal
<1>11. Goal
  BY <1>1, <1>2, <1>3, <1>4, <1>5, <1>6, <1>7, <1>8, <1>9, <1>10
<1>12. QED BY <1>11 DEF Goal

(* Where the route of a node leads, an edge leads.                         *)
LEMMA RouteLeads ==
    ASSUME TypeOK, node \in Nodes, NEW t, Route(t) \in Nodes
    PROVE  \E e \in graph.edges : e.source = node /\ e.target = Route(t)
<1> DEFINE failed == HasFailed(t)
           wanted == IF failed THEN "failure" ELSE "success"
           match(c) == {e \in EdgesFrom(graph, node) : e.condition = c}
<1>1. "end" \notin Nodes /\ "finalize" \notin Nodes
  BY NodesAssumption DEF Fixed
<1>2. Route(t) = NextNode(graph, node, failed)
  BY <1>1 DEF Route
<1>3. NextNode(graph, node, failed) =
        IF match(wanted) # {} THEN (CHOOSE e \in match(wanted) : TRUE).target
        ELSE IF match("always") # {} THEN (CHOOSE e \in match("always") : TRUE).target
        ELSE "finalize"
  BY DEF NextNode
<1>4. \A c : match(c) # {} => (CHOOSE e \in match(c) : TRUE) \in match(c)
  OBVIOUS
<1>5. \A c : \A e \in match(c) : e \in graph.edges /\ e.source = node
  BY DEF EdgesFrom
<1>6. ASSUME NEW c, match(c) # {}, Route(t) = (CHOOSE e \in match(c) : TRUE).target
      PROVE  \E e \in graph.edges : e.source = node /\ e.target = Route(t)
  <2> HIDE DEF match
  <2>1. QED BY <1>4, <1>5, <1>6
<1> HIDE DEF match, wanted, failed
<1>7. CASE match(wanted) # {}
  BY <1>2, <1>3, <1>6, <1>7
<1>8. CASE match(wanted) = {} /\ match("always") # {}
  BY <1>2, <1>3, <1>6, <1>8
<1>9. QED BY <1>1, <1>2, <1>3, <1>7, <1>8

LEMMA FinishesOnce ==
    ASSUME IInv, FinishedFollow, InNode, Finishes, UNCHANGED given
    PROVE  FinishedFollow'
<1>1. PICK t : NodeFinishes(t)
  BY DEF Finishes
<1>2. /\ node' = Route(t) /\ graph' = graph
      /\ finished' = [finished EXCEPT ![node] = IF @ = 2 THEN @ ELSE @ + 1]
  BY <1>1 DEF NodeFinishes, Complete, given
<1>3. /\ TypeOK /\ node \in Nodes /\ finished \in [Nodes -> 0..2] /\ graph \in WorkflowDefinitions
  BY GraphType DEF IInv, TypeOK, InNode
<1>4. Route(t) \in Nodes \cup {"finalize", "end"}
  BY <1>3, RouteType
<1>5. node \notin {"validate", "end"} /\ Acyclic(graph)
  BY <1>3, NodesAssumption DEF Fixed, FinishedFollow
<1>6. finished[node] = 0
  <2>1. ~ Follows(graph, node, node) BY <1>3, <1>5 DEF Acyclic
  <2>2. ~ (finished[node] > 0) /\ finished[node] \in 0..2 BY <1>3, <2>1 DEF FinishedFollow
  <2>3. QED BY <2>2
<1>7. \A n \in Nodes : finished'[n] = IF n = node THEN 1 ELSE finished[n]
  BY <1>2, <1>3, <1>6
<1>8. node' \notin {"validate", "intake", "gate", "prepare_workspace"}
  BY <1>2, <1>4, NodesAssumption DEF Fixed
<1>9. \A n \in Nodes : finished'[n] <= 1
  BY <1>7 DEF FinishedFollow
<1>10. ASSUME node' \in Nodes, NEW n \in Nodes, finished'[n] > 0
       PROVE  Follows(graph', n, node')
  <2>1. PICK e \in graph.edges : e.source = node /\ e.target = node'
    BY <1>2, <1>3, <1>10, RouteLeads
  <2>2. n = node \/ Follows(graph, n, node)
    BY <1>3, <1>7, <1>10 DEF FinishedFollow
  <2>3. Follows(graph, n, node')
    BY <1>3, <2>1, <2>2, EdgeLeads
  <2>4. QED BY <1>2, <2>3
<1>11. Acyclic(graph')
  BY <1>2, <1>5
<1>12. QED BY <1>8, <1>9, <1>10, <1>11 DEF FinishedFollow

LEMMA FollowStep == IInv /\ FinishedFollow /\ [Next]_vars => FinishedFollow'
<1> SUFFICES ASSUME IInv, FinishedFollow, [Next]_vars PROVE FinishedFollow'
  OBVIOUS
<1>0. /\ graph \in WorkflowDefinitions /\ graph.entrypoint \in Nodes /\ Nodes \cap Fixed = {}
      /\ finished \in [Nodes -> 0..2]
  BY GraphType, NodesAssumption DEF IInv, TypeOK
<1>1. ASSUME graph' = graph, UNCHANGED <<node, finished>> PROVE FinishedFollow'
  BY <1>1 DEF FinishedFollow
<1>2. ASSUME graph' = graph, finished' = finished, node' = "end" PROVE FinishedFollow'
  BY <1>0, <1>2 DEF FinishedFollow, Fixed
<1>3. CASE Validate
  <2>1. /\ node = "validate" /\ graph' = graph /\ finished' = finished
        /\ IF Valid(graph) THEN node' = "intake" ELSE node' = "end"
    BY <1>3 DEF Validate, At, Complete, given, history
  <2>2. CASE Valid(graph)
    <3>1. Acyclic(graph) BY <1>0, <2>2, ValidIsExact
    <3>2. QED BY <1>0, <2>1, <2>2, <3>1 DEF FinishedFollow, Fixed
  <2>3. CASE ~ Valid(graph) BY <1>2, <2>1, <2>3
  <2>4. QED BY <2>2, <2>3
<1>4. CASE Intake \/ GatePasses \/ GateAsks \/ GateDecided
  <2>1. /\ node \in {"intake", "gate"} /\ graph' = graph /\ finished' = finished
        /\ node' \in {"gate", "prepare_workspace", "end"}
    BY <1>4 DEF Intake, GatePasses, GateAsks, GateDecided, AfterGate, At, Complete, given, history
  <2>2. QED BY <1>0, <1>2, <2>1 DEF FinishedFollow, Fixed
<1>5. CASE Prepare
  <2>1. /\ node = "prepare_workspace" /\ graph' = graph /\ finished' = finished
        /\ node' = graph.entrypoint
    BY <1>5 DEF Prepare, At, Complete, given, history
  <2>2. QED BY <1>0, <2>1 DEF FinishedFollow, Fixed
<1>6. ASSUME NEW n \in Nodes, NodeStarts(n) PROVE FinishedFollow'
  BY <1>1, <1>6 DEF NodeStarts, given, history
<1>7. CASE Finalize
  BY <1>2, <1>7 DEF Finalize, Complete, given, history
<1>8. CASE RequestStop \/ Crash \/ \E decision \in {"approved", "denied"} : Resume(decision)
  BY <1>1, <1>8 DEF RequestStop, Crash, Resume, given, history
<1>9. CASE UNCHANGED vars
  BY <1>1, <1>9 DEF vars
<1>10. ASSUME InNode, UNCHANGED given, Finishes \/ UNCHANGED <<node, finished>>
       PROVE  FinishedFollow'
  BY <1>1, <1>10, FinishesOnce DEF given
<1>11. QED
  BY <1>3, <1>4, <1>5, <1>6, <1>7, <1>8, <1>9, <1>10, InNodeFinishes DEF Next, Run

(* For every workflow of every size: the validation accepts what it         *)
(* promises to accept, as the API does, and a run that was validated        *)
(* completes each node at most once, however the nodes succeed, fail, are   *)
(* retried or executed again after a crash.                                *)
THEOREM ValidationHolds == Spec => []ValidationIsExact
<1>1. Init => FinishedFollow
  BY NodesAssumption DEF Init, FinishedFollow, Fixed
<1>2. IInv /\ FinishedFollow => ValidationIsExact
  <2> SUFFICES ASSUME IInv, FinishedFollow PROVE ValidationIsExact
    OBVIOUS
  <2>1. graph \in WorkflowDefinitions BY GraphType DEF IInv
  <2>2. QED BY <2>1, ValidIsExact DEF ValidationIsExact, FinishedFollow
<1>3. QED BY <1>1, <1>2, FollowStep, WorkflowInvariant, PTL DEF Spec
=============================================================================
