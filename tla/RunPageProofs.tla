---------------------------- MODULE RunPageProofs ----------------------------
(***************************************************************************)
(* Theorems about the page of a run, for every number of events the store   *)
(* keeps and every story of a run: what the page shows while answers and    *)
(* streams overlap, and the graph of stages it derives from the events it  *)
(* has kept.                                                               *)
(***************************************************************************)
EXTENDS PageServices, Integers, FiniteSetTheorems, SequenceTheorems, WellFoundedInduction, TLAPS

-----------------------------------------------------------------------------
(* The graph of a run's stages: what the fold over its events, a recursive  *)
(* function of sets of positions, draws of them.                           *)

(* A bounded set of numbers that is not empty has a smallest one.           *)
LEMMA SmallestExists ==
    ASSUME NEW n \in Nat, NEW S \in SUBSET (0..n), S # {}
    PROVE  \E i \in S : \A j \in S : i <= j
<1>0. S \in SUBSET Nat
  <2>1. \A i \in 0..n : i \in Nat OBVIOUS
  <2>2. QED BY <2>1
<1>1. \E i \in S : \A j \in S : ~ (<<j, i>> \in OpToRel(<, Nat))
  BY <1>0, NatLessThanWellFounded, WFMin
<1>2. \A i, j \in Nat : <<j, i>> \in OpToRel(<, Nat) <=> j < i
  BY DEF OpToRel
<1>3. \A i, j \in Nat : ~ (j < i) => i <= j
  OBVIOUS
<1>4. QED BY <1>0, <1>1, <1>2, <1>3, Zenon

(* ... and a greatest one.                                                 *)
LEMMA LargestExists ==
    ASSUME NEW n \in Nat, NEW S \in SUBSET (0..n), S # {}
    PROVE  \E i \in S : \A j \in S : j <= i
<1>1. \A i \in S : i \in 0..n OBVIOUS
<1>2. \A i \in S : i \in Nat /\ n - i \in 0..n BY <1>1
<1> DEFINE T == {n - i : i \in S}
<1>3. T \in SUBSET (0..n) /\ T # {} BY <1>2
<1>4. PICK k \in T : \A l \in T : k <= l
  <2> HIDE DEF T
  <2>1. QED BY <1>3, SmallestExists
<1>5. PICK i \in S : k = n - i OBVIOUS
<1>6. ASSUME NEW j \in S PROVE j <= i
  <2>1. n - j \in T OBVIOUS
  <2>2. k <= n - j BY <1>4, <2>1
  <2>3. i \in Nat /\ j \in Nat BY <1>2
  <2>4. QED BY <1>5, <2>2, <2>3
<1>7. QED BY <1>6

(* The numbers of a bounded set have a greatest and a smallest one, which   *)
(* are the page's Max and Min.                                             *)
LEMMA MaxIsGreatest ==
    ASSUME NEW n \in Nat, NEW S \in SUBSET (0..n), S # {}
    PROVE  /\ Page!Max(S) \in S /\ \A j \in S : j <= Page!Max(S)
           /\ Page!Min(S) \in S /\ \A j \in S : Page!Min(S) <= j
<1>1. PICK i \in S : \A j \in S : j <= i BY LargestExists
<1>2. \A j \in S : i >= j BY <1>1
<1>3. Page!Max(S) \in S /\ \A j \in S : Page!Max(S) >= j
  BY <1>2 DEF Page!Max
<1> DEFINE T == {n + 1 - j : j \in S}
<1>4. PICK k \in S : \A j \in S : k <= j
  <2> DEFINE T0 == {n - j : j \in S}
  <2>1. T0 \in SUBSET (0..n) /\ T0 # {} OBVIOUS
  <2>2. PICK m \in T0 : \A l \in T0 : l <= m
    <3> HIDE DEF T0
    <3>1. QED BY <2>1, LargestExists
  <2>3. PICK k \in S : m = n - k OBVIOUS
  <2>4. ASSUME NEW j \in S PROVE k <= j
    <3>1. n - j \in T0 /\ n - j <= m BY <2>2
    <3>2. QED BY <2>3, <3>1
  <2>5. QED BY <2>4
<1>5. Page!Min(S) \in S /\ \A j \in S : Page!Min(S) <= j
  <2>1. \A j \in S : k =< j BY <1>4
  <2>2. QED BY <2>1 DEF Page!Min
<1>6. \A j \in S : Page!Max(S) >= j => j <= Page!Max(S) BY <1>3
<1>7. QED BY <1>3, <1>5, <1>6

(* A set that holds 0, and with a number below n its successor, holds n.    *)
LEMMA Climbs ==
    ASSUME NEW n \in Nat, NEW S, 0 \in S, \A k \in 0..n : k \in S /\ k < n => k + 1 \in S
    PROVE  \A k \in 0..n : k \in S
<1> DEFINE Bad == {k \in 1..n : k \notin S}
<1> SUFFICES ASSUME Bad # {} PROVE FALSE
  OBVIOUS
<1>1. Bad \in SUBSET (0..n) OBVIOUS
<1>2. PICK k \in Bad : \A j \in Bad : k <= j
  <2> HIDE DEF Bad
  <2>1. QED BY <1>1, SmallestExists
<1>3. k - 1 \in 0..n /\ k - 1 < n /\ (k - 1) + 1 = k OBVIOUS
<1>4. k - 1 \in S
  <2>1. CASE k = 1 BY <2>1
  <2>2. CASE k # 1
    <3>1. k - 1 \in 1..n /\ ~ (k <= k - 1) BY <2>2
    <3>2. QED BY <1>2, <3>1
  <2>3. QED BY <2>1, <2>2
<1>5. k \in S BY <1>3, <1>4
<1>6. QED BY <1>5

(* A graph is drawn event by event.                                         *)
DrawnFrom(e, f, S) ==
    IF S = {} THEN Page!Idle ELSE Page!Draw(f[S \ {Page!Max(S)}], e[Page!Max(S)])
Drawings(e, D) == CHOOSE f : f = [S \in SUBSET D |-> DrawnFrom(e, f, S)]

LEMMA GraphIsDrawn == Page!Graph = Drawings(Page!Events, DOMAIN Page!Events)[DOMAIN Page!Events]
BY DEF Page!Graph, Page!FoldLeft, Page!MapThenFoldSet, Drawings, DrawnFrom

LEMMA DrawingsExist ==
    ASSUME NEW n \in Nat, NEW e
    PROVE  /\ Drawings(e, 1..n)[1..0] = Page!Idle
           /\ \A k \in 0..n : k < n =>
                 Drawings(e, 1..n)[1..(k + 1)] = Page!Draw(Drawings(e, 1..n)[1..k], e[k + 1])
<1> DEFINE Is(f, k) == f = [S \in SUBSET (1..k) |-> DrawnFrom(e, f, S)]
           Good == {k \in 0..n : \E f : Is(f, k)}
<1>1. ASSUME NEW k \in Nat, NEW S \in SUBSET (1..(k + 1)), S # {}
      PROVE  Page!Max(S) \in S /\ S \ {Page!Max(S)} \in SUBSET (1..k)
  <2>1. S \in SUBSET (0..(k + 1)) /\ k + 1 \in Nat OBVIOUS
  <2>2. Page!Max(S) \in S /\ \A j \in S : j <= Page!Max(S)
    <3> DEFINE m == k + 1
    <3>1. S \in SUBSET (0..m) /\ m \in Nat BY <2>1
    <3> HIDE DEF m
    <3>2. QED BY <1>1, <3>1, MaxIsGreatest
  <2>3. \A j \in S : j \in 1..(k + 1) /\ j <= Page!Max(S) BY <2>2
  <2>4. Page!Max(S) \in 1..(k + 1) BY <2>2
  <2> DEFINE m == Page!Max(S)
  <2> HIDE DEF m
  <2>5. ASSUME NEW j \in S, j # m PROVE j \in 1..k BY <2>3, <2>4, <2>5 DEF m
  <2>6. S \ {m} \in SUBSET (1..k) BY <2>5
  <2>7. QED BY <2>2, <2>6 DEF m
<1>2. 0 \in Good
  <2> DEFINE f == [S \in SUBSET (1..0) |-> DrawnFrom(e, e, S)]
  <2>1. \A S \in SUBSET (1..0) : S = {} OBVIOUS
  <2>2. \A S \in SUBSET (1..0) : DrawnFrom(e, e, S) = DrawnFrom(e, f, S)
    BY <2>1 DEF DrawnFrom
  <2>3. f = [S \in SUBSET (1..0) |-> DrawnFrom(e, f, S)]
    <3> DEFINE g(S) == DrawnFrom(e, f, S)
    <3>1. \A S \in SUBSET (1..0) : f[S] = g(S) BY <2>2
    <3>2. f = [S \in SUBSET (1..0) |-> f[S]] OBVIOUS
    <3> HIDE DEF f
    <3>3. QED BY <3>1, <3>2
  <2> HIDE DEF f
  <2>4. QED BY <2>3
<1>3. ASSUME NEW k \in 0..n, k \in Good, k < n PROVE k + 1 \in Good
  <2>1. PICK g : Is(g, k) BY <1>3
  <2> DEFINE f == [S \in SUBSET (1..(k + 1)) |-> DrawnFrom(e, g, S)]
  <2>2. ASSUME NEW S \in SUBSET (1..k) PROVE f[S] = g[S]
    <3>1. g[S] = DrawnFrom(e, g, S) BY <2>1
    <3>2. S \in SUBSET (1..(k + 1)) OBVIOUS
    <3>3. QED BY <3>1, <3>2
  <2>3. ASSUME NEW S \in SUBSET (1..(k + 1)) PROVE f[S] = DrawnFrom(e, f, S)
    <3>1. f[S] = DrawnFrom(e, g, S) OBVIOUS
    <3> HIDE DEF f
    <3>2. CASE S = {} BY <3>1, <3>2 DEF DrawnFrom
    <3>3. CASE S # {}
      <4>1. S \ {Page!Max(S)} \in SUBSET (1..k) BY <1>1, <3>3
      <4>2. f[S \ {Page!Max(S)}] = g[S \ {Page!Max(S)}] BY <2>2, <4>1
      <4>3. QED BY <3>1, <4>2 DEF DrawnFrom
    <3>4. QED BY <3>2, <3>3
  <2>4. f = [S \in SUBSET (1..(k + 1)) |-> f[S]] OBVIOUS
  <2> HIDE DEF f
  <2>5. Is(f, k + 1) BY <2>3, <2>4
  <2>6. QED BY <1>3, <2>5
<1>4. n \in Good
  <2> HIDE DEF Good
  <2>1. QED BY <1>2, <1>3, Climbs
<1> DEFINE F == Drawings(e, 1..n)
<1>5. \A S \in SUBSET (1..n) : F[S] = DrawnFrom(e, F, S)
  <2>1. \E f : f = [S \in SUBSET (1..n) |-> DrawnFrom(e, f, S)] BY <1>4
  <2>2. F = [S \in SUBSET (1..n) |-> DrawnFrom(e, F, S)] BY <2>1 DEF Drawings
  <2> HIDE DEF F
  <2>3. QED BY <2>2
<1> HIDE DEF F
<1>6. F[1..0] = Page!Idle
  <2>1. 1..0 = {} OBVIOUS
  <2>2. QED BY <1>5, <2>1 DEF DrawnFrom
<1>7. ASSUME NEW k \in 0..n, k < n
      PROVE  F[1..(k + 1)] = Page!Draw(F[1..k], e[k + 1])
  <2>1. 1..(k + 1) # {} /\ 1..(k + 1) \in SUBSET (1..n) /\ 1..(k + 1) \in SUBSET (0..n)
    BY <1>7
  <2>2. Page!Max(1..(k + 1)) = k + 1
    <3> DEFINE S == 1..(k + 1)
    <3>1. S # {} /\ S \in SUBSET (0..n) /\ k + 1 \in S BY <2>1
    <3>2. S \in SUBSET Nat /\ \A j \in S : j <= k + 1 OBVIOUS
    <3> HIDE DEF S
    <3>3. Page!Max(S) \in S /\ \A j \in S : j <= Page!Max(S) BY <3>1, MaxIsGreatest
    <3>4. QED BY <3>1, <3>2, <3>3 DEF S
  <2>3. (1..(k + 1)) \ {k + 1} = 1..k OBVIOUS
  <2>4. QED BY <1>5, <2>1, <2>2, <2>3 DEF DrawnFrom
<1>8. QED BY <1>6, <1>7 DEF F

(* What the events say of a stage and of its status.                        *)
Statuses == {"idle", "waiting", "running", "succeeded", "failed"}

LEMMA SourcesTell ==
    ASSUME NEW e
    PROVE  /\ Page!NodeOf(e) \in Page!Nodes \cup {"none"}
           /\ e.source = "run_finished" => Page!NodeOf(e) = "finalize"
<1>1. \A name : Page!StageOf(name) \in Page!Nodes \cup {"none"} BY DEF Page!StageOf, Page!Nodes
<1>2. QED BY <1>1 DEF Page!NodeOf, Page!Nodes, Page!OfWorkflow

Long(e) == ~ Page!Failing(e) /\ e.source \notin Page!Instant \cup {"approval_required"}

LEMMA StatusTells ==
    ASSUME NEW e
    PROVE  /\ Page!StatusAfter(e) \in {"waiting", "running", "succeeded", "failed"}
           /\ Page!StatusAfter(e) = "waiting" <=> e.source = "approval_required"
           /\ Page!StatusAfter(e) = "failed" <=> Page!Failing(e)
           /\ Page!StatusAfter(e) = "running" <=> Long(e)
           /\ Page!EndsWell(e) => Page!StatusAfter(e) = "succeeded"
           /\ e.source = "approval_decided" /\ ~ e.fails => Page!StatusAfter(e) = "succeeded"
BY DEF Page!StatusAfter, Page!Instant, Page!Failing, Page!EndsWell, Long

(* Of the first k events e, the j-th is the last about a stage m.           *)
LastAbout(e, m, j, k) ==
    Page!NodeOf(e[j]) = m /\ \A i \in (j + 1)..k : Page!NodeOf(e[i]) # m

(* What a stage shows, whose last event is the j-th of k.                   *)
StageFits(e, graph, m, j, k) ==
    /\ graph.node[m] # "idle"
    /\ graph.node[m] = "failed" <=> Page!Failing(e[j])
    /\ graph.node[m] = "running" <=>
          Long(e[j]) /\ \A i \in (j + 1)..k : Page!NodeOf(e[i]) = "none"
    /\ graph.node[m] = "running" => graph.active = m
    /\ graph.node[m] = "waiting" <=>
          /\ e[j].source = "approval_required"
          /\ \A i \in (j + 1)..k : ~ Page!EndsWell(e[i])

(* A graph fits the first k of the events e: each stage shows what its last *)
(* event left, and one without an event is idle.                           *)
GraphFits(e, graph, k) ==
    /\ graph.node \in [Page!Nodes -> Statuses]
    /\ \A m \in Page!Nodes :
          /\ (\A j \in 1..k : Page!NodeOf(e[j]) # m) => graph.node[m] = "idle"
          /\ \A j \in 1..k : LastAbout(e, m, j, k) => StageFits(e, graph, m, j, k)

LEMMA IdleFits == ASSUME NEW e PROVE GraphFits(e, Page!Idle, 0)
<1>1. /\ Page!Idle.node \in [Page!Nodes -> Statuses]
      /\ \A m \in Page!Nodes : Page!Idle.node[m] = "idle"
  BY DEF Page!Idle, Statuses
<1>2. \A j \in 1..0 : FALSE OBVIOUS
<1>3. QED BY <1>1, <1>2 DEF GraphFits

(* An event that is drawn sets its stage, and ends those under way: of the  *)
(* ones that wait, only with the run, when it ends well.                   *)
LEMMA DrawSets ==
    ASSUME NEW graph, NEW d, graph.node \in [Page!Nodes -> Statuses], Page!NodeOf(d) # "none",
           \A m \in Page!Nodes : graph.node[m] = "running" => graph.active = m
    PROVE  LET at == Page!NodeOf(d)
               next == Page!Draw(graph, d) IN
           /\ next.node \in [Page!Nodes -> Statuses]
           /\ next.node[at] = Page!StatusAfter(d)
           /\ Page!StatusAfter(d) = "running" => next.active = at
           /\ \A m \in Page!Nodes : m # at =>
                 next.node[m] = IF \/ graph.node[m] = "running"
                                   \/ graph.node[m] = "waiting" /\ Page!EndsWell(d)
                                THEN "succeeded" ELSE graph.node[m]
<1> DEFINE at == Page!NodeOf(d)
           status == Page!StatusAfter(d)
           entered == Page!Entered(graph, at)
           node == [entered EXCEPT ![at] = status]
           next == Page!Draw(graph, d)
<1>1. at \in Page!Nodes /\ at # "none" BY SourcesTell
<1>2. status \in Statuses BY StatusTells DEF Statuses
<1>3. /\ entered \in [Page!Nodes -> Statuses]
      /\ \A m \in Page!Nodes : m # at =>
            entered[m] = IF graph.node[m] = "running" THEN "succeeded" ELSE graph.node[m]
  BY DEF Page!Entered, Statuses
<1> HIDE DEF at, status, entered
<1>4. /\ node \in [Page!Nodes -> Statuses] /\ node[at] = status
      /\ \A m \in Page!Nodes : m # at => node[m] = entered[m]
  BY <1>1, <1>2, <1>3
<1> HIDE DEF node
<1>5. CASE Page!EndsWell(d)
  <2>1. status = "succeeded" BY <1>5, StatusTells DEF status
  <2>2. next.node = [m \in Page!Nodes |->
                       IF node[m] \in {"running", "waiting"} THEN "succeeded" ELSE node[m]]
    BY <1>1, <1>5 DEF Page!Draw, Page!EndsWell, at, status, node, entered
  <2> HIDE DEF next
  <2>3. /\ next.node \in [Page!Nodes -> Statuses] /\ next.node[at] = status
        /\ \A m \in Page!Nodes : m # at =>
              next.node[m] = IF graph.node[m] \in {"running", "waiting"} THEN "succeeded"
                             ELSE graph.node[m]
    BY <1>1, <1>3, <1>4, <2>1, <2>2 DEF Statuses
  <2>4. QED BY <1>5, <2>1, <2>3 DEF next, at, status
<1>6. CASE ~ Page!EndsWell(d)
  <2>1. next = [node |-> node,
                active |-> IF d.source = "approval_decided" /\ ~ d.fails THEN "none" ELSE at]
    BY <1>1, <1>6 DEF Page!Draw, Page!EndsWell, at, status, node, entered
  <2>2. next.node = node BY <2>1
  <2>3. status = "running" => next.active = at
    <3>1. status = "running" => ~ (d.source = "approval_decided" /\ ~ d.fails)
      BY StatusTells DEF status
    <3>2. QED BY <2>1, <3>1
  <2> HIDE DEF next
  <2>4. QED BY <1>3, <1>4, <1>6, <2>2, <2>3 DEF next, at, status
<1>7. QED BY <1>5, <1>6

(* The next event.                                                         *)
LEMMA DrawFits ==
    ASSUME NEW e, NEW k \in Nat, NEW graph, GraphFits(e, graph, k)
    PROVE  GraphFits(e, Page!Draw(graph, e[k + 1]), k + 1)
<1> DEFINE d == e[k + 1]
           at == Page!NodeOf(d)
           next == Page!Draw(graph, d)
<1>0. /\ k + 1 \in 1..(k + 1) /\ (k + 2)..(k + 1) = {} /\ ((k + 1) + 1)..(k + 1) = {}
      /\ \A j \in 1..(k + 1) : j \in 1..k \/ j = k + 1
      /\ \A j \in 1..k : /\ j \in 1..(k + 1) /\ k + 1 \in (j + 1)..(k + 1)
                         /\ (j + 1)..(k + 1) = ((j + 1)..k) \cup {k + 1}
  OBVIOUS
<1>1. /\ graph.node \in [Page!Nodes -> Statuses]
      /\ \A m \in Page!Nodes :
            /\ (\A j \in 1..k : Page!NodeOf(e[j]) # m) => graph.node[m] = "idle"
            /\ \A j \in 1..k : LastAbout(e, m, j, k) => StageFits(e, graph, m, j, k)
  BY DEF GraphFits
<1>2. CASE at = "none"
  <2>1. next = graph BY <1>2 DEF Page!Draw
  <2>2. "none" \notin Page!Nodes BY DEF Page!Nodes
  <2>3. ~ Page!EndsWell(d) BY <1>2, SourcesTell DEF Page!EndsWell
  <2>4. ASSUME NEW m \in Page!Nodes
        PROVE  /\ (\A j \in 1..(k + 1) : Page!NodeOf(e[j]) # m) => graph.node[m] = "idle"
               /\ \A j \in 1..(k + 1) :
                     LastAbout(e, m, j, k + 1) => StageFits(e, graph, m, j, k + 1)
    <3>1. at # m BY <1>2, <2>2
    <3>2. ASSUME NEW j \in 1..(k + 1), LastAbout(e, m, j, k + 1)
          PROVE  StageFits(e, graph, m, j, k + 1)
      <4>1. j \in 1..k BY <1>0, <3>1, <3>2 DEF LastAbout
      <4>2. LastAbout(e, m, j, k) BY <1>0, <3>2, <4>1 DEF LastAbout
      <4>3. StageFits(e, graph, m, j, k) BY <1>1, <4>1, <4>2
      <4>4. QED BY <1>0, <1>2, <2>3, <4>1, <4>3 DEF StageFits
    <3>3. QED BY <1>0, <1>1, <3>2
  <2>5. QED BY <1>1, <2>1, <2>4 DEF GraphFits
<1>3. CASE at # "none"
  <2>1. at \in Page!Nodes BY <1>3, SourcesTell
  <2>2. ASSUME NEW m \in Page!Nodes, graph.node[m] = "running" PROVE graph.active = m
    <3>1. PICK j \in 1..k : Page!NodeOf(e[j]) = m BY <1>1, <2>2
    <3> DEFINE S == {i \in 1..k : Page!NodeOf(e[i]) = m}
    <3>2. S \in SUBSET (0..k) /\ S # {} BY <3>1
    <3>3. PICK l \in S : \A i \in S : i <= l
      <4> HIDE DEF S
      <4>1. QED BY <3>2, LargestExists
    <3>4. ASSUME NEW i \in (l + 1)..k PROVE Page!NodeOf(e[i]) # m
      <4>1. i \in 1..k /\ ~ (i <= l) BY <3>3
      <4>2. QED BY <3>3, <4>1
    <3>5. l \in 1..k /\ LastAbout(e, m, l, k) BY <3>3, <3>4 DEF LastAbout
    <3>6. QED BY <1>1, <2>2, <3>5 DEF StageFits
  <2>3. /\ next.node \in [Page!Nodes -> Statuses]
        /\ next.node[at] = Page!StatusAfter(d)
        /\ Page!StatusAfter(d) = "running" => next.active = at
        /\ \A m \in Page!Nodes : m # at =>
              next.node[m] = IF \/ graph.node[m] = "running"
                                \/ graph.node[m] = "waiting" /\ Page!EndsWell(d)
                             THEN "succeeded" ELSE graph.node[m]
    BY <1>1, <1>3, <2>2, DrawSets
  <2> HIDE DEF next
  <2>4. ASSUME NEW m \in Page!Nodes
        PROVE  /\ (\A j \in 1..(k + 1) : Page!NodeOf(e[j]) # m) => next.node[m] = "idle"
               /\ \A j \in 1..(k + 1) :
                     LastAbout(e, m, j, k + 1) => StageFits(e, next, m, j, k + 1)
    <3>1. CASE m = at
      <4>1. ASSUME NEW j \in 1..(k + 1), LastAbout(e, m, j, k + 1) PROVE j = k + 1
        BY <1>0, <3>1, <4>1 DEF LastAbout
      <4>2. StageFits(e, next, m, k + 1, k + 1)
        <5>1. next.node[m] = Page!StatusAfter(e[k + 1]) BY <2>3, <3>1
        <5>2. \A i \in ((k + 1) + 1)..(k + 1) : FALSE BY <1>0
        <5>3. next.node[m] = "running" => next.active = m BY <2>3, <3>1
        <5>4. QED BY <5>1, <5>2, <5>3, StatusTells DEF StageFits
      <4>3. QED BY <1>0, <3>1, <4>1, <4>2
    <3>2. CASE m # at
      <4>1. (\A j \in 1..(k + 1) : Page!NodeOf(e[j]) # m) => next.node[m] = "idle"
        BY <1>0, <1>1, <2>3, <3>2
      <4>2. ASSUME NEW j \in 1..(k + 1), LastAbout(e, m, j, k + 1)
            PROVE  StageFits(e, next, m, j, k + 1)
        <5>1. j \in 1..k BY <1>0, <3>2, <4>2 DEF LastAbout
        <5>2. LastAbout(e, m, j, k) BY <1>0, <4>2, <5>1 DEF LastAbout
        <5>3. StageFits(e, graph, m, j, k) BY <1>1, <5>1, <5>2
        <5>4. next.node[m] = IF \/ graph.node[m] = "running"
                                \/ graph.node[m] = "waiting" /\ Page!EndsWell(d)
                             THEN "succeeded" ELSE graph.node[m]
          BY <2>3, <3>2
        <5>5. Long(e[j]) => ~ Page!Failing(e[j]) BY DEF Long
        <5>6. e[j].source = "approval_required" => ~ Page!Failing(e[j]) BY DEF Page!Failing
        <5>7. next.node[m] # "idle" BY <5>3, <5>4 DEF StageFits
        <5>8. next.node[m] = "failed" <=> Page!Failing(e[j]) BY <5>3, <5>4, <5>5, <5>6 DEF StageFits
        <5>9. next.node[m] # "running" /\ k + 1 \in (j + 1)..(k + 1) BY <1>0, <5>1, <5>4
        <5>10. next.node[m] = "waiting" <=> graph.node[m] = "waiting" /\ ~ Page!EndsWell(d)
          BY <5>4
        <5>11. (\A i \in (j + 1)..(k + 1) : ~ Page!EndsWell(e[i])) <=>
                  (\A i \in (j + 1)..k : ~ Page!EndsWell(e[i])) /\ ~ Page!EndsWell(d)
          BY <1>0, <5>1
        <5>12. ~ (\A i \in (j + 1)..(k + 1) : Page!NodeOf(e[i]) = "none") BY <1>3, <5>9
        <5>13. graph.node[m] = "waiting" <=> /\ e[j].source = "approval_required"
                                             /\ \A i \in (j + 1)..k : ~ Page!EndsWell(e[i])
          BY <5>3 DEF StageFits
        <5>14. QED BY <5>7, <5>8, <5>9, <5>10, <5>11, <5>12, <5>13 DEF StageFits
      <4>3. QED BY <4>1, <4>2
    <3>3. QED BY <3>1, <3>2
  <2>5. GraphFits(e, next, k + 1) BY <2>3, <2>4 DEF GraphFits
  <2>6. QED BY <2>5 DEF next, d
<1>4. QED BY <1>2, <1>3

(* The events a page has kept fit the graph drawn from them.                *)
LEMMA GraphFitsEvents ==
    ASSUME NEW n \in Nat, DOMAIN Page!Events = 1..n
    PROVE  GraphFits(Page!Events, Page!Graph, n)
<1> DEFINE e == Page!Events
           F == Drawings(e, 1..n)
           Fitting0 == {k \in 0..n : GraphFits(e, F[1..k], k)}
<1> HIDE DEF e
<1>1. F[1..0] = Page!Idle /\ \A k \in 0..n : k < n => F[1..(k + 1)] = Page!Draw(F[1..k], e[k + 1])
  BY DrawingsExist
<1>2. DOMAIN e = 1..n BY DEF e
<1> HIDE DEF F
<1>3. 0 \in Fitting0 BY <1>1, IdleFits
<1>4. ASSUME NEW k \in 0..n, k \in Fitting0, k < n PROVE k + 1 \in Fitting0
  <2>1. GraphFits(e, F[1..k], k) BY <1>4
  <2>2. GraphFits(e, Page!Draw(F[1..k], e[k + 1]), k + 1) BY <1>4, <2>1, DrawFits
  <2>3. QED BY <1>1, <1>4, <2>2
<1>5. n \in Fitting0
  <2> HIDE DEF Fitting0
  <2>1. n \in 0..n OBVIOUS
  <2>2. QED BY <1>3, <1>4, <2>1, Climbs
<1>6. QED BY <1>2, <1>5, GraphIsDrawn DEF e, F

LEMMA GraphHonest ==
    ASSUME NEW n \in Nat, DOMAIN Page!Events = 1..n
    PROVE  Page!GraphIsHonest
<1> DEFINE e == Page!Events
           graph == Page!Graph
<1>1. GraphFits(e, graph, n) /\ DOMAIN e = 1..n BY GraphFitsEvents
<1>2. ASSUME NEW m \in Page!Nodes, Page!About(m) = {} PROVE graph.node[m] = "idle"
  <2>1. \A j \in 1..n : Page!NodeOf(e[j]) # m BY <1>1, <1>2 DEF Page!About
  <2> HIDE DEF e, graph
  <2>2. QED BY <1>1, <2>1 DEF GraphFits
<1>3. ASSUME NEW m \in Page!Nodes, Page!About(m) # {}, NEW j, j = Page!Max(Page!About(m))
      PROVE  /\ graph.node[m] # "idle"
             /\ graph.node[m] = "failed" <=> Page!Failing(e[j])
             /\ graph.node[m] = "running" <=>
                    /\ Page!DrawnAfter(j) = {} /\ ~ Page!Failing(e[j])
                    /\ e[j].source \notin Page!Instant \cup {"approval_required"}
             /\ graph.node[m] = "running" => graph.active = m
             /\ graph.node[m] = "waiting" <=>
                    /\ e[j].source = "approval_required"
                    /\ \A i \in Page!DrawnAfter(j) : ~ Page!EndsWell(e[i])
  <2> DEFINE S == Page!About(m)
             after == Page!DrawnAfter(j)
  <2>1. S = {i \in 1..n : Page!NodeOf(e[i]) = m} BY <1>1 DEF Page!About
  <2>2. after = {i \in 1..n : i > j /\ Page!NodeOf(e[i]) # "none"} BY <1>1 DEF Page!DrawnAfter
  <2>3. j = Page!Max(S) /\ S # {} BY <1>3
  <2> HIDE DEF e, graph, S, after
  <2>4. S \in SUBSET (0..n) BY <2>1
  <2>5. j \in S /\ \A i \in S : i <= j BY <2>3, <2>4, MaxIsGreatest
  <2>6. j \in 1..n /\ Page!NodeOf(e[j]) = m BY <2>1, <2>5
  <2>7. ASSUME NEW i \in (j + 1)..n PROVE Page!NodeOf(e[i]) # m /\ i \in 1..n /\ i > j
    <3>1. i \in 1..n /\ ~ (i <= j) /\ i > j BY <2>6
    <3>2. QED BY <2>1, <2>5, <3>1
  <2>8. \A i \in 1..n : i > j => i \in (j + 1)..n BY <2>6
  <2>9. StageFits(e, graph, m, j, n) BY <1>1, <2>6, <2>7 DEF GraphFits, LastAbout
  <2>10. (\A i \in (j + 1)..n : Page!NodeOf(e[i]) = "none") <=> after = {}
    BY <2>2, <2>7, <2>8
  <2>11. (\A i \in (j + 1)..n : ~ Page!EndsWell(e[i])) <=> \A i \in after : ~ Page!EndsWell(e[i])
    <3>1. \A i : Page!EndsWell(e[i]) => Page!NodeOf(e[i]) # "none"
      BY SourcesTell DEF Page!EndsWell
    <3>2. QED BY <2>2, <2>7, <2>8, <3>1
  <2>12. QED BY <2>9, <2>10, <2>11 DEF StageFits, Long, after
<1>4. QED BY <1>2, <1>3 DEF Page!GraphIsHonest

(* The page of a run: what it keeps.                                        *)
Told == STRING \cup {"none"}
Phases == {"loading", "live", "stuck", "leaving", "leaked", "closed"}
VisitRows == [run : Page!Runs, phase : Phases, at : Nat]
LoadRows == [run : Page!Runs, by : Nat, what : {"task", "details"}, at : Nat]
EntryRows == [run : Page!Runs, at : Nat]
StoreRows ==
    [task : Page!Runs \cup {"none"}, status : Told, details : Page!Runs \cup {"none"},
     events : Seq(EntryRows), last : [run : Page!Runs \cup {"none"}, at : Nat]]

PageTypes ==
    /\ story \in Stories
    /\ told \in [Page!Runs -> Nat]
    /\ \A r \in Page!Runs : 1 <= told[r] /\ told[r] <= Len(story[r])
    /\ visits \in Seq(VisitRows)
    /\ \A v \in DOMAIN visits : visits[v].at <= told[visits[v].run]
    /\ loads \in SUBSET LoadRows /\ \A l \in loads : l.at <= told[l.run]
    /\ store \in StoreRows
    /\ overtaken \in BOOLEAN /\ astray \in BOOLEAN

LEMMA StoriesAreSteps ==
    ASSUME StoriesAreTold, NEW s \in Stories, NEW r \in Page!Runs
    PROVE  /\ Len(s[r]) \in Nat /\ Len(s[r]) >= 1 /\ DOMAIN s[r] = 1..Len(s[r])
           /\ \A i \in 1..Len(s[r]) : s[r][i] \in Page!Steps
<1>1. s[r] \in Seq(Page!Steps) /\ s[r] # <<>> BY DEF StoriesAreTold
<1>2. Len(s[r]) \in Nat /\ DOMAIN s[r] = 1..Len(s[r]) BY <1>1, LenProperties
<1>3. \A i \in 1..Len(s[r]) : s[r][i] \in Page!Steps BY <1>1, ElementOfSeq
<1>4. Len(s[r]) # 0 BY <1>1, EmptySeq
<1>5. QED BY <1>1, <1>2, <1>3, <1>4

(* What the first n steps of a run say of its row and of its status.        *)
RowAt(steps, n) ==
    LET changes == {i \in 1..n : steps[i].row # "none"} IN
    IF changes = {} THEN "none" ELSE steps[Page!Max(changes)].row
ReportAt(steps, n) ==
    LET carrying == {i \in 1..n : Page!Carries(steps[i])} IN
    IF carrying = {} THEN "none" ELSE steps[Page!Max(carrying)].status

LEMMA StepsTell ==
    \A r, n : Page!RowOf(r, n) = RowAt(story[r], n) /\ Page!Reported(r, n) = ReportAt(story[r], n)
BY DEF Page!RowOf, Page!Reported, RowAt, ReportAt

(* What the row says has a last change, and what was reported a last event. *)
LEMMA LatestChange ==
    ASSUME NEW steps, NEW n \in Nat
    PROVE  /\ RowAt(steps, n) = "none" <=> \A i \in 1..n : steps[i].row = "none"
           /\ RowAt(steps, n) # "none" =>
                 \E i \in 1..n : RowAt(steps, n) = steps[i].row
<1> DEFINE changes == {i \in 1..n : steps[i].row # "none"}
<1>1. CASE changes = {}
  <2>1. RowAt(steps, n) = "none" BY <1>1 DEF RowAt
  <2>2. \A i \in 1..n : steps[i].row = "none" BY <1>1
  <2>3. QED BY <2>1, <2>2
<1>2. CASE changes # {}
  <2>1. changes \in SUBSET (0..n) OBVIOUS
  <2>2. RowAt(steps, n) = steps[Page!Max(changes)].row BY <1>2 DEF RowAt
  <2>3. Page!Max(changes) \in changes
    <3> HIDE DEF changes
    <3>1. QED BY <1>2, <2>1, MaxIsGreatest
  <2>4. Page!Max(changes) \in 1..n /\ steps[Page!Max(changes)].row # "none" BY <2>3
  <2> HIDE DEF changes
  <2>5. QED BY <2>2, <2>4
<1>3. QED BY <1>1, <1>2

LEMMA LatestReport ==
    ASSUME NEW steps, NEW n \in Nat
    PROVE  /\ (\A i \in 1..n : ~ Page!Carries(steps[i])) => ReportAt(steps, n) = "none"
           /\ \A i \in 1..n : /\ Page!Carries(steps[i])
                              /\ \A j \in (i + 1)..n : ~ Page!Carries(steps[j])
                              => ReportAt(steps, n) = steps[i].status
           /\ \A m \in 0..n : (\A i \in (m + 1)..n : ~ Page!Carries(steps[i]))
                                 => ReportAt(steps, m) = ReportAt(steps, n)
<1> DEFINE carrying(k) == {i \in 1..k : Page!Carries(steps[i])}
<1>1. ASSUME \A i \in 1..n : ~ Page!Carries(steps[i]) PROVE ReportAt(steps, n) = "none"
  <2>1. carrying(n) = {} BY <1>1
  <2>2. QED BY <2>1 DEF ReportAt
<1>2. ASSUME NEW i \in 1..n, Page!Carries(steps[i]),
             \A j \in (i + 1)..n : ~ Page!Carries(steps[j])
      PROVE  ReportAt(steps, n) = steps[i].status
  <2>1. carrying(n) # {} /\ carrying(n) \in SUBSET (0..n) /\ i \in carrying(n) BY <1>2
  <2>2. ReportAt(steps, n) = steps[Page!Max(carrying(n))].status
    BY <2>1 DEF ReportAt
  <2> DEFINE C == carrying(n)
  <2>3. \A j \in C : j \in 1..n /\ Page!Carries(steps[j]) OBVIOUS
  <2> HIDE DEF C
  <2>4. Page!Max(C) \in C /\ \A j \in C : j <= Page!Max(C)
    <3>1. C # {} /\ C \in SUBSET (0..n) BY <2>1 DEF C
    <3>2. QED BY <3>1, MaxIsGreatest
  <2>5. i <= Page!Max(C) /\ Page!Max(C) \in 1..n /\ Page!Carries(steps[Page!Max(C)])
    BY <2>1, <2>3, <2>4 DEF C
  <2>6. Page!Max(C) = i
    <3>1. ~ (Page!Max(C) \in (i + 1)..n) BY <1>2, <2>5
    <3>2. QED BY <2>5, <3>1
  <2>7. QED BY <2>2, <2>6 DEF C
<1>3. ASSUME NEW m \in 0..n, \A i \in (m + 1)..n : ~ Page!Carries(steps[i])
      PROVE  ReportAt(steps, m) = ReportAt(steps, n)
  <2>1. carrying(m) = carrying(n)
    <3>1. \A i \in 1..n : i \in 1..m \/ i \in (m + 1)..n OBVIOUS
    <3>2. \A i \in 1..m : i \in 1..n OBVIOUS
    <3>3. QED BY <1>3, <3>1, <3>2
  <2>2. QED BY <2>1 DEF ReportAt
<1>4. QED BY <1>1, <1>2, <1>3

(* The status that is shown is the last one reported, or was read from the  *)
(* row when the row said so, and no event has changed it since.            *)
Knows(steps, n, status, at) ==
    \/ ReportAt(steps, at) # "none" /\ status = ReportAt(steps, at)
    \/ \E p \in 0..n : /\ status = RowAt(steps, p)
                       /\ ReportAt(steps, p) \in {"none", RowAt(steps, p)}
                       /\ \A i \in (p + 1)..at : ~ Page!Carries(steps[i])

(* Who has heard everything knows what the row says.                        *)
LEMMA KnowsRow ==
    ASSUME NEW steps, NEW n \in Nat, NEW at \in 0..n, NEW status, Knows(steps, n, status, at),
           \A i \in (at + 1)..n : steps[i].event = "none",
           ReportAt(steps, n) = RowAt(steps, n)
    PROVE  status = RowAt(steps, n)
<1>2. \A i \in (at + 1)..n : ~ Page!Carries(steps[i]) BY DEF Page!Carries
<1>3. ReportAt(steps, at) = ReportAt(steps, n) BY <1>2, LatestReport
<1>4. CASE ReportAt(steps, at) # "none" /\ status = ReportAt(steps, at)
  BY <1>3, <1>4
<1>5. ASSUME NEW p \in 0..n, status = RowAt(steps, p),
             ReportAt(steps, p) \in {"none", RowAt(steps, p)},
             \A i \in (p + 1)..at : ~ Page!Carries(steps[i])
      PROVE  status = RowAt(steps, n)
  <2>1. ReportAt(steps, p) = ReportAt(steps, n)
    <3>1. \A i \in (p + 1)..n : i \in (p + 1)..at \/ i \in (at + 1)..n OBVIOUS
    <3>2. \A i \in (p + 1)..n : ~ Page!Carries(steps[i]) BY <1>2, <1>5, <3>1
    <3>3. QED BY <3>2, LatestReport
  <2>2. CASE RowAt(steps, n) # "none" BY <1>5, <2>1, <2>2
  <2>3. CASE RowAt(steps, n) = "none"
    <3>1. \A i \in 1..p : steps[i].row = "none"
      <4>1. \A i \in 1..n : steps[i].row = "none" BY <2>3, LatestChange
      <4>2. \A i \in 1..p : i \in 1..n OBVIOUS
      <4>3. QED BY <4>1, <4>2
    <3>2. p \in Nat OBVIOUS
    <3>3. RowAt(steps, p) = "none" BY <3>1, <3>2, LatestChange
    <3>4. QED BY <1>5, <2>3, <3>3
  <2>4. QED BY <2>2, <2>3
<1>6. QED BY <1>4, <1>5 DEF Knows

LEMMA KnowsStill ==
    ASSUME NEW steps, NEW n \in Nat, NEW m \in Nat, n <= m, NEW status, NEW at,
           Knows(steps, n, status, at)
    PROVE  Knows(steps, m, status, at)
<1>1. \A p \in 0..n : p \in 0..m OBVIOUS
<1>2. QED BY <1>1 DEF Knows

(* A window of the store onto the events of run r up to place at.           *)
Viewed(steps, events, r, at) ==
    /\ \A k \in 1..Len(events) : events[k].run = r /\ events[k].at \in 1..at
    /\ \A j, k \in 1..Len(events) : j < k => events[j].at < events[k].at
    /\ \A k \in 1..Len(events) : \A i \in events[k].at..at :
          steps[i].event # "none" => \E m \in 1..Len(events) : events[m].at = i

(* Unless something of an earlier page was outstanding, everything under    *)
(* way is of the last visit w, and so is what the store holds.              *)
OfVisit(w) ==
    LET r == visits[w].run IN
    /\ \A v \in 1..Len(visits) : v # w => visits[v].phase = "closed"
    /\ \A l \in loads : l.run = r /\ l.by \in {0, w}
    /\ store.task \in {"none", r}
    /\ Viewed(story[r], store.events, r, visits[w].at)
    /\ store.last = IF visits[w].at = 0 THEN [run |-> "none", at |-> 0]
                    ELSE [run |-> r, at |-> visits[w].at]
    /\ visits[w].phase \in {"loading", "leaving"} =>
          /\ visits[w].at = 0
          /\ store.task = r \/ \E l \in loads : l.by = w /\ l.what = "task"
    /\ visits[w].phase \in {"live", "leaked"} => store.task = r
    /\ store.task = r /\ ~ overtaken => Knows(story[r], told[r], store.status, visits[w].at)

Steady ==
    ~ astray =>
        /\ visits = <<>> => loads = {} /\ store = Page!NoTask
        /\ \A w \in 1..Len(visits) : w = Len(visits) => OfVisit(w)

PageKeeps == PageTypes /\ Steady

LEMMA VisitsAreListed ==
    ASSUME PageTypes
    PROVE  /\ Len(visits) \in Nat /\ DOMAIN visits = 1..Len(visits)
           /\ \A v \in 1..Len(visits) : visits[v] \in VisitRows
           /\ visits # <<>> => Len(visits) \in 1..Len(visits)
<1>1. visits \in Seq(VisitRows) BY DEF PageTypes
<1>2. Len(visits) \in Nat /\ DOMAIN visits = 1..Len(visits) BY <1>1, LenProperties
<1>3. \A v \in 1..Len(visits) : visits[v] \in VisitRows BY <1>1, ElementOfSeq
<1>4. visits # <<>> => Len(visits) # 0 BY <1>1, EmptySeq
<1>5. QED BY <1>2, <1>3, <1>4

LEMMA NoTaskIsStore == Page!NoTask \in StoreRows
<1>1. <<>> \in Seq(EntryRows) BY EmptySeq
<1> DEFINE E == Seq(EntryRows)
<1>2. "none" \in Told BY DEF Told
<1>3. <<>> \in E BY <1>1
<1> HIDE DEF E
<1>4. Page!NoTask \in [task : Page!Runs \cup {"none"}, status : Told,
                       details : Page!Runs \cup {"none"}, events : E,
                       last : [run : Page!Runs \cup {"none"}, at : Nat]]
  BY <1>2, <1>3 DEF Page!NoTask
<1>5. QED BY <1>4 DEF StoreRows, E

LEMMA PageBegins == ASSUME StoriesAreTold, Page!Init PROVE PageKeeps
<1>1. /\ story \in Stories /\ told = [r \in Page!Runs |-> 1] /\ visits = <<>> /\ loads = {}
      /\ store = Page!NoTask /\ overtaken = FALSE /\ astray = FALSE
  BY DEF Page!Init
<1>2. \A r \in Page!Runs : told[r] = 1 /\ told[r] <= Len(story[r]) BY <1>1, StoriesAreSteps
<1>3. store \in StoreRows BY <1>1, NoTaskIsStore
<1>4. PageTypes
  <2>1. told \in [Page!Runs -> Nat] BY <1>1
  <2>2. \A r \in Page!Runs : 1 <= told[r] /\ told[r] <= Len(story[r]) BY <1>2
  <2>3. visits \in Seq(VisitRows) /\ DOMAIN visits = {} BY <1>1, EmptySeq
  <2>4. QED BY <1>1, <1>3, <2>1, <2>2, <2>3 DEF PageTypes
<1>5. Len(visits) = 0 BY <1>1
<1>6. QED BY <1>1, <1>4, <1>5 DEF PageKeeps, Steady

(* The row says something of its own type.                                  *)
LEMMA RowType ==
    ASSUME StoriesAreTold, PageTypes, NEW r \in Page!Runs, NEW n \in 0..told[r]
    PROVE  RowAt(story[r], n) \in Told
<1>1. n \in Nat /\ n <= Len(story[r]) /\ story \in Stories /\ Len(story[r]) \in Nat
  BY StoriesAreSteps DEF PageTypes
<1>2. \A i \in 1..n : story[r][i].row \in STRING
  <2>1. \A i \in 1..n : i \in 1..Len(story[r]) BY <1>1
  <2>2. QED BY <1>1, <2>1, StoriesAreSteps DEF Page!Steps
<1>3. n \in Nat BY <1>1
<1>4. RowAt(story[r], n) # "none" => \E i \in 1..n : RowAt(story[r], n) = story[r][i].row
  BY <1>3, LatestChange
<1>5. CASE RowAt(story[r], n) = "none" BY <1>5 DEF Told
<1>6. CASE RowAt(story[r], n) # "none" BY <1>2, <1>4, <1>6 DEF Told
<1>7. QED BY <1>5, <1>6

(* The run goes on: what is known of it stays known.                        *)
LEMMA TellsKeeps == ASSUME StoriesAreTold, PageKeeps, NEW r \in Page!Runs, Page!Tells(r)
                    PROVE PageKeeps'
<1>1. /\ told[r] < Len(story[r]) /\ told' = [told EXCEPT ![r] = @ + 1]
      /\ UNCHANGED <<story, visits, loads, store, overtaken, astray>>
  BY DEF Page!Tells
<1>2. PageTypes BY DEF PageKeeps
<1>3. told \in [Page!Runs -> Nat] /\ told' \in [Page!Runs -> Nat]
      /\ \A q \in Page!Runs : told[q] <= told'[q] /\ 1 <= told'[q] /\ told'[q] <= Len(story[q])
  <2>1. told \in [Page!Runs -> Nat]
        /\ \A q \in Page!Runs : 1 <= told[q] /\ told[q] <= Len(story[q])
    BY <1>2 DEF PageTypes
  <2>2. \A q \in Page!Runs : Len(story[q]) \in Nat BY <1>2, StoriesAreSteps DEF PageTypes
  <2>3. told'[r] = told[r] + 1 /\ \A q \in Page!Runs : q # r => told'[q] = told[q]
    BY <1>1, <2>1
  <2>4. QED BY <1>1, <2>1, <2>2, <2>3
<1>4. \A v \in DOMAIN visits : visits[v].run \in Page!Runs /\ visits[v].at \in Nat
  BY <1>2, VisitsAreListed DEF VisitRows
<1>5. \A l \in loads : l.run \in Page!Runs /\ l.at \in Nat BY <1>2 DEF PageTypes, LoadRows
<1>6. PageTypes'
  <2>1. \A v \in DOMAIN visits : visits[v].at <= told'[visits[v].run]
    <3>1. \A v \in DOMAIN visits : visits[v].at <= told[visits[v].run] BY <1>2 DEF PageTypes
    <3>2. QED BY <1>3, <1>4, <3>1
  <2>2. \A l \in loads : l.at <= told'[l.run]
    <3>1. \A l \in loads : l.at <= told[l.run] BY <1>2 DEF PageTypes
    <3>2. QED BY <1>3, <1>5, <3>1
  <2>3. QED BY <1>1, <1>2, <1>3, <2>1, <2>2 DEF PageTypes
<1>7. ASSUME NEW w \in 1..Len(visits), OfVisit(w) PROVE OfVisit(w)'
  <2> DEFINE q == visits[w].run
  <2>1. q \in Page!Runs BY <1>2, <1>4, VisitsAreListed
  <2>2. told[q] \in Nat /\ told'[q] \in Nat /\ told[q] <= told'[q] BY <1>3, <2>1
  <2>3. Knows(story[q], told[q], store.status, visits[w].at)
           => Knows(story[q], told'[q], store.status, visits[w].at)
    <3> HIDE DEF q
    <3>1. QED BY <2>2, KnowsStill
  <2>4. QED BY <1>1, <1>7, <2>3 DEF OfVisit
<1>8. Steady'
  <2>1. Steady BY DEF PageKeeps
  <2>2. QED BY <1>1, <1>7, <2>1 DEF Steady
<1>9. QED BY <1>6, <1>8 DEF PageKeeps

(* A page is opened.                                                       *)
LEMMA MountKeeps == ASSUME StoriesAreTold, PageKeeps, NEW r \in Page!Runs, Page!Mount(r)
                    PROVE PageKeeps'
<1> DEFINE row == [run |-> r, phase |-> "loading", at |-> 0]
<1>0. PICK w : w = Len(visits) + 1 OBVIOUS
<1>1. /\ Page!Open = {} /\ visits' = Append(visits, row) /\ loads' = loads \cup Page!Asks(r, w)
      /\ store' = Page!NoTask /\ overtaken' = FALSE
      /\ astray' = (\/ loads # {}
                    \/ \E v \in DOMAIN visits : visits[v].phase \in {"leaving", "leaked"})
      /\ UNCHANGED <<story, told>>
  BY <1>0 DEF Page!Mount
<1>2. PageTypes BY DEF PageKeeps
<1>3. /\ Len(visits) \in Nat /\ DOMAIN visits = 1..Len(visits) /\ visits \in Seq(VisitRows)
      /\ \A v \in 1..Len(visits) : visits[v] \in VisitRows
  BY <1>2, VisitsAreListed DEF PageTypes
<1>4. row \in VisitRows /\ row.run = r /\ row.at = 0 /\ row.phase = "loading"
  BY DEF VisitRows, Phases
<1> HIDE DEF row
<1>5. /\ visits' \in Seq(VisitRows) /\ Len(visits') = w /\ DOMAIN visits' = 1..w
      /\ visits'[w] = row /\ \A v \in 1..Len(visits) : visits'[v] = visits[v]
      /\ visits' # <<>> /\ \A v \in 1..w : v \in 1..Len(visits) \/ v = w
  BY <1>0, <1>1, <1>3, <1>4
<1>6. told \in [Page!Runs -> Nat] /\ told[r] \in Nat /\ told[r] >= 1 BY <1>2 DEF PageTypes
<1>7. Page!Asks(r, w) \in SUBSET LoadRows
      /\ \A l \in Page!Asks(r, w) : l.at <= told[r] /\ l.run = r /\ l.by = w
  BY <1>0, <1>3, <1>6 DEF Page!Asks, LoadRows
<1>8. store' \in StoreRows BY <1>1, NoTaskIsStore
<1>9. PageTypes'
  <2>1. \A v \in DOMAIN visits' : visits'[v].at <= told[visits'[v].run]
    <3>1. \A v \in 1..Len(visits) : visits[v].at <= told[visits[v].run]
      BY <1>2, <1>3 DEF PageTypes
    <3>2. row.at <= told[row.run] BY <1>4, <1>6
    <3>3. QED BY <1>5, <3>1, <3>2
  <2>2. loads' \in SUBSET LoadRows /\ \A l \in loads' : l.at <= told[l.run]
    BY <1>1, <1>2, <1>7 DEF PageTypes
  <2>3. overtaken' \in BOOLEAN /\ astray' \in BOOLEAN BY <1>1
  <2>4. QED BY <1>1, <1>2, <1>5, <1>8, <2>1, <2>2, <2>3 DEF PageTypes
<1>10. ASSUME ~ astray' PROVE OfVisit(w)'
  <2>1. loads' = Page!Asks(r, w) BY <1>1, <1>10
  <2>2. \A v \in 1..Len(visits) : visits[v].phase = "closed"
    BY <1>1, <1>3, <1>10 DEF Page!Open, VisitRows, Phases
  <2>3. \A v \in 1..w : v # w => visits'[v].phase = "closed" BY <1>5, <2>2
  <2>4. /\ store'.task = "none" /\ store'.events = <<>>
        /\ store'.last = [run |-> "none", at |-> 0] /\ Len(store'.events) = 0
    BY <1>1 DEF Page!NoTask
  <2>5. \E l \in loads' : l.by = w /\ l.what = "task" BY <2>1 DEF Page!Asks
  <2>6. r # "none" BY DEF Page!Runs
  <2>7. Viewed(story'[r], store'.events, r, 0) BY <2>4 DEF Viewed
  <2>8. QED
    BY <1>4, <1>5, <1>7, <2>1, <2>3, <2>4, <2>5, <2>6, <2>7 DEF OfVisit
<1>11. QED BY <1>5, <1>9, <1>10 DEF PageKeeps, Steady

(* Visits whose rows are changed in place.                                  *)
LEMMA VisitsChanged ==
    ASSUME NEW s \in Seq(VisitRows), NEW v \in 1..Len(s), NEW new \in VisitRows, NEW t,
           t = [s EXCEPT ![v] = new]
    PROVE  /\ t \in Seq(VisitRows) /\ Len(t) = Len(s) /\ DOMAIN t = 1..Len(s) /\ t[v] = new
           /\ \A u \in 1..Len(s) : u # v => t[u] = s[u]
<1>1. t \in Seq(VisitRows) /\ Len(t) = Len(s) BY ExceptSeq
<1>2. DOMAIN s = 1..Len(s) BY LenProperties
<1>3. QED BY <1>1, <1>2

(* Whose is what is under way.                                              *)
LEMMA LastVisit ==
    ASSUME PageKeeps, ~ astray, loads # {} \/ visits # <<>>
    PROVE  \E w \in 1..Len(visits) : w = Len(visits) /\ OfVisit(w)
<1>1. visits # <<>> BY DEF PageKeeps, Steady
<1>2. Len(visits) \in 1..Len(visits) BY <1>1, VisitsAreListed DEF PageKeeps
<1>3. OfVisit(Len(visits)) BY <1>2 DEF PageKeeps, Steady
<1>4. QED BY <1>2, <1>3

(* The last visit is still the last.                                        *)
LEMMA StillSteady ==
    ASSUME PageKeeps, loads # {} \/ visits # <<>>, astray' = astray,
           visits' \in Seq(VisitRows), Len(visits') = Len(visits),
           \A w \in 1..Len(visits) : ~ astray /\ w = Len(visits) /\ OfVisit(w) => OfVisit(w)'
    PROVE  Steady'
<1> SUFFICES ASSUME ~ astray PROVE /\ visits' # <<>>
                                   /\ \A w \in 1..Len(visits) : w = Len(visits) => OfVisit(w)'
  BY DEF Steady
<1>1. PICK w \in 1..Len(visits) : w = Len(visits) /\ OfVisit(w) BY LastVisit
<1>2. w # 0 BY <1>1, VisitsAreListed DEF PageKeeps
<1>3. visits' # <<>> BY <1>1, <1>2, EmptySeq
<1>4. QED BY <1>1, <1>3

(* The server answers.                                                     *)
LEMMA AnswerKeeps ==
    ASSUME StoriesAreTold, PageKeeps, NEW l \in loads, Page!Answer(l) PROVE PageKeeps'
<1> DEFINE answer == [l EXCEPT !.at = told[l.run]]
<1>1. /\ l.at = 0 /\ loads' = (loads \ {l}) \cup {answer}
      /\ UNCHANGED <<story, told, visits, store, overtaken, astray>>
  BY DEF Page!Answer
<1>2. PageTypes BY DEF PageKeeps
<1>3. l \in LoadRows /\ told[l.run] \in Nat
  BY <1>2 DEF PageTypes, LoadRows
<1>4. /\ answer \in LoadRows /\ answer.run = l.run /\ answer.by = l.by /\ answer.what = l.what
      /\ answer.at = told[l.run]
  BY <1>3 DEF LoadRows
<1> HIDE DEF answer
<1>5. PageTypes'
  <2>1. loads' \in SUBSET LoadRows /\ \A m \in loads' : m.at <= told[m.run]
    BY <1>1, <1>2, <1>3, <1>4 DEF PageTypes
  <2>2. QED BY <1>1, <1>2, <2>1 DEF PageTypes
<1>6. ASSUME NEW w \in 1..Len(visits), OfVisit(w) PROVE OfVisit(w)'
  <2> DEFINE r == visits[w].run
  <2>1. \A m \in loads' : m.run = r /\ m.by \in {0, w} BY <1>1, <1>4, <1>6 DEF OfVisit
  <2>2. (\E m \in loads : m.by = w /\ m.what = "task")
           => \E m \in loads' : m.by = w /\ m.what = "task"
    BY <1>1, <1>4
  <2>3. QED BY <1>1, <1>6, <2>1, <2>2 DEF OfVisit
<1>7. visits' \in Seq(VisitRows) /\ Len(visits') = Len(visits) BY <1>1, <1>2 DEF PageTypes
<1>8. Steady' BY <1>1, <1>6, <1>7, StillSteady
<1>9. QED BY <1>5, <1>8 DEF PageKeeps

(* What the last visit has handled.                                         *)
LEMMA HandledCovers ==
    ASSUME PageTypes, NEW w \in 1..Len(visits)
    PROVE  /\ Page!Handled(visits[w].run) \in Nat
           /\ visits[w].at <= Page!Handled(visits[w].run)
<1> DEFINE r == visits[w].run
           S == {visits[v].at : v \in {u \in DOMAIN visits : visits[u].run = r}} \cup {0}
<1>1. /\ DOMAIN visits = 1..Len(visits)
      /\ \A v \in 1..Len(visits) : visits[v].run \in Page!Runs /\ visits[v].at \in Nat
      /\ \A v \in 1..Len(visits) : visits[v].at <= told[visits[v].run]
  BY VisitsAreListed DEF PageTypes, VisitRows
<1>2. told[r] \in Nat BY <1>1 DEF PageTypes
<1>3. \A v \in 1..Len(visits) : visits[v].run = r => visits[v].at \in 0..told[r]
  BY <1>1, <1>2
<1>4. S \in SUBSET (0..told[r]) /\ S # {} /\ visits[w].at \in S BY <1>1, <1>2, <1>3
<1>5. Page!Handled(r) = Page!Max(S) BY DEF Page!Handled
<1> HIDE DEF S
<1>6. Page!Max(S) \in S /\ \A j \in S : j <= Page!Max(S) BY <1>2, <1>4, MaxIsGreatest
<1>7. visits[w].at <= Page!Max(S) BY <1>4, <1>6
<1>8. Page!Max(S) \in Nat
  <2>1. \A j \in S : j \in 0..told[r] BY <1>4
  <2>2. \A j \in S : j \in Nat BY <1>2, <2>1
  <2>3. QED BY <1>6, <2>2
<1>9. QED BY <1>5, <1>7, <1>8

(* The answer arrives: the status it brings is known, unless it is old.     *)
LEMMA DeliverKeeps ==
    ASSUME StoriesAreTold, PageKeeps, NEW l \in loads, Page!Deliver(l) PROVE PageKeeps'
<1>1. /\ l.at # 0 /\ loads' = loads \ {l}
      /\ l.what = "details" => store' = [store EXCEPT !.details = l.run] /\ overtaken' = overtaken
      /\ l.what # "details" =>
            /\ store' = [store EXCEPT !.task = l.run, !.status = Page!RowOf(l.run, l.at)]
            /\ overtaken' = Page!Old(l)
      /\ UNCHANGED <<story, told, visits, astray>>
  BY DEF Page!Deliver
<1>2. PageTypes BY DEF PageKeeps
<1>3. l \in LoadRows /\ l.run \in Page!Runs /\ l.at \in Nat /\ told[l.run] \in Nat
      /\ l.at <= told[l.run] /\ l.what \in {"task", "details"}
  BY <1>2 DEF PageTypes, LoadRows
<1>4. Page!RowOf(l.run, l.at) = RowAt(story[l.run], l.at) BY StepsTell
<1>5. RowAt(story[l.run], l.at) \in Told
  <2>1. l.at \in 0..told[l.run] BY <1>3
  <2>2. QED BY <1>2, <1>3, <2>1, RowType
<1>6. store \in StoreRows BY <1>2 DEF PageTypes
<1>7. store' \in StoreRows BY <1>1, <1>3, <1>4, <1>5, <1>6 DEF StoreRows
<1>8. Page!Old(l) \in BOOLEAN BY DEF Page!Old
<1>9. PageTypes'
  <2>1. overtaken' \in BOOLEAN BY <1>1, <1>2, <1>8 DEF PageTypes
  <2>2. loads' \in SUBSET LoadRows /\ \A m \in loads' : m.at <= told[m.run]
    BY <1>1, <1>2 DEF PageTypes
  <2>3. QED BY <1>1, <1>2, <1>7, <2>1, <2>2 DEF PageTypes
<1>10. ASSUME NEW w \in 1..Len(visits), OfVisit(w) PROVE OfVisit(w)'
  <2> DEFINE r == visits[w].run
             a == visits[w].at
  <2>1. l.run = r /\ \A m \in loads' : m.run = r /\ m.by \in {0, w}
    BY <1>1, <1>10 DEF OfVisit
  <2>2. CASE l.what = "details"
    <3>1. /\ store'.task = store.task /\ store'.status = store.status
          /\ store'.events = store.events /\ store'.last = store.last /\ overtaken' = overtaken
      BY <1>1, <1>6, <2>2 DEF StoreRows
    <3>2. (\E m \in loads : m.by = w /\ m.what = "task")
             => \E m \in loads' : m.by = w /\ m.what = "task"
      BY <1>1, <2>2
    <3>3. QED BY <1>1, <1>10, <2>1, <3>1, <3>2 DEF OfVisit
  <2>3. CASE l.what # "details"
    <3>1. /\ store'.task = r /\ store'.status = RowAt(story[r], l.at)
          /\ store'.events = store.events /\ store'.last = store.last
          /\ overtaken' = Page!Old(l)
      BY <1>1, <1>4, <1>6, <2>1, <2>3 DEF StoreRows
    <3>2. ASSUME ~ Page!Old(l) PROVE Knows(story[r], told[r], RowAt(story[r], l.at), a)
      <4>1. Page!Handled(r) \in Nat /\ a <= Page!Handled(r) BY <1>2, HandledCovers
      <4>2. a \in Nat BY <1>2, VisitsAreListed DEF VisitRows
      <4>3. \A i \in (l.at + 1)..Page!Handled(r) : ~ Page!Carries(story[r][i])
        BY <2>1, <3>2 DEF Page!Old
      <4>4. ReportAt(story[r], l.at) \in {"none", RowAt(story[r], l.at)}
        BY <2>1, <3>2, StepsTell DEF Page!Old
      <4>5. \A i \in (l.at + 1)..a : i \in (l.at + 1)..Page!Handled(r) BY <1>3, <4>1, <4>2
      <4>6. l.at \in 0..told[r] BY <1>3, <2>1
      <4> HIDE DEF r, a
      <4>7. QED BY <4>3, <4>4, <4>5, <4>6 DEF Knows
    <3>3. visits'[w] = visits[w] /\ Len(visits') = Len(visits) /\ story' = story /\ told' = told
      BY <1>1
    <3>4. ~ overtaken' => Knows(story'[r], told'[r], store'.status, a)
      BY <3>1, <3>2, <3>3
    <3>5. QED BY <1>1, <1>10, <2>1, <3>1, <3>4 DEF OfVisit
  <2>4. QED BY <2>2, <2>3
<1>11. visits' \in Seq(VisitRows) /\ Len(visits') = Len(visits) BY <1>1, <1>2 DEF PageTypes
<1>12. Steady' BY <1>1, <1>10, <1>11, StillSteady
<1>13. QED BY <1>9, <1>12 DEF PageKeeps

(* The visit that acts is the last one, whose page has not been closed.     *)
LEMMA ActsAsLast ==
    ASSUME PageTypes, NEW w \in 1..Len(visits), OfVisit(w), NEW v \in DOMAIN visits,
           visits[v].phase # "closed"
    PROVE  v = w
BY VisitsAreListed DEF OfVisit

LEMMA RowIsRewritten ==
    ASSUME NEW v \in DOMAIN visits, visits[v] \in VisitRows, NEW new, NEW from
    PROVE  /\ [visits EXCEPT ![v].phase = new] =
                 [visits EXCEPT ![v] = [run |-> visits[v].run, phase |-> new, at |-> visits[v].at]]
           /\ [visits EXCEPT ![v].at = from] =
                 [visits EXCEPT ![v] = [run |-> visits[v].run, phase |-> visits[v].phase,
                                        at |-> from]]
<1>1. [visits[v] EXCEPT !.phase = new]
         = [run |-> visits[v].run, phase |-> new, at |-> visits[v].at] BY DEF VisitRows
<1>2. [visits[v] EXCEPT !.at = from]
         = [run |-> visits[v].run, phase |-> visits[v].phase, at |-> from]
  BY DEF VisitRows
<1>3. QED BY <1>1, <1>2

(* A change of the row of a visit that leaves what was handled alone.       *)
LEMMA PhaseChanges ==
    ASSUME PageTypes, NEW v \in DOMAIN visits, NEW new \in Phases,
           visits' = [visits EXCEPT ![v] =
                         [run |-> visits[v].run, phase |-> new, at |-> visits[v].at]]
    PROVE  /\ visits' \in Seq(VisitRows) /\ Len(visits') = Len(visits)
           /\ DOMAIN visits' = 1..Len(visits)
           /\ \A u \in 1..Len(visits) :
                 /\ visits'[u].run = visits[u].run /\ visits'[u].at = visits[u].at
                 /\ visits'[u].phase = IF u = v THEN new ELSE visits[u].phase
<1>1. /\ visits \in Seq(VisitRows) /\ DOMAIN visits = 1..Len(visits)
      /\ \A u \in 1..Len(visits) : visits[u] \in VisitRows
  BY VisitsAreListed DEF PageTypes
<1> DEFINE row == [run |-> visits[v].run, phase |-> new, at |-> visits[v].at]
<1>2. row \in VisitRows /\ row.run = visits[v].run /\ row.phase = new /\ row.at = visits[v].at
  BY <1>1 DEF VisitRows
<1> HIDE DEF row
<1>3. /\ visits' \in Seq(VisitRows) /\ Len(visits') = Len(visits)
      /\ DOMAIN visits' = 1..Len(visits) /\ visits'[v] = row
      /\ \A u \in 1..Len(visits) : u # v => visits'[u] = visits[u]
  <2>1. visits' = [visits EXCEPT ![v] = row] BY DEF row
  <2>2. v \in 1..Len(visits) BY <1>1
  <2>3. QED BY <1>1, <1>2, <2>1, <2>2, VisitsChanged
<1>4. QED BY <1>1, <1>2, <1>3

LEMMA PhaseTypes ==
    ASSUME PageTypes, NEW v \in DOMAIN visits, NEW new \in Phases,
           visits' = [visits EXCEPT ![v] =
                         [run |-> visits[v].run, phase |-> new, at |-> visits[v].at]],
           loads' \in SUBSET LoadRows, \A l \in loads' : l.at <= told[l.run],
           UNCHANGED <<story, told, store, overtaken, astray>>
    PROVE  PageTypes'
<1>1. /\ visits' \in Seq(VisitRows) /\ Len(visits') = Len(visits)
      /\ DOMAIN visits' = 1..Len(visits) /\ DOMAIN visits = 1..Len(visits)
      /\ \A u \in 1..Len(visits) : visits'[u].run = visits[u].run /\ visits'[u].at = visits[u].at
  BY PhaseChanges, VisitsAreListed
<1>2. \A u \in DOMAIN visits' : visits'[u].at <= told[visits'[u].run]
  BY <1>1 DEF PageTypes
<1>3. QED BY <1>1, <1>2 DEF PageTypes

(* The stream of a page begins where the store ends, which is empty.        *)
LEMMA SubscribeKeeps ==
    ASSUME StoriesAreTold, PageKeeps, NEW v \in DOMAIN visits, NEW from \in 0..told[visits[v].run],
           Page!Subscribe(v, from)
    PROVE  PageKeeps'
<1> DEFINE new == IF visits[v].phase = "loading" THEN "live" ELSE "leaked"
           row == [run |-> visits[v].run, phase |-> new, at |-> from]
<1>1. /\ visits[v].phase \in {"loading", "leaving"} /\ Page!Pending(v) = {}
      /\ store.last.run \in {"none", visits[v].run} => from = store.last.at
      /\ UNCHANGED <<story, told, loads, store, overtaken, astray>>
  BY DEF Page!Subscribe
<1>2. PageTypes BY DEF PageKeeps
<1>3. /\ visits \in Seq(VisitRows) /\ DOMAIN visits = 1..Len(visits) /\ Len(visits) \in Nat
      /\ \A u \in 1..Len(visits) : visits[u] \in VisitRows
  BY <1>2, VisitsAreListed DEF PageTypes
<1>4. visits' = [visits EXCEPT ![v] = row]
  <2>1. visits' = [visits EXCEPT ![v].phase = new, ![v].at = from] BY DEF Page!Subscribe
  <2> HIDE DEF new
  <2>2. visits[v] \in VisitRows BY <1>3
  <2> DEFINE turned == [visits[v] EXCEPT !.phase = new]
  <2>3. turned = [run |-> visits[v].run, phase |-> new, at |-> visits[v].at]
    BY <2>2 DEF VisitRows
  <2>4. [turned EXCEPT !.at = from] = row
    <3> HIDE DEF turned
    <3>1. QED BY <2>3 DEF row
  <2>5. QED BY <2>1, <2>4
<1>5. visits[v].run \in Page!Runs /\ told[visits[v].run] \in Nat
  BY <1>2, <1>3 DEF PageTypes, VisitRows
<1>6. row \in VisitRows /\ row.run = visits[v].run /\ row.phase = new /\ row.at = from
  BY <1>5 DEF VisitRows, Phases
<1> HIDE DEF row
<1>7. /\ visits' \in Seq(VisitRows) /\ Len(visits') = Len(visits)
      /\ DOMAIN visits' = 1..Len(visits) /\ visits'[v] = row
      /\ \A u \in 1..Len(visits) : u # v => visits'[u] = visits[u]
  <2>1. v \in 1..Len(visits) BY <1>3
  <2>2. QED BY <1>3, <1>4, <1>6, <2>1, VisitsChanged
<1>8. PageTypes'
  <2>1. \A u \in DOMAIN visits' : visits'[u].at <= told[visits'[u].run]
    BY <1>2, <1>3, <1>5, <1>6, <1>7 DEF PageTypes
  <2>2. QED BY <1>1, <1>2, <1>7, <2>1 DEF PageTypes
<1>9. ASSUME NEW w \in 1..Len(visits), OfVisit(w) PROVE OfVisit(w)'
  <2>1. v = w BY <1>1, <1>2, <1>9, ActsAsLast
  <2> DEFINE r == visits[w].run
  <2>2. visits[w].at = 0 /\ store.last = [run |-> "none", at |-> 0]
    BY <1>1, <1>9, <2>1 DEF OfVisit
  <2>3. from = 0 BY <1>1, <2>2
  <2>4. store.task = r BY <1>1, <1>9, <2>1 DEF OfVisit, Page!Pending
  <2>5. /\ visits'[w].run = r /\ visits'[w].at = visits[w].at
        /\ visits'[w].phase \in {"live", "leaked"}
    BY <1>6, <1>7, <2>1, <2>2, <2>3
  <2>6. QED BY <1>1, <1>7, <1>9, <2>1, <2>2, <2>4, <2>5 DEF OfVisit
<1>10. Steady'
  <2>1. visits # <<>> BY <1>3
  <2>2. QED BY <1>1, <1>7, <1>9, <2>1, StillSteady
<1>11. QED BY <1>8, <1>10 DEF PageKeeps

(* The run cannot be loaded.                                               *)
LEMMA LoadFailsKeeps ==
    ASSUME StoriesAreTold, PageKeeps, NEW l \in loads, Page!LoadFails(l) PROVE PageKeeps'
<1>1. /\ loads' = loads \ {l}
      /\ visits' = IF l.by = 0 THEN visits
                   ELSE [visits EXCEPT ![l.by].phase = IF @ = "loading" THEN "stuck" ELSE "closed"]
      /\ UNCHANGED <<story, told, store, overtaken, astray>>
  BY DEF Page!LoadFails
<1>2. PageTypes BY DEF PageKeeps
<1>3. /\ visits \in Seq(VisitRows) /\ DOMAIN visits = 1..Len(visits) /\ Len(visits) \in Nat
      /\ \A u \in 1..Len(visits) : visits[u] \in VisitRows
  BY <1>2, VisitsAreListed DEF PageTypes
<1>4. loads' \in SUBSET LoadRows /\ \A m \in loads' : m.at <= told[m.run]
  BY <1>1, <1>2 DEF PageTypes
<1>5. CASE visits' = visits
  <2>1. PageTypes' BY <1>1, <1>2, <1>4, <1>5 DEF PageTypes
  <2>2. CASE l.by \notin DOMAIN visits /\ l.by # 0
    <3>1. \A w \in 1..Len(visits) : ~ OfVisit(w) BY <1>3, <2>2 DEF OfVisit
    <3>2. visits' \in Seq(VisitRows) /\ Len(visits') = Len(visits) BY <1>3, <1>5
    <3>3. Steady' BY <1>1, <3>1, <3>2, StillSteady
    <3>4. QED BY <2>1, <3>3 DEF PageKeeps
  <2>3. CASE l.by = 0
    <3>1. ASSUME NEW w \in 1..Len(visits), OfVisit(w) PROVE OfVisit(w)'
      <4>1. (\E m \in loads : m.by = w /\ m.what = "task")
               => \E m \in loads' : m.by = w /\ m.what = "task"
        BY <1>1, <1>3, <2>3
      <4>2. \A m \in loads' : m \in loads BY <1>1
      <4>3. QED BY <1>1, <1>5, <3>1, <4>1, <4>2 DEF OfVisit
    <3>2. visits' \in Seq(VisitRows) /\ Len(visits') = Len(visits) BY <1>3, <1>5
    <3>3. Steady' BY <1>1, <3>1, <3>2, StillSteady
    <3>4. QED BY <2>1, <3>3 DEF PageKeeps
  <2>4. CASE l.by \in DOMAIN visits /\ l.by # 0
    <3>1. ASSUME NEW w \in 1..Len(visits), OfVisit(w) PROVE OfVisit(w)'
      <4>1. visits[w].phase \notin {"loading", "leaving"}
        <5>1. l.by = w BY <2>4, <3>1 DEF OfVisit
        <5>2. visits[w].phase # "loading" /\ visits[w].phase # "leaving"
          BY <1>1, <1>3, <1>5, <2>4, <5>1 DEF VisitRows
        <5>3. QED BY <5>2
      <4>2. \A m \in loads' : m \in loads BY <1>1
      <4>3. QED BY <1>1, <1>5, <3>1, <4>1, <4>2 DEF OfVisit
    <3>2. visits' \in Seq(VisitRows) /\ Len(visits') = Len(visits) BY <1>3, <1>5
    <3>3. Steady' BY <1>1, <3>1, <3>2, StillSteady
    <3>4. QED BY <2>1, <3>3 DEF PageKeeps
  <2>5. QED BY <2>2, <2>3, <2>4
<1>6. CASE visits' # visits
  <2> DEFINE v == l.by
             new == IF visits[v].phase = "loading" THEN "stuck" ELSE "closed"
  <2>1. v # 0 /\ v \in DOMAIN visits
    <3>1. v # 0 BY <1>1, <1>6
    <3>2. ASSUME v \notin DOMAIN visits PROVE visits' = visits BY <1>1, <1>3, <3>1, <3>2
    <3>3. QED BY <1>6, <3>1, <3>2
  <2>2. visits' = [visits EXCEPT ![v] = [run |-> visits[v].run, phase |-> new, at |-> visits[v].at]]
    <3>1. visits' = [visits EXCEPT ![v].phase = new] BY <1>1, <2>1
    <3> HIDE DEF new, v
    <3>2. QED BY <1>3, <2>1, <3>1, RowIsRewritten
  <2>3. new \in Phases BY DEF Phases
  <2>4. visits[v].run = visits[v].run /\ new \notin {"loading", "leaving", "live", "leaked"} OBVIOUS
  <2> HIDE DEF v, new
  <2>5. PageTypes' BY <1>1, <1>2, <1>4, <2>1, <2>2, <2>3, PhaseTypes
  <2>6. /\ visits' \in Seq(VisitRows) /\ Len(visits') = Len(visits)
        /\ \A u \in 1..Len(visits) :
              /\ visits'[u].run = visits[u].run /\ visits'[u].at = visits[u].at
              /\ visits'[u].phase = IF u = v THEN new ELSE visits[u].phase
    BY <1>2, <2>1, <2>2, <2>3, PhaseChanges
  <2>7. ASSUME NEW w \in 1..Len(visits), OfVisit(w) PROVE OfVisit(w)'
    <3>1. v = w BY <2>1, <2>7 DEF OfVisit, v
    <3>2. visits'[w].phase \notin {"loading", "leaving", "live", "leaked"} BY <2>4, <2>6, <3>1
    <3>3. \A u \in 1..Len(visits') : u # w => visits'[u].phase = "closed"
      BY <2>6, <2>7, <3>1 DEF OfVisit
    <3>4. \A m \in loads' : m \in loads BY <1>1
    <3>5. visits'[w].run = visits[w].run /\ visits'[w].at = visits[w].at BY <2>6
    <3>6. QED BY <1>1, <2>7, <3>2, <3>3, <3>4, <3>5 DEF OfVisit
  <2>8. Steady' BY <1>1, <2>6, <2>7, StillSteady
  <2>9. QED BY <2>5, <2>8 DEF PageKeeps
<1>7. QED BY <1>5, <1>6

(* What was done is asked for again.                                        *)
LEMMA RefreshKeeps ==
    ASSUME StoriesAreTold, PageKeeps, NEW v \in DOMAIN visits, Page!Refresh(v) PROVE PageKeeps'
<1>1. /\ visits[v].phase \in {"live", "stuck"} /\ loads' = loads \cup Page!Asks(visits[v].run, 0)
      /\ UNCHANGED <<story, told, visits, store, overtaken, astray>>
  BY DEF Page!Refresh
<1>2. PageTypes BY DEF PageKeeps
<1>3. /\ visits \in Seq(VisitRows) /\ DOMAIN visits = 1..Len(visits)
      /\ \A u \in 1..Len(visits) : visits[u] \in VisitRows
  BY <1>2, VisitsAreListed DEF PageTypes
<1>4. visits[v].run \in Page!Runs /\ 1 <= told[visits[v].run] /\ told[visits[v].run] \in Nat
  BY <1>2, <1>3 DEF PageTypes, VisitRows
<1>5. /\ Page!Asks(visits[v].run, 0) \in SUBSET LoadRows
      /\ \A l \in Page!Asks(visits[v].run, 0) : /\ l.at <= told[l.run] /\ l.run = visits[v].run
                                                /\ l.by = 0
  BY <1>4 DEF Page!Asks, LoadRows
<1>6. PageTypes'
  <2>1. loads' \in SUBSET LoadRows /\ \A l \in loads' : l.at <= told[l.run]
    BY <1>1, <1>2, <1>5 DEF PageTypes
  <2>2. QED BY <1>1, <1>2, <2>1 DEF PageTypes
<1>7. ASSUME NEW w \in 1..Len(visits), OfVisit(w) PROVE OfVisit(w)'
  <2>1. v = w BY <1>1, <1>2, <1>7, ActsAsLast
  <2>2. \A l \in loads' : l.run = visits[w].run /\ l.by \in {0, w}
    BY <1>1, <1>5, <1>7, <2>1 DEF OfVisit
  <2>3. \A l \in loads : l \in loads' BY <1>1
  <2>4. QED BY <1>1, <1>7, <2>2, <2>3 DEF OfVisit
<1>8. Steady'
  <2>1. visits # <<>> BY <1>3
  <2>2. visits' \in Seq(VisitRows) /\ Len(visits') = Len(visits) BY <1>1, <1>3
  <2>3. QED BY <1>1, <1>7, <2>1, <2>2, StillSteady
<1>9. QED BY <1>6, <1>8 DEF PageKeeps

(* The page is left.                                                       *)
LEMMA LeaveKeeps ==
    ASSUME StoriesAreTold, PageKeeps, NEW v \in DOMAIN visits, Page!Leave(v) PROVE PageKeeps'
<1> DEFINE new == IF visits[v].phase = "loading" THEN "leaving" ELSE "closed"
<1>1. /\ visits[v].phase # "closed" /\ visits[v].phase # "leaving"
      /\ UNCHANGED <<story, told, loads, store, overtaken, astray>>
  BY DEF Page!Leave, Page!Open
<1>2. PageTypes BY DEF PageKeeps
<1>3. /\ visits \in Seq(VisitRows) /\ DOMAIN visits = 1..Len(visits)
      /\ \A u \in 1..Len(visits) : visits[u] \in VisitRows
  BY <1>2, VisitsAreListed DEF PageTypes
<1>4. visits' = [visits EXCEPT ![v] = [run |-> visits[v].run, phase |-> new, at |-> visits[v].at]]
  <2>1. visits' = [visits EXCEPT ![v].phase = new] BY DEF Page!Leave
  <2> HIDE DEF new
  <2>2. QED BY <1>3, <2>1, RowIsRewritten
<1>5. /\ new \in Phases /\ new \notin {"loading", "live", "leaked"}
      /\ new = "leaving" => visits[v].phase = "loading"
  BY DEF Phases
<1> HIDE DEF new
<1>6. PageTypes'
  <2>1. loads' \in SUBSET LoadRows /\ \A l \in loads' : l.at <= told[l.run]
    BY <1>1, <1>2 DEF PageTypes
  <2>2. QED BY <1>1, <1>2, <1>4, <1>5, <2>1, PhaseTypes
<1>7. /\ visits' \in Seq(VisitRows) /\ Len(visits') = Len(visits)
      /\ \A u \in 1..Len(visits) :
            /\ visits'[u].run = visits[u].run /\ visits'[u].at = visits[u].at
            /\ visits'[u].phase = IF u = v THEN new ELSE visits[u].phase
  BY <1>2, <1>4, <1>5, PhaseChanges
<1>8. ASSUME NEW w \in 1..Len(visits), OfVisit(w) PROVE OfVisit(w)'
  <2>1. v = w BY <1>1, <1>2, <1>8, ActsAsLast
  <2>2. /\ visits'[w].phase \notin {"loading", "live", "leaked"}
        /\ visits'[w].phase = "leaving" => visits[w].phase = "loading"
    BY <1>5, <1>7, <2>1
  <2>3. \A u \in 1..Len(visits') : u # w => visits'[u].phase = "closed"
    BY <1>7, <1>8, <2>1 DEF OfVisit
  <2>4. visits'[w].run = visits[w].run /\ visits'[w].at = visits[w].at BY <1>7
  <2>5. QED BY <1>1, <1>8, <2>2, <2>3, <2>4 DEF OfVisit
<1>9. Steady'
  <2>1. visits # <<>> BY <1>3
  <2>2. QED BY <1>1, <1>7, <1>8, <2>1, StillSteady
<1>10. QED BY <1>6, <1>9 DEF PageKeeps

(* The store shows the next event of a run, and may drop the first.         *)
LEMMA NextIsViewed ==
    ASSUME NEW events \in Seq(EntryRows), NEW steps, NEW r \in Page!Runs, NEW at \in Nat,
           Viewed(steps, events, r, at), NEW i \in Nat, at < i,
           \A x \in (at + 1)..(i - 1) : steps[x].event = "none",
           NEW shows, shows = Page!Shown(events, [run |-> r, at |-> i])
    PROVE  shows \in Seq(EntryRows) /\ Viewed(steps, shows, r, i)
<1> DEFINE e == [run |-> r, at |-> i]
           all == Append(events, e)
<1>1. e \in EntryRows /\ e.run = r /\ e.at = i BY DEF EntryRows
<1> HIDE DEF e
<1>2. Len(events) \in Nat /\ \A k \in 1..Len(events) : events[k] \in EntryRows
  BY LenProperties, ElementOfSeq
<1>3. /\ all \in Seq(EntryRows) /\ Len(all) = Len(events) + 1 /\ all[Len(events) + 1] = e
      /\ \A k \in 1..Len(events) : all[k] = events[k]
  BY <1>1, <1>2
<1> HIDE DEF all
<1>4. \A k \in 1..Len(all) : k \in 1..Len(events) \/ k = Len(events) + 1 BY <1>2, <1>3
<1>5. \A k \in 1..Len(all) : all[k].run = r /\ all[k].at \in 1..i
  <2>1. \A k \in 1..Len(events) : events[k].run = r /\ events[k].at \in 1..i
    BY DEF Viewed
  <2>2. i \in 1..i OBVIOUS
  <2>3. QED BY <1>1, <1>3, <1>4, <2>1, <2>2
<1>6. ASSUME NEW j \in 1..Len(all), NEW k \in 1..Len(all), j < k PROVE all[j].at < all[k].at
  <2>1. j \in 1..Len(events) /\ all[j] = events[j] /\ events[j].at \in 1..at
    BY <1>2, <1>3, <1>6 DEF Viewed
  <2>2. CASE k \in 1..Len(events) BY <1>3, <1>6, <2>1, <2>2 DEF Viewed
  <2>3. CASE k = Len(events) + 1 BY <1>1, <1>3, <2>1, <2>3
  <2>4. QED BY <1>4, <2>2, <2>3
<1>7. ASSUME NEW k \in 1..Len(all), NEW x \in all[k].at..i, steps[x].event # "none"
      PROVE  \E m \in 1..Len(all) : all[m].at = x
  <2>1. Len(events) + 1 \in 1..Len(all) BY <1>2, <1>3
  <2>2. CASE x = i BY <1>1, <1>3, <2>1, <2>2
  <2>3. CASE x # i
    <3>1. all[k].at \in 1..i /\ x \in Nat /\ x < i BY <1>5, <2>3
    <3>2. x <= at BY <1>7, <3>1
    <3>3. k \in 1..Len(events) BY <1>1, <1>3, <1>4, <3>1
    <3>4. x \in events[k].at..at BY <1>3, <3>1, <3>2, <3>3
    <3>5. PICK m \in 1..Len(events) : events[m].at = x BY <1>7, <3>3, <3>4 DEF Viewed
    <3>6. QED BY <1>2, <1>3, <3>5
  <2>4. QED BY <2>2, <2>3
<1>8. CASE shows = all BY <1>3, <1>5, <1>6, <1>7, <1>8 DEF Viewed
<1>9. CASE shows = Tail(all)
  <2>1. all # <<>> BY <1>2, <1>3, EmptySeq
  <2>2. /\ shows \in Seq(EntryRows) /\ Len(shows) = Len(events)
        /\ \A k \in 1..Len(events) : shows[k] = all[k + 1] /\ k + 1 \in 1..Len(all)
    <3>1. /\ Tail(all) \in Seq(EntryRows) /\ Len(Tail(all)) = Len(all) - 1
          /\ \A k \in 1..(Len(all) - 1) : Tail(all)[k] = all[k + 1]
      BY <1>3, <2>1, HeadTailProperties
    <3>2. Len(all) - 1 = Len(events) BY <1>2, <1>3
    <3>3. \A k \in 1..Len(events) : k + 1 \in 1..Len(all) BY <1>2, <1>3
    <3>4. QED BY <1>9, <3>1, <3>2, <3>3
  <2>3. \A k \in 1..Len(shows) : shows[k].run = r /\ shows[k].at \in 1..i BY <1>5, <2>2
  <2>4. \A j, k \in 1..Len(shows) : j < k => shows[j].at < shows[k].at
    <3>1. \A j, k \in 1..Len(shows) : j < k => j + 1 < k + 1 BY <1>2, <2>2
    <3>2. QED BY <1>6, <2>2, <3>1
  <2>5. ASSUME NEW k \in 1..Len(shows), NEW x \in shows[k].at..i, steps[x].event # "none"
        PROVE  \E m \in 1..Len(shows) : shows[m].at = x
    <3>1. k + 1 \in 1..Len(all) /\ shows[k] = all[k + 1] BY <2>2
    <3>2. PICK m \in 1..Len(all) : all[m].at = x BY <1>7, <2>5, <3>1
    <3>3. m # 1
      <4>1. 1 \in 1..Len(all) /\ 1 < k + 1 BY <1>2, <1>3
      <4>2. all[1].at < all[k + 1].at BY <1>6, <3>1, <4>1
      <4>3. all[1].at \in Nat /\ all[k + 1].at \in Nat /\ all[k + 1].at <= x
        BY <1>5, <2>5, <3>1, <4>1
      <4>4. QED BY <3>2, <4>2, <4>3
    <3>4. m - 1 \in 1..Len(shows) /\ (m - 1) + 1 = m BY <1>2, <1>3, <2>2, <3>3
    <3>5. shows[m - 1].at = x BY <2>2, <3>2, <3>4
    <3>6. QED BY <3>4, <3>5
  <2>6. QED BY <2>2, <2>3, <2>4, <2>5 DEF Viewed
<1>10. QED BY <1>8, <1>9 DEF Page!Shown, all, e

(* The next event that the page has not handled.                            *)
LEMMA NextVisible ==
    ASSUME NEW r \in Page!Runs, told[r] \in Nat, NEW at \in Nat, Page!Visible(r, at) # {}
    PROVE  /\ Page!Min(Page!Visible(r, at)) \in (at + 1)..told[r]
           /\ story[r][Page!Min(Page!Visible(r, at))].event # "none"
           /\ \A x \in (at + 1)..(Page!Min(Page!Visible(r, at)) - 1) : story[r][x].event = "none"
<1> DEFINE V == Page!Visible(r, at)
<1>1. V \in SUBSET (0..told[r]) /\ V # {} BY DEF Page!Visible
<1>2. Page!Min(V) \in V /\ \A j \in V : Page!Min(V) <= j
  <2> HIDE DEF V
  <2>1. QED BY <1>1, MaxIsGreatest
<1>3. Page!Min(V) \in (at + 1)..told[r] /\ story[r][Page!Min(V)].event # "none"
  BY <1>2 DEF Page!Visible
<1>4. ASSUME NEW x \in (at + 1)..(Page!Min(V) - 1) PROVE story[r][x].event = "none"
  <2>1. x \in (at + 1)..told[r] /\ ~ (Page!Min(V) <= x) BY <1>3
  <2>2. x \notin V BY <1>2, <2>1
  <2>3. QED BY <2>1, <2>2 DEF Page!Visible
<1>5. QED BY <1>3, <1>4

(* The events between what is known and the next one tell nothing of the    *)
(* status; the next one tells, or changes nothing.                          *)
LEMMA KnowsNext ==
    ASSUME NEW steps, NEW n \in Nat, NEW at \in Nat, NEW i \in (at + 1)..n, NEW status, NEW new,
           Page!Carries(steps[i]) => new = steps[i].status,
           ~ Page!Carries(steps[i]) => new = status,
           \A x \in (at + 1)..(i - 1) : steps[x].event = "none",
           Page!Carries(steps[i]) \/ Knows(steps, n, status, at)
    PROVE  Knows(steps, n, new, i)
<1>0. i \in Nat /\ \A x \in (at + 1)..(i - 1) : ~ Page!Carries(steps[x]) BY DEF Page!Carries
<1>1. CASE Page!Carries(steps[i])
  <2>1. i \in 1..i /\ (i + 1)..i = {} BY <1>0
  <2>2. ReportAt(steps, i) = steps[i].status BY <1>0, <1>1, <2>1, LatestReport
  <2>3. steps[i].status # "none" BY <1>1 DEF Page!Carries
  <2>4. QED BY <1>1, <2>2, <2>3 DEF Knows
<1>2. CASE ~ Page!Carries(steps[i])
  <2>1. \A x \in (at + 1)..i : ~ Page!Carries(steps[x])
    <3>1. \A x \in (at + 1)..i : x \in (at + 1)..(i - 1) \/ x = i OBVIOUS
    <3>2. QED BY <1>0, <1>2, <3>1
  <2>2. ReportAt(steps, at) = ReportAt(steps, i)
    <3>1. at \in 0..i BY <1>0
    <3>2. QED BY <1>0, <2>1, <3>1, LatestReport
  <2>3. CASE ReportAt(steps, at) # "none" /\ status = ReportAt(steps, at)
    BY <1>2, <2>2, <2>3 DEF Knows
  <2>4. ASSUME NEW p \in 0..n, status = RowAt(steps, p),
               ReportAt(steps, p) \in {"none", RowAt(steps, p)},
               \A x \in (p + 1)..at : ~ Page!Carries(steps[x])
        PROVE  Knows(steps, n, status, i)
    <3>1. \A x \in (p + 1)..i : x \in (p + 1)..at \/ x \in (at + 1)..i OBVIOUS
    <3>2. \A x \in (p + 1)..i : ~ Page!Carries(steps[x]) BY <2>1, <2>4, <3>1
    <3>3. QED BY <2>4, <3>2 DEF Knows
  <2>5. Knows(steps, n, status, i) BY <1>2, <2>3, <2>4 DEF Knows
  <2>6. QED BY <1>2, <2>5
<1>3. QED BY <1>1, <1>2

(* A page hears the next event of its stream.                               *)
LEMMA HandleSSEKeeps ==
    ASSUME StoriesAreTold, PageKeeps, NEW v \in DOMAIN visits, Page!HandleSSE(v)
    PROVE  PageKeeps'
<1> DEFINE q == visits[v].run
           a == visits[v].at
<1>1. PageTypes BY DEF PageKeeps
<1>2. /\ visits \in Seq(VisitRows) /\ DOMAIN visits = 1..Len(visits) /\ Len(visits) \in Nat
      /\ \A u \in 1..Len(visits) : visits[u] \in VisitRows
  BY <1>1, VisitsAreListed DEF PageTypes
<1>3. PICK r : r = q OBVIOUS
<1>4. PICK at : at = a OBVIOUS
<1>5. r \in Page!Runs /\ at \in Nat /\ told[r] \in Nat /\ 1 <= told[r] /\ at <= told[r]
      /\ visits[v].phase \in Phases
  BY <1>1, <1>2, <1>3, <1>4 DEF PageTypes, VisitRows
<1>6. PICK i : i = Page!Min(Page!Visible(r, at)) OBVIOUS
<1> DEFINE e == story[r][i]
           entry == [run |-> r, at |-> i]
           status == IF Page!Carries(e) /\ store.task # "none" THEN e.status ELSE store.status
           row == [run |-> r, phase |-> visits[v].phase, at |-> i]
<1>7. /\ visits[v].phase \in {"live", "leaked"} /\ Page!Visible(r, at) # {}
      /\ visits' = [visits EXCEPT ![v].at = i]
      /\ store' = IF store.last = entry THEN store
                  ELSE [store EXCEPT !.events = Page!Shown(@, entry), !.last = entry,
                                     !.status = IF Page!Carries(e) /\ store.task # "none"
                                                THEN e.status ELSE @]
      /\ overtaken' = (overtaken /\ ~ Page!Carries(e))
      /\ loads' = IF e.event \in {"artifact", "approval", "task_end"}
                  THEN loads \cup {l \in Page!Asks(r, 0) : l.what = "details"} ELSE loads
      /\ UNCHANGED <<story, told, astray>>
  BY <1>3, <1>4, <1>6 DEF Page!HandleSSE
<1>8. /\ i \in (at + 1)..told[r] /\ i \in Nat /\ at < i /\ i # 0
      /\ \A x \in (at + 1)..(i - 1) : story[r][x].event = "none"
  BY <1>5, <1>6, <1>7, NextVisible
<1>9. entry.run = r /\ entry.at = i /\ entry \in EntryRows BY <1>5, <1>8 DEF EntryRows
<1>10. e \in Page!Steps
  <2>1. story \in Stories /\ told[r] <= Len(story[r]) BY <1>1, <1>5 DEF PageTypes
  <2>2. i \in 1..Len(story[r]) BY <1>5, <1>8, <2>1, StoriesAreSteps
  <2>3. QED BY <1>5, <2>1, <2>2, StoriesAreSteps
<1>11. row \in VisitRows /\ row.run = r /\ row.at = i /\ row.phase = visits[v].phase
  BY <1>5, <1>8 DEF VisitRows
<1>12. /\ visits' \in Seq(VisitRows) /\ Len(visits') = Len(visits)
       /\ DOMAIN visits' = 1..Len(visits) /\ visits'[v] = row
       /\ \A u \in 1..Len(visits) : u # v => visits'[u] = visits[u]
  <2>1. v \in 1..Len(visits) /\ visits[v] \in VisitRows BY <1>2
  <2>2. visits' = [visits EXCEPT ![v] = row] BY <1>3, <1>7, <2>1, RowIsRewritten
  <2> HIDE DEF row
  <2>3. QED BY <1>2, <1>11, <2>1, <2>2, VisitsChanged
<1> HIDE DEF e, entry, row
<1>13. PICK shows : shows = Page!Shown(store.events, entry) OBVIOUS
<1>14. store \in StoreRows /\ store.events \in Seq(EntryRows) BY <1>1 DEF PageTypes, StoreRows
<1>15. \/ store.last = entry /\ store' = store
       \/ /\ store'.task = store.task /\ store'.status = status /\ store'.details = store.details
          /\ store'.events = shows /\ store'.last = entry
          /\ store' = [task |-> store.task, status |-> status, details |-> store.details,
                       events |-> shows, last |-> entry]
  <2>1. CASE store.last = entry BY <1>7, <2>1
  <2>2. CASE store.last # entry
    <3> DEFINE s1 == [store EXCEPT !.events = shows]
               s2 == [s1 EXCEPT !.last = entry]
    <3>1. store' = [s2 EXCEPT !.status = status] BY <1>7, <1>13, <2>2
    <3>2. s1 = [task |-> store.task, status |-> store.status, details |-> store.details,
                events |-> shows, last |-> store.last]
      BY <1>14 DEF StoreRows
    <3> HIDE DEF s1
    <3>3. s2 = [task |-> store.task, status |-> store.status, details |-> store.details,
                events |-> shows, last |-> entry]
      BY <3>2
    <3> HIDE DEF s2, status
    <3>4. store' = [task |-> store.task, status |-> status, details |-> store.details,
                    events |-> shows, last |-> entry]
      BY <3>1, <3>3
    <3>5. QED BY <3>4
  <2>3. QED BY <2>1, <2>2
<1>16. status \in Told
  BY <1>10, <1>14 DEF Page!Steps, StoreRows, Told
<1> HIDE DEF status
<1>17. shows \in Seq(EntryRows)
  <2>1. \A f \in Seq(EntryRows) : f # <<>> => Tail(f) \in Seq(EntryRows)
    BY HeadTailProperties
  <2>2. Append(store.events, entry) \in Seq(EntryRows) /\ Append(store.events, entry) # <<>>
    <3>1. Append(store.events, entry) \in Seq(EntryRows)
          /\ Len(Append(store.events, entry)) = Len(store.events) + 1
      BY <1>9, <1>14
    <3>2. Len(store.events) \in Nat BY <1>14, LenProperties
    <3>3. QED BY <3>1, <3>2, EmptySeq
  <2>3. QED BY <1>13, <2>1, <2>2 DEF Page!Shown
<1>18. PageTypes'
  <2>1. store' \in StoreRows
    <3>1. CASE store' = store BY <1>14, <3>1
    <3>2. CASE store' = [task |-> store.task, status |-> status, details |-> store.details,
                         events |-> shows, last |-> entry]
      <4> DEFINE S == Seq(EntryRows)
      <4>1. shows \in S BY <1>17
      <4>2. store \in [task : Page!Runs \cup {"none"}, status : Told,
                       details : Page!Runs \cup {"none"}, events : S,
                       last : [run : Page!Runs \cup {"none"}, at : Nat]]
        BY <1>14 DEF StoreRows
      <4>3. entry \in [run : Page!Runs \cup {"none"}, at : Nat]
        BY <1>5, <1>8 DEF entry
      <4> HIDE DEF S
      <4>4. store' \in [task : Page!Runs \cup {"none"}, status : Told,
                        details : Page!Runs \cup {"none"}, events : S,
                        last : [run : Page!Runs \cup {"none"}, at : Nat]]
        BY <1>16, <3>2, <4>1, <4>2, <4>3
      <4>5. QED BY <4>4 DEF StoreRows, S
    <3>3. QED BY <1>15, <3>1, <3>2
  <2>2. loads' \in SUBSET LoadRows /\ \A l \in loads' : l.at <= told[l.run]
    <3>1. /\ Page!Asks(r, 0) \in SUBSET LoadRows
          /\ \A l \in Page!Asks(r, 0) : l.at <= told[l.run]
      BY <1>5 DEF Page!Asks, LoadRows
    <3>2. QED BY <1>1, <1>7, <3>1 DEF PageTypes
  <2>3. \A u \in DOMAIN visits' : visits'[u].at <= told[visits'[u].run]
    <3>1. row.at <= told[row.run] BY <1>5, <1>8, <1>11
    <3>2. QED BY <1>1, <1>2, <1>12, <3>1 DEF PageTypes
  <2>4. overtaken' \in BOOLEAN BY <1>1, <1>7 DEF PageTypes
  <2>5. QED BY <1>1, <1>7, <1>12, <2>1, <2>2, <2>3, <2>4 DEF PageTypes
<1>19. ASSUME NEW w \in 1..Len(visits), OfVisit(w) PROVE OfVisit(w)'
  <2>1. v = w BY <1>1, <1>7, <1>19, ActsAsLast
  <2>2. visits[w].run = r /\ visits[w].at = at BY <1>3, <1>4, <2>1
  <2>3. visits'[w].run = r /\ visits'[w].at = i /\ visits'[w].phase \in {"live", "leaked"}
    BY <1>7, <1>11, <1>12, <2>1
  <2>4. store.last # entry
    <3>1. store.last = IF at = 0 THEN [run |-> "none", at |-> 0] ELSE [run |-> r, at |-> at]
      BY <1>19, <2>2 DEF OfVisit
    <3>2. store.last.at = at BY <1>5, <3>1
    <3>3. QED BY <1>8, <1>9, <3>2
  <2>5. /\ store'.task = store.task /\ store'.status = status
        /\ store'.events = shows /\ store'.last = entry
    BY <1>15, <2>4
  <2>6. store.task = r BY <1>7, <1>19, <2>1, <2>2 DEF OfVisit
  <2>7. Viewed(story[r], shows, r, i)
    <3>1. Viewed(story[r], store.events, r, at) BY <1>19, <2>2 DEF OfVisit
    <3>2. QED BY <1>5, <1>8, <1>13, <1>14, <3>1, NextIsViewed DEF entry
  <2>8. ~ overtaken' => Knows(story[r], told[r], status, i)
    <3> HAVE ~ overtaken'
    <3>1. Page!Carries(story[r][i]) \/ Knows(story[r], told[r], store.status, at)
      BY <1>7, <1>19, <2>2, <2>6 DEF OfVisit, e
    <3>2. store.task # "none" BY <1>5, <2>6 DEF Page!Runs
    <3>3. /\ Page!Carries(story[r][i]) => status = story[r][i].status
          /\ ~ Page!Carries(story[r][i]) => status = store.status
      BY <3>2 DEF status, e
    <3>4. QED BY <1>5, <1>8, <3>1, <3>3, KnowsNext
  <2>9. \A l \in loads' : l.run = r /\ l.by \in {0, w}
    <3>1. \A l \in Page!Asks(r, 0) : l.run = r /\ l.by = 0 BY DEF Page!Asks
    <3>2. \A l \in loads : l.run = r /\ l.by \in {0, w} BY <1>19, <2>2 DEF OfVisit
    <3>3. QED BY <1>7, <3>1, <3>2
  <2>10. \A u \in 1..Len(visits') : u # w => visits'[u].phase = "closed"
    BY <1>12, <1>19, <2>1 DEF OfVisit
  <2>11. story' = story /\ told' = told BY <1>7
  <2>12. store'.last = IF i = 0 THEN [run |-> "none", at |-> 0] ELSE [run |-> r, at |-> i]
    BY <1>8, <2>5 DEF entry
  <2> HIDE DEF status
  <2>13. QED
    BY <2>3, <2>5, <2>6, <2>7, <2>8, <2>9, <2>10, <2>11, <2>12 DEF OfVisit
<1>20. Steady'
  <2>1. visits # <<>> BY <1>2
  <2>2. QED BY <1>7, <1>12, <1>19, <2>1, StillSteady
<1>21. QED BY <1>18, <1>20 DEF PageKeeps

LEMMA PageStep == ASSUME StoriesAreTold, PageKeeps, [Page!Next]_Page!vars PROVE PageKeeps'
<1>1. CASE UNCHANGED Page!vars
  <2>1. UNCHANGED <<story, told, visits, loads, store, overtaken, astray>>
    BY <1>1 DEF Page!vars
  <2>2. PageTypes' BY <2>1 DEF PageKeeps, PageTypes
  <2>3. ASSUME NEW w \in 1..Len(visits), OfVisit(w) PROVE OfVisit(w)'
    BY <2>1, <2>3 DEF OfVisit
  <2>4. Steady' BY <2>1, <2>3 DEF PageKeeps, Steady
  <2>5. QED BY <2>2, <2>4 DEF PageKeeps
<1>2. CASE Page!Next
  <2>1. ASSUME NEW r \in Page!Runs, Page!Tells(r) \/ Page!Mount(r) PROVE PageKeeps'
    BY <2>1, TellsKeeps, MountKeeps
  <2>2. ASSUME NEW l \in loads, Page!Answer(l) \/ Page!Deliver(l) \/ Page!LoadFails(l)
        PROVE  PageKeeps'
    BY <2>2, AnswerKeeps, DeliverKeeps, LoadFailsKeeps
  <2>3. ASSUME NEW v \in DOMAIN visits,
               \/ \E from \in 0..told[visits[v].run] : Page!Subscribe(v, from)
               \/ Page!HandleSSE(v) \/ Page!Refresh(v) \/ Page!Leave(v)
        PROVE  PageKeeps'
    BY <2>3, SubscribeKeeps, HandleSSEKeeps, RefreshKeeps, LeaveKeeps
  <2>4. QED BY <1>2, <2>1, <2>2, <2>3 DEF Page!Next
<1>3. QED BY <1>1, <1>2

LEMMA KeptIsHonest == ASSUME StoriesAreTold, PageKeeps PROVE Page!PageIsHonest
<1>0. PageTypes BY DEF PageKeeps
<1>1. Page!GraphIsHonest
  <2>1. store.events \in Seq(EntryRows) BY <1>0 DEF PageTypes, StoreRows
  <2>2. Len(store.events) \in Nat /\ DOMAIN store.events = 1..Len(store.events)
    BY <2>1, LenProperties
  <2>3. DOMAIN Page!Events = 1..Len(store.events) BY <2>2 DEF Page!Events
  <2>4. QED BY <2>2, <2>3, GraphHonest
<1>2. ASSUME NEW v \in DOMAIN visits, visits[v].phase = "live", ~ astray
      PROVE  /\ store.task = visits[v].run
             /\ \A k \in DOMAIN store.events : store.events[k].run = visits[v].run
             /\ /\ Page!Visible(visits[v].run, visits[v].at) = {} /\ ~ overtaken
                /\ Page!Reported(visits[v].run, told[visits[v].run])
                      = Page!RowOf(visits[v].run, told[visits[v].run])
                => store.status = Page!RowOf(visits[v].run, told[visits[v].run])
  <2>1. visits # <<>> BY <1>2
  <2>2. PICK w \in 1..Len(visits) : OfVisit(w) BY <1>2, <2>1, LastVisit
  <2>3. v = w BY <1>0, <1>2, <2>2, ActsAsLast
  <2>4. PICK r : r = visits[v].run OBVIOUS
  <2>5. PICK at : at = visits[v].at OBVIOUS
  <2>6. r \in Page!Runs /\ at \in Nat /\ told[r] \in Nat /\ at <= told[r]
    BY <1>0, <2>4, <2>5, VisitsAreListed DEF PageTypes, VisitRows
  <2>7. store.task = r BY <1>2, <2>2, <2>3, <2>4 DEF OfVisit
  <2>8. \A k \in DOMAIN store.events : store.events[k].run = r
    <3>1. store.events \in Seq(EntryRows) BY <1>0 DEF PageTypes, StoreRows
    <3>2. DOMAIN store.events = 1..Len(store.events) BY <3>1, LenProperties
    <3>3. Viewed(story[r], store.events, r, at) BY <2>2, <2>3, <2>4, <2>5 DEF OfVisit
    <3>4. QED BY <3>2, <3>3 DEF Viewed
  <2>9. ASSUME Page!Visible(r, at) = {}, ~ overtaken,
               Page!Reported(r, told[r]) = Page!RowOf(r, told[r])
        PROVE  store.status = Page!RowOf(r, told[r])
    <3>1. Knows(story[r], told[r], store.status, at)
      BY <2>2, <2>3, <2>4, <2>5, <2>7, <2>9 DEF OfVisit
    <3>2. \A i \in (at + 1)..told[r] : story[r][i].event = "none" BY <2>9 DEF Page!Visible
    <3>3. ReportAt(story[r], told[r]) = RowAt(story[r], told[r]) BY <2>9, StepsTell
    <3>4. at \in 0..told[r] BY <2>6
    <3>5. store.status = RowAt(story[r], told[r]) BY <2>6, <3>1, <3>2, <3>3, <3>4, KnowsRow
    <3>6. QED BY <3>5, StepsTell
  <2>10. QED BY <2>4, <2>5, <2>7, <2>8, <2>9
<1>3. Page!PageSettles BY <1>2 DEF Page!PageSettles
<1>4. QED BY <1>1, <1>3 DEF Page!PageIsHonest

(* A page of the console that nothing of an earlier one disturbs shows its  *)
(* own run, as it is once it has heard everything, and a graph of stages    *)
(* that fits the events it has kept (PageIsHonest): for every set of        *)
(* stories, and every bound on the events kept.                            *)
THEOREM PagesAreHonest == PageSpec => []PageIsHonest
<1>1. Page!Init => PageKeeps BY StoriesAssumption, PageBegins
<1>2. PageKeeps /\ [Page!Next]_Page!vars => PageKeeps' BY StoriesAssumption, PageStep
<1>3. PageKeeps => PageIsHonest BY StoriesAssumption, KeptIsHonest DEF PageIsHonest
<1>4. QED BY <1>1, <1>2, <1>3, PTL DEF PageSpec, Page!Spec
=============================================================================
