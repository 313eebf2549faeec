------------------------------- MODULE RunPage -------------------------------
(***************************************************************************)
(* The page of a run in the web console: TaskExec.vue loads the run and    *)
(* its details into one store that all pages share, then subscribes to the *)
(* run's events; a graph of the run's stages is derived from the events    *)
(* the store still keeps.  A page can be left and another opened at any    *)
(* time, while answers and streams of the earlier one are outstanding.     *)
(*                                                                         *)
(* A story is what becomes of a run: its events and the changes of its row *)
(* in the order in which they happen.                                      *)
(***************************************************************************)
EXTENDS Naturals, Sequences, SequencesExt, FiniteSetsExt, RunStories

CONSTANTS
    Stories,    \* what may become of the two runs, and how many pages are opened
    Kept        \* the events the store keeps (500 in the code)

VARIABLES
    story,      \* per run: its story; visits: bound on the pages opened
    told,       \* per run: how much of the story has happened
    visits,     \* the pages opened so far: run, phase, position of their stream
    loads,      \* requests under way: what was asked, and the answer if there is one
    store,      \* useTaskStore: the run loaded and its status, events, details
    overtaken,  \* history: the status shown was read before an event that is newer
    astray      \* history: something of an earlier page was outstanding at the last visit

vars == <<story, told, visits, loads, store, overtaken, astray>>

Runs == {"a", "b"}

-----------------------------------------------------------------------------
RowOf(r, n) ==
    LET changes == {i \in 1..n : story[r][i].row # "none"} IN
    IF changes = {} THEN "none" ELSE story[r][Max(changes)].row

Visible(r, from) == {i \in (from + 1)..told[r] : story[r][i].event # "none"}

-----------------------------------------------------------------------------
NoTask == [task |-> "none", status |-> "none", details |-> "none", events |-> <<>>,
           last |-> [run |-> "none", at |-> 0]]

Init ==
    /\ story \in Stories
    /\ told = [r \in Runs |-> 1]
    /\ visits = <<>> /\ loads = {} /\ store = NoTask
    /\ overtaken = FALSE /\ astray = FALSE

(* The run goes on.                                                        *)
Tells(r) ==
    /\ told[r] < Len(story[r])
    /\ told' = [told EXCEPT ![r] = @ + 1]
    /\ UNCHANGED <<story, visits, loads, store, overtaken, astray>>

(* What the details hold matters to no property: their answer is at hand.   *)
Asks(r, by) == {[run |-> r, by |-> by, what |-> "task", at |-> 0],
                [run |-> r, by |-> by, what |-> "details", at |-> 1]}
Open == {v \in DOMAIN visits : visits[v].phase \in {"loading", "live", "stuck"}}

(* onMounted: the store is reset, and the run and its details are loaded.   *)
Mount(r) ==
    /\ Open = {} /\ Len(visits) < story.visits
    /\ visits' = Append(visits, [run |-> r, phase |-> "loading", at |-> 0])
    /\ loads' = loads \cup Asks(r, Len(visits) + 1)
    /\ store' = NoTask
    /\ overtaken' = FALSE
    /\ astray' = (loads # {} \/ \E v \in DOMAIN visits : visits[v].phase \in {"leaving", "leaked"})
    /\ UNCHANGED <<story, told>>

(* The server answers with what it has now (at: how far the story was).     *)
Answer(l) ==
    /\ l \in loads /\ l.at = 0
    /\ loads' = (loads \ {l}) \cup {[l EXCEPT !.at = told[l.run]]}
    /\ UNCHANGED <<story, told, visits, store, overtaken, astray>>

Handled(r) == Max({visits[v].at : v \in {u \in DOMAIN visits : visits[u].run = r}} \cup {0})
Carries(e) == e.event \in {"run", "task_end"} /\ e.status # "none"

(* The status that the first n steps of a run's story tell of.              *)
Reported(r, n) ==
    LET carrying == {i \in 1..n : Carries(story[r][i])} IN
    IF carrying = {} THEN "none" ELSE story[r][Max(carrying)].status

(* An answer is old when an event that is newer was handled, or when it was *)
(* read after the event of the end and before the commit of the result.    *)
Old(l) ==
    \/ \E i \in (l.at + 1)..Handled(l.run) : Carries(story[l.run][i])
    \/ Reported(l.run, l.at) \notin {"none", RowOf(l.run, l.at)}

(* The answer arrives and replaces what the store has, of whatever run.     *)
Deliver(l) ==
    /\ l \in loads /\ l.at # 0
    /\ loads' = loads \ {l}
    /\ store' = IF l.what = "details" THEN [store EXCEPT !.details = l.run]
                ELSE [store EXCEPT !.task = l.run, !.status = RowOf(l.run, l.at)]
    /\ overtaken' = IF l.what = "details" THEN overtaken ELSE Old(l)
    /\ UNCHANGED <<story, told, visits, astray>>

Pending(v) == {l \in loads : l.by = v}

(* Both arrived: the subscription starts behind the last event of the store *)
(* (one of another run says nothing of this one), also when the page was    *)
(* left meanwhile and nobody is there to cancel it.                        *)
Subscribe(v, from) ==
    /\ visits[v].phase \in {"loading", "leaving"} /\ Pending(v) = {}
    /\ IF store.last.run \in {"none", visits[v].run} THEN from = store.last.at
       ELSE from \in 0..told[visits[v].run]
    /\ visits' = [visits EXCEPT ![v].phase = IF @ = "loading" THEN "live" ELSE "leaked",
                                ![v].at = from]
    /\ UNCHANGED <<story, told, loads, store, overtaken, astray>>

(* The run cannot be loaded: onMounted ends before it subscribes.           *)
LoadFails(l) ==
    /\ l \in loads /\ l.what = "task"
    /\ loads' = loads \ {l}
    /\ visits' = IF l.by = 0 THEN visits
                 ELSE [visits EXCEPT ![l.by].phase = IF @ = "loading" THEN "stuck" ELSE "closed"]
    /\ UNCHANGED <<story, told, store, overtaken, astray>>

-----------------------------------------------------------------------------
Shown(events, e) == LET all == Append(events, e) IN
                    IF Len(all) > Kept THEN Tail(all) ELSE all

(* The stream of a page brings the next event: handleSSE, and the details   *)
(* are loaded again after some.                                            *)
HandleSSE(v) ==
    LET r == visits[v].run IN
    /\ visits[v].phase \in {"live", "leaked"} /\ Visible(r, visits[v].at) # {}
    /\ LET i == Min(Visible(r, visits[v].at)) e == story[r][i] IN
       /\ visits' = [visits EXCEPT ![v].at = i]
       /\ store' = IF store.last = [run |-> r, at |-> i] THEN store
                   ELSE [store EXCEPT
                            !.events = Shown(@, [run |-> r, at |-> i]),
                            !.last = [run |-> r, at |-> i],
                            !.status = IF Carries(e) /\ store.task # "none"
                                       THEN e.status ELSE @]
       /\ overtaken' = (overtaken /\ ~ Carries(e))
       /\ loads' = IF e.event \in {"artifact", "approval", "task_end"}
                   THEN loads \cup {l \in Asks(r, 0) : l.what = "details"} ELSE loads
    /\ UNCHANGED <<story, told, astray>>

(* onInterrupt and onResume: what they asked for was accepted; refresh.     *)
(* (Bound: one at a time.)                                                 *)
Refresh(v) ==
    /\ visits[v].phase \in {"live", "stuck"}
    /\ \A l \in loads : l.by # 0
    /\ loads' = loads \cup Asks(visits[v].run, 0)
    /\ UNCHANGED <<story, told, visits, store, overtaken, astray>>

(* onUnmounted cancels the stream, if there is one by now.                  *)
Leave(v) ==
    /\ v \in Open
    /\ visits' = [visits EXCEPT ![v].phase = IF @ = "loading" THEN "leaving" ELSE "closed"]
    /\ UNCHANGED <<story, told, loads, store, overtaken, astray>>

Next ==
    \/ \E r \in Runs : Tells(r) \/ Mount(r)
    \/ \E l \in loads : Answer(l) \/ Deliver(l) \/ LoadFails(l)
    \/ \E v \in DOMAIN visits :
          \/ \E from \in 0..told[visits[v].run] : Subscribe(v, from)
          \/ HandleSSE(v) \/ Refresh(v) \/ Leave(v)

Spec == Init /\ [][Next]_vars

-----------------------------------------------------------------------------
(* deriveExecutionGraph.                                                   *)
Nodes == {"intake", "discover", "plan", "awaiting", "prepare_workspace", "execute", "verify",
          "repair", "finalize"}

(* The stage a role or a node's id stands for (mapWorkflowRoleToDefault); a *)
(* name of several words counts as the first of them it knows.             *)
StageOf(name) ==
    CASE name \in Nodes -> name
      [] name \in {"planning", "planner"} -> "plan"
      [] name \in {"discovery", "explorer", "knowledge"} -> "discover"
      [] name \in {"prepare", "workspace"} -> "prepare_workspace"
      [] name \in {"implementation", "implementer"} -> "execute"
      [] name \in {"test", "testing", "tester"} -> "verify"
      [] name \in {"review", "reviewer"} -> "finalize"
      [] OTHER -> "none"

OfWorkflow == {"workflow_node_started", "workflow_node_retry", "workflow_node_finished"}

(* The stage of an event, or none: such an event is not drawn.              *)
NodeOf(e) ==
    CASE e.source \in OfWorkflow ->
            IF StageOf(e.role) # "none" THEN StageOf(e.role) ELSE StageOf(e.id)
      [] e.source = "run_started" -> "intake"
      [] e.source = "repository_discovered" -> "discover"
      [] e.source = "plan_created" -> "plan"
      [] e.source \in {"approval_required", "approval_decided"} -> "awaiting"
      [] e.source \in {"worktree_created", "worktree_skipped"} -> "prepare_workspace"
      [] e.source \in {"model_turn", "tool_result"} -> "execute"
      [] e.source \in {"verification_finished", "verification_skipped"} -> "verify"
      [] e.source = "repair_started" -> "repair"
      [] e.source = "run_finished" -> "finalize"
      [] OTHER -> "none"

Idle == [node |-> [n \in Nodes |-> "idle"], active |-> "none"]

(* Stages that are over with their event; the others go on until the next.  *)
Instant == {"approval_decided", "run_finished", "workflow_node_finished", "worktree_created",
            "worktree_skipped", "repository_discovered", "plan_created", "verification_skipped"}

(* Events that can tell of a failure (isFailureEvent, a denied approval).   *)
Failing(e) ==
    /\ e.fails
    /\ e.source \in {"approval_decided", "run_finished", "verification_finished",
                     "workflow_node_finished"}

StatusAfter(e) ==
    IF e.source = "approval_required" THEN "waiting"
    ELSE IF Failing(e) THEN "failed"
    ELSE IF e.source \in Instant THEN "succeeded" ELSE "running"

\* Mutant: a stage that is entered leaves the one before it as it was.
EnteredBeside(graph, n) == graph.node

(* completePrevious.                                                       *)
Entered(graph, n) ==
    [m \in Nodes |-> IF m = graph.active /\ m # n /\ graph.node[m] = "running"
                     THEN "succeeded" ELSE graph.node[m]]

Draw(graph, e) ==
    LET n == NodeOf(e)
        status == StatusAfter(e)
        node == [Entered(graph, n) EXCEPT ![n] = status] IN
    IF n = "none" THEN graph
    ELSE IF e.source = "run_finished" /\ ~ e.fails
         THEN [node |-> [m \in Nodes |->
                            IF node[m] \in {"running", "waiting"} THEN "succeeded" ELSE node[m]],
               active |-> "none"]
    ELSE [node |-> node,
          active |-> IF e.source = "approval_decided" /\ ~ e.fails THEN "none" ELSE n]

Events == [k \in DOMAIN store.events |-> story[store.events[k].run][store.events[k].at]]
Graph == FoldLeft(Draw, Idle, Events)

-----------------------------------------------------------------------------
Steps == [event : STRING, source : STRING, status : STRING, fails : BOOLEAN, row : STRING,
          role : STRING, id : STRING]

TypeOK ==
    /\ \A r \in Runs : told[r] \in 1..Len(story[r])
    /\ \A v \in DOMAIN visits :
          /\ visits[v].phase \in {"loading", "live", "stuck", "leaving", "leaked", "closed"}
          /\ visits[v].at \in 0..told[visits[v].run]
    /\ Len(store.events) <= Kept
    /\ \A l \in loads : l.at <= told[l.run] /\ l.by \in 0..Len(visits)
    /\ overtaken \in BOOLEAN /\ astray \in BOOLEAN

About(n) == {k \in DOMAIN Events : NodeOf(Events[k]) = n}
DrawnAfter(k) == {i \in DOMAIN Events : i > k /\ NodeOf(Events[i]) # "none"}
EndsWell(e) == e.source = "run_finished" /\ ~ e.fails

(* However a run went, by the default graph, a workflow or a team, and      *)
(* however many early events the store has dropped, a stage shows what the *)
(* last event about it left: idle, if the store has none; failed just when *)
(* this one told of a failure, also when the run ended well past it; under *)
(* way just when it was entered and nothing has been drawn since, so that  *)
(* only one is, the active one; and waiting until an answer or a good end. *)
GraphIsHonest ==
    LET graph == Graph IN
    \A n \in Nodes :
        IF About(n) = {} THEN graph.node[n] = "idle"
        ELSE LET k == Max(About(n)) IN
             /\ graph.node[n] # "idle"
             /\ graph.node[n] = "failed" <=> Failing(Events[k])
             /\ graph.node[n] = "running" <=>
                    /\ DrawnAfter(k) = {} /\ ~ Failing(Events[k])
                    /\ Events[k].source \notin Instant \cup {"approval_required"}
             /\ graph.node[n] = "running" => graph.active = n
             /\ graph.node[n] = "waiting" <=>
                    /\ Events[k].source = "approval_required"
                    /\ \A i \in DrawnAfter(k) : ~ EndsWell(Events[i])

(* A page that has caught up with the stream, and waits for no answer, shows *)
(* its own run and the status the run has: unless the row was changed       *)
(* without an event the page looks at, an old answer came last, or          *)
(* something of an earlier page was outstanding when it was opened.         *)
PageSettles ==
    \A v \in DOMAIN visits :
        LET r == visits[v].run IN
        visits[v].phase = "live" /\ ~ astray =>
            /\ store.task = r
            /\ \A k \in DOMAIN store.events : store.events[k].run = r
            /\ Visible(r, visits[v].at) = {} /\ loads = {} /\ ~ overtaken
                 /\ Reported(r, told[r]) = RowOf(r, told[r]) => store.status = RowOf(r, told[r])

PageIsHonest == GraphIsHonest /\ PageSettles
=============================================================================
