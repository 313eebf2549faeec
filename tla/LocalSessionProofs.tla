-------------------------- MODULE LocalSessionProofs --------------------------
(***************************************************************************)
(* Theorems about LocalSession, for any runs and any processes.            *)
(*                                                                         *)
(* One invariant, IInv, carries them.  To the properties it adds what a    *)
(* process at work may take for granted about its run (Grounded), that no  *)
(* two processes execute the same run (Alone), and what a run that nobody  *)
(* has started cannot have (Fresh).                                        *)
(***************************************************************************)
EXTENDS LocalSession, TLAPS

Executing == {"before", "graph", "after", "save"}

(* A process works on a run that has a manifest; the approval it brought is *)
(* the operator's; what it will save is what the checkpoint holds, and     *)
(* success only after the hooks.                                           *)
Grounded(q) ==
    /\ manifest[q.run] # "new"
    /\ q.pc \in Executing =>
          /\ q.resumed /\ q.approved => granted[q.run]
          /\ ~ q.resumed => manifest[q.run] # "succeeded"
    /\ q.pc \in {"after", "save"} =>
          /\ q.status # "none"
          /\ q.status = "succeeded" =>
                 graph[q.run] = [stage |-> "ended", outcome |-> "succeeded"]
          /\ q.status = "awaiting_approval" => graph[q.run].stage = "asking"
    /\ q.pc = "save" /\ q.status = "succeeded" => q.checked \/ ~ HooksDue(q)

AllGrounded == \A p \in Procs : proc[p].pc # "idle" => Grounded(proc[p])

Alone ==
    \A p, o \in Procs :
        p # o /\ proc[p].pc \in Executing /\ proc[o].pc \in Executing => proc[p].run # proc[o].run

Fresh ==
    \A r \in Runs :
        /\ manifest[r] = "new" => ~ hooked[r]
        /\ manifest[r] # "new" /\ gated[r] /\ ~ asks[r] => granted[r]

(* A run that has ended ended somehow, one without a checkpoint did not.    *)
Sound ==
    \A r \in Runs :
        /\ graph[r].stage = "none" => graph[r].outcome = "none"
        /\ graph[r].stage = "ended" => graph[r].outcome # "none"

(* A run that nobody started has no checkpoint; one at work was approved,   *)
(* where that is asked, and only such a one has worked.                    *)
Consented ==
    /\ \A r \in Runs :
          /\ manifest[r] = "new" => graph[r].stage = "none" /\ tooled[r] = {}
          /\ gated[r] /\ (graph[r].stage = "working" \/ "working" \in tooled[r]) => granted[r]
    /\ \A p \in Procs :
          proc[p].pc \in Executing /\ proc[p].answer = "approved" =>
              proc[p].resumed /\ proc[p].approved

(* The part of HooksInOrder that is about the hooks around the graph.       *)
HooksAround ==
    \A r \in Runs :
        /\ hooked[r] /\ gated[r] => granted[r]
        /\ manifest[r] = "succeeded" => vouched[r]

IInv ==
    /\ TypeOK /\ ManifestIsTruthful /\ HooksAround /\ AllGrounded /\ Alone /\ Fresh /\ Sound
    /\ Consented

(* What a tool call leaves alone.                                          *)
others == <<manifest, graph, stop, policy, proc, granted, hooked, vouched, abandoned>>

LEMMA Quiet ==
    ASSUME UNCHANGED vars \/ \E p \in Procs : ToolHooks(p)
    PROVE  UNCHANGED others
BY DEF vars, others, policy, history, ToolHooks

LEMMA ToolType ==
    ASSUME TypeOK, [Next]_vars
    PROVE  tooled' \in [Runs -> SUBSET {"planning", "working"}]
<1>1. ASSUME NEW p \in Procs, ToolHooks(p)
      PROVE  tooled' \in [Runs -> SUBSET {"planning", "working"}]
  <2>1. /\ tooled \in [Runs -> SUBSET {"planning", "working"}]
        /\ graph[proc[p].run].stage \in {"planning", "working"}
        /\ tooled' = [tooled EXCEPT ![proc[p].run] = @ \cup {graph[proc[p].run].stage}]
    BY <1>1 DEF ToolHooks, TypeOK
  <2> QED BY <2>1
<1>2. ASSUME NEW p \in Procs,
             \/ \E passes \in BOOLEAN : BeforeHooks(p, passes) \/ AfterHooks(p, passes)
             \/ GraphSteps(p) \/ Save(p) \/ InterruptSaves(p) \/ BuildFails(p) \/ Crash(p)
             \/ \E cancelled \in BOOLEAN : Aborts(p, cancelled)
      PROVE  tooled' = tooled
  BY <1>2 DEF BeforeHooks, AfterHooks, GraphSteps, Save, InterruptSaves, BuildFails, Crash, Aborts,
     history
<1>3. ASSUME NEW p \in Procs, NEW r \in Runs,
             \/ \E approved \in BOOLEAN : Execute(p, r, approved) \/ Resume(p, r, approved)
             \/ \E parent \in Runs : Fork(p, parent, r)
             \/ Interrupt(p, r)
      PROVE  tooled' = tooled
  BY <1>3 DEF Execute, Fork, Starts, Resume, Interrupt, history
<1>4. CASE \E r \in Runs : Delete(r)
  BY <1>4 DEF Delete, history, TypeOK
<1>5. CASE UNCHANGED vars
  BY <1>5 DEF vars, TypeOK
<1> QED
  BY <1>1, <1>2, <1>3, <1>4, <1>5 DEF TypeOK, Next

-----------------------------------------------------------------------------
(* What a step of a session changes.                                       *)
LEMMA SessionStep ==
    ASSUME NEW c \in Sessions, NEW d \in SessionSteps(c)
    PROVE  /\ d \in Sessions
           /\ c.stage = "ended" => d.stage = "ended" /\ d.outcome = c.outcome
           /\ c.stage # "ended" /\ d.stage = "ended" => d.outcome # "none"
           /\ d.stage # "ended" => d.outcome = c.outcome
           /\ c.stop /\ ~ d.stop =>
                  c.answer # "none" \/ (d.stage = "working" /\ ~ d.live)
<1> USE DEF Sessions, Stages, Outcomes
<1>1. CASE c.stage = "planning"
  <2>1. d \in {Goes(c, "planning"), Goes(c, "asking"), Goes(c, "working"), Ends(c, "failed")}
    BY <1>1 DEF SessionSteps
  <2> QED  BY <1>1, <2>1 DEF Goes, Ends
<1>2. CASE c.stage = "asking"
  <2>1. d \in {[c EXCEPT !.live = FALSE], Goes(c, "working"), Ends(c, "interrupted")}
    BY <1>2 DEF SessionSteps
  <2> QED  BY <1>2, <2>1 DEF Goes, Ends
<1>3. CASE c.stage = "working" /\ c.stop /\ c.answer = "none"
  <2>1. d \in {[c EXCEPT !.stop = FALSE, !.live = FALSE], Ends(c, "succeeded"), Ends(c, "failed")}
    BY <1>3 DEF SessionSteps
  <2> QED  BY <1>3, <2>1 DEF Goes, Ends
<1>4. CASE c.stage = "working" /\ ~ (c.stop /\ c.answer = "none")
  <2>1. d \in {Goes(c, "working"), [Goes(c, "working") EXCEPT !.stop = FALSE],
               Ends(c, "succeeded"), Ends(c, "failed")}
    BY <1>4 DEF SessionSteps
  <2> QED  BY <1>4, <2>1 DEF Goes, Ends
<1>5. CASE c.stage = "ended"
  <2>1. d \in {[c EXCEPT !.live = FALSE]}
    BY <1>5 DEF SessionSteps
  <2> QED  BY <1>5, <2>1
<1> QED  BY <1>1, <1>2, <1>3, <1>4, <1>5

(* The kinds of records a process may be.                                  *)
LEMMA AtWork ==
    ASSUME TypeOK, NEW p \in Procs
    PROVE  /\ proc[p].pc \in Executing => proc[p] \in Working
           /\ proc[p].pc = "mark" => proc[p] \in Marking
           /\ proc[p].pc \in Executing \cup {"mark", "idle"}
           /\ proc[p].pc # "idle" => proc[p].run \in Runs
BY DEF TypeOK, Working, Marking, Idle, Executing

(* The session of a process at the graph is one.                           *)
LEMMA ViewIsSession ==
    ASSUME TypeOK, NEW p \in Procs, proc[p].pc = "graph", graph[proc[p].run].stage # "none"
    PROVE  View(proc[p]) \in Sessions
<1>1. proc[p] \in Working
  BY AtWork DEF Executing
<1>2. graph[proc[p].run] \in [stage : Stages \cup {"none"}, outcome : Outcomes]
  BY <1>1 DEF TypeOK, Working
<1>3. stop[proc[p].run] \in BOOLEAN
  BY <1>1 DEF TypeOK, Working
<1> QED
  BY <1>1, <1>2, <1>3 DEF View, Sessions, Working

(* A graph that takes a step has been started: its stage is not "none".     *)
LEMMA GraphIsMade ==
    ASSUME TypeOK, Sound, NEW p \in Procs, GraphSteps(p)
    PROVE  graph[proc[p].run].stage # "none"
<1>1. proc[p].run \in Runs
  BY AtWork DEF GraphSteps, At
<1>2. /\ graph[proc[p].run] \in [stage : Stages \cup {"none"}, outcome : Outcomes]
      /\ graph[proc[p].run] # [stage |-> "none", outcome |-> "none"]
  BY <1>1 DEF TypeOK, GraphSteps, NoGraph
<1> QED
  BY <1>1, <1>2 DEF Sound

(* Each step keeps the types, given that what is saved is a status.        *)
LEMMA TypeStep ==
    ASSUME TypeOK, AllGrounded, Sound, [Next]_vars
    PROVE  TypeOK'
<1>0. tooled' \in [Runs -> SUBSET {"planning", "working"}]
  BY ToolType
<1> USE <1>0 DEF TypeOK
<1>1. ASSUME NEW p \in Procs, NEW passes \in BOOLEAN, BeforeHooks(p, passes)
      PROVE  TypeOK'
  <2>1. proc[p] \in Working /\ proc[p].run \in Runs
    BY <1>1, AtWork DEF BeforeHooks, At, Executing
  <2>a. /\ [proc[p] EXCEPT !.pc = "graph"] \in Working
        /\ [proc[p] EXCEPT !.pc = "save", !.status = "failed"] \in Working
    BY <2>1 DEF Working
  <2>2. proc' \in [Procs -> {Idle} \cup Working \cup Marking]
    <3>1. \/ proc' = [proc EXCEPT ![p] = [proc[p] EXCEPT !.pc = "graph"]]
          \/ proc' = [proc EXCEPT ![p] = [proc[p] EXCEPT !.pc = "save", !.status = "failed"]]
      BY <1>1, <2>1 DEF BeforeHooks
    <3> QED  BY <3>1, <2>a
  <2>3. graph' \in [Runs -> [stage : Stages \cup {"none"}, outcome : Outcomes]]
    <3>1. graph' = graph \/ graph' = [graph EXCEPT ![proc[p].run].stage = "planning"]
      BY <1>1 DEF BeforeHooks
    <3> QED  BY <3>1, <2>1 DEF Stages
  <2>4. hooked' \in [Runs -> BOOLEAN]
    BY <1>1, <2>1 DEF BeforeHooks, HooksDue
  <2> QED
    BY <1>1, <2>2, <2>3, <2>4 DEF BeforeHooks, policy
<1>2. ASSUME NEW p \in Procs, NEW passes \in BOOLEAN, AfterHooks(p, passes)
      PROVE  TypeOK'
  <2>1. proc[p] \in Working /\ proc[p].run \in Runs
    BY <1>2, AtWork DEF AfterHooks, At, Executing
  <2>2. proc' \in [Procs -> {Idle} \cup Working \cup Marking]
    BY <1>2, <2>1 DEF AfterHooks, Working, AfterHooksDue, HooksDue
  <2>3. hooked' \in [Runs -> BOOLEAN]
    BY <1>2, <2>1 DEF AfterHooks, AfterHooksDue, HooksDue
  <2> QED
    BY <1>2, <2>2, <2>3 DEF AfterHooks, policy
<1>3. ASSUME NEW p \in Procs, GraphSteps(p)
      PROVE  TypeOK'
  <2>1. proc[p] \in Working /\ proc[p].run \in Runs /\ proc[p].pc = "graph"
    BY <1>3, AtWork DEF GraphSteps, At, Executing
  <2>2. graph[proc[p].run].stage # "none"
    BY <1>3, GraphIsMade
  <2>3. PICK c \in SessionSteps(View(proc[p])) :
          /\ graph' = [graph EXCEPT ![proc[p].run] = [stage |-> c.stage, outcome |-> c.outcome]]
          /\ stop' = [stop EXCEPT ![proc[p].run] = c.stop]
          /\ proc' = [proc EXCEPT
                ![p] = IF c.live THEN [proc[p] EXCEPT !.answer = c.answer]
                       ELSE [proc[p] EXCEPT !.pc = "after", !.answer = "none", !.status = Status(c)]]
    BY <1>3 DEF GraphSteps
  <2>4. c \in Sessions
    BY <2>1, <2>2, ViewIsSession, SessionStep
  <2>5. graph' \in [Runs -> [stage : Stages \cup {"none"}, outcome : Outcomes]]
    BY <2>3, <2>4 DEF Sessions
  <2>6. stop' \in [Runs -> BOOLEAN]
    BY <2>3, <2>4 DEF Sessions
  <2>7. Status(c) \in {"none", "awaiting_approval", "interrupted", "failed", "succeeded"}
    BY <2>4 DEF Status, Sessions, Outcomes
  <2>8. proc' \in [Procs -> {Idle} \cup Working \cup Marking]
    BY <2>1, <2>3, <2>4, <2>7 DEF Working, Sessions
  <2> QED
    BY <1>3, <2>5, <2>6, <2>8 DEF GraphSteps, policy, history
<1>4. ASSUME NEW p \in Procs, Save(p)
      PROVE  TypeOK'
  <2>1. proc[p] \in Working /\ proc[p].run \in Runs /\ proc[p].status # "none"
    BY <1>4, AtWork DEF Save, At, Executing, AllGrounded, Grounded
  <2>2. manifest' \in [Runs -> {"new", "deleted", "pending", "awaiting_approval",
                                "interrupted", "failed", "succeeded"}]
    BY <1>4, <2>1 DEF Save, Working
  <2>3. proc' \in [Procs -> {Idle} \cup Working \cup Marking]
    BY <1>4, <2>1 DEF Save
  <2>4. vouched' \in [Runs -> BOOLEAN] /\ abandoned' \in [Runs -> BOOLEAN]
    BY <1>4, <2>1 DEF Save, HooksDue, Working
  <2> QED
    BY <1>4, <2>2, <2>3, <2>4 DEF Save, policy
<1>5. ASSUME NEW p \in Procs, InterruptSaves(p)
      PROVE  TypeOK'
  BY <1>5 DEF InterruptSaves, policy, history
<1>6. ASSUME NEW p \in Procs, BuildFails(p) \/ Crash(p)
      PROVE  TypeOK'
  <2>1. proc' \in [Procs -> {Idle} \cup Working \cup Marking]
    BY <1>6 DEF BuildFails, Crash
  <2>2. abandoned' \in [Runs -> BOOLEAN]
    BY <1>6 DEF BuildFails, Crash, At
  <2> QED
    BY <1>6, <2>1, <2>2 DEF BuildFails, Crash, policy
<1>7. ASSUME NEW p \in Procs, NEW cancelled \in BOOLEAN, Aborts(p, cancelled)
      PROVE  TypeOK'
  <2>1. proc[p] \in Working /\ proc[p].run \in Runs
    BY <1>7, AtWork DEF Aborts, Executing
  <2> QED
    BY <1>7, <2>1 DEF Aborts, Working, policy
<1>8. ASSUME NEW p \in Procs, NEW r \in Runs, NEW approved \in BOOLEAN, Starts(p, r, approved),
             granted' \in [Runs -> BOOLEAN]
      PROVE  TypeOK'
  <2>1. proc' \in [Procs -> {Idle} \cup Working \cup Marking]
    BY <1>8 DEF Starts, Working
  <2>2. asks' \in [Runs -> BOOLEAN]
    BY <1>8 DEF Starts
  <2> QED
    BY <1>8, <2>1, <2>2 DEF Starts
<1>9. ASSUME NEW p \in Procs, NEW r \in Runs, NEW approved \in BOOLEAN, Resume(p, r, approved)
      PROVE  TypeOK'
  <2>1. proc' \in [Procs -> {Idle} \cup Working \cup Marking]
    BY <1>9 DEF Resume, Working
  <2>2. granted' \in [Runs -> BOOLEAN]
    BY <1>9 DEF Resume
  <2> QED
    BY <1>9, <2>1, <2>2 DEF Resume, policy
<1>10. ASSUME NEW p \in Procs, NEW r \in Runs, Interrupt(p, r)
       PROVE  TypeOK'
  BY <1>10 DEF Interrupt, Marking, policy, history
<1>11. ASSUME NEW r \in Runs, Delete(r)
       PROVE  TypeOK'
  BY <1>11 DEF Delete, policy, history
<1>12. ASSUME UNCHANGED others
       PROVE  TypeOK'
  BY <1>12 DEF others, policy, history
<1> HIDE DEF TypeOK
<1>13. ASSUME NEW p \in Procs, NEW r \in Runs, NEW approved \in BOOLEAN, Execute(p, r, approved)
       PROVE  TypeOK'
  <2>1. granted' \in [Runs -> BOOLEAN]
    BY <1>13 DEF Execute, TypeOK
  <2> QED
    BY <1>13, <2>1, <1>8 DEF Execute
<1>14. ASSUME NEW p \in Procs, NEW r \in Runs, NEW parent \in Runs, Fork(p, parent, r)
       PROVE  TypeOK'
  <2>1. granted' \in [Runs -> BOOLEAN]
    BY <1>14 DEF Fork, TypeOK
  <2> QED
    BY <1>14, <2>1, <1>8 DEF Fork
<1> QED
  BY <1>1, <1>2, <1>3, <1>4, <1>5, <1>6, <1>7, <1>9, <1>10, <1>11, <1>12, <1>13, <1>14, Quiet DEF Next

-----------------------------------------------------------------------------
(* A run that was started does not become new again, and what a run that    *)
(* was started has, it keeps.                                              *)
LEMMA FreshStep ==
    ASSUME TypeOK, AllGrounded, Fresh, [Next]_vars
    PROVE  Fresh' /\ \A r \in Runs : manifest[r] # "new" => manifest'[r] # "new"
<1>1. ASSUME NEW p \in Procs, NEW passes \in BOOLEAN, BeforeHooks(p, passes) \/ AfterHooks(p, passes)
      PROVE  Fresh' /\ manifest' = manifest
  <2>1. /\ manifest' = manifest /\ gated' = gated /\ asks' = asks /\ granted' = granted
        /\ \A r \in Runs : hooked'[r] => hooked[r] \/ r = proc[p].run
    BY <1>1, AtWork DEF BeforeHooks, AfterHooks, policy, TypeOK, At
  <2>2. manifest[proc[p].run] # "new"
    BY <1>1 DEF BeforeHooks, AfterHooks, At, AllGrounded, Grounded
  <2> QED
    BY <2>1, <2>2 DEF Fresh
<1>2. ASSUME NEW p \in Procs, Save(p) \/ InterruptSaves(p) \/ BuildFails(p) \/ Crash(p)
      PROVE  Fresh' /\ \A r \in Runs : manifest[r] # "new" => manifest'[r] # "new"
  <2>1. /\ gated' = gated /\ asks' = asks /\ granted' = granted /\ hooked' = hooked
    BY <1>2 DEF Save, InterruptSaves, BuildFails, Crash, policy, history
  <2>2. \A r \in Runs : manifest'[r] = manifest[r]
                         \/ (manifest[r] # "new" /\ manifest'[r] # "new")
    BY <1>2, AtWork DEF Save, InterruptSaves, BuildFails, Crash, At, AllGrounded, Grounded,
                        TypeOK, Executing, Working
  <2> QED
    BY <2>1, <2>2 DEF Fresh
<1>3. ASSUME NEW p \in Procs, GraphSteps(p)
      PROVE  Fresh' /\ manifest' = manifest
  BY <1>3 DEF GraphSteps, policy, history, Fresh
<1>4. ASSUME NEW p \in Procs, NEW cancelled \in BOOLEAN, Aborts(p, cancelled)
      PROVE  Fresh' /\ \A r \in Runs : manifest[r] # "new" => manifest'[r] # "new"
  <2>1. /\ gated' = gated /\ asks' = asks /\ granted' = granted /\ hooked' = hooked
    BY <1>4 DEF Aborts, policy
  <2>2. \A r \in Runs : manifest'[r] = manifest[r]
                         \/ (manifest[r] # "new" /\ manifest'[r] # "new")
    BY <1>4, AtWork DEF Aborts, AllGrounded, Grounded, TypeOK, Executing
  <2> QED
    BY <2>1, <2>2 DEF Fresh
<1>5. ASSUME NEW p \in Procs, NEW r \in Runs, NEW approved \in BOOLEAN, Execute(p, r, approved)
      PROVE  Fresh' /\ \A x \in Runs : manifest[x] # "new" => manifest'[x] # "new"
  <2>1. /\ manifest[r] = "new" /\ gated' = gated /\ hooked' = hooked
        /\ \A x \in Runs : manifest'[x] = IF x = r THEN "pending" ELSE manifest[x]
        /\ \A x \in Runs : asks'[x] <=> IF x = r THEN gated[r] /\ ~ approved ELSE asks[x]
        /\ \A x \in Runs : granted'[x] <=> IF x = r THEN approved ELSE granted[x]
    BY <1>5 DEF Execute, Starts, TypeOK
  <2> QED
    BY <2>1 DEF Fresh
<1>6. ASSUME NEW p \in Procs, NEW r \in Runs, NEW parent \in Runs, Fork(p, parent, r)
      PROVE  Fresh' /\ \A x \in Runs : manifest[x] # "new" => manifest'[x] # "new"
  <2>1. /\ manifest[r] = "new" /\ gated' = gated /\ hooked' = hooked /\ granted' = granted
        /\ \A x \in Runs : manifest'[x] = IF x = r THEN "pending" ELSE manifest[x]
        /\ \A x \in Runs : asks'[x] <=> IF x = r THEN gated[r] ELSE asks[x]
    BY <1>6 DEF Fork, Starts, TypeOK
  <2> QED
    BY <2>1 DEF Fresh
<1>7. ASSUME NEW p \in Procs, NEW r \in Runs, NEW approved \in BOOLEAN, Resume(p, r, approved)
      PROVE  Fresh' /\ manifest' = manifest
  <2>1. /\ manifest' = manifest /\ gated' = gated /\ asks' = asks /\ hooked' = hooked
        /\ \A x \in Runs : granted[x] => granted'[x]
    BY <1>7 DEF Resume, TypeOK, policy
  <2> QED
    BY <2>1 DEF Fresh
<1>8. ASSUME NEW p \in Procs, NEW r \in Runs, Interrupt(p, r)
      PROVE  Fresh' /\ manifest' = manifest
  BY <1>8 DEF Interrupt, policy, history, Fresh
<1>9. ASSUME NEW r \in Runs, Delete(r)
      PROVE  Fresh' /\ \A x \in Runs : manifest[x] # "new" => manifest'[x] # "new"
  <2>1. /\ \A x \in Runs : manifest'[x] = IF x = r THEN "deleted" ELSE manifest[x]
        /\ manifest[r] # "new"
        /\ gated' = gated /\ asks' = asks /\ granted' = granted /\ hooked' = hooked
    BY <1>9 DEF Delete, Known, TypeOK, policy, history
  <2> QED
    BY <2>1 DEF Fresh
<1>10. ASSUME UNCHANGED others
       PROVE  Fresh' /\ manifest' = manifest
  BY <1>10 DEF others, policy, history, Fresh
<1> QED
  BY <1>1, <1>2, <1>3, <1>4, <1>5, <1>6, <1>7, <1>8, <1>9, <1>10, Quiet DEF Next

(* A process that goes on with its run, leaves it, or takes up one that     *)
(* nobody executes stays alone with it.                                    *)
LEMMA StaysAlone ==
    ASSUME Alone, NEW p \in Procs,
           \A o \in Procs : o # p => proc'[o] = proc[o],
           \/ proc'[p].pc \notin Executing
           \/ proc[p].pc \in Executing /\ proc'[p].run = proc[p].run
           \/ ~ Busy(proc'[p].run)
    PROVE  Alone'
BY DEF Alone, Busy, Executes, Executing

(* No step makes two processes execute the same run.                       *)
LEMMA AloneStep ==
    ASSUME TypeOK, AllGrounded, Alone, [Next]_vars
    PROVE  Alone'
<1>1. ASSUME NEW p \in Procs, NEW passes \in BOOLEAN, BeforeHooks(p, passes) \/ AfterHooks(p, passes)
      PROVE  Alone'
  <2>1. proc[p] \in Working /\ proc[p].pc \in Executing
    BY <1>1, AtWork DEF BeforeHooks, AfterHooks, At, Executing
  <2>2. /\ \A o \in Procs : o # p => proc'[o] = proc[o]
        /\ proc'[p].run = proc[p].run
    BY <1>1, <2>1 DEF BeforeHooks, AfterHooks, Working, TypeOK
  <2> QED
    BY <2>1, <2>2, StaysAlone
<1>2. ASSUME NEW p \in Procs,
             \/ Save(p) \/ InterruptSaves(p) \/ BuildFails(p) \/ Crash(p)
             \/ \E cancelled \in BOOLEAN : Aborts(p, cancelled)
      PROVE  Alone'
  <2>1. proc' = [proc EXCEPT ![p] = Idle]
    BY <1>2 DEF Save, InterruptSaves, BuildFails, Crash, Aborts
  <2>2. /\ \A o \in Procs : o # p => proc'[o] = proc[o]
        /\ proc'[p].pc \notin Executing
    BY <2>1 DEF TypeOK, Idle, Executing
  <2> QED
    BY <2>2, StaysAlone
<1>3. ASSUME NEW p \in Procs, GraphSteps(p)
      PROVE  Alone'
  <2>1. proc[p] \in Working /\ proc[p].pc \in Executing
    BY <1>3, AtWork DEF GraphSteps, At, Executing
  <2>2. PICK c \in SessionSteps(View(proc[p])) :
          proc' = [proc EXCEPT
                ![p] = IF c.live THEN [proc[p] EXCEPT !.answer = c.answer]
                       ELSE [proc[p] EXCEPT !.pc = "after", !.answer = "none", !.status = Status(c)]]
    BY <1>3 DEF GraphSteps
  <2>3. /\ \A o \in Procs : o # p => proc'[o] = proc[o]
        /\ proc'[p].run = proc[p].run
    BY <2>1, <2>2 DEF Working, TypeOK
  <2> QED
    BY <2>1, <2>3, StaysAlone
<1>4. ASSUME NEW p \in Procs, NEW r \in Runs, NEW approved \in BOOLEAN, Starts(p, r, approved)
      PROVE  Alone'
  <2>1. ~ Busy(r)
    BY <1>4 DEF Starts, Busy, Executes, AllGrounded, Grounded
  <2>2. /\ \A o \in Procs : o # p => proc'[o] = proc[o]
        /\ proc'[p].run = r
    BY <1>4 DEF Starts, TypeOK
  <2> QED
    BY <2>1, <2>2, StaysAlone
<1>5. ASSUME NEW p \in Procs, NEW r \in Runs, NEW approved \in BOOLEAN, Resume(p, r, approved)
      PROVE  Alone'
  <2>1. /\ \A o \in Procs : o # p => proc'[o] = proc[o]
        /\ proc'[p].run = r /\ ~ Busy(r)
    BY <1>5 DEF Resume, TypeOK
  <2> QED
    BY <2>1, StaysAlone
<1>6. ASSUME NEW p \in Procs, NEW r \in Runs, Interrupt(p, r)
      PROVE  Alone'
  <2>1. /\ \A o \in Procs : o # p => proc'[o] = proc[o]
        /\ proc'[p].pc \notin Executing
    BY <1>6 DEF Interrupt, TypeOK, Executing
  <2> QED
    BY <2>1, StaysAlone
<1>7. ASSUME UNCHANGED proc
      PROVE  Alone'
  BY <1>7 DEF Alone
<1>8. ASSUME NEW r \in Runs, Delete(r)
      PROVE  Alone'
  BY <1>7, <1>8 DEF Delete
<1> QED
  BY <1>1, <1>2, <1>3, <1>4, <1>5, <1>6, <1>7, <1>8, Quiet DEF Next, Execute, Fork, others

-----------------------------------------------------------------------------
(* A started session stays sound, and one that has ended stays as it is.    *)
LEMMA SoundStep ==
    ASSUME TypeOK, Sound, [Next]_vars
    PROVE  Sound'
<1>1. ASSUME NEW p \in Procs, GraphSteps(p)
      PROVE  Sound'
  <2>1. proc[p] \in Working /\ proc[p].run \in Runs /\ proc[p].pc = "graph"
    BY <1>1, AtWork DEF GraphSteps, At, Executing
  <2>2. PICK c \in SessionSteps(View(proc[p])) :
          graph' = [graph EXCEPT ![proc[p].run] = [stage |-> c.stage, outcome |-> c.outcome]]
    BY <1>1 DEF GraphSteps
  <2>3. View(proc[p]) \in Sessions
    BY <1>1, <2>1, GraphIsMade, ViewIsSession
  <2>4. c.stage # "none" /\ (c.stage = "ended" => c.outcome # "none")
    <3>1. View(proc[p]).stage = "ended" => View(proc[p]).outcome # "none"
      BY <2>1 DEF View, Sound
    <3> QED
      BY <2>3, <3>1, SessionStep DEF Sessions, Stages
  <2> QED
    BY <2>1, <2>2, <2>4 DEF Sound, TypeOK
<1>2. ASSUME NEW p \in Procs, NEW passes \in BOOLEAN, BeforeHooks(p, passes)
      PROVE  Sound'
  <2>1. graph' = graph \/ graph' = [graph EXCEPT ![proc[p].run].stage = "planning"]
    BY <1>2 DEF BeforeHooks
  <2> QED
    BY <2>1 DEF Sound, TypeOK
<1>3. ASSUME UNCHANGED graph
      PROVE  Sound'
  BY <1>3 DEF Sound
<1>4. ASSUME NEW p \in Procs,
             \/ \E passes \in BOOLEAN : AfterHooks(p, passes)
             \/ Save(p) \/ InterruptSaves(p) \/ BuildFails(p) \/ Crash(p)
             \/ \E cancelled \in BOOLEAN : Aborts(p, cancelled)
      PROVE  UNCHANGED graph
  BY <1>4 DEF AfterHooks, Save, InterruptSaves, BuildFails, Crash, Aborts
<1>5. ASSUME NEW p \in Procs, NEW r \in Runs,
             \/ \E approved \in BOOLEAN : Execute(p, r, approved) \/ Resume(p, r, approved)
             \/ \E parent \in Runs : Fork(p, parent, r)
             \/ Interrupt(p, r)
      PROVE  UNCHANGED graph
  BY <1>5 DEF Execute, Fork, Starts, Resume, Interrupt
<1>6. ASSUME NEW r \in Runs, Delete(r)
      PROVE  UNCHANGED graph
  BY <1>6 DEF Delete
<1> QED
  BY <1>1, <1>2, <1>3, <1>4, <1>5, <1>6, Quiet DEF Next, others

-----------------------------------------------------------------------------
(* A step of p leaves the others their footing: it takes no approval back,  *)
(* and changes the checkpoint, or records success, of its own run only.    *)
LEMMA StaysGrounded ==
    ASSUME AllGrounded, NEW p \in Procs,
           \A o \in Procs : o # p => proc'[o] = proc[o],
           \A o \in Procs : proc[o].pc # "idle" =>
               /\ manifest'[proc[o].run] # "new"
               /\ granted[proc[o].run] => granted'[proc[o].run]
               /\ asks'[proc[o].run] <=> asks[proc[o].run],
           \A o \in Procs : o # p /\ proc[o].pc \in Executing =>
               /\ manifest'[proc[o].run] = "succeeded" => manifest[proc[o].run] = "succeeded"
               /\ graph'[proc[o].run] = graph[proc[o].run],
           proc'[p].pc # "idle" => Grounded(proc[p])'
    PROVE  AllGrounded'
<1>1. ASSUME NEW o \in Procs, o # p, proc'[o].pc # "idle"
      PROVE  Grounded(proc[o])'
  <2>1. Grounded(proc[o]) /\ proc'[o] = proc[o] /\ proc[o].pc # "idle"
    BY <1>1 DEF AllGrounded
  <2>2. CASE proc[o].pc \in Executing
    BY <1>1, <2>1, <2>2 DEF Grounded, HooksDue, Executing
  <2>3. CASE proc[o].pc \notin Executing
    BY <1>1, <2>1, <2>3 DEF Grounded, Executing
  <2> QED
    BY <2>2, <2>3
<1> QED
  BY <1>1 DEF AllGrounded

(* Every process at work keeps, or is given, its footing.                  *)
LEMMA GroundedStep ==
    ASSUME TypeOK, AllGrounded, Alone, Fresh, Sound, [Next]_vars
    PROVE  AllGrounded'
<1>0. /\ \A r \in Runs : manifest[r] # "new" => manifest'[r] # "new"
      /\ \A o \in Procs : proc[o].pc # "idle" =>
             proc[o].run \in Runs /\ manifest[proc[o].run] # "new" /\ manifest'[proc[o].run] # "new"
  BY FreshStep, AtWork DEF AllGrounded, Grounded
<1>1. ASSUME NEW p \in Procs, NEW passes \in BOOLEAN, BeforeHooks(p, passes)
      PROVE  AllGrounded'
  <2>1. /\ proc[p] \in Working /\ proc[p].pc = "before" /\ Grounded(proc[p])
    BY <1>1, AtWork DEF BeforeHooks, At, Executing, AllGrounded
  <2>2. /\ \A o \in Procs : o # p => proc'[o] = proc[o]
        /\ manifest' = manifest /\ granted' = granted /\ asks' = asks
    BY <1>1, <2>1 DEF BeforeHooks, TypeOK, policy
  <2>3. \A r \in Runs : r # proc[p].run => graph'[r] = graph[r]
    BY <1>1, <2>1 DEF BeforeHooks, TypeOK
  <2>4. /\ proc'[p].run = proc[p].run /\ proc'[p].resumed = proc[p].resumed
        /\ proc'[p].approved = proc[p].approved
        /\ proc'[p].pc = "graph" \/ (proc'[p].pc = "save" /\ proc'[p].status = "failed")
    BY <1>1, <2>1 DEF BeforeHooks, Working, TypeOK
  <2>5. Grounded(proc[p])'
    BY <2>1, <2>2, <2>4 DEF Grounded, Executing
  <2> QED
    BY <1>0, <2>1, <2>2, <2>3, <2>5, StaysGrounded DEF Alone, Executing
<1>2. ASSUME NEW p \in Procs, NEW passes \in BOOLEAN, AfterHooks(p, passes)
      PROVE  AllGrounded'
  <2>1. /\ proc[p] \in Working /\ proc[p].pc = "after" /\ Grounded(proc[p])
    BY <1>2, AtWork DEF AfterHooks, At, Executing, AllGrounded
  <2>2. /\ \A o \in Procs : o # p => proc'[o] = proc[o]
        /\ manifest' = manifest /\ granted' = granted /\ asks' = asks /\ graph' = graph
    BY <1>2, <2>1 DEF AfterHooks, TypeOK, policy
  <2>4. /\ proc'[p].run = proc[p].run /\ proc'[p].resumed = proc[p].resumed
        /\ proc'[p].approved = proc[p].approved /\ proc'[p].pc = "save"
        /\ proc'[p].status = IF passes THEN proc[p].status ELSE "failed"
        /\ proc'[p].checked <=> passes /\ AfterHooksDue(proc[p])
    BY <1>2, <2>1 DEF AfterHooks, Working, TypeOK
  <2>5. proc[p].status = "succeeded" /\ passes => (proc'[p].checked <=> HooksDue(proc[p]))
    BY <2>4 DEF AfterHooksDue
  <2>6. HooksDue(proc[p])' <=> HooksDue(proc[p])
    BY <2>2, <2>4 DEF HooksDue
  <2>7. Grounded(proc[p])'
    BY <2>1, <2>2, <2>4, <2>5, <2>6 DEF Grounded, Executing
  <2> QED
    BY <1>0, <2>1, <2>2, <2>7, StaysGrounded
<1>3. ASSUME NEW p \in Procs, GraphSteps(p)
      PROVE  AllGrounded'
  <2>1. /\ proc[p] \in Working /\ proc[p].run \in Runs /\ proc[p].pc = "graph" /\ Grounded(proc[p])
    BY <1>3, AtWork DEF GraphSteps, At, Executing, AllGrounded
  <2>2. PICK c \in SessionSteps(View(proc[p])) :
          /\ graph' = [graph EXCEPT ![proc[p].run] = [stage |-> c.stage, outcome |-> c.outcome]]
          /\ proc' = [proc EXCEPT
                ![p] = IF c.live THEN [proc[p] EXCEPT !.answer = c.answer]
                       ELSE [proc[p] EXCEPT !.pc = "after", !.answer = "none", !.status = Status(c)]]
    BY <1>3 DEF GraphSteps
  <2>3. c \in Sessions /\ (c.stage = "ended" => c.outcome # "none")
    <3>1. View(proc[p]) \in Sessions
      BY <1>3, <2>1, GraphIsMade, ViewIsSession
    <3>2. View(proc[p]).stage = "ended" => View(proc[p]).outcome # "none"
      BY <2>1 DEF View, Sound
    <3> QED
      BY <3>1, <3>2, SessionStep
  <2>4. /\ \A o \in Procs : o # p => proc'[o] = proc[o]
        /\ manifest' = manifest /\ granted' = granted /\ asks' = asks
        /\ \A r \in Runs : r # proc[p].run => graph'[r] = graph[r]
        /\ graph'[proc[p].run] = [stage |-> c.stage, outcome |-> c.outcome]
    BY <1>3, <2>1, <2>2 DEF GraphSteps, TypeOK, policy, history
  <2>5. /\ proc'[p].run = proc[p].run /\ proc'[p].resumed = proc[p].resumed
        /\ proc'[p].approved = proc[p].approved
        /\ proc'[p].pc = "graph" \/ (proc'[p].pc = "after" /\ proc'[p].status = Status(c))
    BY <2>1, <2>2 DEF Working, TypeOK
  <2>6. /\ Status(c) # "none"
        /\ Status(c) = "succeeded" => c.stage = "ended" /\ c.outcome = "succeeded"
        /\ Status(c) = "awaiting_approval" => c.stage = "asking"
    BY <2>3 DEF Status, Sessions, Outcomes
  <2>7. Grounded(proc[p])'
    BY <2>1, <2>4, <2>5, <2>6 DEF Grounded, Executing
  <2> QED
    BY <1>0, <2>1, <2>4, <2>7, StaysGrounded DEF Alone, Executing
<1>4. ASSUME NEW p \in Procs,
             \/ Save(p) \/ InterruptSaves(p) \/ BuildFails(p) \/ Crash(p)
             \/ \E cancelled \in BOOLEAN : Aborts(p, cancelled)
      PROVE  AllGrounded'
  <2>1. proc' = [proc EXCEPT ![p] = Idle] /\ granted' = granted /\ asks' = asks /\ graph' = graph
    BY <1>4 DEF Save, InterruptSaves, BuildFails, Crash, Aborts, policy, history
  <2>2. /\ \A o \in Procs : o # p => proc'[o] = proc[o]
        /\ proc'[p].pc = "idle"
    BY <2>1 DEF TypeOK, Idle
  <2>3. /\ \A r \in Runs : r # proc[p].run => manifest'[r] = manifest[r]
        /\ proc[p].pc \notin Executing =>
              \A r \in Runs : manifest'[r] = "succeeded" => manifest[r] = "succeeded"
    BY <1>4 DEF Save, InterruptSaves, BuildFails, Crash, Aborts, At, Executing, TypeOK
  <2> QED
    BY <1>0, <2>1, <2>2, <2>3, StaysGrounded DEF Alone, Executing
<1>5. ASSUME NEW p \in Procs, NEW r \in Runs, NEW approved \in BOOLEAN, Starts(p, r, approved),
             \A x \in Runs : x # r => (granted'[x] <=> granted[x])
      PROVE  AllGrounded'
  <2>1. /\ manifest[r] = "new" /\ manifest'[r] = "pending" /\ graph' = graph
        /\ \A x \in Runs : x # r => manifest'[x] = manifest[x] /\ (asks'[x] <=> asks[x])
        /\ \A o \in Procs : o # p => proc'[o] = proc[o]
        /\ proc'[p].run = r /\ proc'[p].pc = "before" /\ ~ proc'[p].resumed
    BY <1>5 DEF Starts, TypeOK
  <2>2. Grounded(proc[p])'
    BY <2>1 DEF Grounded
  <2> QED
    BY <1>0, <1>5, <2>1, <2>2, StaysGrounded DEF Executing
<1>6. ASSUME NEW p \in Procs, NEW r \in Runs, NEW approved \in BOOLEAN, Resume(p, r, approved)
      PROVE  AllGrounded'
  <2>1. /\ manifest' = manifest /\ manifest[r] # "new" /\ graph' = graph /\ asks' = asks
        /\ \A x \in Runs : granted[x] => granted'[x]
        /\ approved => granted'[r]
        /\ \A o \in Procs : o # p => proc'[o] = proc[o]
        /\ proc'[p].run = r /\ proc'[p].pc = "before" /\ proc'[p].resumed
        /\ proc'[p].approved = approved
    BY <1>6 DEF Resume, TypeOK, Known, policy
  <2>2. Grounded(proc[p])'
    BY <2>1 DEF Grounded
  <2> QED
    BY <1>0, <2>1, <2>2, StaysGrounded
<1>7. ASSUME NEW p \in Procs, NEW r \in Runs, Interrupt(p, r)
      PROVE  AllGrounded'
  <2>1. /\ manifest' = manifest /\ manifest[r] # "new" /\ graph' = graph /\ asks' = asks
        /\ granted' = granted
        /\ \A o \in Procs : o # p => proc'[o] = proc[o]
        /\ proc'[p].run = r /\ proc'[p].pc = "mark"
    BY <1>7 DEF Interrupt, TypeOK, Known, policy, history
  <2>2. Grounded(proc[p])'
    BY <2>1 DEF Grounded, Executing
  <2> QED
    BY <1>0, <2>1, <2>2, StaysGrounded
<1>8. ASSUME \/ \E r \in Runs : Delete(r)
             \/ UNCHANGED others
      PROVE  AllGrounded'
  <2>1. /\ graph' = graph /\ asks' = asks /\ granted' = granted /\ proc' = proc
        /\ \A x \in Runs : manifest'[x] = "succeeded" => manifest[x] = "succeeded"
    BY <1>8 DEF Delete, TypeOK, policy, history, others
  <2>2. ASSUME NEW p \in Procs, proc'[p].pc # "idle"
        PROVE  Grounded(proc[p])'
    <3>1. Grounded(proc[p]) /\ HooksDue(proc[p])' = HooksDue(proc[p])
      BY <2>1, <2>2 DEF AllGrounded, HooksDue
    <3> QED
      BY <1>0, <2>1, <2>2, <3>1 DEF Grounded
  <2> QED
    BY <2>2 DEF AllGrounded
<1>9. ASSUME NEW p \in Procs, NEW r \in Runs,
             \/ \E approved \in BOOLEAN : Execute(p, r, approved)
             \/ \E parent \in Runs : Fork(p, parent, r)
      PROVE  AllGrounded'
  <2>1. \A x \in Runs : x # r => (granted'[x] <=> granted[x])
    BY <1>9 DEF Execute, Fork, TypeOK
  <2> QED
    BY <1>5, <1>9, <2>1 DEF Execute, Fork
<1> QED
  BY <1>1, <1>2, <1>3, <1>4, <1>6, <1>7, <1>8, <1>9, Quiet DEF Next

-----------------------------------------------------------------------------
(* Hooks that are due run with the operator's approval of that very run.    *)
LEMMA DueIsGranted ==
    ASSUME AllGrounded, Fresh, NEW p \in Procs, proc[p].run \in Runs,
           proc[p].pc \in Executing, HooksDue(proc[p]), gated[proc[p].run]
    PROVE  granted[proc[p].run]
<1>1. Grounded(proc[p])
  BY DEF AllGrounded, Executing
<1>2. CASE proc[p].resumed
  BY <1>1, <1>2 DEF HooksDue, Grounded
<1>3. CASE ~ proc[p].resumed
  BY <1>1, <1>3 DEF HooksDue, Grounded, Fresh
<1> QED
  BY <1>2, <1>3

(* A hook that runs was due, hence granted; a success that is saved was    *)
(* vouched for by the process that saves it.                               *)
LEMMA HooksStep ==
    ASSUME TypeOK, AllGrounded, Fresh, HooksAround, [Next]_vars
    PROVE  HooksAround'
<1>1. ASSUME NEW p \in Procs, NEW passes \in BOOLEAN, BeforeHooks(p, passes) \/ AfterHooks(p, passes)
      PROVE  HooksAround'
  <2>1. proc[p].run \in Runs /\ proc[p].pc \in Executing
    BY <1>1, AtWork DEF BeforeHooks, AfterHooks, At, Executing
  <2>2. /\ manifest' = manifest /\ vouched' = vouched /\ gated' = gated /\ granted' = granted
        /\ \A r \in Runs : hooked'[r] => hooked[r] \/ (r = proc[p].run /\ HooksDue(proc[p]))
    BY <1>1, <2>1 DEF BeforeHooks, AfterHooks, AfterHooksDue, policy, TypeOK
  <2> QED
    BY <2>1, <2>2, DueIsGranted DEF HooksAround
<1>2. ASSUME NEW p \in Procs, Save(p)
      PROVE  HooksAround'
  <2>1. proc[p] \in Working /\ proc[p].run \in Runs /\ proc[p].pc = "save" /\ Grounded(proc[p])
    BY <1>2, AtWork DEF Save, At, Executing, AllGrounded
  <2>2. /\ hooked' = hooked /\ gated' = gated /\ granted' = granted
        /\ \A r \in Runs : r # proc[p].run =>
               manifest'[r] = manifest[r] /\ (vouched'[r] <=> vouched[r])
        /\ manifest'[proc[p].run] = proc[p].status
        /\ vouched'[proc[p].run] <=> proc[p].checked \/ ~ HooksDue(proc[p])
    BY <1>2, <2>1 DEF Save, policy, TypeOK
  <2>3. manifest'[proc[p].run] = "succeeded" => vouched'[proc[p].run]
    BY <2>1, <2>2 DEF Grounded
  <2> QED
    BY <2>2, <2>3 DEF HooksAround
<1>3. ASSUME NEW p \in Procs,
             \/ GraphSteps(p) \/ InterruptSaves(p) \/ BuildFails(p) \/ Crash(p)
             \/ \E cancelled \in BOOLEAN : Aborts(p, cancelled)
             \/ \E r \in Runs : Interrupt(p, r)
      PROVE  HooksAround'
  <2>1. /\ hooked' = hooked /\ gated' = gated /\ granted' = granted /\ vouched' = vouched
        /\ \A r \in Runs : manifest'[r] = "succeeded" => manifest[r] = "succeeded"
    BY <1>3 DEF GraphSteps, InterruptSaves, BuildFails, Crash, Aborts, Interrupt, policy, history, TypeOK
  <2> QED
    BY <2>1 DEF HooksAround
<1>4. ASSUME NEW p \in Procs, NEW r \in Runs, NEW approved \in BOOLEAN, Starts(p, r, approved),
             \A x \in Runs : x # r => (granted'[x] <=> granted[x])
      PROVE  HooksAround'
  <2>1. /\ hooked' = hooked /\ gated' = gated /\ vouched' = vouched
        /\ \A x \in Runs : manifest'[x] = "succeeded" => manifest[x] = "succeeded"
        /\ ~ hooked[r]
    BY <1>4 DEF Starts, Fresh, TypeOK
  <2> QED
    BY <1>4, <2>1 DEF HooksAround
<1>5. ASSUME NEW p \in Procs, NEW r \in Runs, NEW approved \in BOOLEAN, Resume(p, r, approved)
      PROVE  HooksAround'
  <2>1. /\ hooked' = hooked /\ gated' = gated /\ vouched' = vouched /\ manifest' = manifest
        /\ \A x \in Runs : granted[x] => granted'[x]
    BY <1>5 DEF Resume, policy, TypeOK
  <2> QED
    BY <2>1 DEF HooksAround
<1>6. ASSUME \/ \E r \in Runs : Delete(r)
             \/ UNCHANGED others
      PROVE  HooksAround'
  <2>1. /\ hooked' = hooked /\ gated' = gated /\ granted' = granted /\ vouched' = vouched
        /\ \A r \in Runs : manifest'[r] = "succeeded" => manifest[r] = "succeeded"
    BY <1>6 DEF Delete, others, policy, history, TypeOK
  <2> QED
    BY <2>1 DEF HooksAround
<1>7. ASSUME NEW p \in Procs, NEW r \in Runs,
             \/ \E approved \in BOOLEAN : Execute(p, r, approved)
             \/ \E parent \in Runs : Fork(p, parent, r)
      PROVE  HooksAround'
  <2>1. \A x \in Runs : x # r => (granted'[x] <=> granted[x])
    BY <1>7 DEF Execute, Fork, TypeOK
  <2> QED
    BY <1>4, <1>7, <2>1 DEF Execute, Fork
<1> QED
  BY <1>1, <1>2, <1>3, <1>5, <1>6, <1>7, Quiet DEF Next

(* Work begins without an approval, after it, or was under way; a step      *)
(* invents no answer.                                                      *)
LEMMA WorkIsAgreed ==
    ASSUME NEW c \in Sessions, NEW d \in SessionSteps(c)
    PROVE  /\ d.stage = "working" =>
                 \/ c.stage \in {"planning", "working"}
                 \/ c.stage = "asking" /\ c.answer = "approved"
           /\ d.answer = "approved" => c.answer = "approved"
           /\ d.stage # "none"
<1> USE DEF Sessions, Stages, Outcomes
<1>1. CASE c.stage = "planning"
  <2>1. d \in {Goes(c, "planning"), Goes(c, "asking"), Goes(c, "working"), Ends(c, "failed")}
    BY <1>1 DEF SessionSteps
  <2> QED  BY <1>1, <2>1 DEF Goes, Ends
<1>2. CASE c.stage = "asking"
  <2>1. \/ d = [c EXCEPT !.live = FALSE] \/ d = Ends(c, "interrupted")
        \/ d = Goes(c, "working") /\ c.answer = "approved"
    BY <1>2 DEF SessionSteps
  <2> QED  BY <1>2, <2>1 DEF Goes, Ends
<1>3. CASE c.stage = "working" /\ c.stop /\ c.answer = "none"
  <2>1. d \in {[c EXCEPT !.stop = FALSE, !.live = FALSE], Ends(c, "succeeded"), Ends(c, "failed")}
    BY <1>3 DEF SessionSteps
  <2> QED  BY <1>3, <2>1 DEF Goes, Ends
<1>4. CASE c.stage = "working" /\ ~ (c.stop /\ c.answer = "none")
  <2>1. d \in {Goes(c, "working"), [Goes(c, "working") EXCEPT !.stop = FALSE],
               Ends(c, "succeeded"), Ends(c, "failed")}
    BY <1>4 DEF SessionSteps
  <2> QED  BY <1>4, <2>1 DEF Goes, Ends
<1>5. CASE c.stage = "ended"
  <2>1. d \in {[c EXCEPT !.live = FALSE]}
    BY <1>5 DEF SessionSteps
  <2> QED  BY <1>5, <2>1
<1> QED  BY <1>1, <1>2, <1>3, <1>4, <1>5

(* A step that takes no approval back and does no work.                    *)
LEMMA StaysConsented ==
    ASSUME Consented, NEW p \in Procs,
           \A o \in Procs : o # p => proc'[o] = proc[o],
           \/ proc'[p].pc \notin Executing
           \/ proc'[p].answer = "approved" => proc'[p].resumed /\ proc'[p].approved,
           gated' = gated, tooled' = tooled,
           \A r \in Runs : /\ manifest'[r] = "new" => manifest[r] = "new" /\ graph'[r] = graph[r]
                           /\ graph'[r].stage = "working" => graph[r].stage = "working"
                           /\ granted[r] /\ manifest[r] # "new" => granted'[r]
    PROVE  Consented'
<1>1. ASSUME NEW r \in Runs
      PROVE  /\ manifest'[r] = "new" => graph'[r].stage = "none" /\ tooled'[r] = {}
             /\ gated'[r] /\ (graph'[r].stage = "working" \/ "working" \in tooled'[r]) => granted'[r]
  BY DEF Consented
<1>2. ASSUME NEW o \in Procs, proc'[o].pc \in Executing, proc'[o].answer = "approved"
      PROVE  proc'[o].resumed /\ proc'[o].approved
  BY <1>2 DEF Consented
<1> QED
  BY <1>1, <1>2 DEF Consented

LEMMA ConsentStep ==
    ASSUME TypeOK, AllGrounded, Fresh, Sound, Consented, [Next]_vars
    PROVE  Consented'
<1>0. \A r \in Runs : manifest[r] # "new" => manifest'[r] # "new"
  BY FreshStep
<1>1. ASSUME NEW p \in Procs, NEW passes \in BOOLEAN, BeforeHooks(p, passes) \/ AfterHooks(p, passes)
      PROVE  Consented'
  <2>1. /\ proc[p] \in Working /\ proc[p].run \in Runs /\ proc[p].pc \in Executing
        /\ manifest[proc[p].run] # "new"
    BY <1>1, AtWork DEF BeforeHooks, AfterHooks, At, Executing, AllGrounded, Grounded
  <2>2. /\ \A o \in Procs : o # p => proc'[o] = proc[o]
        /\ proc'[p].answer = proc[p].answer /\ proc'[p].resumed = proc[p].resumed
        /\ proc'[p].approved = proc[p].approved
    BY <1>1, <2>1 DEF BeforeHooks, AfterHooks, Working, TypeOK
  <2>3. /\ manifest' = manifest /\ gated' = gated /\ granted' = granted /\ tooled' = tooled
        /\ \A r \in Runs : graph'[r] = graph[r]
                           \/ (r = proc[p].run /\ graph'[r].stage = "planning")
    BY <1>1, <2>1 DEF BeforeHooks, AfterHooks, policy, TypeOK
  <2>4. proc'[p].answer = "approved" => proc'[p].resumed /\ proc'[p].approved
    BY <2>1, <2>2 DEF Consented
  <2> QED
    BY <2>1, <2>2, <2>3, <2>4, StaysConsented
<1>2. ASSUME NEW p \in Procs, GraphSteps(p)
      PROVE  Consented'
  <2>1. /\ proc[p] \in Working /\ proc[p].run \in Runs /\ proc[p].pc = "graph"
        /\ Grounded(proc[p])
    BY <1>2, AtWork DEF GraphSteps, At, Executing, AllGrounded
  <2>2. PICK c \in SessionSteps(View(proc[p])) :
          /\ asks[proc[p].run] /\ graph[proc[p].run].stage = "planning" => c.stage # "working"
          /\ graph' = [graph EXCEPT ![proc[p].run] = [stage |-> c.stage, outcome |-> c.outcome]]
          /\ proc' = [proc EXCEPT
                ![p] = IF c.live THEN [proc[p] EXCEPT !.answer = c.answer]
                       ELSE [proc[p] EXCEPT !.pc = "after", !.answer = "none", !.status = Status(c)]]
    BY <1>2 DEF GraphSteps
  <2>3. View(proc[p]) \in Sessions
    BY <1>2, <2>1, GraphIsMade, ViewIsSession
  <2>4. /\ View(proc[p]).stage = graph[proc[p].run].stage /\ View(proc[p]).answer = proc[p].answer
    BY DEF View
  <2>5. /\ manifest' = manifest /\ gated' = gated /\ granted' = granted /\ tooled' = tooled
        /\ \A r \in Runs : r # proc[p].run => graph'[r] = graph[r]
        /\ graph'[proc[p].run].stage = c.stage
    BY <1>2, <2>1, <2>2 DEF GraphSteps, TypeOK, policy, history
  <2>6. /\ \A o \in Procs : o # p => proc'[o] = proc[o]
        /\ proc'[p].resumed = proc[p].resumed /\ proc'[p].approved = proc[p].approved
        /\ proc'[p].answer \in {c.answer, "none"}
    BY <2>1, <2>2 DEF Working, TypeOK
  <2>7. proc[p].answer = "approved" => proc[p].resumed /\ proc[p].approved /\ granted[proc[p].run]
    BY <2>1 DEF Consented, Grounded, Executing
  <2>8. manifest[proc[p].run] # "new"
    BY <2>1 DEF Grounded
  <2>9. gated[proc[p].run] /\ c.stage = "working" => granted[proc[p].run]
    <3>1. CASE graph[proc[p].run].stage = "planning"
      BY <2>1, <2>2, <2>8, <3>1 DEF Fresh
    <3>2. CASE graph[proc[p].run].stage = "working"
      BY <2>1, <3>2 DEF Consented
    <3>3. CASE graph[proc[p].run].stage = "asking" /\ proc[p].answer = "approved"
      BY <2>7, <3>3
    <3> QED
      BY <2>3, <2>4, <3>1, <3>2, <3>3, WorkIsAgreed
  <2>10. ASSUME NEW r \in Runs
         PROVE  /\ manifest'[r] = "new" => graph'[r].stage = "none" /\ tooled'[r] = {}
                /\ gated'[r] /\ (graph'[r].stage = "working" \/ "working" \in tooled'[r])
                       => granted'[r]
    BY <2>5, <2>8, <2>9 DEF Consented
  <2>11. ASSUME NEW o \in Procs, proc'[o].pc \in Executing, proc'[o].answer = "approved"
         PROVE  proc'[o].resumed /\ proc'[o].approved
    <3>1. CASE o = p
      <4>1. proc[p].answer = "approved"
        BY <2>3, <2>4, <2>6, <2>11, <3>1, WorkIsAgreed
      <4> QED
        BY <2>6, <2>7, <3>1, <4>1
    <3>2. CASE o # p
      BY <2>6, <2>11, <3>2 DEF Consented
    <3> QED
      BY <3>1, <3>2
  <2> QED
    BY <2>10, <2>11 DEF Consented
<1>3. ASSUME NEW p \in Procs, ToolHooks(p)
      PROVE  Consented'
  <2>1. /\ proc[p].run \in Runs /\ manifest[proc[p].run] # "new"
    BY <1>3, AtWork DEF ToolHooks, At, Executing, AllGrounded, Grounded
  <2>2. /\ manifest' = manifest /\ gated' = gated /\ granted' = granted /\ graph' = graph
        /\ proc' = proc
        /\ \A r \in Runs : r # proc[p].run => tooled'[r] = tooled[r]
        /\ tooled'[proc[p].run] = tooled[proc[p].run] \cup {graph[proc[p].run].stage}
    BY <1>3, <2>1 DEF ToolHooks, TypeOK, policy
  <2> QED
    BY <2>1, <2>2 DEF Consented
<1>4. ASSUME NEW p \in Procs,
             \/ Save(p) \/ InterruptSaves(p) \/ BuildFails(p) \/ Crash(p)
             \/ \E cancelled \in BOOLEAN : Aborts(p, cancelled)
             \/ \E r \in Runs : Interrupt(p, r)
      PROVE  Consented'
  <2>1. /\ \A o \in Procs : o # p => proc'[o] = proc[o]
        /\ proc'[p].pc \notin Executing
    BY <1>4 DEF Save, InterruptSaves, BuildFails, Crash, Aborts, Interrupt, TypeOK, Idle, Executing
  <2>2. /\ gated' = gated /\ granted' = granted /\ graph' = graph /\ tooled' = tooled
    BY <1>4 DEF Save, InterruptSaves, BuildFails, Crash, Aborts, Interrupt, policy, history
  <2> QED
    BY <1>0, <2>1, <2>2, StaysConsented
<1>5. ASSUME NEW p \in Procs, NEW r \in Runs, NEW approved \in BOOLEAN, Starts(p, r, approved),
             \A x \in Runs : x # r => (granted'[x] <=> granted[x])
      PROVE  Consented'
  <2>1. /\ \A o \in Procs : o # p => proc'[o] = proc[o]
        /\ proc'[p].answer = "none" /\ manifest[r] = "new"
        /\ gated' = gated /\ graph' = graph /\ tooled' = tooled
    BY <1>5 DEF Starts, TypeOK
  <2> QED
    BY <1>0, <1>5, <2>1, StaysConsented
<1>6. ASSUME NEW p \in Procs, NEW r \in Runs, NEW approved \in BOOLEAN, Resume(p, r, approved)
      PROVE  Consented'
  <2>1. /\ \A o \in Procs : o # p => proc'[o] = proc[o]
        /\ proc'[p].answer = "approved" => proc'[p].resumed /\ proc'[p].approved
        /\ gated' = gated /\ graph' = graph /\ tooled' = tooled
        /\ \A x \in Runs : granted[x] => granted'[x]
    BY <1>6 DEF Resume, TypeOK, policy
  <2> QED
    BY <1>0, <2>1, StaysConsented
<1>7. ASSUME \/ \E r \in Runs : Delete(r)
             \/ UNCHANGED vars
      PROVE  Consented'
  <2>1. /\ gated' = gated /\ granted' = granted /\ graph' = graph /\ tooled' = tooled
        /\ proc' = proc
    BY <1>7 DEF Delete, vars, policy, history
  <2> QED
    BY <1>0, <2>1 DEF Consented
<1>8. ASSUME NEW p \in Procs, NEW r \in Runs,
             \/ \E approved \in BOOLEAN : Execute(p, r, approved)
             \/ \E parent \in Runs : Fork(p, parent, r)
      PROVE  Consented'
  <2>1. \A x \in Runs : x # r => (granted'[x] <=> granted[x])
    BY <1>8 DEF Execute, Fork, TypeOK
  <2> QED
    BY <1>5, <1>8, <2>1 DEF Execute, Fork
<1> QED
  BY <1>1, <1>2, <1>3, <1>4, <1>6, <1>7, <1>8 DEF Next

-----------------------------------------------------------------------------
(* What ManifestIsTruthful says of one run.                                *)
Truthful(r) ==
    /\ manifest[r] = "succeeded" => graph[r] = [stage |-> "ended", outcome |-> "succeeded"]
    /\ manifest[r] = "awaiting_approval" /\ ~ Busy(r) /\ ~ abandoned[r] => graph[r].stage = "asking"
    /\ manifest[r] = "pending" => Busy(r) \/ abandoned[r]

(* A step of p about run x says nothing of another.                        *)
LEMMA StaysTruthful ==
    ASSUME ManifestIsTruthful, NEW p \in Procs, NEW x \in Runs,
           \A o \in Procs : o # p => proc'[o] = proc[o],
           proc[p].pc \in Executing => proc[p].run = x,
           proc'[p].pc \in Executing => proc'[p].run = x,
           \A r \in Runs : r # x => /\ manifest'[r] = manifest[r] /\ graph'[r] = graph[r]
                                    /\ abandoned'[r] <=> abandoned[r],
           Truthful(x)'
    PROVE  ManifestIsTruthful'
<1>1. ASSUME NEW r \in Runs, r # x
      PROVE  Truthful(r)'
  <2>1. Truthful(r)
    BY DEF ManifestIsTruthful, Truthful
  <2>2. Busy(r)' <=> Busy(r)
    BY <1>1 DEF Busy, Executes, Executing
  <2> QED
    BY <1>1, <2>1, <2>2 DEF Truthful
<1> QED
  BY <1>1 DEF ManifestIsTruthful, Truthful

(* Each step leaves every manifest as truthful as it found it.             *)
LEMMA TruthfulStep ==
    ASSUME TypeOK, AllGrounded, Sound, ManifestIsTruthful, [Next]_vars
    PROVE  ManifestIsTruthful'
<1>1. ASSUME NEW p \in Procs, NEW passes \in BOOLEAN, BeforeHooks(p, passes) \/ AfterHooks(p, passes)
      PROVE  ManifestIsTruthful'
  <2>1. /\ proc[p] \in Working /\ proc[p].run \in Runs /\ proc[p].pc \in {"before", "after"}
        /\ Grounded(proc[p])
    BY <1>1, AtWork DEF BeforeHooks, AfterHooks, At, Executing, AllGrounded
  <2>x. PICK x \in Runs : x = proc[p].run
    BY <2>1
  <2>2. /\ \A o \in Procs : o # p => proc'[o] = proc[o]
        /\ proc'[p].run = proc[p].run /\ proc'[p].pc \in Executing
    BY <1>1, <2>1 DEF BeforeHooks, AfterHooks, Working, TypeOK, Executing
  <2>3. /\ manifest' = manifest /\ abandoned' = abandoned
        /\ \A r \in Runs : graph'[r] = graph[r] \/ (r = proc[p].run /\ ~ proc[p].resumed)
    BY <1>1, <2>1 DEF BeforeHooks, AfterHooks, TypeOK, policy
  <2>4. Busy(x)'
    BY <2>x, <2>2 DEF Busy, Executes, Executing
  <2>5. manifest[proc[p].run] = "succeeded" => graph'[proc[p].run] = graph[proc[p].run]
    BY <2>1, <2>3 DEF Grounded, Executing
  <2>6. Truthful(x)'
    BY <2>x, <2>1, <2>3, <2>4, <2>5 DEF Truthful, ManifestIsTruthful
  <2> QED
    BY <2>x, <2>1, <2>2, <2>3, <2>6, StaysTruthful
<1>2. ASSUME NEW p \in Procs, GraphSteps(p)
      PROVE  ManifestIsTruthful'
  <2>1. /\ proc[p] \in Working /\ proc[p].run \in Runs /\ proc[p].pc = "graph"
    BY <1>2, AtWork DEF GraphSteps, At, Executing
  <2>x. PICK x \in Runs : x = proc[p].run
    BY <2>1
  <2>2. PICK c \in SessionSteps(View(proc[p])) :
          /\ graph' = [graph EXCEPT ![proc[p].run] = [stage |-> c.stage, outcome |-> c.outcome]]
          /\ proc' = [proc EXCEPT
                ![p] = IF c.live THEN [proc[p] EXCEPT !.answer = c.answer]
                       ELSE [proc[p] EXCEPT !.pc = "after", !.answer = "none", !.status = Status(c)]]
    BY <1>2 DEF GraphSteps
  <2>3. View(proc[p]) \in Sessions
    BY <1>2, <2>1, GraphIsMade, ViewIsSession
  <2>4. /\ manifest' = manifest /\ abandoned' = abandoned
        /\ \A r \in Runs : r # proc[p].run => graph'[r] = graph[r]
        /\ graph'[proc[p].run] = [stage |-> c.stage, outcome |-> c.outcome]
    BY <1>2, <2>1, <2>2 DEF GraphSteps, TypeOK, policy, history
  <2>5. /\ \A o \in Procs : o # p => proc'[o] = proc[o]
        /\ proc'[p].run = proc[p].run /\ proc'[p].pc \in Executing
    BY <2>1, <2>2 DEF Working, TypeOK, Executing
  <2>6. Busy(x)'
    BY <2>x, <2>5 DEF Busy, Executes, Executing
  <2>7. manifest[proc[p].run] = "succeeded" => c.stage = "ended" /\ c.outcome = "succeeded"
    <3>1. ASSUME manifest[proc[p].run] = "succeeded"
          PROVE  View(proc[p]).stage = "ended" /\ View(proc[p]).outcome = "succeeded"
      BY <2>1, <3>1 DEF ManifestIsTruthful, View
    <3> QED
      BY <2>3, <3>1, SessionStep
  <2>8. Truthful(x)'
    BY <2>x, <2>4, <2>6, <2>7 DEF Truthful
  <2> QED
    BY <2>x, <2>1, <2>4, <2>5, <2>8, StaysTruthful
<1>3. ASSUME NEW p \in Procs, Save(p)
      PROVE  ManifestIsTruthful'
  <2>1. proc[p] \in Working /\ proc[p].run \in Runs /\ proc[p].pc = "save" /\ Grounded(proc[p])
    BY <1>3, AtWork DEF Save, At, Executing, AllGrounded
  <2>x. PICK x \in Runs : x = proc[p].run
    BY <2>1
  <2>2. /\ \A o \in Procs : o # p => proc'[o] = proc[o]
        /\ proc'[p].pc \notin Executing
        /\ graph' = graph
        /\ \A r \in Runs : r # proc[p].run =>
               manifest'[r] = manifest[r] /\ (abandoned'[r] <=> abandoned[r])
        /\ manifest'[proc[p].run] = proc[p].status
    BY <1>3, <2>1 DEF Save, TypeOK, Idle, Executing
  <2>3. Truthful(x)'
    BY <2>x, <2>1, <2>2 DEF Truthful, Grounded, Working
  <2> QED
    BY <2>x, <2>1, <2>2, <2>3, StaysTruthful
<1>4. ASSUME NEW p \in Procs, NEW cancelled \in BOOLEAN,
             \/ Aborts(p, cancelled)
             \/ proc[p].pc \in Executing /\ (BuildFails(p) \/ Crash(p))
      PROVE  ManifestIsTruthful'
  <2>1. proc[p] \in Working /\ proc[p].run \in Runs /\ proc[p].pc \in Executing
    BY <1>4, AtWork DEF Aborts, Executing
  <2>x. PICK x \in Runs : x = proc[p].run
    BY <2>1
  <2>2. /\ \A o \in Procs : o # p => proc'[o] = proc[o]
        /\ proc'[p].pc \notin Executing
        /\ graph' = graph
        /\ \A r \in Runs : r # proc[p].run =>
               manifest'[r] = manifest[r] /\ (abandoned'[r] <=> abandoned[r])
        /\ \/ manifest'[proc[p].run] = manifest[proc[p].run] /\ abandoned'[proc[p].run]
           \/ manifest'[proc[p].run] \in {"interrupted", "failed"}
    <3>a. CASE Aborts(p, cancelled)
      <4>1. /\ graph' = graph
            /\ proc' = [proc EXCEPT ![p] = Idle]
            /\ abandoned' = [abandoned EXCEPT ![proc[p].run] = proc[p].resumed]
            /\ manifest' = IF proc[p].resumed THEN manifest
                           ELSE [manifest EXCEPT
                                    ![proc[p].run] = IF cancelled THEN "interrupted" ELSE "failed"]
        BY <3>a DEF Aborts
      <4>2. proc[p].resumed \in BOOLEAN
        BY <2>1 DEF Working
      <4> QED
        BY <4>1, <4>2, <2>1 DEF TypeOK, Idle, Executing
    <3>b. CASE BuildFails(p) \/ Crash(p)
      <4>1. /\ graph' = graph /\ manifest' = manifest
            /\ proc' = [proc EXCEPT ![p] = Idle]
        BY <3>b DEF BuildFails, Crash
      <4>2. abandoned' = [abandoned EXCEPT ![proc[p].run] = TRUE]
        <5>1. ~ At(p, "mark")
          BY <2>1 DEF At, Executing
        <5> QED
          BY <3>b, <5>1, <2>1 DEF BuildFails, Crash, TypeOK
      <4> QED
        BY <4>1, <4>2, <2>1 DEF TypeOK, Idle, Executing
    <3> QED
      BY <1>4, <3>a, <3>b
  <2>3. Truthful(x)'
    BY <2>x, <2>1, <2>2 DEF Truthful, ManifestIsTruthful
  <2> QED
    BY <2>x, <2>1, <2>2, <2>3, StaysTruthful
<1>5. ASSUME NEW p \in Procs,
             \/ InterruptSaves(p)
             \/ proc[p].pc \notin Executing /\ (BuildFails(p) \/ Crash(p))
      PROVE  ManifestIsTruthful'
  <2>1. proc[p].pc = "mark" /\ proc[p].run \in Runs
    BY <1>5, AtWork DEF InterruptSaves, BuildFails, Crash, At, Executing
  <2>x. PICK x \in Runs : x = proc[p].run
    BY <2>1
  <2>2. /\ \A o \in Procs : o # p => proc'[o] = proc[o]
        /\ proc[p].pc \notin Executing /\ proc'[p].pc \notin Executing
        /\ graph' = graph
        /\ \A r \in Runs : abandoned'[r] <=> abandoned[r]
        /\ \A r \in Runs : r # proc[p].run => manifest'[r] = manifest[r]
        /\ manifest'[proc[p].run] \in {manifest[proc[p].run], "interrupted"}
    BY <1>5, <2>1 DEF InterruptSaves, BuildFails, Crash, At, TypeOK, Idle, Executing, history
  <2>3. Busy(x)' <=> Busy(x)
    BY <2>x, <2>2 DEF Busy, Executes, Executing
  <2>4. Truthful(x)'
    BY <2>x, <2>1, <2>2, <2>3 DEF Truthful, ManifestIsTruthful
  <2> QED
    BY <2>x, <2>1, <2>2, <2>4, StaysTruthful
<1>6. ASSUME NEW p \in Procs, NEW r \in Runs, NEW approved \in BOOLEAN,
             Starts(p, r, approved) \/ Resume(p, r, approved)
      PROVE  ManifestIsTruthful'
  <2>1. /\ \A o \in Procs : o # p => proc'[o] = proc[o]
        /\ proc[p].pc \notin Executing
        /\ proc'[p].run = r /\ proc'[p].pc \in Executing
        /\ graph' = graph /\ abandoned' = abandoned
        /\ \A x \in Runs : x # r => manifest'[x] = manifest[x]
        /\ manifest'[r] \in {manifest[r], "pending"}
    BY <1>6 DEF Starts, Resume, At, TypeOK, Executing, policy
  <2>2. Busy(r)'
    BY <2>1 DEF Busy, Executes, Executing
  <2>3. Truthful(r)'
    BY <2>1, <2>2 DEF Truthful, ManifestIsTruthful
  <2> QED
    BY <2>1, <2>3, StaysTruthful
<1>7. ASSUME NEW p \in Procs, NEW r \in Runs, Interrupt(p, r)
      PROVE  ManifestIsTruthful'
  <2>1. /\ \A o \in Procs : o # p => proc'[o] = proc[o]
        /\ proc[p].pc \notin Executing /\ proc'[p].pc \notin Executing
        /\ graph' = graph /\ abandoned' = abandoned /\ manifest' = manifest
    BY <1>7 DEF Interrupt, At, TypeOK, Executing, policy, history
  <2>2. Busy(r)' <=> Busy(r)
    BY <2>1 DEF Busy, Executes, Executing
  <2>3. Truthful(r)'
    BY <2>1, <2>2 DEF Truthful, ManifestIsTruthful
  <2> QED
    BY <2>1, <2>3, StaysTruthful
<1>8. ASSUME \/ \E r \in Runs : Delete(r)
             \/ UNCHANGED others
      PROVE  ManifestIsTruthful'
  <2>1. /\ graph' = graph /\ abandoned' = abandoned /\ proc' = proc
        /\ \A x \in Runs : manifest'[x] \in {manifest[x], "deleted"}
    BY <1>8 DEF Delete, TypeOK, policy, history, others
  <2>2. \A x \in Runs : Busy(x)' <=> Busy(x)
    BY <2>1 DEF Busy, Executes
  <2> QED
    BY <2>1, <2>2 DEF ManifestIsTruthful
<1> QED
  BY <1>1, <1>2, <1>3, <1>4, <1>5, <1>6, <1>7, <1>8, Quiet DEF Next, Execute, Fork

-----------------------------------------------------------------------------
(* The only step that removes a stop file is the graph's, by its pause or   *)
(* past an answer.                                                         *)
LEMMA StopStep ==
    ASSUME TypeOK, Sound, [Next]_vars, NEW r \in Runs, stop[r], ~ stop'[r]
    PROVE  \E p \in Procs : /\ Executes(p, r)
                            /\ \/ proc[p].answer # "none"
                               \/ proc'[p].pc = "after" /\ proc'[p].status = "interrupted"
<1>1. ASSUME NEW p \in Procs, GraphSteps(p)
      PROVE  /\ Executes(p, r)
             /\ \/ proc[p].answer # "none"
                \/ proc'[p].pc = "after" /\ proc'[p].status = "interrupted"
  <2>1. /\ proc[p] \in Working /\ proc[p].run \in Runs /\ proc[p].pc = "graph"
    BY <1>1, AtWork DEF GraphSteps, At, Executing
  <2>2. PICK c \in SessionSteps(View(proc[p])) :
          /\ stop' = [stop EXCEPT ![proc[p].run] = c.stop]
          /\ proc' = [proc EXCEPT
                ![p] = IF c.live THEN [proc[p] EXCEPT !.answer = c.answer]
                       ELSE [proc[p] EXCEPT !.pc = "after", !.answer = "none", !.status = Status(c)]]
    BY <1>1 DEF GraphSteps
  <2>3. View(proc[p]) \in Sessions
    BY <1>1, <2>1, GraphIsMade, ViewIsSession
  <2>4. proc[p].run = r /\ ~ c.stop
    BY <2>1, <2>2 DEF TypeOK
  <2>5. View(proc[p]).stop /\ View(proc[p]).answer = proc[p].answer
    BY <2>4 DEF View
  <2>6. proc[p].answer # "none" \/ (c.stage = "working" /\ ~ c.live)
    BY <2>3, <2>4, <2>5, SessionStep
  <2>7. c.stage = "working" /\ ~ c.live => proc'[p].pc = "after" /\ proc'[p].status = "interrupted"
    BY <2>1, <2>2 DEF Status, Working, TypeOK
  <2> QED
    BY <2>1, <2>4, <2>6, <2>7 DEF Executes
<1>2. ASSUME NEW p \in Procs,
             \/ \E passes \in BOOLEAN : BeforeHooks(p, passes) \/ AfterHooks(p, passes)
             \/ Save(p) \/ InterruptSaves(p) \/ BuildFails(p) \/ Crash(p)
             \/ \E cancelled \in BOOLEAN : Aborts(p, cancelled)
      PROVE  stop' = stop
  BY <1>2 DEF BeforeHooks, AfterHooks, Save, InterruptSaves, BuildFails, Crash, Aborts
<1>3. ASSUME NEW p \in Procs, NEW x \in Runs,
             \/ \E approved \in BOOLEAN : Execute(p, x, approved) \/ Resume(p, x, approved)
             \/ \E parent \in Runs : Fork(p, parent, x)
      PROVE  stop' = stop
  BY <1>3 DEF Execute, Fork, Starts, Resume
<1>4. ASSUME NEW p \in Procs, NEW x \in Runs, Interrupt(p, x)
      PROVE  stop'[r]
  BY <1>4 DEF Interrupt, TypeOK
<1>5. ASSUME NEW x \in Runs, Delete(x)
      PROVE  stop' = stop
  BY <1>5 DEF Delete
<1> QED
  BY <1>1, <1>2, <1>3, <1>4, <1>5, Quiet DEF Next, others

-----------------------------------------------------------------------------
(* The first state: nobody at work, no run started.                        *)
LEMMA Start ==
    ASSUME Init
    PROVE  IInv
<1> USE DEF Init
<1>1. TypeOK
  <2>1. PICK g \in BOOLEAN : gated = [r \in Runs |-> g]
    OBVIOUS
  <2> QED
    BY <2>1 DEF TypeOK, NoGraph, Stages, Outcomes
<1>2. ManifestIsTruthful /\ HooksAround
  BY DEF ManifestIsTruthful, HooksAround
<1>3. AllGrounded /\ Alone
  BY DEF AllGrounded, Alone, Idle, Executing
<1>4. Fresh /\ Sound /\ Consented
  BY DEF Fresh, Sound, Consented, NoGraph, Idle, Executing
<1> QED
  BY <1>1, <1>2, <1>3, <1>4 DEF IInv

(* The invariant is inductive.                                             *)
LEMMA Induction == Spec => []IInv
<1>1. IInv /\ [Next]_vars => IInv'
  <2> SUFFICES ASSUME IInv, [Next]_vars
               PROVE  IInv'
    OBVIOUS
  <2>1. TypeOK' /\ Fresh' /\ Sound'
    BY TypeStep, FreshStep, SoundStep DEF IInv
  <2>2. Alone' /\ AllGrounded'
    BY AloneStep, GroundedStep DEF IInv
  <2>3. HooksAround' /\ ManifestIsTruthful'
    BY HooksStep, TruthfulStep DEF IInv
  <2>4. Consented'
    BY ConsentStep DEF IInv
  <2> QED
    BY <2>1, <2>2, <2>3, <2>4 DEF IInv
<1> QED
  BY Start, <1>1, PTL DEF Spec

(* Whatever processes do to the runs of a state directory, every part of    *)
(* the state has its type: no manifest gets a status _finish cannot write. *)
THEOREM LocalTypeCorrect == Spec => []TypeOK
<1>1. IInv => TypeOK
  BY DEF IInv
<1> QED
  BY Induction, <1>1, PTL

(* No interleaving of executions, resumptions, interruptions, deletions and *)
(* crashes leaves a manifest that says more than the checkpoint holds.     *)
THEOREM ManifestHolds == Spec => []ManifestIsTruthful
<1>1. IInv => ManifestIsTruthful
  BY DEF IInv
<1> QED
  BY Induction, <1>1, PTL

(* Before its approval a gated run gets no hook around the graph, and none   *)
(* around a tool call but discover's; no success is recorded without the    *)
(* after-hooks; for any number of forks, resumptions and processes.        *)
THEOREM HooksHold == Spec => []HooksInOrder
<1>1. IInv => HooksInOrder
  BY DEF IInv, HooksAround, Consented, HooksInOrder, TypeOK
<1> QED
  BY Induction, <1>1, PTL

(* A stop file is heeded, unless a resumption has an answer left to use.   *)
THEOREM StopIsHeeded == Spec => StopPausesUnlessResumed
<1> DEFINE Heeded ==
      \A r \in Runs : stop[r] /\ ~ stop'[r] =>
          \E p \in Procs : /\ Executes(p, r)
                           /\ \/ proc[p].answer # "none"
                              \/ proc'[p].pc = "after" /\ proc'[p].status = "interrupted"
<1>1. IInv /\ [Next]_vars => [Heeded]_vars
  BY StopStep DEF IInv
<1> QED
  BY Induction, <1>1, PTL DEF Spec, StopPausesUnlessResumed
=============================================================================
