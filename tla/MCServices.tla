----------------------------- MODULE MCServices -----------------------------
(***************************************************************************)
(* The parts of the system that share no state with the run lifecycle but  *)
(* its events and rows, each checked by itself: a behaviour belongs to one *)
(* part, and only that part moves.                                         *)
(***************************************************************************)
EXTENDS SequencesExt, RunStories, AgentServices, DataServices, PageServices

VARIABLE focus      \* the part this behaviour is about

(* Told to their end with one page opened: a run that is repaired, and runs *)
(* that the gate fails, that are refuted, denied or stopped; a workflow    *)
(* that passes by a node that failed, one whose planner asks, a team whose *)
(* roles are its own.  And a run that dies, looked at in turn with another *)
(* that waits to be started.                                               *)
ToldOut ==
    {Created \o Planned \o Worked \o Refuted \o
        <<Emits("repair_started"), Emits("verification_finished")>> \o Ended("succeeded", "succeeded"),
     Created \o Planned \o Worked \o <<Emits("verification_skipped")>> \o Ended("succeeded", "failed"),
     Created \o Planned \o Asked \o Granted \o Refuted \o Ended("failed", "failed"),
     Created \o Planned \o Asked \o Denied,
     Created \o Planned \o Asked \o Stopped,
     Started \o <<Emits("run_started"), Emits("worktree_created"), Begins("implementer", "test"),
                  Emits("model_turn"), Retries("test"), Closes("implementer", "test", TRUE),
                  Begins("reviewer", "r"), Closes("reviewer", "r", FALSE)>> \o
        Ended("succeeded", "succeeded"),
     Started \o <<Emits("run_started"), Begins("planner", "p"), Emits("plan_created"),
                  Emits("approval_required"), Closes("planner", "p", FALSE)>> \o Died,
     Started \o <<Emits("run_started"), Begins("mine", "review"), Emits("tool_result"),
                  Closes("mine", "other", TRUE), Closes("mine", "review", TRUE)>> \o
        Ended("failed", "failed")}
Waiting == <<[Says("run.created", "queued") EXCEPT !.row = "queued"]>>
PageStories ==
    {[a |-> s, b |-> <<Row("queued")>>, visits |-> 1] : s \in ToldOut}
    \cup {[a |-> <<Row("queued")>> \o Died, b |-> Waiting, visits |-> 2]}

(* The plugins built in, then some of a user and some of a workspace, each  *)
(* in any order: names taken, services missing or provided twice.          *)
Plug(name, source, sound, inject, provides, names) ==
    [name |-> name, source |-> source, sound |-> sound, inject |-> inject,
     provides |-> provides, names |-> names, lenient |-> name = "ext"]
BuiltIn == <<Plug("core", "builtin", TRUE, {}, {"commands"}, {"help"}),
             Plug("ext", "builtin", TRUE, {"commands"}, {"hooks"}, {"help", "x"})>>
OfUser == {Plug("u", "user", TRUE, {"commands"}, {}, {"x"}),
           Plug("needs", "user", TRUE, {"prompt"}, {}, {"y"}),
           Plug("gives", "user", TRUE, {"hooks"}, {"prompt"}, {}),
           Plug("broken", "user", FALSE, {}, {}, {})}
OfWorkspace == {Plug("needs", "workspace", TRUE, {"prompt"}, {}, {}),
                Plug("again", "workspace", TRUE, {}, {"prompt"}, {}),
                Plug("last", "workspace", TRUE, {"prompt", "hooks"}, {}, {"y"})}
Listings(plugins) == UNION {SetToSeqs(some) : some \in SUBSET plugins}
PluginLists ==
    {[own |-> BuiltIn \o users, workspace |-> ws] :
        users \in Listings(OfUser), ws \in Listings(OfWorkspace)}

(* Batches that read, that write, and that the registry refuses in part;    *)
(* runs with hooks or without, allowed to run them or not.                 *)
Call(tool, allowed, all) ==
    [tool |-> tool, allowed |-> allowed, all |-> all, overwrite |-> all, text |-> <<"a", "b">>]
ToolBatches ==
    {<<Call("read", TRUE, TRUE), Call("read", FALSE, TRUE)>>,
     <<Call("write", TRUE, FALSE), Call("read", TRUE, TRUE), Call("edit", TRUE, FALSE)>>,
     <<Call("edit", TRUE, TRUE), Call("edit", TRUE, FALSE), Call("write", FALSE, TRUE)>>}
ToolSettings ==
    [permission : {"read_only", "edit", "full"}, trusted : BOOLEAN, before : {0, 1}, after : {0, 1}]

(* Two chunks; a blank chunk; a chunk at the very end; an empty file.       *)
IndexTexts == {<<"q", " ", "x">>, <<" ", " ", "q", "q">>, <<>>}

(* The runs' constants.                                                    *)
MCOrder == <<"lead", "dev">>
MCCut == [x |-> "a", y |-> "a", z |-> "b"]
MCPlugins == {BuiltIn[1], BuiltIn[2]} \cup OfUser \cup OfWorkspace
MCEdits == {<<"x", "q">>}
MCProfiles == {[max_concurrency |-> 2, requests_per_minute |-> 2, max_retries |-> 1],
               [max_concurrency |-> 1, requests_per_minute |-> 2, max_retries |-> 2]}

Parts == AgentParts \cup DataParts \cup {"writes", "page"}

(* The parts out of focus stay in one initial state.                       *)
Init ==
    /\ focus \in Parts
    /\ IF focus = "team" THEN team \in Team!Teams ELSE team = CHOOSE t \in Team!Teams : TRUE
    /\ doubtful \in CASE focus = "vectors" -> SUBSET {1, 2}
                      [] focus = "writes" -> SUBSET {1}
                      [] OTHER -> {{}}
    /\ IF focus = "page" THEN story \in PageStories ELSE story = CHOOSE s \in PageStories : TRUE
    /\ IF focus = "command" THEN kind \in Command!Kinds ELSE kind = "local"
    /\ IF focus = "talk" THEN speaker \in {"graph", "role", "child"} ELSE speaker = "graph"
    /\ IF focus = "plugins" THEN listing \in PluginLists /\ trusted \in BOOLEAN
                            ELSE listing = [own |-> BuiltIn, workspace |-> <<>>] /\ trusted = TRUE
    /\ IF focus = "tools" THEN batch \in ToolBatches /\ setting \in ToolSettings
       ELSE batch = (CHOOSE some \in ToolBatches : TRUE) /\ setting = CHOOSE some \in ToolSettings : TRUE
    /\ IF focus = "index" THEN texts \in [{"f"} -> IndexTexts] ELSE texts = [f \in {"f"} |-> <<>>]
    /\ IF focus = "index" THEN memory \in Index!Memories ELSE memory = "absent"
    /\ IF focus = "tools" THEN file \in Tools!Contents ELSE file = <<"a">>
    /\ IF focus = "knowledge" THEN rows \in Known!Rows ELSE rows = CHOOSE some \in Known!Rows : TRUE
    /\ IF focus = "worktrees" THEN dirty \in BOOLEAN /\ stray \in SUBSET {"x", "y", "z"}
       ELSE dirty = FALSE /\ stray = {}
    /\ IF focus = "model" THEN profile \in Profiles ELSE profile = CHOOSE some \in Profiles : TRUE
    /\ AgentInit /\ DataInit /\ PageInit

(* The vector stores are looked at twice: with one write, of any record,    *)
(* and with two of the same.                                               *)
Part == IF focus = "writes" THEN "vectors" ELSE focus
WritesAreFew ==
    /\ focus = "vectors" => writes' <= 1
    /\ focus = "writes" => \A op \in ops' : op.id = 1

Next ==
    /\ UNCHANGED focus
    /\ IF Part \in AgentParts THEN AgentStep(Part) ELSE UNCHANGED agentVars
    /\ IF Part \in DataParts THEN DataStep(Part) ELSE UNCHANGED dataVars
    /\ IF focus = "page" THEN Page!Next ELSE UNCHANGED pageVars
    /\ WritesAreFew

vars == <<focus, agentVars, dataVars, pageVars>>

Spec == Init /\ [][Next]_vars /\ Stream!Fairness

-----------------------------------------------------------------------------
(* Every part keeps its types.                                             *)
TypeOK ==
    CASE focus = "stream" -> Stream!TypeOK
      [] focus = "terminal" -> Term!TypeOK
      [] focus = "team" -> Team!TypeOK
      [] Part = "vectors" -> Vectors!TypeOK
      [] focus = "legacy" -> Legacy!TypeOK
      [] focus = "catalog" -> Catalog!TypeOK
      [] focus = "page" -> Page!TypeOK
      [] focus = "command" -> Command!TypeOK
      [] focus = "model" -> Model!TypeOK
      [] focus = "talk" -> Talk!TypeOK
      [] focus = "plugins" -> Host!TypeOK
      [] focus = "index" -> Index!TypeOK
      [] focus = "tools" -> Tools!TypeOK
      [] focus = "knowledge" -> Known!TypeOK
      [] focus = "registry" -> Registry!TypeOK
      [] focus = "worktrees" -> Trees!TypeOK

(* Once the result of a run can be read, who follows it returns, unless its  *)
(* look at the run after the last event fails (RunStream).                 *)
FollowEnds == Stream!FollowEnds
=============================================================================
