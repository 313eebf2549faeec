--------------------------- MODULE AgentServices ---------------------------
(***************************************************************************)
(* What works for an agent or its user and shares no state with another    *)
(* part: the team of roles, the sessions of a terminal, external commands, *)
(* the tool calls of a turn, the legacy tasks, the worktrees, the model's  *)
(* client and the conversation with a model.  Each is a process or a       *)
(* request of its own; one moves at a time.                                *)
(***************************************************************************)
EXTENDS Naturals, Sequences

CONSTANTS
    Order, MaxRounds, MaxTurns, MaxChild,       \* AgentTeam
    MaxSessions,                                \* Terminal
    Requests, Tokens, MaxTasks, Limit,          \* LegacyTasks
    RunIds, BranchOf, MaxCommits,               \* Worktrees
    Batches, Settings,                          \* ToolCalls
    Profiles, Minute,                           \* ModelCalls
    Keep, MaxTalk, MaxCalls                     \* Conversation

VARIABLES
    team, phase, queue, seen, first, rounds, actor, turn, failing,
    results, usage, child, checks, verdict,                             \* AgentTeam
    sessions, queued, drains, current, pending, held,                   \* Terminal
    kind, call, outcome, leader, alive, reached, job,                   \* Commands
    req, asked, taskIds, row, engine, state, control, answers, torn,    \* LegacyTasks
    expired, promised,
    head, dirty, branches, trees, stray, task,                          \* Worktrees
    batch, setting, file, at, result, taken, cancelled, meddled, effects,   \* ToolCalls
    profile, ages, late, asleep, sending, request,                      \* ModelCalls
    speaker, messages, turns, said                                      \* Conversation

Team == INSTANCE AgentTeam
Term == INSTANCE Terminal
Command == INSTANCE Commands
Legacy == INSTANCE LegacyTasks
Trees == INSTANCE Worktrees WITH Runs <- RunIds, Cut <- BranchOf
Tools == INSTANCE ToolCalls
Model == INSTANCE ModelCalls
Talk == INSTANCE Conversation WITH MaxTurns <- MaxTalk

(* A batch holds calls of the three file tools; the settings of a run say   *)
(* whether it may write and run hooks.                                     *)
CallRows == [tool : {"read", "edit", "write"}, allowed : BOOLEAN, all : BOOLEAN, overwrite : BOOLEAN,
             text : Seq({"a", "b"})]
SettingRows == [permission : {"read_only", "edit", "execute", "full"}, trusted : BOOLEAN,
                before : Nat, after : Nat]
BatchesAreCalls == Batches \subseteq Seq(CallRows) /\ Settings \subseteq SettingRows

ASSUME TasksAssumption == MaxTasks \in Nat

(* A branch has a name, "zhixiao/...".                                     *)
ASSUME BranchesAssumption == Trees!None \notin Trees!Branches

ASSUME CallsAssumption == BatchesAreCalls

(* A client whose profile allows no request in a minute cannot ask: there   *)
(* is no oldest request to wait for.                                       *)
ASSUME ProfilesAssumption == Profiles \subseteq Model!ProfileRows /\ Minute \in Nat \ {0}

(* keep_pairs is at least 1.                                               *)
ASSUME TalkAssumption == Keep \in Nat \ {0} /\ MaxTalk \in Nat /\ MaxCalls \in Nat

AgentParts == {"team", "terminal", "command", "legacy", "worktrees", "tools", "model", "talk"}

teamVars == <<team, phase, queue, seen, first, rounds, actor, turn, failing, results, usage, child,
             checks, verdict>>
terminalVars == <<sessions, queued, drains, current, pending, held>>
commandVars == <<kind, call, outcome, leader, alive, reached, job>>
legacyVars == <<req, asked, taskIds, row, engine, state, control, answers, torn, expired, promised>>
treeVars == <<head, dirty, branches, trees, stray, task>>
callVars == <<batch, setting, file, at, result, taken, cancelled, meddled, effects>>
modelVars == <<profile, ages, late, asleep, sending, request>>
talkVars == <<speaker, messages, turns, said>>

agentVars == <<teamVars, terminalVars, commandVars, legacyVars, treeVars, callVars,
               modelVars, talkVars>>

AgentInit ==
    /\ Team!Init /\ Term!Init /\ Command!Init /\ Legacy!Init /\ Trees!Init /\ Tools!Init
    /\ Model!Init /\ Talk!Init

AgentStep(part) ==
    /\ IF part = "team" THEN Team!Next ELSE UNCHANGED teamVars
    /\ IF part = "terminal" THEN Term!Next ELSE UNCHANGED terminalVars
    /\ IF part = "command" THEN Command!Next ELSE UNCHANGED commandVars
    /\ IF part = "legacy" THEN Legacy!Next ELSE UNCHANGED legacyVars
    /\ IF part = "worktrees" THEN Trees!Next ELSE UNCHANGED treeVars
    /\ IF part = "tools" THEN Tools!Next ELSE UNCHANGED callVars
    /\ IF part = "model" THEN Model!Next ELSE UNCHANGED modelVars
    /\ IF part = "talk" THEN Talk!Next ELSE UNCHANGED talkVars

AgentNext == \E part \in AgentParts : AgentStep(part)

AgentSpec == AgentInit /\ [][AgentNext]_agentVars

-----------------------------------------------------------------------------
(* A team succeeds only within its budget, with every role and every check  *)
(* having succeeded (metagpt_runtime).                                     *)
SuccessIsEarned == Team!SuccessIsEarned

(* A terminal runs one session at a time, and starts what is queued (tui).  *)
TerminalKeepsOrder == Term!TerminalKeepsOrder

(* A command with a result has ended, with what its kill could reach, which *)
(* is not its whole tree (Commands!TimeoutEndsTree); tool calls that write  *)
(* take effect in the order in which the model asked for them (runner,      *)
(* registry).                                                              *)
ResultIsFinal == Command!ResultIsFinal /\ Tools!CallsTakeEffectInOrder

(* The row, the engine and the stop command agree on a legacy task, and a   *)
(* request with a saved answer creates no other; a run works in a worktree *)
(* and on a branch of its own (task_service, git).                         *)
PlacesAgree == Legacy!PlacesAgree /\ Trees!WorktreeIsOwn

(* The clients of a model keep to its rate, but for those who wake together *)
(* (model); what a model is sent is a conversation, with all that was said  *)
(* (context_compact).                                                      *)
RateIsBounded == Model!RateIsBounded
ConversationIsSound == Talk!ConversationIsSound
=============================================================================
