----------------------------- MODULE AgentTeam ------------------------------
(***************************************************************************)
(* A run of the MetaGPT engine: a team of roles that take turns over one   *)
(* message queue, each acting through a loop of model turns and tool calls *)
(* (one of which may be a sub-agent with a loop of its own), and the       *)
(* verification of what the team did.                                      *)
(***************************************************************************)
EXTENDS Naturals, Sequences, FiniteSetsExt

CONSTANTS
    Order,      \* the roles by name, in the order they were hired
    MaxRounds,  \* max_iterations of the team
    MaxTurns,   \* max_tool_iterations of one act
    MaxChild    \* max_iterations of a sub-agent

VARIABLES
    team,       \* the job: watches, permission, waiver, commands, budget, sub-agents
    phase,      \* hired, idle, acting, delegating, judging, verifying, ended
    queue,      \* the senders of the messages published so far
    seen,       \* per role: how much of the queue it has consumed
    first,      \* the index at which the search for the next role starts
    rounds,     \* acts so far
    actor,      \* the role at work
    turn,       \* model turns of its act
    failing,    \* its act has failed
    results,    \* per role: the result of its last act
    usage,      \* model turns and tool calls that the run's events tell of
    child,      \* the sub-agent at work: its turns, and whether a tool failed
    checks,     \* the verification commands run so far: did they pass
    verdict     \* the RunResult: status and termination reason

vars == <<team, phase, queue, seen, first, rounds, actor, turn, failing,
          results, usage, child, checks, verdict>>
acting == <<team, queue, seen, first, rounds, checks>>
talking == <<queue, seen, first, rounds, actor, turn, failing, results, usage, child>>

Names == {Order[i] : i \in DOMAIN Order}
Senders == Names \cup {"user"}

(* Only a job of full permission, and so one that may write, can have been  *)
(* approved to delegate to sub-agents.                                     *)
Delegable(t) == t.delegates => t.writes

(* The watches of a role: everything, or one sender.                        *)
Teams ==
    {t \in [watch : [Names -> {w \in SUBSET Senders : \A a, b \in w : a = b}],
            writes : BOOLEAN, waived : BOOLEAN, commands : {0, 2},
            turns : {3}, calls : {2}, delegates : BOOLEAN] : Delegable(t)}

Init ==
    /\ team \in Teams
    /\ phase = "hired"
    /\ queue = <<>>
    /\ seen = [r \in Names |-> 0]
    /\ first = 0 /\ rounds = 0
    /\ actor = Order[1] /\ turn = 0 /\ failing = FALSE
    /\ results = [r \in Names |-> "none"]
    /\ usage = [turns |-> 0, calls |-> 0]
    /\ child = [turns |-> 0, error |-> FALSE]
    /\ checks = <<>>
    /\ verdict = [status |-> "running", reason |-> "none"]

Ended(status, reason) ==
    /\ phase' = "ended"
    /\ verdict' = [status |-> status, reason |-> reason]

-----------------------------------------------------------------------------
(* A run that may write is blocked unless it can be verified or is waived.  *)
Blocked ==
    /\ phase = "hired"
    /\ team.writes /\ team.commands = 0 /\ ~ team.waived
    /\ Ended("failed", "verification_blocked")
    /\ UNCHANGED <<team, talking, checks>>

(* Team.run publishes the task.                                            *)
Begins ==
    /\ phase = "hired"
    /\ ~ (team.writes /\ team.commands = 0 /\ ~ team.waived)
    /\ phase' = "idle"
    /\ queue' = <<"user">>
    /\ UNCHANGED <<team, seen, first, rounds, actor, turn, failing, results, usage,
                   child, checks, verdict>>

(* get_messages_for_role: what a role has not consumed, of the senders it   *)
(* watches, itself never.                                                  *)
Unread(r) ==
    {i \in (seen[r] + 1)..Len(queue) :
        queue[i] # r /\ (team.watch[r] = {} \/ queue[i] \in team.watch[r])}

(* _get_next_role: round robin over the roles with something to read.       *)
RoleAt(offset) == Order[((first + offset) % Len(Order)) + 1]
Ready == {k \in 0..(Len(Order) - 1) : Unread(RoleAt(k)) # {}}

(* An act begins: with the role's own tools, or the reading ones, among     *)
(* those of the registry, and with the permission and approvals of the job. *)
ActBegins == phase' = "acting" /\ turn' = 0 /\ failing' = FALSE

(* The next role consumes all it has not read and acts on the last of it.   *)
Assigns ==
    /\ phase = "idle" /\ rounds < MaxRounds /\ Ready # {}
    /\ LET k == Min(Ready) IN
       /\ actor' = RoleAt(k)
       /\ first' = (first + k + 1) % Len(Order)
       /\ seen' = [seen EXCEPT ![RoleAt(k)] = Len(queue)]
    /\ rounds' = rounds + 1
    /\ ActBegins
    /\ UNCHANGED <<team, queue, results, usage, child, checks, verdict>>

(* Nobody has anything to read, or the rounds are used up; clear_queue.     *)
TeamStops ==
    /\ phase = "idle" /\ (rounds = MaxRounds \/ Ready = {})
    /\ phase' = "judging"
    /\ queue' = <<>> /\ seen' = [r \in Names |-> 0]
    /\ UNCHANGED <<team, first, rounds, actor, turn, failing, results, usage, child,
                   checks, verdict>>

-----------------------------------------------------------------------------
(* The end of an act: its result replaces the role's earlier one and its    *)
(* answer is published.                                                    *)
ActEnds(failed) ==
    /\ results' = [results EXCEPT ![actor] = IF failed THEN "failed" ELSE "ok"]
    /\ queue' = Append(queue, actor)
    /\ phase' = "idle"
    /\ turn' = 0 /\ failing' = FALSE
    /\ UNCHANGED <<team, seen, first, rounds, actor, child, checks, verdict>>

(* A turn with tool calls is over: the loop goes on, or is exhausted.       *)
TurnEnds(failed) ==
    IF turn + 1 = MaxTurns THEN ActEnds(TRUE)
    ELSE /\ turn' = turn + 1 /\ failing' = failed
         /\ phase' = "acting"
         /\ UNCHANGED <<acting, actor, results, child, verdict>>

(* The model raises: its turn is counted all the same.                     *)
ModelFails ==
    /\ phase = "acting"
    /\ usage' = [usage EXCEPT !.turns = @ + 1]
    /\ ActEnds(TRUE)

(* A turn without tool calls ends the act; an error of a tool is remembered. *)
Answers ==
    /\ phase = "acting"
    /\ usage' = [usage EXCEPT !.turns = @ + 1]
    /\ ActEnds(failing)

(* Tool calls: one whose result is an error, or that raises, fails the act. *)
Calls(n, bad) ==
    /\ phase = "acting"
    /\ usage' = [turns |-> usage.turns + 1, calls |-> usage.calls + n]
    /\ TurnEnds(failing \/ bad)

(* The sink of the events raises: nothing of the team is kept.             *)
TeamFails ==
    /\ phase = "acting"
    /\ Ended("failed", "model_error")
    /\ UNCHANGED <<team, talking, checks>>

(* A sub-agent begins, one level below its role and so never refused for    *)
(* its depth: it may only read, whatever the job allows, and its own        *)
(* sub_agent calls are among those that the registry answers with an error. *)
ChildBegins ==
    /\ child' = [turns |-> 0, error |-> FALSE]
    /\ phase' = "delegating"

(* The sub_agent tool, where the job allows it.                            *)
Delegates ==
    /\ phase = "acting" /\ team.delegates
    /\ usage' = [usage EXCEPT !.turns = @ + 1]
    /\ ChildBegins
    /\ UNCHANGED <<acting, actor, turn, failing, results, verdict>>

(* What a sub-agent says is the result of a tool that succeeded, whatever   *)
(* its own status is; its turns and calls are no part of the usage.        *)
ChildEnds(raised) ==
    /\ usage' = [usage EXCEPT !.calls = @ + 1]
    /\ TurnEnds(failing \/ raised)

ChildCalls(bad) ==
    /\ phase = "delegating"
    /\ child.turns + 1 < MaxChild
    /\ child' = [turns |-> child.turns + 1, error |-> child.error \/ bad]
    /\ UNCHANGED <<acting, phase, actor, turn, failing, results, usage, verdict>>

(* It answers, or its last iteration is over.                              *)
ChildAnswers == phase = "delegating" /\ ChildEnds(FALSE)

(* Its model, its tool or its sink raises.                                 *)
ChildRaises == phase = "delegating" /\ ChildEnds(TRUE)

-----------------------------------------------------------------------------
(* A role counts by its last result only; a team nobody of which acted has  *)
(* succeeded.                                                              *)
RolesSucceeded == \A r \in Names : results[r] # "failed"

(* The budget is compared with the usage when the team is done: dear stands *)
(* for tokens, cost or time beyond it.                                     *)
OverBudget(dear) == dear \/ usage.turns > team.turns \/ usage.calls > team.calls

Judge(dear) ==
    /\ phase = "judging"
    /\ IF OverBudget(dear) THEN Ended("failed", "budget_exhausted")
       ELSE IF ~ RolesSucceeded THEN Ended("failed", "runtime_error")
       ELSE IF team.commands = 0 THEN Ended("succeeded", "completed")
       ELSE phase' = "verifying" /\ UNCHANGED verdict
    /\ UNCHANGED <<team, talking, checks>>

\* Mutant: all commands are run and the last one decides.
VerifyLast(passes) ==
    /\ phase = "verifying"
    /\ checks' = Append(checks, passes)
    /\ IF Len(checks') < team.commands THEN UNCHANGED <<phase, verdict>>
       ELSE IF passes THEN Ended("succeeded", "completed")
       ELSE Ended("failed", "verification_failed")
    /\ UNCHANGED <<team, talking>>

(* The next verification command; the first that fails ends the run.        *)
Verify(passes) ==
    /\ phase = "verifying"
    /\ checks' = Append(checks, passes)
    /\ IF ~ passes THEN Ended("failed", "verification_failed")
       ELSE IF Len(checks') = team.commands THEN Ended("succeeded", "completed")
       ELSE UNCHANGED <<phase, verdict>>
    /\ UNCHANGED <<team, talking>>

(* The test tool raises: the run has no result, its worker fails the job.   *)
VerifyRaises ==
    /\ phase = "verifying"
    /\ Ended("raised", "none")
    /\ UNCHANGED <<team, talking, checks>>

Next ==
    \/ Blocked \/ Begins \/ Assigns \/ TeamStops
    \/ ModelFails \/ Answers \/ TeamFails
    \/ \E n \in 1..2, bad \in BOOLEAN : Calls(n, bad)
    \/ Delegates \/ ChildAnswers \/ ChildRaises
    \/ \E bad \in BOOLEAN : ChildCalls(bad)
    \/ \E dear \in BOOLEAN : Judge(dear)
    \/ \E passes \in BOOLEAN : Verify(passes)
    \/ VerifyRaises

Spec == Init /\ [][Next]_vars

-----------------------------------------------------------------------------
TypeOK ==
    /\ team \in Teams
    /\ phase \in {"hired", "idle", "acting", "delegating", "judging", "verifying", "ended"}
    /\ queue \in Seq(Senders)
    /\ seen \in [Names -> 0..(MaxRounds + 1)]
    /\ first \in 0..(Len(Order) - 1) /\ rounds \in 0..MaxRounds
    /\ actor \in Names /\ turn \in 0..(MaxTurns - 1) /\ failing \in BOOLEAN
    /\ results \in [Names -> {"none", "ok", "failed"}]
    /\ usage \in [turns : Nat, calls : Nat]
    /\ child \in [turns : 0..(MaxChild - 1), error : BOOLEAN]
    /\ checks \in Seq(BOOLEAN)
    /\ verdict.status \in {"running", "succeeded", "failed", "raised"}

(* A team that succeeded kept to its budget, no role left it with a failed  *)
(* act, and every verification command passed; without a command it either *)
(* could not write or was waived.                                          *)
SuccessIsEarned ==
    verdict.status = "succeeded" =>
        /\ usage.turns <= team.turns /\ usage.calls <= team.calls
        /\ \A r \in Names : results[r] # "failed"
        /\ Len(checks) = team.commands /\ \A i \in DOMAIN checks : checks[i]
        /\ team.commands = 0 => ~ team.writes \/ team.waived
=============================================================================
