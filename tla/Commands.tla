------------------------------ MODULE Commands ------------------------------
(***************************************************************************)
(* One external command and the processes it starts: the runners of the    *)
(* terminal and test tools, hooks, MCP servers on stdio and git.  Each     *)
(* waits for the end of the command's output, most with a timeout, after   *)
(* which they kill what they can reach and wait for the output once more.  *)
(***************************************************************************)
EXTENDS Naturals

VARIABLES
    kind,       \* the code that runs the command
    call,       \* new, running, draining (waiting after the kill), over
    outcome,    \* done, timedOut, cancelled or raised, once it is settled
    leader,     \* the process started: none, alive, zombie (ended), gone (reaped)
    alive,      \* its descendants that are still there
    reached,    \* history: the kill found the leader not yet reaped
    job         \* background_command: none, kept in _jobs, stopping, forgotten

vars == <<kind, call, outcome, leader, alive, reached, job>>

Kinds == {"local", "hook", "bwrap", "docker", "mcp", "git"}
Settled == {"done", "timedOut", "cancelled", "raised"}

(* Descendants by whether they stay in the leader's process group and hold  *)
(* its pipes open; what docker runs is neither.                            *)
Descendants == {"member", "quiet", "daemon", "detached", "container"}
InGroup == {"member", "quiet"}
HoldsPipes == {"member", "daemon"}

Init ==
    /\ kind \in Kinds
    /\ call = "new" /\ outcome = "none"
    /\ leader = "none" /\ alive = {}
    /\ reached = FALSE
    /\ job = "none"

-----------------------------------------------------------------------------
(* A policy, an empty command line or the start of the process refuses it.  *)
Refused ==
    /\ call = "new"
    /\ call' = "over" /\ outcome' = "raised"
    /\ UNCHANGED <<kind, leader, alive, reached, job>>

(* The process is started; the client of docker has a container made.       *)
Begins(k, descendants) ==
    /\ kind = k /\ call = "new"
    /\ call' = "running"
    /\ leader' = "alive"
    /\ alive' = descendants
    /\ UNCHANGED <<kind, outcome, reached, job>>

Spawns == Begins("local", {})
SandboxSpawns == Begins("bwrap", {})
ContainerSpawns == Begins("docker", {"container"})
HookSpawns == Begins("hook", {})
ServerSpawns == Begins("mcp", {})
GitSpawns == Begins("git", {})

(* background_command starts it as a task of its own, kept by its id.       *)
StartsJob ==
    /\ kind \in {"local", "bwrap", "docker"} /\ call = "new" /\ job = "none"
    /\ job' = "kept"
    /\ UNCHANGED <<kind, call, outcome, leader, alive, reached>>

Forks(d) ==
    /\ leader = "alive" /\ kind # "docker" /\ d \notin alive \cup {"container"}
    /\ alive' = alive \cup {d}
    /\ UNCHANGED <<kind, call, outcome, leader, reached, job>>

DescendantEnds(d) ==
    /\ d \in alive
    /\ alive' = alive \ {d}
    /\ UNCHANGED <<kind, call, outcome, leader, reached, job>>

(* The leader ends.  A sandbox takes everything in it along, the client of  *)
(* docker ends with its container.                                         *)
LeaderEnds ==
    /\ leader = "alive"
    /\ kind = "docker" => alive = {}
    /\ leader' = "zombie"
    /\ alive' = IF kind = "bwrap" THEN {} ELSE alive
    /\ UNCHANGED <<kind, call, outcome, reached, job>>

(* The event loop learns of it: returncode is set.                         *)
Reaped ==
    /\ leader = "zombie"
    /\ leader' = "gone"
    /\ UNCHANGED <<kind, call, outcome, alive, reached, job>>

(* communicate() returns at the end of the output of a process that ended.  *)
OutputEnds == leader = "gone" /\ alive \cap HoldsPipes = {}

Communicated ==
    /\ call = "running" /\ OutputEnds
    /\ call' = "over" /\ outcome' = "done"
    /\ UNCHANGED <<kind, leader, alive, reached, job>>

-----------------------------------------------------------------------------
(* A leader that is reaped is left alone, and what is below it too.         *)
Killed(survivors) ==
    /\ leader' = IF leader = "gone" THEN leader ELSE "zombie"
    /\ alive' = IF leader = "gone" THEN alive ELSE survivors
    /\ reached' = (reached \/ leader # "gone")

\* Mutant: only the process itself is killed.
KillLeader == Killed(alive)

(* The process group of the leader, by the runner and by the hooks; the     *)
(* sandbox, with which everything in it dies; the client of docker and the *)
(* MCP server, without what is below them.                                 *)
KillTree == Killed(alive \ InGroup)
KillGroup == Killed(alive \ InGroup)
KillSandbox == Killed({})
KillOnly == Killed(alive)

(* The timeout is over; git runs without one.                              *)
Expires(k) ==
    /\ kind = k /\ call = "running"
    /\ call' = "draining" /\ outcome' = "timedOut"
    /\ UNCHANGED <<kind, job>>

TimesOut == Expires("local") /\ KillTree
SandboxTimesOut == Expires("bwrap") /\ KillSandbox
ContainerTimesOut == Expires("docker") /\ KillOnly
HookTimesOut == Expires("hook") /\ KillGroup
ServerTimesOut == Expires("mcp") /\ KillOnly

(* Whoever waits is cancelled: the runners kill and wait once more; a hook, *)
(* an MCP call and git are left to themselves.  While the runner waits     *)
(* after a kill, a cancellation ends the wait.                             *)
Cancelled ==
    /\ outcome' = "cancelled"
    /\ IF call = "running" /\ kind \in {"local", "bwrap", "docker"}
       THEN /\ CASE kind = "local" -> KillTree
                 [] kind = "bwrap" -> KillSandbox
                 [] OTHER -> KillOnly
            /\ call' = "draining"
       ELSE call' = "over" /\ UNCHANGED <<leader, alive, reached>>

Cancel ==
    /\ job = "none" /\ call \in {"running", "draining"}
    /\ Cancelled
    /\ UNCHANGED <<kind, job>>

Drained ==
    /\ call = "draining" /\ OutputEnds
    /\ call' = "over"
    /\ UNCHANGED <<kind, outcome, leader, alive, reached, job>>

-----------------------------------------------------------------------------
(* status: a job that is over is reported and forgotten.                   *)
Status ==
    /\ job = "kept" /\ call = "over"
    /\ job' = "forgotten"
    /\ UNCHANGED <<kind, call, outcome, leader, alive, reached>>

(* terminate: the task is cancelled and waited for; one not yet begun ends  *)
(* at once.                                                                *)
Terminate ==
    /\ job = "kept"
    /\ job' = "stopping"
    /\ IF call \in {"running", "draining"} THEN Cancelled
       ELSE IF call = "new"
            THEN call' = "over" /\ outcome' = "cancelled" /\ UNCHANGED <<leader, alive, reached>>
       ELSE UNCHANGED <<call, outcome, leader, alive, reached>>
    /\ UNCHANGED kind

(* A task that failed raises out of terminate, and stays in _jobs.          *)
Terminated ==
    /\ job = "stopping" /\ call = "over"
    /\ job' = IF outcome = "raised" THEN "kept" ELSE "forgotten"
    /\ UNCHANGED <<kind, call, outcome, leader, alive, reached>>

Next ==
    \/ Refused \/ StartsJob
    \/ Spawns \/ SandboxSpawns \/ ContainerSpawns \/ HookSpawns \/ ServerSpawns \/ GitSpawns
    \/ \E d \in Descendants : Forks(d) \/ DescendantEnds(d)
    \/ LeaderEnds \/ Reaped \/ Communicated
    \/ TimesOut \/ SandboxTimesOut \/ ContainerTimesOut \/ HookTimesOut \/ ServerTimesOut
    \/ Cancel \/ Drained
    \/ Status \/ Terminate \/ Terminated

Spec == Init /\ [][Next]_vars

-----------------------------------------------------------------------------
TypeOK ==
    /\ kind \in Kinds
    /\ call \in {"new", "running", "draining", "over"}
    /\ outcome \in Settled \cup {"none"}
    /\ leader \in {"none", "alive", "zombie", "gone"}
    /\ alive \subseteq Descendants /\ reached \in BOOLEAN
    /\ job \in {"none", "kept", "stopping", "forgotten"}

(* When a command has a result its process is gone and nobody will add to   *)
(* its output; a kill that found the leader ended all of its group, and a  *)
(* sandbox leaves nothing.  This is less than the documentation promises    *)
(* of a timeout: see TimeoutEndsTree, which does not hold.                  *)
ResultIsFinal ==
    call = "over" /\ outcome \in {"done", "timedOut"} =>
        /\ leader = "gone" /\ alive \cap HoldsPipes = {}
        /\ kind = "bwrap" => alive = {}
        /\ kind = "docker" /\ outcome = "done" => alive = {}
        /\ kind \in {"local", "hook"} /\ reached => alive \cap InGroup = {}

(* docs/SECURITY.md: commands have a timeout and the termination of their   *)
(* process tree.  A command of the terminal tools that timed out has left  *)
(* neither a member of its group nor its container running.                *)
TimeoutEndsTree ==
    call = "over" /\ outcome = "timedOut" /\ kind \in {"local", "bwrap", "docker"} =>
        alive \cap (InGroup \cup {"container"}) = {}
=============================================================================
