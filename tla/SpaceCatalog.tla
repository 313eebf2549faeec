---------------------------- MODULE SpaceCatalog ----------------------------
(***************************************************************************)
(* What the members of one space keep in the database: the versions of a   *)
(* workflow, the MCP servers, a repository's index, a member's onboarding. *)
(* Each request reads, decides, and commits; the reads of one request can  *)
(* precede the commit of another, and only unique keys stand between them. *)
(***************************************************************************)
EXTENDS Naturals, Sequences, FiniteSetsExt

CONSTANTS
    Members,        \* the administrators of the space, one request each at a time
    ServerNames,
    GuideSteps,     \* ONBOARDING_STEPS
    MaxRequests     \* bound on the requests made

VARIABLES
    requests,   \* requests made so far
    tx,         \* per member: the request under way: what it has read and will write
    flows,      \* the versions of the workflow, as rows
    servers,    \* the MCP servers, as rows; a deleted one keeps its row
    repo,       \* the status of the repository
    guide,      \* onboarding: steps completed, skipped
    overlapped  \* history: areas in which two requests that exclude each other overlapped

vars == <<requests, tx, flows, servers, repo, guide, overlapped>>

Nothing == [op |-> "none", row |-> 0, name |-> "none", version |-> 0, on |-> FALSE,
            hides |-> {}, done |-> {}, known |-> {}]

Init ==
    /\ requests = 0
    /\ tx = [m \in Members |-> Nothing]
    /\ flows = <<>> /\ servers = <<>> /\ repo = "created"
    /\ guide = [done |-> {}, skipped |-> FALSE]
    /\ overlapped = {}

(* A request begins with its reads ...                                     *)
Begins(m, record) ==
    /\ requests < MaxRequests
    /\ tx[m] = Nothing
    /\ requests' = requests + 1
    /\ tx' = [tx EXCEPT ![m] = record]
    /\ UNCHANGED <<flows, servers, guide, overlapped>>

(* ... and ends with a commit, or with nothing done.                        *)
Ends(m) == tx' = [tx EXCEPT ![m] = Nothing] /\ UNCHANGED requests
Others(m, ops) == {n \in Members \ {m} : tx[n].op \in ops}
Overlaps(m, area, ops) ==
    overlapped' = IF Others(m, ops) # {} THEN overlapped \cup {area} ELSE overlapped

-----------------------------------------------------------------------------
Versions == {flows[i].version : i \in DOMAIN flows}

(* A new workflow is version 1 of its name; an update is a new draft.       *)
CreateFlow(m, on) ==
    /\ flows = <<>>
    /\ Begins(m, [Nothing EXCEPT !.op = "version", !.version = 1, !.on = on])
    /\ UNCHANGED repo

UpdateFlow(m, on) ==
    /\ flows # <<>>
    /\ Begins(m, [Nothing EXCEPT !.op = "version", !.version = Max(Versions) + 1, !.on = on])
    /\ UNCHANGED repo

(* uk_workflow_version refuses the second of two requests that read alike.  *)
CommitVersion(m) ==
    /\ tx[m].op = "version"
    /\ flows' = IF tx[m].version \in Versions THEN flows
                ELSE Append(flows, [version |-> tx[m].version, on |-> tx[m].on, status |-> "draft"])
    /\ Ends(m)
    /\ UNCHANGED <<servers, repo, guide, overlapped>>

Published == {i \in DOMAIN flows : flows[i].status = "published"}

(* A draft that is enabled may be published.                               *)
PublishFlow(m, i) ==
    /\ flows[i].status = "draft" /\ flows[i].on
    /\ Begins(m, [Nothing EXCEPT !.op = "publish", !.row = i, !.hides = Published \ {i}])
    /\ UNCHANGED repo

\* Mutant: the version published before stays published.
CommitPublishBeside(m) ==
    /\ tx[m].op = "publish"
    /\ flows' = [flows EXCEPT ![tx[m].row].status = "published"]
    /\ Overlaps(m, "flows", {"publish"})
    /\ Ends(m)
    /\ UNCHANGED <<servers, repo, guide>>

(* What was published when the request read is archived.                   *)
CommitPublish(m) ==
    /\ tx[m].op = "publish"
    /\ flows' = [i \in DOMAIN flows |->
                    IF i = tx[m].row THEN [flows[i] EXCEPT !.status = "published"]
                    ELSE IF i \in tx[m].hides THEN [flows[i] EXCEPT !.status = "archived"]
                    ELSE flows[i]]
    /\ Overlaps(m, "flows", {"publish"})
    /\ Ends(m)
    /\ UNCHANGED <<servers, repo, guide>>

-----------------------------------------------------------------------------
Named(name) == {i \in DOMAIN servers : servers[i].name = name}
Live(rows) == {i \in rows : servers[i].live}

CreateServer(m, name) ==
    /\ Live(Named(name)) = {}
    /\ Begins(m, [Nothing EXCEPT !.op = "server", !.name = name])
    /\ UNCHANGED repo

(* uk_mcp_server_space_name: the name of a deleted server is not free.      *)
CommitServer(m) ==
    /\ tx[m].op = "server"
    /\ servers' = IF Named(tx[m].name) # {} THEN servers
                  ELSE Append(servers, [name |-> tx[m].name, live |-> TRUE])
    /\ Ends(m)
    /\ UNCHANGED <<flows, repo, guide, overlapped>>

RenameServer(m, i, name) ==
    /\ servers[i].live /\ servers[i].name # name
    /\ Live(Named(name)) = {}
    /\ Begins(m, [Nothing EXCEPT !.op = "rename", !.row = i, !.name = name])
    /\ UNCHANGED repo

CommitRename(m) ==
    /\ tx[m].op = "rename"
    /\ servers' = IF Named(tx[m].name) \ {tx[m].row} # {} THEN servers
                  ELSE [servers EXCEPT ![tx[m].row].name = tx[m].name]
    /\ Ends(m)
    /\ UNCHANGED <<flows, repo, guide, overlapped>>

DeleteServer(m, i) ==
    /\ servers[i].live
    /\ Begins(m, [Nothing EXCEPT !.op = "delete", !.row = i])
    /\ UNCHANGED repo

CommitDelete(m) ==
    /\ tx[m].op = "delete"
    /\ servers' = [servers EXCEPT ![tx[m].row].live = FALSE]
    /\ Ends(m)
    /\ UNCHANGED <<flows, repo, guide, overlapped>>

-----------------------------------------------------------------------------
(* index_repository commits that it indexes, and then what came of it; two  *)
(* requests may do so at once.                                             *)
StartIndex(m) ==
    /\ Begins(m, [Nothing EXCEPT !.op = "index"])
    /\ repo' = "indexing"

EndIndex(m, found) ==
    /\ tx[m].op = "index"
    /\ repo' = IF found THEN "ready" ELSE "error"
    /\ Overlaps(m, "repo", {"index"})
    /\ Ends(m)
    /\ UNCHANGED <<flows, servers, guide>>

-----------------------------------------------------------------------------
(* complete_step, skip and replay write the list of steps they have read.   *)
ReadGuide(m, op, step) ==
    /\ Begins(m, [Nothing EXCEPT !.op = op, !.known = guide.done,
                     !.done = IF op = "complete" THEN guide.done \cup {step}
                              ELSE IF op = "replay" THEN {} ELSE guide.done])
    /\ UNCHANGED repo

(* A column is written only when the request changed it.                    *)
CommitGuide(m) ==
    /\ tx[m].op \in {"complete", "skip", "replay"}
    /\ guide' = [done |-> IF tx[m].done = tx[m].known THEN guide.done ELSE tx[m].done,
                 skipped |-> tx[m].op = "skip"]
    /\ Overlaps(m, "guide", {"complete", "skip", "replay"})
    /\ Ends(m)
    /\ UNCHANGED <<flows, servers, repo>>

-----------------------------------------------------------------------------
(* A request ends without its commit: it raised, or the process died.       *)
Breaks(m) ==
    /\ tx[m] # Nothing
    /\ overlapped' = IF tx[m].op = "index" THEN overlapped \cup {"repo"} ELSE overlapped
    /\ Ends(m)
    /\ UNCHANGED <<flows, servers, repo, guide>>

Next ==
    \E m \in Members :
        \/ \E on \in BOOLEAN : CreateFlow(m, on) \/ UpdateFlow(m, on)
        \/ \E i \in DOMAIN flows : PublishFlow(m, i)
        \/ CommitVersion(m) \/ CommitPublish(m)
        \/ \E name \in ServerNames : CreateServer(m, name)
        \/ \E i \in DOMAIN servers :
              DeleteServer(m, i) \/ \E name \in ServerNames : RenameServer(m, i, name)
        \/ CommitServer(m) \/ CommitRename(m) \/ CommitDelete(m)
        \/ StartIndex(m) \/ \E found \in BOOLEAN : EndIndex(m, found)
        \/ \E step \in GuideSteps : ReadGuide(m, "complete", step)
        \/ \E op \in {"skip", "replay"} : ReadGuide(m, op, "none")
        \/ CommitGuide(m)
        \/ Breaks(m)

Spec == Init /\ [][Next]_vars

-----------------------------------------------------------------------------
Ops == {"none", "version", "publish", "server", "rename", "delete", "index",
        "complete", "skip", "replay"}

TypeOK ==
    /\ requests \in 0..MaxRequests
    /\ \A m \in Members : tx[m].op \in Ops /\ tx[m].done \subseteq GuideSteps
    /\ \A i \in DOMAIN flows : flows[i].status \in {"draft", "published", "archived"}
    /\ \A i \in DOMAIN servers : servers[i].name \in ServerNames
    /\ repo \in {"created", "indexing", "ready", "error"}
    /\ guide.done \subseteq GuideSteps

(* At most one version of a workflow is published, and once one was, one    *)
(* is: unless two requests to publish overlapped.                          *)
OneVersionPublished ==
    "flows" \notin overlapped =>
        /\ Cardinality(Published) <= 1
        /\ (\E i \in DOMAIN flows : flows[i].status # "draft") => Published # {}

(* The versions of a workflow are numbered without gap or repetition, and   *)
(* no two servers have the same name, however requests interleave.         *)
KeysAreSound ==
    /\ Versions = 1..Len(flows)
    /\ \A i, j \in DOMAIN servers : servers[i].name = servers[j].name => i = j

(* A repository is being indexed only while a request does so, unless one   *)
(* died or overlapped another.                                             *)
IndexingEnds ==
    repo = "indexing" /\ "repo" \notin overlapped => \E m \in Members : tx[m].op = "index"

CatalogKeepsOrder == OneVersionPublished /\ KeysAreSound /\ IndexingEnds
=============================================================================
