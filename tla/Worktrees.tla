----------------------------- MODULE Worktrees -----------------------------
(***************************************************************************)
(* The worktrees runs are isolated in: WorktreeManager.create, manifest    *)
(* and remove on one repository, by runs that start at the same time, are  *)
(* resumed, and may die between two git commands.                          *)
(***************************************************************************)
EXTENDS Naturals, FiniteSets

CONSTANTS
    Runs,       \* run ids, each the name of its target directory
    Cut,        \* branch_name: the branch, from the first 64 characters of the id
    MaxCommits  \* bound on the commits made

VARIABLES
    head,       \* HEAD of the source repository: the number of its last commit
    dirty,      \* it has uncommitted changes
    branches,   \* the branches runs have: per branch its base, 0 if there is none
    trees,      \* per run's target: the branch checked out, or None
    stray,      \* targets that are directories but no worktrees
    task        \* per run: the step of prepare_workspace, and the manifest's base_sha

vars == <<head, dirty, branches, trees, stray, task>>

None == "none"
Branches == {Cut[r] : r \in Runs}

Init ==
    /\ head = 1 /\ dirty \in BOOLEAN
    /\ branches = [b \in Branches |-> 0]
    /\ trees = [r \in Runs |-> None]
    /\ stray \in SUBSET Runs
    /\ task = [r \in Runs |-> [step |-> "new", base |-> 0]]

Goes(r, from, to) == task[r].step = from /\ task' = [task EXCEPT ![r].step = to]

-----------------------------------------------------------------------------
(* The source must be clean: uncommitted work would not be in a worktree.   *)
Inspects(r) ==
    /\ Goes(r, "new", IF dirty THEN "failed" ELSE "clean")
    /\ UNCHANGED <<head, dirty, branches, trees, stray>>

(* A directory that is there is taken only if it is a worktree on the run's *)
(* branch.                                                                 *)
Reuses(r) ==
    /\ r \in stray \/ trees[r] # None
    /\ Goes(r, "clean", IF trees[r] = Cut[r] THEN "made" ELSE "failed")
    /\ UNCHANGED <<head, dirty, branches, trees, stray>>

(* git worktree add -b: a new branch at HEAD.                              *)
Adds(r) ==
    /\ r \notin stray /\ trees[r] = None
    /\ IF branches[Cut[r]] # 0
       THEN Goes(r, "clean", "exists") /\ UNCHANGED <<branches, trees>>
       ELSE /\ task[r].step = "clean"
            /\ task' = [task EXCEPT ![r].step = "made"]
            /\ branches' = [branches EXCEPT ![Cut[r]] = head]
            /\ trees' = [trees EXCEPT ![r] = Cut[r]]
    /\ UNCHANGED <<head, dirty, stray>>

\* Mutant: whatever has the branch checked out does not matter.
AddsForced(r) ==
    /\ Goes(r, "exists", "made")
    /\ trees' = [trees EXCEPT ![r] = Cut[r]]
    /\ UNCHANGED <<head, dirty, branches, stray>>

(* The branch is there already: it is checked out as it is, unless another  *)
(* worktree has it, which git refuses.                                     *)
AddsBranch(r) ==
    /\ IF \E q \in Runs : trees[q] = Cut[r]
       THEN Goes(r, "exists", "failed") /\ UNCHANGED trees
       ELSE Goes(r, "exists", "made") /\ trees' = [trees EXCEPT ![r] = Cut[r]]
    /\ UNCHANGED <<head, dirty, branches, stray>>

(* manifest: the base is HEAD of the source now, whatever the branch has.   *)
Manifests(r) ==
    /\ task[r].step = "made"
    /\ task' = [task EXCEPT ![r].step = "working", ![r].base = head]
    /\ UNCHANGED <<head, dirty, branches, trees, stray>>

(* The process dies; the run is started again.                             *)
Restarts(r) ==
    /\ task[r].step # "new"
    /\ task' = [task EXCEPT ![r] = [step |-> "new", base |-> 0]]
    /\ UNCHANGED <<head, dirty, branches, trees, stray>>

(* remove, by an operator, of a run that is not at work: the branch stays.  *)
Remove(r) ==
    /\ trees[r] # None /\ task[r].step \in {"new", "failed"}
    /\ trees' = [trees EXCEPT ![r] = None]
    /\ UNCHANGED <<head, dirty, branches, stray, task>>

(* The user works on the source.                                           *)
Commit ==
    /\ head < MaxCommits
    /\ head' = head + 1 /\ dirty' = FALSE
    /\ UNCHANGED <<branches, trees, stray, task>>

ChangeSource ==
    /\ ~dirty /\ dirty' = TRUE
    /\ UNCHANGED <<head, branches, trees, stray, task>>

Next ==
    \/ \E r \in Runs :
          \/ Inspects(r) \/ Reuses(r) \/ Adds(r) \/ AddsBranch(r) \/ Manifests(r)
          \/ Restarts(r) \/ Remove(r)
    \/ Commit \/ ChangeSource

Spec == Init /\ [][Next]_vars

-----------------------------------------------------------------------------
TypeOK ==
    /\ head \in 1..MaxCommits /\ dirty \in BOOLEAN
    /\ branches \in [Branches -> 0..MaxCommits]
    /\ trees \in [Runs -> Branches \cup {None}]
    /\ \A r \in Runs : task[r].step \in {"new", "clean", "exists", "made", "working", "failed"}

(* A run that works in a worktree is alone on its branch, also with a run   *)
(* whose id begins alike; it is where its id says; and nothing of the run  *)
(* is on a directory that was there for something else.  The base the      *)
(* manifest names is never behind the one its branch has.                  *)
WorktreeIsOwn ==
    \A r \in Runs : task[r].step \in {"made", "working"} =>
        /\ trees[r] = Cut[r] /\ r \notin stray /\ branches[Cut[r]] # 0
        /\ \A q \in Runs \ {r} : trees[q] # Cut[r]
        /\ task[r].step = "working" => branches[Cut[r]] <= task[r].base
=============================================================================
