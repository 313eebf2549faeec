----------------------------- MODULE JobDelivery -----------------------------
(***************************************************************************)
(* What the job stream promises the control plane, without handlers,       *)
(* workers or Redis: a job is taken at most once and in the order it was   *)
(* put, and it is settled only when the result of its run was accepted.    *)
(* A job that was taken may also be refused, or given up and lost: the     *)
(* promise is at-most-once.                                                *)
(***************************************************************************)
EXTENDS Naturals, Sequences

CONSTANT Runs

VARIABLES
    owner,     \* owner[j]: the run of the j-th job
    state,     \* state[j]: where the j-th job is
    accepted   \* the runs whose result was accepted

vars == <<owner, state, accepted>>

Init == owner = <<>> /\ state = <<>> /\ accepted = {}

Put(r) ==
    /\ owner' = Append(owner, r)
    /\ state' = Append(state, "ready")
    /\ UNCHANGED accepted

(* Jobs are taken first in, first out.                                     *)
Take(j) ==
    /\ state[j] = "ready"
    /\ \A i \in DOMAIN state : i < j => state[i] # "ready"
    /\ state' = [state EXCEPT ![j] = "held"]
    /\ UNCHANGED <<owner, accepted>>

Leave(j, s) ==
    /\ state[j] = "held"
    /\ s = "settled" => owner[j] \in accepted
    /\ state' = [state EXCEPT ![j] = s]
    /\ UNCHANGED <<owner, accepted>>

(* A result is accepted for a run of which some job was taken.             *)
Accept(r) ==
    /\ \E j \in DOMAIN state : owner[j] = r /\ state[j] # "ready"
    /\ accepted' = accepted \cup {r}
    /\ UNCHANGED <<owner, state>>

Next ==
    \/ \E r \in Runs : Put(r) \/ Accept(r)
    \/ \E j \in DOMAIN state : Take(j) \/ \E s \in {"settled", "refused", "lost"} : Leave(j, s)

Spec == Init /\ [][Next]_vars
=============================================================================
