--------------------------- MODULE MCRunLifecycle ---------------------------
(* One run, model values for processes, and the permission of the run.      *)
EXTENDS RunLifecycle, TLC

CONSTANTS r1, w1, w2, q1, q2, Mode

MCPermission == [r \in Runs |-> Mode]

(* Workers run one program and so do handlers: neither is told from another *)
(* by an action or by an invariant.  Safety runs only.                      *)
ProcessSymmetry == Permutations(Workers) \cup Permutations(Requests)
=============================================================================
