--------------------------- MODULE AgentGraphProofs ---------------------------
(***************************************************************************)
(* For every set of configurations, every budget and every number of       *)
(* repairs: an agent run keeps within its budget, changes no file before   *)
(* its approval, ends in success only with its changes verified or waived, *)
(* and never turns a final failure into success.  And a run of AgentGraph   *)
(* is one of AbstractRun under the mapping of AgentRefinement: each node,   *)
(* pause, crash, stop and resumption is a step of the abstract session.     *)
(***************************************************************************)
EXTENDS AgentRefinement, TLAPS

(* The gate seen from every node: a change that was not lost is known to    *)
(* the state (mutated), and before finalize it has been judged.            *)
Judged ==
    /\ dirty /\ ~ lost => s.mutated
    /\ node = "finalize" /\ dirty /\ ~ lost =>
           s.outcome \in {"failed", "blocked"} \/ s.waived
    /\ node = "end" => phase = "ended"
    /\ s.status = "succeeded" => node = "end"

(* Where a run may be that still lacks its approval, and where one that     *)
(* failed for good.                                                        *)
Unapproved ==
    cfg.asks /\ ~ s.approved => ~ dirty /\ node \in {"intake", "plan", "awaiting", "end"}

Doomed ==
    s.reason \in Doom =>
        /\ node \in {"execute", "verify", "repair", "finalize", "end"}
        /\ s.status # "succeeded"

(* A round of repair is only entered while one is left.                     *)
RoundLeft == node = "repair" => s.repairs < MaxRepairs

(* What the checkpoint has counted.                                        *)
Recorded == s.turns <= MaxTurns /\ s.calls <= MaxCalls

(* What really ran, against the checkpoint: the processes that died account *)
(* for the difference.  Between a verification and the repair it calls for *)
(* the tests have run once more than the rounds are counted.               *)
Spending ==
    /\ spent.turns <= s.turns + deaths
    /\ spent.calls <= s.calls + deaths * MaxBatch
    /\ spent.tests <= s.repairs + deaths + 1
    /\ node \notin {"repair", "finalize", "end"} => spent.tests <= s.repairs + deaths

IInv ==
    /\ TypeOK /\ RoundLeft /\ Recorded /\ Spending
    /\ Judged /\ SuccessIsVerified /\ Unapproved /\ Doomed

-----------------------------------------------------------------------------
Meters == [turns : Nat, calls : Nat, tests : Nat]

(* A node's completion keeps the types when its result and successor have   *)
(* theirs.                                                                 *)
LEMMA CompleteType ==
    ASSUME TypeOK, NEW t \in States, NEW n, Complete(t, n), UNCHANGED cfg,
           spent' \in Meters, deaths' \in Nat,
           n \in {"intake", "plan", "awaiting", "prepare_workspace", "execute", "verify",
                  "repair", "finalize", "end"},
           <<stop', exhausted', dirty', touched', lost'>> \in
               BOOLEAN \X BOOLEAN \X BOOLEAN \X BOOLEAN \X BOOLEAN
    PROVE  TypeOK'
BY DEF TypeOK, Complete, Meters

LEMMA FailedType ==
    ASSUME NEW t \in States, NEW why \in Doom
    PROVE  Failed(t, why) \in States
BY DEF Failed, States, Doom

LEMMA InitInvariant == ASSUME Init PROVE IInv
<1>1. Initial \in States
  BY LimitAssumption DEF Initial, States, Doom
<1>2. TypeOK
  BY <1>1 DEF Init, TypeOK
<1>3. QED
  BY <1>2, LimitAssumption
     DEF Init, IInv, RoundLeft, Initial, Recorded, Spending, Judged,
         SuccessIsVerified, Unapproved, Doomed, Doom
-----------------------------------------------------------------------------
Reasons == Doom \cup {"none", "awaiting_approval", "approval_denied", "completed",
                      "verification_failed", "verification_blocked"}

(* The updates of one field that the longer ones below are built from.      *)
LEMMA FieldType ==
    ASSUME NEW t \in States
    PROVE  /\ \A v \in {"running", "verifying", "failed", "succeeded"} : [t EXCEPT !.status = v] \in States
           /\ \A v \in Reasons : [t EXCEPT !.reason = v] \in States
           /\ \A v \in BOOLEAN : [t EXCEPT !.had = v] \in States
           /\ \A v \in BOOLEAN : [t EXCEPT !.mutated = v] \in States
           /\ \A v \in Nat : [t EXCEPT !.turns = v] \in States
           /\ \A v \in Nat : [t EXCEPT !.calls = v] \in States
           /\ \A v \in Nat : [t EXCEPT !.iterations = v] \in States
           /\ \A v \in BOOLEAN : [t EXCEPT !.waived = v] \in States
           /\ \A v \in {"none", "zero", "nonzero"} : [t EXCEPT !.exit = v] \in States
           /\ \A v \in {"skipped", "passed", "failed", "blocked"} :
                 [t EXCEPT !.outcome = v] \in States
<1>1. \A v \in {"running", "verifying", "failed", "succeeded"} : [t EXCEPT !.status = v] \in States
  BY DEF States
<1>2. \A v \in Reasons : [t EXCEPT !.reason = v] \in States
  BY DEF States, Reasons
<1>3. \A v \in BOOLEAN : [t EXCEPT !.had = v] \in States
  BY DEF States
<1>4. \A v \in BOOLEAN : [t EXCEPT !.mutated = v] \in States
  BY DEF States
<1>5. \A v \in Nat : [t EXCEPT !.turns = v] \in States
  BY DEF States
<1>6. \A v \in Nat : [t EXCEPT !.calls = v] \in States
  BY DEF States
<1>7. \A v \in Nat : [t EXCEPT !.iterations = v] \in States
  BY DEF States
<1>8. \A v \in BOOLEAN : [t EXCEPT !.waived = v] \in States
  BY DEF States
<1>9. \A v \in {"none", "zero", "nonzero"} : [t EXCEPT !.exit = v] \in States
  BY DEF States
<1>10. \A v \in {"skipped", "passed", "failed", "blocked"} : [t EXCEPT !.outcome = v] \in States
  BY DEF States
<1>11. QED BY <1>1, <1>2, <1>3, <1>4, <1>5, <1>6, <1>7, <1>8, <1>9, <1>10

LEMMA FieldValues ==
    ASSUME NEW t \in States
    PROVE  /\ t.turns \in Nat /\ t.calls \in Nat /\ t.iterations \in Nat
           /\ t.repairs \in 0..MaxRepairs
           /\ t.mutated \in BOOLEAN /\ t.waived \in BOOLEAN /\ t.approved \in BOOLEAN
           /\ t.reason \in Reasons
BY DEF States, Reasons

(* AfterBatch field by field: no update reads a field updated before it.    *)
LEMMA BatchType ==
    ASSUME s \in States, NEW kind, NEW n \in Nat, NEW looped \in BOOLEAN
    PROVE  AfterBatch(kind, n, looped) \in States
<1> DEFINE t1 == [s EXCEPT !.turns = @ + 1]
           t2 == [t1 EXCEPT !.calls = @ + n]
           t3 == [t2 EXCEPT !.iterations = @ + 1]
           t4 == [t3 EXCEPT !.status = "running"]
           t5 == [t4 EXCEPT !.had = (n > 0)]
           t6 == [t5 EXCEPT !.mutated = @ \/ kind = "write"]
           t7 == [t6 EXCEPT !.reason = IF looped THEN "tool_loop" ELSE @]
<1>0. t7 = AfterBatch(kind, n, looped)
  BY Zenon DEF AfterBatch
<1>1. t1 \in States
  <2>1. s.turns + 1 \in Nat
    BY FieldValues
  <2>2. QED BY <2>1, FieldType, Zenon
<1>2. t2 \in States
  <2> HIDE DEF t1
  <2>1. t1.calls + n \in Nat
    BY <1>1, FieldValues
  <2>2. QED BY <1>1, <2>1, FieldType, Zenon
<1>3. t3 \in States
  <2> HIDE DEF t2
  <2>1. t2.iterations + 1 \in Nat
    BY <1>2, FieldValues
  <2>2. QED BY <1>2, <2>1, FieldType, Zenon
<1>4. t4 \in States
  <2> HIDE DEF t3
  <2>1. QED BY <1>3, FieldType
<1>5. t5 \in States
  <2> HIDE DEF t4
  <2>1. (n > 0) \in BOOLEAN
    OBVIOUS
  <2>2. QED BY <1>4, <2>1, FieldType
<1>6. t6 \in States
  <2> HIDE DEF t5
  <2>1. (t5.mutated \/ kind = "write") \in BOOLEAN
    OBVIOUS
  <2>2. QED BY <1>5, <2>1, FieldType, Zenon
<1>7. t7 \in States
  <2> HIDE DEF t6
  <2>1. CASE looped
    BY <1>6, <2>1, FieldType DEF Doom, Reasons
  <2>2. CASE ~ looped
    <3>1. t7 = t6
      BY <1>6, <2>2 DEF States
    <3>2. QED BY <1>6, <3>1
  <2>3. QED BY <2>1, <2>2
<1>8. QED BY <1>0, <1>7

(* The state verify returns, field by field.                                *)
LEMMA VerdictType ==
    ASSUME s \in States, NEW e \in {"none", "zero", "nonzero"}, NEW w \in BOOLEAN,
           NEW o \in {"skipped", "passed", "failed", "blocked"}
    PROVE  /\ [s EXCEPT !.status = "verifying", !.exit = e, !.waived = w, !.outcome = o] \in States
           /\ [s EXCEPT !.status = "verifying", !.waived = w, !.exit = e, !.outcome = o] \in States
<1> DEFINE t1 == [s EXCEPT !.status = "verifying"]
           t2 == [t1 EXCEPT !.exit = e]
           t3 == [t2 EXCEPT !.waived = w]
           u2 == [t1 EXCEPT !.waived = w]
           u3 == [u2 EXCEPT !.exit = e]
<1>1. t1 \in States
  BY FieldType
<1>2. t2 \in States /\ u2 \in States
  <2> HIDE DEF t1
  <2>1. QED BY <1>1, FieldType
<1>3. t3 \in States /\ u3 \in States
  <2> HIDE DEF t2, u2
  <2>1. QED BY <1>2, FieldType
<1>4. [t3 EXCEPT !.outcome = o] \in States /\ [u3 EXCEPT !.outcome = o] \in States
  <2> HIDE DEF t3, u3
  <2>1. QED BY <1>3, FieldType
<1>5. QED BY <1>4, Zenon

(* Steps that run nothing leave the history of what ran alone; the others   *)
(* add a turn, a batch or a round of tests, and perhaps a death.           *)
LEMMA MeterMoves ==
    ASSUME [Next]_vars
    PROVE  \/ UNCHANGED <<spent, deaths>>
           \/ \E a \in 0..1, n \in 0..MaxBatch, c \in 0..1 :
                 Spend(a, n, c) /\ deaths' \in {deaths, deaths + 1}
<1> USE LimitAssumption
<1>1. CASE \/ Intake \/ PlanFails \/ AwaitPause \/ AwaitDecided \/ Prepare \/ PrepareFails
           \/ StopPauses \/ ExecuteFails \/ VerifySkipped \/ Repair \/ Finalize
  BY <1>1 DEF Intake, PlanFails, AwaitPause, AwaitDecided, Prepare, PrepareFails, StopPauses,
     ExecuteFails, VerifySkipped, Repair, Finalize, env
<1>2. CASE Plan
  BY <1>2 DEF Plan
<1>3. ASSUME NEW kind \in Tools, NEW n \in 0..MaxBatch,
             \/ BatchRefused(kind, n)
             \/ \E looped \in BOOLEAN : BatchRuns(kind, n, looped)
             \/ CrashInBatch(kind, n)
      PROVE  \E m \in 0..MaxBatch : Spend(1, m, 0) /\ deaths' \in {deaths, deaths + 1}
  BY <1>3 DEF BatchRefused, BatchRuns, CrashInBatch, Dies
<1>4. CASE \E passes \in BOOLEAN : VerifyRuns(passes)
  BY <1>4 DEF VerifyRuns
<1>5. CASE CrashInPlan \/ CrashInVerify
  BY <1>5 DEF CrashInPlan, CrashInVerify, Dies
<1>6. CASE Crash \/ RequestStop \/ Exhaust \/ \E decision \in {"approved", "denied"} : Resume(decision)
  BY <1>6 DEF Crash, RequestStop, Exhaust, Resume, env
<1>7. CASE UNCHANGED vars
  BY <1>7 DEF vars
<1> QED
  BY <1>1, <1>2, <1>3, <1>4, <1>5, <1>6, <1>7 DEF Next, Run

(* Either way the history keeps its type.                                  *)
LEMMA MeterType ==
    ASSUME TypeOK, [Next]_vars
    PROVE  spent' \in Meters /\ deaths' \in Nat
BY LimitAssumption, MeterMoves DEF TypeOK, Meters, Spend

LEMMA TypeStep == ASSUME TypeOK, RoundLeft, [Next]_vars PROVE TypeOK'
<1>0. spent' \in Meters /\ deaths' \in Nat
  BY MeterType
<1> USE LimitAssumption, <1>0
<1>1. CASE Intake
  <2>1. [s EXCEPT !.status = "planning"] \in States
    BY DEF TypeOK, States
  <2>2. QED BY <1>1, <2>1, CompleteType DEF Intake, TypeOK, env, given, files
<1>2. CASE PlanFails
  <2>1. Failed(s, "budget_exhausted") \in States /\ Failed(s, "model_error") \in States
    BY FailedType DEF TypeOK, Doom
  <2>2. QED BY <1>2, <2>1, CompleteType DEF PlanFails, TypeOK, env, given, files
<1>3. CASE Plan
  <2> DEFINE t == [s EXCEPT !.turns = @ + 1]
  <2>1. t \in States
    BY DEF TypeOK, States
  <2> HIDE DEF t
  <2>2. [t EXCEPT !.status = "awaiting_approval", !.reason = "awaiting_approval"] \in States
    BY <2>1 DEF States
  <2>3. CASE cfg.asks
    BY <1>3, <2>2, <2>3, CompleteType DEF Plan, TypeOK, env, given, files, t
  <2>4. CASE ~ cfg.asks
    BY <1>3, <2>1, <2>4, CompleteType DEF Plan, TypeOK, env, given, files, t
  <2>5. QED BY <2>3, <2>4
<1>4. CASE AwaitPause
  BY <1>4 DEF AwaitPause, TypeOK, env, given, files, Meters
<1>5. CASE AwaitDecided
  <2>1. [s EXCEPT !.approved = TRUE, !.status = "running", !.reason = "none"] \in States
    BY DEF TypeOK, States
  <2>2. [s EXCEPT !.status = "interrupted", !.reason = "approval_denied"] \in States
    BY DEF TypeOK, States
  <2>3. QED BY <1>5, <2>1, <2>2, CompleteType DEF AwaitDecided, TypeOK, env, given, files
<1>6. CASE Prepare
  <2>1. (IF cfg.isolates THEN [s EXCEPT !.place = "worktree"] ELSE s) \in States
    BY DEF TypeOK, States
  <2>2. QED BY <1>6, <2>1, CompleteType DEF Prepare, TypeOK, env, given, files
<1>7. CASE PrepareFails
  <2>1. Failed(s, "runtime_error") \in States
    BY FailedType DEF TypeOK, Doom
  <2>2. QED BY <1>7, <2>1, CompleteType DEF PrepareFails, TypeOK, env, given, files
<1>8. CASE StopPauses
  BY <1>8 DEF StopPauses, TypeOK, env, given, files, Meters
<1>9. CASE ExecuteFails
  <2>1. Failed(s, "budget_exhausted") \in States /\ Failed(s, "model_error") \in States
    BY FailedType DEF TypeOK, Doom
  <2>2. QED BY <1>9, <2>1, CompleteType DEF ExecuteFails, TypeOK, env, given, files
<1>10. ASSUME NEW kind \in Tools, NEW n \in 0..MaxBatch, BatchRefused(kind, n) PROVE TypeOK'
  <2> DEFINE t == [s EXCEPT !.turns = @ + 1]
  <2>1. t \in States
    BY DEF TypeOK, States
  <2> HIDE DEF t
  <2>2. Failed(t, "budget_exhausted") \in States
    BY <2>1, FailedType DEF Doom
  <2>3. QED BY <1>10, <2>2, CompleteType DEF BatchRefused, TypeOK, env, given, files, t
<1>11. ASSUME NEW kind \in Tools, NEW n \in 0..MaxBatch, NEW looped \in BOOLEAN,
              BatchRuns(kind, n, looped)
       PROVE  TypeOK'
  <2>1. AfterBatch(kind, n, looped) \in States
    BY BatchType DEF TypeOK
  <2>2. AfterExecute(AfterBatch(kind, n, looped)) \in {"execute", "verify"}
    BY DEF AfterExecute
  <2>3. dirty' \in BOOLEAN /\ touched' \in BOOLEAN
    BY <1>11, Zenon DEF BatchRuns, Touch, Changes
  <2>4. stop' = FALSE /\ lost' = lost /\ UNCHANGED <<cfg, exhausted>>
    BY <1>11 DEF BatchRuns, given
  <2>5. Complete(AfterBatch(kind, n, looped), AfterExecute(AfterBatch(kind, n, looped)))
    BY <1>11, Zenon DEF BatchRuns
  <2>6. <<stop', exhausted', dirty', touched', lost'>> \in
               BOOLEAN \X BOOLEAN \X BOOLEAN \X BOOLEAN \X BOOLEAN
    BY <2>3, <2>4 DEF TypeOK
  <2>7. QED BY <2>1, <2>2, <2>4, <2>5, <2>6, CompleteType
<1>12. CASE VerifySkipped
  <2> DEFINE t == [s EXCEPT !.status = "verifying", !.exit = "none", !.waived = cfg.waiver,
                       !.outcome = IF s.mutated /\ ~ cfg.waiver THEN "blocked" ELSE "skipped"]
  <2>1. cfg.waiver \in BOOLEAN
    BY ConfigAssumption DEF TypeOK, ConfigRows
  <2>2. t \in States
    BY <2>1, VerdictType DEF TypeOK
  <2>3. Complete(t, AfterVerify(t))
    BY <1>12, Zenon DEF VerifySkipped
  <2>4. stop' = FALSE /\ UNCHANGED <<cfg, exhausted, dirty, touched, lost>>
    BY <1>12 DEF VerifySkipped, env, given, files
  <2> HIDE DEF t
  <2>5. AfterVerify(t) \in {"repair", "finalize"}
    BY DEF AfterVerify
  <2>6. <<stop', exhausted', dirty', touched', lost'>> \in
               BOOLEAN \X BOOLEAN \X BOOLEAN \X BOOLEAN \X BOOLEAN
    BY <2>4 DEF TypeOK
  <2>7. QED BY <2>2, <2>3, <2>4, <2>5, <2>6, CompleteType
<1>13. ASSUME NEW passes \in BOOLEAN, VerifyRuns(passes) PROVE TypeOK'
  <2> DEFINE t == [s EXCEPT !.status = "verifying", !.waived = FALSE,
                       !.exit = IF passes THEN "zero" ELSE "nonzero",
                       !.outcome = IF passes THEN "passed" ELSE "failed"]
  <2>1. t \in States
    BY VerdictType DEF TypeOK
  <2>2. Complete(t, AfterVerify(t))
    BY <1>13, Zenon DEF VerifyRuns
  <2>3. stop' = FALSE /\ dirty' \in BOOLEAN /\ UNCHANGED <<cfg, exhausted, touched, lost>>
    BY <1>13 DEF VerifyRuns, given
  <2> HIDE DEF t
  <2>4. AfterVerify(t) \in {"repair", "finalize"}
    BY DEF AfterVerify
  <2>5. <<stop', exhausted', dirty', touched', lost'>> \in
               BOOLEAN \X BOOLEAN \X BOOLEAN \X BOOLEAN \X BOOLEAN
    BY <2>3 DEF TypeOK
  <2>6. QED BY <2>1, <2>2, <2>3, <2>4, <2>5, CompleteType
<1>14. CASE Repair
  <2> DEFINE t == [s EXCEPT !.repairs = @ + 1]
  <2>1. s.repairs + 1 \in 0..MaxRepairs
    BY <1>14, FieldValues DEF Repair, At, RoundLeft, TypeOK
  <2>2. t \in States
    BY <2>1 DEF TypeOK, States
  <2> HIDE DEF t
  <2>3. [t EXCEPT !.iterations = 0] \in States
    BY <2>2, FieldType
  <2>4. QED BY <1>14, <2>3, CompleteType DEF Repair, TypeOK, env, given, files, t
<1>15. CASE Finalize
  <2> DEFINE why    == Ending(s)
             status == IF Fails(s, why) THEN "failed" ELSE "succeeded"
             reason == IF why # "none" THEN why
                       ELSE IF s.outcome = "failed" THEN "verification_failed"
                       ELSE IF s.outcome = "blocked" THEN "verification_blocked"
                       ELSE "completed"
             t      == [s EXCEPT !.status = status]
  <2>1. t \in States
    BY FieldType, Zenon DEF TypeOK
  <2>2. reason \in Reasons
    BY FieldValues DEF TypeOK, Ending, Reasons, Doom
  <2> HIDE DEF t, reason
  <2>3. [t EXCEPT !.reason = reason] \in States
    BY <2>1, <2>2, FieldType, Zenon
  <2>4. QED BY <1>15, <2>3, CompleteType DEF Finalize, TypeOK, env, given, files, t, reason
<1>16. ASSUME NEW kind \in Tools, NEW n \in 0..MaxBatch, CrashInBatch(kind, n) PROVE TypeOK'
  <2>1. /\ UNCHANGED <<cfg, exhausted, s, node, answer>> /\ phase' = "dead" /\ stop' = FALSE
        /\ dirty' \in BOOLEAN /\ touched' \in BOOLEAN /\ lost' \in BOOLEAN
    BY <1>16, Zenon DEF CrashInBatch, Dies, Touch, Changes, given
  <2>2. QED BY <2>1 DEF TypeOK, Meters
<1>161. CASE CrashInPlan \/ CrashInVerify
  BY <1>161 DEF CrashInPlan, CrashInVerify, Dies, TypeOK, given, files, Meters
<1>17. CASE Crash \/ RequestStop \/ Exhaust
  BY <1>17 DEF Crash, RequestStop, Exhaust, TypeOK, env, given, files, Meters
<1>18. ASSUME NEW decision \in {"approved", "denied"}, Resume(decision) PROVE TypeOK'
  BY <1>18 DEF Resume, TypeOK, env, given, files, Meters
<1>19. CASE UNCHANGED vars
  BY <1>19 DEF vars, TypeOK, Meters
<1>20. QED
  BY <1>1, <1>2, <1>3, <1>4, <1>5, <1>6, <1>7, <1>8, <1>9, <1>10, <1>11, <1>12, <1>13,
     <1>14, <1>15, <1>16, <1>161, <1>17, <1>18, <1>19 DEF Next, Run

-----------------------------------------------------------------------------
(* The fields of the longer updates.                                       *)
LEMMA BatchFields ==
    ASSUME s \in States, NEW kind, NEW n \in Nat, NEW looped \in BOOLEAN, NEW t,
           t = AfterBatch(kind, n, looped)
    PROVE  /\ t.turns = s.turns + 1 /\ t.calls = s.calls + n /\ t.repairs = s.repairs
           /\ t.status = "running" /\ t.approved = s.approved
           /\ kind = "write" \/ s.mutated => t.mutated
           /\ t.reason = IF looped THEN "tool_loop" ELSE s.reason
BY DEF AfterBatch, States

Rest == RoundLeft /\ Recorded /\ Judged /\ SuccessIsVerified /\ Unapproved /\ Doomed

LEMMA RestStep == ASSUME IInv, [Next]_vars PROVE Rest'
<1> USE LimitAssumption DEF Rest
<1>0. s \in States /\ TypeOK
  BY DEF IInv, TypeOK
<1>1. CASE Intake
  BY <1>0, <1>1 DEF Intake, At, Complete, env, given, files, IInv, RoundLeft, Recorded, Judged,
     SuccessIsVerified, Unapproved, Doomed, States
<1>2. CASE PlanFails
  BY <1>0, <1>2 DEF PlanFails, Failed, At, Complete, env, given, files, IInv, RoundLeft, Recorded, Judged,
     SuccessIsVerified, Unapproved, Doomed, States
<1>3. CASE Plan
  <2>1. s.turns < MaxTurns /\ node = "plan" /\ s.reason \notin Doom
    BY <1>0, <1>3 DEF Plan, At, Over, States, IInv, Doomed
  <2>2. /\ s'.turns = s.turns + 1 /\ s'.calls = s.calls /\ s'.mutated = s.mutated
        /\ s'.status \in {s.status, "awaiting_approval"} /\ s'.approved = s.approved
        /\ s'.reason \in {s.reason, "awaiting_approval"}
        /\ node' \in {"awaiting", "prepare_workspace"} /\ (cfg.asks => node' = "awaiting")
        /\ phase' = "running"
    BY <1>0, <1>3 DEF Plan, Complete, States
  <2>3. UNCHANGED <<cfg, dirty, lost>>
    BY <1>3 DEF Plan, env, given, files
  <2>4. s.turns \in Nat /\ s.status # "succeeded"
    BY <1>0, <2>1 DEF States, IInv, Judged
  <2>5. QED
    BY <1>0, <2>1, <2>2, <2>3, <2>4 DEF IInv, RoundLeft, Recorded, Judged,
       SuccessIsVerified, Unapproved, Doomed, Doom
<1>4. CASE AwaitPause
  BY <1>0, <1>4 DEF AwaitPause, At, env, given, files, IInv, RoundLeft, Recorded, Judged,
     SuccessIsVerified, Unapproved, Doomed
<1>5. CASE AwaitDecided
  <2>1. node = "awaiting" /\ s.reason \notin Doom
    BY <1>0, <1>5 DEF AwaitDecided, At, IInv, Doomed
  <2>2. /\ s'.turns = s.turns /\ s'.calls = s.calls /\ s'.mutated = s.mutated
        /\ s'.status \in {"running", "interrupted"}
        /\ s'.reason \in {"none", "approval_denied"}
        /\ \/ s'.approved = TRUE /\ node' = "prepare_workspace" /\ phase' = "running"
           \/ s'.approved = s.approved /\ node' = "end" /\ phase' = "ended"
    BY <1>0, <1>5 DEF AwaitDecided, Complete, States
  <2>3. UNCHANGED <<cfg, dirty, lost>>
    BY <1>5 DEF AwaitDecided, env, given, files
  <2>4. QED
    BY <1>0, <2>1, <2>2, <2>3 DEF IInv, RoundLeft, Recorded, Judged,
       SuccessIsVerified, Unapproved, Doomed, Doom
<1>6. CASE Prepare
  BY <1>0, <1>6 DEF Prepare, At, Complete, env, given, files, IInv, RoundLeft, Recorded, Judged,
     SuccessIsVerified, Unapproved, Doomed, States
<1>7. CASE PrepareFails
  BY <1>0, <1>7 DEF PrepareFails, Failed, At, Complete, env, given, files, IInv, RoundLeft, Recorded, Judged,
     SuccessIsVerified, Unapproved, Doomed, States, Doom
<1>8. CASE StopPauses
  BY <1>0, <1>8 DEF StopPauses, At, env, given, files, IInv, RoundLeft, Recorded, Judged,
     SuccessIsVerified, Unapproved, Doomed
<1>9. CASE ExecuteFails
  BY <1>0, <1>9 DEF ExecuteFails, Failed, At, Complete, env, given, files, IInv, RoundLeft, Recorded, Judged,
     SuccessIsVerified, Unapproved, Doomed, States, Doom
<1>10. ASSUME NEW kind \in Tools, NEW n \in 0..MaxBatch, BatchRefused(kind, n) PROVE Rest'
  BY <1>0, <1>10 DEF BatchRefused, Turn, Over, Failed, At, Complete, env, given, files, IInv, RoundLeft, Recorded,
     Judged, SuccessIsVerified, Unapproved, Doomed, States, Doom
<1>11. ASSUME NEW kind \in Tools, NEW n \in 0..MaxBatch, NEW looped \in BOOLEAN,
              BatchRuns(kind, n, looped)
       PROVE  Rest'
  <2> DEFINE t == AfterBatch(kind, n, looped)
  <2>1. /\ t.turns = s.turns + 1 /\ t.calls = s.calls + n /\ t.repairs = s.repairs
        /\ t.status = "running" /\ t.approved = s.approved
        /\ kind = "write" \/ s.mutated => t.mutated
        /\ t.reason = IF looped THEN "tool_loop" ELSE s.reason
    BY <1>0, BatchFields
  <2>2. s' = t /\ phase' = "running" /\ node' \in {"execute", "verify"} /\ lost' = lost /\ cfg' = cfg
    BY <1>11 DEF BatchRuns, Complete, AfterExecute, given
  <2>3. dirty' => dirty \/ kind = "write"
    BY <1>11, Zenon DEF BatchRuns, Touch, Changes
  <2>4. node = "execute" /\ s.turns < MaxTurns /\ s.calls + n <= MaxCalls
    BY <1>0, <1>11 DEF BatchRuns, Turn, At, Over, Fits, States
  <2>5. s.turns \in Nat /\ s.calls \in Nat /\ n \in Nat
    BY <1>0 DEF States
  <2> HIDE DEF t
  <2>6. RoundLeft' /\ Recorded'
    BY <2>1, <2>2, <2>4, <2>5 DEF RoundLeft, Recorded
  <2>7. Judged' /\ SuccessIsVerified'
    BY <2>1, <2>2, <2>3 DEF IInv, Judged, SuccessIsVerified
  <2>8. Unapproved' /\ Doomed'
    BY <2>1, <2>2, <2>3, <2>4 DEF IInv, Unapproved, Doomed
  <2>9. QED BY <2>6, <2>7, <2>8
<1>12. CASE VerifySkipped
  BY <1>0, <1>12 DEF VerifySkipped, AfterVerify, At, Complete, env, given, files, IInv, RoundLeft, Recorded, Judged,
     SuccessIsVerified, Unapproved, Doomed, States
<1>13. ASSUME NEW passes \in BOOLEAN, VerifyRuns(passes) PROVE Rest'
  BY <1>0, <1>13 DEF VerifyRuns, AfterVerify, At, Complete, env, given, files, IInv, RoundLeft, Recorded, Judged,
     SuccessIsVerified, Unapproved, Doomed, States
<1>14. CASE Repair
  BY <1>0, <1>14 DEF Repair, At, Complete, env, given, files, IInv, RoundLeft, Recorded, Judged,
     SuccessIsVerified, Unapproved, Doomed, States
<1>15. CASE Finalize
  BY <1>0, <1>15 DEF Finalize, Ending, Fails, At, Complete, env, given, files, IInv, RoundLeft, Recorded, Judged,
     SuccessIsVerified, Unapproved, Doomed, States, Doom
<1>16. ASSUME NEW kind \in Tools, NEW n \in 0..MaxBatch, CrashInBatch(kind, n) PROVE Rest'
  BY <1>0, <1>16 DEF CrashInBatch, Dies, Turn, At, Touch, Changes, given, IInv, RoundLeft, Recorded,
     Judged, SuccessIsVerified, Unapproved, Doomed
<1>161. CASE CrashInPlan \/ CrashInVerify
  BY <1>0, <1>161 DEF CrashInPlan, CrashInVerify, Dies, At, given, files, IInv, RoundLeft, Recorded,
     Judged, SuccessIsVerified, Unapproved, Doomed
<1>17. CASE Crash \/ RequestStop \/ Exhaust
  BY <1>0, <1>17 DEF Crash, RequestStop, Exhaust, env, given, files, IInv, RoundLeft, Recorded, Judged,
     SuccessIsVerified, Unapproved, Doomed
<1>18. ASSUME NEW decision \in {"approved", "denied"}, Resume(decision) PROVE Rest'
  BY <1>0, <1>18 DEF Resume, env, given, files, IInv, RoundLeft, Recorded, Judged,
     SuccessIsVerified, Unapproved, Doomed
<1>19. CASE UNCHANGED vars
  BY <1>0, <1>19 DEF vars, IInv, RoundLeft, Recorded, Judged,
     SuccessIsVerified, Unapproved, Doomed
<1>20. QED
  BY <1>1, <1>2, <1>3, <1>4, <1>5, <1>6, <1>7, <1>8, <1>9, <1>10, <1>11, <1>12, <1>13,
     <1>14, <1>15, <1>16, <1>161, <1>17, <1>18, <1>19 DEF Next, Run
(* One factor more.                                                        *)
LEMMA OneMore == \A a, b \in Nat : (a + 1) * b = a * b + b
OBVIOUS

(* The history stays within what the checkpoint and the deaths allow.       *)
LEMMA SpendStep == ASSUME IInv, [Next]_vars PROVE Spending'
<1> USE LimitAssumption DEF Spending
<1>0. /\ s \in States /\ Spending /\ deaths \in Nat
      /\ spent.turns \in Nat /\ spent.calls \in Nat /\ spent.tests \in Nat
      /\ s.turns \in Nat /\ s.calls \in Nat /\ s.repairs \in Nat
  BY FieldValues DEF IInv, TypeOK
<1>1. deaths * MaxBatch \in Nat /\ (deaths + 1) * MaxBatch = deaths * MaxBatch + MaxBatch
  BY <1>0, OneMore
<1>2. CASE Intake \/ PlanFails \/ AwaitPause \/ Prepare \/ PrepareFails \/ StopPauses \/ ExecuteFails
  BY <1>0, <1>2 DEF Intake, PlanFails, AwaitPause, Prepare, PrepareFails, StopPauses, ExecuteFails,
     At, Complete, Failed, env, States
<1>3. CASE AwaitDecided
  <2>1. /\ s'.turns = s.turns /\ s'.calls = s.calls /\ s'.repairs = s.repairs
        /\ node \notin {"repair", "finalize", "end"} /\ UNCHANGED <<spent, deaths>>
    BY <1>0, <1>3 DEF AwaitDecided, At, Complete, env, States
  <2> QED BY <1>0, <2>1
<1>4. CASE Plan
  <2>1. /\ s'.turns = s.turns + 1 /\ s'.calls = s.calls /\ s'.repairs = s.repairs
        /\ node \notin {"repair", "finalize", "end"}
    BY <1>0, <1>4 DEF Plan, At, Complete, States
  <2>2. /\ spent'.turns = spent.turns + 1 /\ spent'.calls = spent.calls
        /\ spent'.tests = spent.tests /\ deaths' = deaths
    BY <1>0, <1>4 DEF Plan, Spend
  <2> QED BY <1>0, <1>1, <2>1, <2>2
<1>5. ASSUME NEW kind \in Tools, NEW n \in 0..MaxBatch, BatchRefused(kind, n) PROVE Spending'
  <2>1. /\ s'.turns = s.turns + 1 /\ s'.calls = s.calls /\ s'.repairs = s.repairs
        /\ node \notin {"repair", "finalize", "end"}
    BY <1>0, <1>5 DEF BatchRefused, Turn, At, Complete, Failed, States
  <2>2. /\ spent'.turns = spent.turns + 1 /\ spent'.calls = spent.calls
        /\ spent'.tests = spent.tests /\ deaths' = deaths
    BY <1>0, <1>5 DEF BatchRefused, Spend
  <2> QED BY <1>0, <1>1, <2>1, <2>2
<1>6. ASSUME NEW kind \in Tools, NEW n \in 0..MaxBatch, NEW looped \in BOOLEAN,
             BatchRuns(kind, n, looped)
      PROVE  Spending'
  <2>1. s' = AfterBatch(kind, n, looped) /\ node \notin {"repair", "finalize", "end"} /\ n \in Nat
    BY <1>6 DEF BatchRuns, Turn, At, Complete
  <2>2. s'.turns = s.turns + 1 /\ s'.calls = s.calls + n /\ s'.repairs = s.repairs
    BY <1>0, <2>1, BatchFields
  <2>3. /\ spent'.turns = spent.turns + 1 /\ spent'.calls = spent.calls + n
        /\ spent'.tests = spent.tests /\ deaths' = deaths
    BY <1>0, <1>6, <2>1 DEF BatchRuns, Spend
  <2> QED BY <1>0, <1>1, <2>1, <2>2, <2>3
<1>7. CASE VerifySkipped
  <2>1. /\ s'.turns = s.turns /\ s'.calls = s.calls /\ s'.repairs = s.repairs
        /\ node \notin {"repair", "finalize", "end"} /\ UNCHANGED <<spent, deaths>>
    BY <1>0, <1>7 DEF VerifySkipped, At, Complete, env, States
  <2> QED BY <1>0, <2>1
<1>8. ASSUME NEW passes \in BOOLEAN, VerifyRuns(passes) PROVE Spending'
  <2>1. /\ s'.turns = s.turns /\ s'.calls = s.calls /\ s'.repairs = s.repairs
        /\ node \notin {"repair", "finalize", "end"} /\ node' \in {"repair", "finalize"}
    BY <1>0, <1>8 DEF VerifyRuns, AfterVerify, At, Complete, States
  <2>2. /\ spent'.turns = spent.turns /\ spent'.calls = spent.calls
        /\ spent'.tests = spent.tests + 1 /\ deaths' = deaths
    BY <1>0, <1>8 DEF VerifyRuns, Spend
  <2> QED BY <1>0, <1>1, <2>1, <2>2
<1>9. CASE Repair
  <2>1. /\ s'.turns = s.turns /\ s'.calls = s.calls /\ s'.repairs = s.repairs + 1
        /\ UNCHANGED <<spent, deaths>>
    BY <1>0, <1>9 DEF Repair, Complete, env, States
  <2> QED BY <1>0, <1>1, <2>1
<1>10. CASE Finalize
  <2>1. /\ s'.turns = s.turns /\ s'.calls = s.calls /\ s'.repairs = s.repairs
        /\ node' = "end" /\ UNCHANGED <<spent, deaths>>
    BY <1>0, <1>10 DEF Finalize, Complete, env, States
  <2> QED BY <1>0, <2>1
<1>11. ASSUME NEW kind \in Tools, NEW n \in 0..MaxBatch, CrashInBatch(kind, n) PROVE Spending'
  <2>1. UNCHANGED <<s, node>> /\ deaths' = deaths + 1 /\ n \in Nat /\ n <= MaxBatch
    BY <1>11 DEF CrashInBatch, Dies
  <2>2. /\ spent'.turns = spent.turns + 1 /\ spent'.calls = spent.calls + n
        /\ spent'.tests = spent.tests
    BY <1>0, <1>11, <2>1 DEF CrashInBatch, Spend
  <2> QED BY <1>0, <1>1, <2>1, <2>2
<1>12. CASE CrashInPlan
  <2>1. UNCHANGED <<s, node>> /\ deaths' = deaths + 1
    BY <1>12 DEF CrashInPlan, Dies
  <2>2. /\ spent'.turns = spent.turns + 1 /\ spent'.calls = spent.calls
        /\ spent'.tests = spent.tests
    BY <1>0, <1>12 DEF CrashInPlan, Spend
  <2> QED BY <1>0, <1>1, <2>1, <2>2
<1>13. CASE CrashInVerify
  <2>1. UNCHANGED <<s, node>> /\ deaths' = deaths + 1
    BY <1>13 DEF CrashInVerify, Dies
  <2>2. /\ spent'.turns = spent.turns /\ spent'.calls = spent.calls
        /\ spent'.tests = spent.tests + 1
    BY <1>0, <1>13 DEF CrashInVerify, Spend
  <2> QED BY <1>0, <1>1, <2>1, <2>2
<1>14. CASE \/ Crash \/ RequestStop \/ Exhaust
            \/ \E decision \in {"approved", "denied"} : Resume(decision)
            \/ UNCHANGED vars
  BY <1>0, <1>14 DEF Crash, RequestStop, Exhaust, Resume, env, vars
<1> QED
  BY <1>2, <1>3, <1>4, <1>5, <1>6, <1>7, <1>8, <1>9, <1>10, <1>11, <1>12, <1>13, <1>14
     DEF Next, Run

LEMMA Invariant == Spec => []IInv
<1>1. Init => IInv
  BY InitInvariant
<1>2. IInv /\ [Next]_vars => IInv'
  <2> SUFFICES ASSUME IInv, [Next]_vars PROVE IInv'
    OBVIOUS
  <2>1. TypeOK'
    BY TypeStep DEF IInv
  <2>2. Rest'
    BY RestStep
  <2>3. QED BY <2>1, <2>2, SpendStep DEF IInv, Rest
<1>3. QED BY <1>1, <1>2, PTL DEF Spec

(* The states of the graph keep their types, and repair its bound.          *)
THEOREM GraphTypeCorrect == Spec => []TypeOK
<1>1. IInv => TypeOK
  BY DEF IInv
<1>2. QED BY <1>1, Invariant, PTL

(* A run never records a model turn or a tool call beyond its budget,       *)
(* through any number of repairs, pauses, crashes and resumptions, and     *)
(* what ran without a record is at most a turn, a batch and a round of     *)
(* tests for each process that died inside a node.                         *)
THEOREM BudgetIsKept == Spec => []WithinBudget
<1>1. IInv => WithinBudget
  <2> SUFFICES ASSUME IInv PROVE WithinBudget
    OBVIOUS
  <2>1. /\ s \in States /\ deaths \in Nat /\ deaths * MaxBatch \in Nat
        /\ spent.turns \in Nat /\ spent.calls \in Nat /\ spent.tests \in Nat
    BY LimitAssumption, OneMore DEF IInv, TypeOK
  <2>2. s.turns \in Nat /\ s.calls \in Nat /\ s.repairs \in Nat /\ s.repairs <= MaxRepairs
    BY <2>1, FieldValues, LimitAssumption
  <2> QED
    BY <2>1, <2>2, LimitAssumption DEF IInv, Recorded, Spending, WithinBudget
<1>2. QED BY <1>1, Invariant, PTL

(* The verification gate: success leaves no unverified change, unless it    *)
(* was waived or made by a batch whose process died.                       *)
THEOREM GateHolds == Spec => []SuccessIsVerified
<1>1. IInv => SuccessIsVerified
  BY DEF IInv
<1>2. QED BY <1>1, Invariant, PTL

(* A run that asks for the approval of its plan changes nothing before.     *)
THEOREM ApprovalComesFirst == Spec => []ActsOnlyWhenApproved
<1>1. IInv => ActsOnlyWhenApproved
  BY DEF IInv, Unapproved, ActsOnlyWhenApproved
<1>2. QED BY <1>1, Invariant, PTL

LEMMA DoomStays ==
    ASSUME IInv, [Next]_vars, s.reason \in Doom
    PROVE  s'.reason \in Doom
<1>1. s \in States /\ node \in {"execute", "verify", "repair", "finalize", "end"}
  BY DEF IInv, TypeOK, Doomed
<1>2. CASE ExecuteFails
  BY <1>1, <1>2 DEF ExecuteFails, Complete, Failed, States, Doom
<1>3. ASSUME NEW kind \in Tools, NEW n \in 0..MaxBatch, BatchRefused(kind, n)
      PROVE  s'.reason \in Doom
  BY <1>1, <1>3 DEF BatchRefused, Complete, Failed, States, Doom
<1>4. ASSUME NEW kind \in Tools, NEW n \in 0..MaxBatch, NEW looped \in BOOLEAN,
             BatchRuns(kind, n, looped)
      PROVE  s'.reason \in Doom
  <2>1. s' = AfterBatch(kind, n, looped)
    BY <1>4 DEF BatchRuns, Complete
  <2>2. n \in Nat
    BY LimitAssumption
  <2>3. s'.reason = IF looped THEN "tool_loop" ELSE s.reason
    BY <1>1, <2>1, <2>2, BatchFields
  <2>4. QED BY <2>3 DEF Doom
<1>5. CASE VerifySkipped
  BY <1>1, <1>5 DEF VerifySkipped, Complete, States
<1>6. ASSUME NEW passes \in BOOLEAN, VerifyRuns(passes) PROVE s'.reason \in Doom
  BY <1>1, <1>6 DEF VerifyRuns, Complete, States
<1>7. CASE Repair
  BY <1>1, <1>7 DEF Repair, Complete, States
<1>8. CASE Finalize
  BY <1>1, <1>8 DEF Finalize, Complete, Ending, States, Doom
<1>9. CASE Intake \/ PlanFails \/ Plan \/ AwaitPause \/ AwaitDecided \/ Prepare \/ PrepareFails
  BY <1>1, <1>9 DEF Intake, PlanFails, Plan, AwaitPause, AwaitDecided, Prepare, PrepareFails, At
<1>10. CASE StopPauses \/ Crash \/ RequestStop \/ Exhaust
  BY <1>10 DEF StopPauses, Crash, RequestStop, Exhaust, files
<1>11. ASSUME NEW kind \in Tools, NEW n \in 0..MaxBatch, CrashInBatch(kind, n)
       PROVE  s'.reason \in Doom
  BY <1>11 DEF CrashInBatch, Dies
<1>111. CASE CrashInPlan \/ CrashInVerify
  BY <1>111 DEF CrashInPlan, CrashInVerify, Dies
<1>12. ASSUME NEW decision \in {"approved", "denied"}, Resume(decision) PROVE s'.reason \in Doom
  BY <1>12 DEF Resume
<1>13. CASE UNCHANGED vars
  BY <1>13 DEF vars
<1>14. QED
  BY <1>2, <1>3, <1>4, <1>5, <1>6, <1>7, <1>8, <1>9, <1>10, <1>11, <1>111, <1>12,
     <1>13 DEF Next, Run

(* Budget exhaustion, model errors, tool loops and a failed isolation are   *)
(* never turned into success.                                              *)
THEOREM FailureStays == Spec => FailureIsFinal
<1>1. IInv /\ IInv' /\ [Next]_vars =>
          [s.reason \in Doom => s'.reason \in Doom /\ s'.status # "succeeded"]_vars
  <2> SUFFICES ASSUME IInv, IInv', [Next]_vars, s.reason \in Doom
               PROVE  s'.reason \in Doom /\ s'.status # "succeeded"
    OBVIOUS
  <2>1. s'.reason \in Doom
    BY DoomStays
  <2>2. QED BY <2>1 DEF IInv, Doomed
<1>2. QED BY <1>1, Invariant, PTL DEF Spec, FailureIsFinal

-----------------------------------------------------------------------------
(* What an image is a record of; a session's outcome is any status here.    *)
Shown == [stage : {"planning", "asking", "working", "ended"},
          outcome : {"none", "pending", "planning", "awaiting_approval", "running", "verifying",
                     "interrupted", "failed", "succeeded"},
          answer : {"none", "approved", "denied"}, stop : BOOLEAN, live : BOOLEAN]

(* Records of the same fields are the same.                                *)
LEMMA SameRecord ==
    ASSUME NEW c \in Shown, NEW d \in Shown, c.stage = d.stage, c.outcome = d.outcome,
           c.answer = d.answer, c.stop = d.stop, c.live = d.live
    PROVE  c = d
BY DEF Shown

(* What Goes does, field by field.                                         *)
LEMMA GoesFields ==
    ASSUME NEW c \in Shown, NEW b \in {"planning", "asking", "working"}
    PROVE  LET d == Session!Goes(c, b) IN
           /\ d \in Shown /\ d.stage = b /\ d.outcome = c.outcome
           /\ d.answer = "none" /\ d.stop = c.stop /\ d.live = c.live
BY DEF Session!Goes, Shown

(* And Ends.                                                               *)
LEMMA EndsFields ==
    ASSUME NEW c \in Shown, NEW o \in {"succeeded", "failed", "interrupted"}
    PROVE  LET d == Session!Ends(c, o) IN
           /\ d \in Shown /\ d.stage = "ended" /\ d.outcome = o
           /\ d.answer = "none" /\ d.stop = c.stop /\ d.live = FALSE
BY DEF Session!Ends, Shown

(* The steps of a session, as relations between its fields.                *)
GoesTo(c, d, stage) ==
    d.stage = stage /\ d.outcome = c.outcome /\ d.answer = "none" /\ d.live = c.live
EndsWith(c, d, outcome) ==
    d.stage = "ended" /\ d.outcome = outcome /\ d.answer = "none" /\ d.live = FALSE

(* A record with the fields Goes gives is what it makes.                   *)
LEMMA Gone ==
    ASSUME NEW c \in Shown, NEW d \in Shown, NEW b \in {"planning", "asking", "working"},
           GoesTo(c, d, b), d.stop = c.stop
    PROVE  d = Session!Goes(c, b)
<1> DEFINE e == Session!Goes(c, b)
<1>1. /\ e \in Shown /\ e.stage = b /\ e.outcome = c.outcome
      /\ e.answer = "none" /\ e.stop = c.stop /\ e.live = c.live
  BY GoesFields
<1> HIDE DEF e
<1>2. d = e
  BY <1>1, SameRecord DEF GoesTo
<1> QED
  BY <1>2 DEF e

(* Likewise for an end.                                                    *)
LEMMA Ended ==
    ASSUME NEW c \in Shown, NEW d \in Shown, NEW o \in {"succeeded", "failed", "interrupted"},
           EndsWith(c, d, o), d.stop = c.stop
    PROVE  d = Session!Ends(c, o)
<1> DEFINE e == Session!Ends(c, o)
<1>1. /\ e \in Shown /\ e.stage = "ended" /\ e.outcome = o
      /\ e.answer = "none" /\ e.stop = c.stop /\ e.live = FALSE
  BY EndsFields
<1> HIDE DEF e
<1>2. d = e
  BY <1>1, SameRecord DEF EndsWith
<1> QED
  BY <1>2 DEF e

(* A plan is made, asked about, acted on, or fails.                        *)
LEMMA PlanningSteps ==
    ASSUME NEW c \in Shown, NEW d \in Shown, c.stage = "planning", d.stop = c.stop,
           \/ GoesTo(c, d, "planning") \/ GoesTo(c, d, "asking") \/ GoesTo(c, d, "working")
           \/ EndsWith(c, d, "failed")
    PROVE  d \in Session!SessionSteps(c)
<1>0. Session!SessionSteps(c) =
          {Session!Goes(c, "planning"), Session!Goes(c, "asking"), Session!Goes(c, "working"),
           Session!Ends(c, "failed")}
  BY DEF Session!SessionSteps
<1>1. ASSUME NEW b \in {"planning", "asking", "working"}, GoesTo(c, d, b)
      PROVE  d = Session!Goes(c, b)
  BY <1>1, Gone
<1>2. ASSUME EndsWith(c, d, "failed")
      PROVE  d = Session!Ends(c, "failed")
  BY <1>2, Ended
<1> QED
  BY <1>0, <1>1, <1>2

(* An answer decides.                                                      *)
LEMMA AskingSteps ==
    ASSUME NEW c \in Shown, NEW d \in Shown, c.stage = "asking", d.stop = c.stop,
           \/ c.answer = "approved" /\ GoesTo(c, d, "working")
           \/ c.answer = "denied" /\ EndsWith(c, d, "interrupted")
    PROVE  d \in Session!SessionSteps(c)
<1>1. CASE c.answer = "approved" /\ GoesTo(c, d, "working")
  <2>1. d = Session!Goes(c, "working")
    BY <1>1, Gone
  <2> QED
    BY <1>1, <2>1 DEF Session!SessionSteps
<1>2. CASE c.answer = "denied" /\ EndsWith(c, d, "interrupted")
  <2>1. d = Session!Ends(c, "interrupted")
    BY <1>2, Ended
  <2> QED
    BY <1>2, <2>1 DEF Session!SessionSteps
<1> QED
  BY <1>1, <1>2

(* A pause leaves everything but the process, and the stop file it was for. *)
LEMMA PauseSteps ==
    ASSUME NEW c \in Shown, NEW d \in Shown, c.answer = "none",
           d.stage = c.stage, d.outcome = c.outcome, d.answer = "none", d.live = FALSE,
           \/ c.stage = "asking" /\ d.stop = c.stop
           \/ c.stage = "working" /\ c.stop /\ d.stop = FALSE
    PROVE  d \in Session!SessionSteps(c)
<1>1. CASE c.stage = "asking" /\ d.stop = c.stop
  <2>1. LET e == [c EXCEPT !.live = FALSE] IN
        /\ e \in Shown /\ e.stage = c.stage /\ e.outcome = c.outcome
        /\ e.answer = c.answer /\ e.stop = c.stop /\ e.live = FALSE
    BY DEF Shown
  <2>2. d = [c EXCEPT !.live = FALSE]
    BY <1>1, <2>1, SameRecord
  <2> QED
    BY <1>1, <2>2 DEF Session!SessionSteps
<1>2. CASE c.stage = "working" /\ c.stop /\ d.stop = FALSE
  <2>1. LET e == [c EXCEPT !.stop = FALSE, !.live = FALSE] IN
        /\ e \in Shown /\ e.stage = c.stage /\ e.outcome = c.outcome
        /\ e.answer = c.answer /\ e.stop = FALSE /\ e.live = FALSE
    BY DEF Shown
  <2>2. d = [c EXCEPT !.stop = FALSE, !.live = FALSE]
    BY <1>2, <2>1, SameRecord
  <2> QED
    BY <1>2, <2>2 DEF Session!SessionSteps
<1> QED
  BY <1>1, <1>2

(* Work goes on unless a stop file is to be heeded; it may end either way.  *)
LEMMA WorkingSteps ==
    ASSUME NEW c \in Shown, NEW d \in Shown, c.stage = "working",
           \/ /\ ~ (c.stop /\ c.answer = "none") /\ GoesTo(c, d, "working")
              /\ d.stop = c.stop \/ d.stop = FALSE
           \/ /\ EndsWith(c, d, "succeeded") \/ EndsWith(c, d, "failed")
              /\ d.stop = c.stop
    PROVE  d \in Session!SessionSteps(c)
<1>1. CASE ~ (c.stop /\ c.answer = "none") /\ GoesTo(c, d, "working") /\ d.stop = c.stop
  <2>1. d = Session!Goes(c, "working")
    BY <1>1, Gone
  <2> QED
    BY <1>1, <2>1 DEF Session!SessionSteps
<1>2. CASE ~ (c.stop /\ c.answer = "none") /\ GoesTo(c, d, "working") /\ d.stop = FALSE
  <2> DEFINE e == Session!Goes(c, "working")
  <2>1. /\ e \in Shown /\ e.stage = "working" /\ e.outcome = c.outcome
        /\ e.answer = "none" /\ e.live = c.live
    BY GoesFields
  <2> HIDE DEF e
  <2>2. LET f == [e EXCEPT !.stop = FALSE] IN
        /\ f \in Shown /\ f.stage = "working" /\ f.outcome = c.outcome
        /\ f.answer = "none" /\ f.live = c.live /\ f.stop = FALSE
    BY <2>1 DEF Shown
  <2>3. d = [e EXCEPT !.stop = FALSE]
    BY <1>2, <2>2, SameRecord DEF GoesTo
  <2> QED
    BY <1>2, <2>3 DEF Session!SessionSteps, e
<1>3. ASSUME NEW o \in {"succeeded", "failed"}, EndsWith(c, d, o), d.stop = c.stop
      PROVE  d \in Session!SessionSteps(c)
  <2>1. d = Session!Ends(c, o)
    BY <1>3, Ended
  <2> QED
    BY <2>1 DEF Session!SessionSteps
<1> QED
  BY <1>1, <1>2, <1>3

-----------------------------------------------------------------------------
(* The image of a state, and that of the next one.                         *)
LEMMA Images ==
    ASSUME TypeOK
    PROVE  /\ Image \in Shown
           /\ Image.stage = StageOf(node)
           /\ Image.outcome = IF node = "end" THEN s.status ELSE "none"
           /\ Image.answer = IF phase = "running" THEN answer ELSE "none"
           /\ Image.stop = stop
           /\ Image.live <=> phase = "running"
BY DEF TypeOK, Image, StageOf, Shown, States

(* The next image is typed too.                                            *)
LEMMA NextImage ==
    ASSUME TypeOK'
    PROVE  Image' \in Shown
BY DEF TypeOK, Image, StageOf, Shown, States

(* The stages of the nodes.                                                *)
LEMMA Stages ==
    ASSUME TypeOK
    PROVE  /\ StageOf("awaiting") = "asking" /\ StageOf("plan") = "planning"
           /\ StageOf("intake") = "planning" /\ StageOf("end") = "ended"
           /\ \A n \in {"prepare_workspace", "execute", "verify", "repair", "finalize"} :
                 StageOf(n) = "working"
BY DEF StageOf

(* A node that completes without ending the run goes to the stage of its    *)
(* successor; one that ends it ends with the status of its result.         *)
LEMMA NodeCompletes ==
    ASSUME TypeOK, TypeOK', NEW t, NEW n, phase = "running", node # "end", Complete(t, n)
    PROVE  /\ Image'.stop = stop'
           /\ n # "end" => GoesTo(Image, Image', StageOf(n))
           /\ n = "end" => EndsWith(Image, Image', t.status)
<1>1. /\ Image'.stage = StageOf(n) /\ Image'.answer = "none" /\ Image'.stop = stop'
      /\ Image'.outcome = IF n = "end" THEN t.status ELSE "none"
      /\ Image'.live = (n # "end")
  BY DEF Complete, Image
<1>2. Image.outcome = "none" /\ Image.live = TRUE
  BY DEF Image
<1> QED
  BY <1>1, <1>2, Stages DEF GoesTo, EndsWith

(* The nodes before the workspace: a plan is made, or the run ends failed.  *)
LEMMA PlanningNodes ==
    ASSUME TypeOK, TypeOK', Intake \/ PlanFails \/ Plan
    PROVE  Session!Works
<1>1. phase = "running" /\ node \in {"intake", "plan"} /\ stop' = stop
  BY DEF Intake, PlanFails, Plan, At
<1>2. Image \in Shown /\ Image' \in Shown /\ Image.stage = "planning" /\ Image.live /\ Image.stop = stop
  BY <1>1, Images, NextImage, Stages
<1>3. PICK t, n : /\ Complete(t, n)
                  /\ n \in {"plan", "awaiting", "prepare_workspace", "end"}
                  /\ n = "end" => t.status = "failed"
  <2>1. Failed(s, "budget_exhausted").status = "failed" /\ Failed(s, "model_error").status = "failed"
    BY DEF Failed, TypeOK, States
  <2> QED
    BY <2>1 DEF Intake, PlanFails, Plan
<1>4. /\ Image'.stop = stop'
      /\ n # "end" => GoesTo(Image, Image', StageOf(n))
      /\ n = "end" => EndsWith(Image, Image', "failed")
  BY <1>1, <1>3, NodeCompletes
<1>5. Image' \in Session!SessionSteps(Image)
  BY <1>1, <1>2, <1>3, <1>4, Stages, PlanningSteps
<1> QED
  BY <1>2, <1>5 DEF Session!Works

(* The node that asks pauses, or is decided.                               *)
LEMMA AskingNodes ==
    ASSUME TypeOK, TypeOK', AwaitPause \/ AwaitDecided
    PROVE  Session!Works
<1>1. phase = "running" /\ node = "awaiting" /\ stop' = stop
  BY DEF AwaitPause, AwaitDecided, At
<1>2. /\ Image \in Shown /\ Image' \in Shown /\ Image.stage = "asking"
      /\ Image.live /\ Image.stop = stop /\ Image.answer = answer /\ Image.outcome = "none"
  BY <1>1, Images, NextImage, Stages
<1>3. CASE AwaitPause
  <2>1. /\ answer = "none" /\ Image'.stage = "asking" /\ Image'.outcome = "none"
        /\ Image'.answer = "none" /\ Image'.stop = stop /\ Image'.live = FALSE
    BY <1>1, <1>3, Stages DEF AwaitPause, Image
  <2>2. Image' \in Session!SessionSteps(Image)
    BY <1>2, <2>1, PauseSteps
  <2> QED
    BY <1>2, <2>2 DEF Session!Works
<1>4. CASE AwaitDecided
  <2>1. PICK t, n : /\ Complete(t, n)
                    /\ \/ answer = "approved" /\ n = "prepare_workspace"
                       \/ answer = "denied" /\ n = "end" /\ t.status = "interrupted"
    <3>1. [s EXCEPT !.status = "interrupted", !.reason = "approval_denied"].status = "interrupted"
      BY DEF TypeOK, States
    <3> QED
      BY <1>4, <3>1 DEF AwaitDecided, TypeOK
  <2>2. /\ Image'.stop = stop'
        /\ n # "end" => GoesTo(Image, Image', StageOf(n))
        /\ n = "end" => EndsWith(Image, Image', t.status)
    BY <1>1, <2>1, NodeCompletes
  <2>3. Image' \in Session!SessionSteps(Image)
    BY <1>1, <1>2, <2>1, <2>2, Stages, AskingSteps
  <2> QED
    BY <1>2, <2>3 DEF Session!Works
<1> QED
  BY <1>3, <1>4

(* Nodes that look for the stop file before they do anything.              *)
LEMMA HeedingNodes ==
    ASSUME TypeOK, TypeOK', phase = "running", node \in {"execute", "verify"}, ~ Heeds, ~ stop',
           NEW t, NEW n \in {"execute", "verify", "repair", "finalize"}, Complete(t, n)
    PROVE  Session!Works
<1>1. /\ Image \in Shown /\ Image' \in Shown /\ Image.stage = "working"
      /\ Image.live /\ Image.stop = stop /\ Image.answer = answer
  BY Images, NextImage, Stages
<1>2. Image'.stop = FALSE /\ GoesTo(Image, Image', "working")
  BY <1>1, NodeCompletes, Stages DEF TypeOK, Shown
<1>3. Image' \in Session!SessionSteps(Image)
  BY <1>1, <1>2, WorkingSteps DEF Heeds
<1> QED
  BY <1>1, <1>3 DEF Session!Works

(* Nodes that leave the stop file to the next one.                         *)
LEMMA PassingNodes ==
    ASSUME TypeOK, TypeOK', phase = "running", node \in {"prepare_workspace", "repair"},
           stop' = stop, NEW t, Complete(t, "execute")
    PROVE  Session!Works \/ Image' = Image
<1>1. /\ Image \in Shown /\ Image' \in Shown /\ Image.stage = "working"
      /\ Image.live /\ Image.stop = stop /\ Image.answer = answer
  BY Images, NextImage, Stages
<1>2. Image'.stop = Image.stop /\ GoesTo(Image, Image', "working")
  BY <1>1, NodeCompletes, Stages
<1>3. CASE Heeds
  <2>1. Image' = Image
    BY <1>1, <1>2, <1>3, SameRecord DEF GoesTo, Heeds
  <2> QED
    BY <2>1
<1>4. CASE ~ Heeds
  <2>1. Image' \in Session!SessionSteps(Image)
    BY <1>1, <1>2, <1>4, WorkingSteps DEF Heeds
  <2> QED
    BY <1>1, <2>1 DEF Session!Works
<1> QED
  BY <1>3, <1>4

(* Every node from the workspace to the gate.                              *)
LEMMA WorkingNodes ==
    ASSUME TypeOK, TypeOK',
           \/ Prepare \/ PrepareFails \/ StopPauses \/ ExecuteFails
           \/ \E kind \in Tools, n \in 0..MaxBatch :
                 BatchRefused(kind, n) \/ \E looped \in BOOLEAN : BatchRuns(kind, n, looped)
           \/ VerifySkipped \/ (\E passes \in BOOLEAN : VerifyRuns(passes))
           \/ Repair \/ Finalize
    PROVE  Session!Works \/ Image' = Image
<1>1. CASE Prepare \/ PrepareFails \/ Repair
  BY <1>1, PassingNodes DEF Prepare, PrepareFails, Repair, At
<1>2. CASE ExecuteFails
  BY <1>2, HeedingNodes DEF ExecuteFails, At
<1>3. ASSUME NEW kind \in Tools, NEW n \in 0..MaxBatch, BatchRefused(kind, n)
      PROVE  Session!Works
  BY <1>3, HeedingNodes DEF BatchRefused, Turn, At
<1>4. ASSUME NEW kind \in Tools, NEW n \in 0..MaxBatch, NEW looped \in BOOLEAN,
             BatchRuns(kind, n, looped)
      PROVE  Session!Works
  <2>1. PICK t : Complete(t, AfterExecute(t))
    BY <1>4 DEF BatchRuns
  <2>2. AfterExecute(t) \in {"execute", "verify"}
    BY DEF AfterExecute
  <2> QED
    BY <1>4, <2>1, <2>2, HeedingNodes DEF BatchRuns, Turn, At
<1>5. ASSUME VerifySkipped \/ \E passes \in BOOLEAN : VerifyRuns(passes)
      PROVE  Session!Works
  <2>1. PICK t : Complete(t, AfterVerify(t))
    BY <1>5 DEF VerifySkipped, VerifyRuns
  <2>2. AfterVerify(t) \in {"repair", "finalize"}
    BY DEF AfterVerify
  <2>3. phase = "running" /\ node = "verify" /\ ~ Heeds /\ ~ stop'
    BY <1>5 DEF VerifySkipped, VerifyRuns, At
  <2> QED
    BY <2>1, <2>2, <2>3, HeedingNodes
<1>6. CASE StopPauses
  <2>1. /\ phase = "running" /\ node \in {"execute", "verify"} /\ stop /\ answer = "none"
        /\ phase' = "paused" /\ ~ stop' /\ UNCHANGED <<s, node, answer>>
    BY <1>6 DEF StopPauses, At, Heeds
  <2>2. /\ Image \in Shown /\ Image' \in Shown /\ Image.stage = "working" /\ Image.outcome = "none"
        /\ Image.live /\ Image.stop /\ Image.answer = "none"
    BY <2>1, Images, NextImage, Stages
  <2>3. /\ Image'.stage = "working" /\ Image'.outcome = "none" /\ Image'.answer = "none"
        /\ Image'.stop = FALSE /\ Image'.live = FALSE
    BY <2>1, Stages DEF Image, TypeOK
  <2>4. Image' \in Session!SessionSteps(Image)
    BY <2>2, <2>3, PauseSteps
  <2> QED
    BY <2>2, <2>4 DEF Session!Works
<1>7. CASE Finalize
  <2>1. PICK t : Complete(t, "end") /\ t.status \in {"failed", "succeeded"}
    <3> DEFINE why == Ending(s)
               o == IF Fails(s, why) THEN "failed" ELSE "succeeded"
               w == IF why # "none" THEN why
                    ELSE IF s.outcome = "failed" THEN "verification_failed"
                    ELSE IF s.outcome = "blocked" THEN "verification_blocked"
                    ELSE "completed"
               t == [s EXCEPT !.status = o, !.reason = w]
    <3>1. Complete(t, "end")
      BY <1>7, Zenon DEF Finalize
    <3>2. o \in {"failed", "succeeded"} /\ w \in Reasons
      BY DEF TypeOK, States, Reasons, Doom, Ending
    <3> HIDE DEF o, w
    <3>3. t.status = o
      BY <3>2 DEF TypeOK, States, Reasons
    <3> QED
      BY <3>1, <3>2, <3>3
  <2>2. /\ phase = "running" /\ node = "finalize" /\ stop' = stop
    BY <1>7 DEF Finalize, At
  <2>3. /\ Image \in Shown /\ Image' \in Shown /\ Image.stage = "working"
        /\ Image.live /\ Image.stop = stop
    BY <2>2, Images, NextImage, Stages
  <2>4. Image'.stop = stop' /\ EndsWith(Image, Image', t.status)
    BY <2>1, <2>2, NodeCompletes
  <2>5. Image' \in Session!SessionSteps(Image)
    BY <2>1, <2>2, <2>3, <2>4, WorkingSteps
  <2> QED
    BY <2>3, <2>5 DEF Session!Works
<1> QED
  BY <1>1, <1>2, <1>3, <1>4, <1>5, <1>6, <1>7

-----------------------------------------------------------------------------
(* A process that dies, whatever node it is at.                            *)
LEMMA Deaths ==
    ASSUME TypeOK, TypeOK', \/ Crash \/ CrashInPlan \/ CrashInVerify
                          \/ \E kind \in Tools, n \in 0..MaxBatch : CrashInBatch(kind, n)
    PROVE  Session!Dies
<1>1. /\ phase = "running" /\ phase' = "dead" /\ UNCHANGED <<s, node, answer>>
      /\ \/ stop' = stop
         \/ node \in {"execute", "verify"} /\ ~ Heeds /\ ~ stop'
  BY DEF Crash, CrashInPlan, CrashInVerify, CrashInBatch, Dies, Turn, At
<1>2. /\ Image \in Shown /\ Image' \in Shown /\ Image.live /\ Image.stop = stop
      /\ Image.answer = answer
  BY <1>1, Images, NextImage
<1>3. /\ Image'.stage = Image.stage /\ Image'.outcome = Image.outcome /\ Image'.answer = "none"
      /\ Image'.stop = stop' /\ Image'.live = FALSE
  BY <1>1 DEF Image
<1>4. ASSUME NEW c \in Shown, c.stage = Image.stage, c.outcome = Image.outcome, c.stop = stop'
      PROVE  Image' = [c EXCEPT !.live = FALSE, !.answer = "none"]
  <2> DEFINE e == [c EXCEPT !.live = FALSE, !.answer = "none"]
  <2>1. /\ e \in Shown /\ e.stage = c.stage /\ e.outcome = c.outcome /\ e.stop = c.stop
        /\ e.answer = "none" /\ e.live = FALSE
    BY DEF Shown
  <2> HIDE DEF e
  <2>2. Image' = e
    BY <1>2, <1>3, <1>4, <2>1, SameRecord
  <2> QED
    BY <2>2 DEF e
<1>5. CASE stop' = stop
  <2>1. Image' = [Image EXCEPT !.live = FALSE, !.answer = "none"]
    BY <1>2, <1>4, <1>5
  <2> QED
    BY <1>2, <2>1 DEF Session!Dies
<1>6. CASE node \in {"execute", "verify"} /\ ~ Heeds /\ ~ stop'
  <2> DEFINE g == Session!Goes(Image, "working")
             c == [g EXCEPT !.stop = FALSE]
  <2>1. Image.stage = "working"
    BY <1>6, Images, Stages
  <2>2. /\ g \in Shown /\ g.stage = "working" /\ g.outcome = Image.outcome
        /\ g.answer = "none" /\ g.live = Image.live
    BY <1>2, GoesFields
  <2>3. /\ c \in Shown /\ c.stage = "working" /\ c.outcome = Image.outcome /\ c.stop = FALSE
        /\ c.answer = "none" /\ c.live = Image.live
    <3> HIDE DEF g
    <3> QED
      BY <2>2 DEF Shown
  <2> HIDE DEF c
  <2>4. c \in Session!SessionSteps(Image)
    BY <1>2, <1>6, <2>1, <2>3, WorkingSteps DEF GoesTo, Heeds
  <2>5. stop' = FALSE
    BY <1>6 DEF TypeOK
  <2>6. Image' = [c EXCEPT !.live = FALSE, !.answer = "none"]
    BY <1>4, <2>1, <2>3, <2>5
  <2> QED
    BY <1>2, <2>1, <2>3, <2>4, <2>6 DEF Session!Dies
<1> QED
  BY <1>1, <1>5, <1>6

(* A stop file changes nothing else.                                       *)
LEMMA Stops ==
    ASSUME TypeOK, TypeOK', RequestStop
    PROVE  Session!StopRequested
<1>1. /\ Image \in Shown /\ Image' \in Shown /\ Image'.stage = Image.stage
      /\ Image'.outcome = Image.outcome /\ Image'.answer = Image.answer
      /\ Image'.stop = TRUE /\ Image'.live = Image.live
  BY Images, NextImage DEF RequestStop, Image
<1> DEFINE e == [Image EXCEPT !.stop = TRUE]
<1>2. /\ e \in Shown /\ e.stage = Image.stage /\ e.outcome = Image.outcome
      /\ e.answer = Image.answer /\ e.stop = TRUE /\ e.live = Image.live
  <2> HIDE DEF Image
  <2> QED
    BY <1>1 DEF Shown
<1> HIDE DEF e
<1>3. Image' = e
  BY <1>1, <1>2, SameRecord
<1> QED
  BY <1>3 DEF e, Session!StopRequested

(* A resumption brings a process and its answer.                           *)
LEMMA Resumes ==
    ASSUME TypeOK, TypeOK', NEW decision \in {"approved", "denied"}, Resume(decision)
    PROVE  Session!Resumed
<1>1. /\ Image \in Shown /\ Image' \in Shown /\ Image'.stage = Image.stage
      /\ Image'.outcome = Image.outcome /\ Image'.answer = decision
      /\ Image'.stop = Image.stop /\ Image'.live = TRUE /\ ~ Image.live
  BY Images, NextImage DEF Resume, Image
<1> DEFINE e == [Image EXCEPT !.live = TRUE, !.answer = decision]
<1>2. /\ e \in Shown /\ e.stage = Image.stage /\ e.outcome = Image.outcome
      /\ e.answer = decision /\ e.stop = Image.stop /\ e.live = TRUE
  BY <1>1 DEF Shown
<1> HIDE DEF e
<1>3. Image' = e
  BY <1>1, <1>2, SameRecord
<1> QED
  BY <1>1, <1>3 DEF e, Session!Resumed

(* Each step of the graph is a step of the session or none.                *)
LEMMA StepRefines ==
    ASSUME TypeOK, TypeOK', [Next]_vars
    PROVE  [Session!Next]_Image
<1>1. CASE Intake \/ PlanFails \/ Plan
  BY <1>1, PlanningNodes DEF Session!Next
<1>2. CASE AwaitPause \/ AwaitDecided
  BY <1>2, AskingNodes DEF Session!Next
<1>3. CASE \/ Prepare \/ PrepareFails \/ StopPauses \/ ExecuteFails
           \/ \E kind \in Tools, n \in 0..MaxBatch :
                 BatchRefused(kind, n) \/ \E looped \in BOOLEAN : BatchRuns(kind, n, looped)
           \/ VerifySkipped \/ (\E passes \in BOOLEAN : VerifyRuns(passes))
           \/ Repair \/ Finalize
  BY <1>3, WorkingNodes DEF Session!Next
<1>4. CASE \/ Crash \/ CrashInPlan \/ CrashInVerify
           \/ \E kind \in Tools, n \in 0..MaxBatch : CrashInBatch(kind, n)
  BY <1>4, Deaths DEF Session!Next
<1>5. CASE RequestStop
  BY <1>5, Stops DEF Session!Next
<1>6. CASE \E decision \in {"approved", "denied"} : Resume(decision)
  BY <1>6, Resumes DEF Session!Next
<1>7. CASE Exhaust \/ UNCHANGED vars
  BY <1>7 DEF Exhaust, vars, Image
<1> QED
  BY <1>1, <1>2, <1>3, <1>4, <1>5, <1>6, <1>7 DEF Next, Run

(* Whatever the configuration, the budget and the faults: a run of the      *)
(* default graph is a session as callers know it, so what is shown of      *)
(* LocalSession is shown of the graph.                                     *)
THEOREM GraphIsSession == Spec => ImplementsSession
<1>1. Init => Session!Init
  BY DEF Init, Session!Init, Image, StageOf
<1>2. TypeOK /\ TypeOK' /\ [Next]_vars => [Session!Next]_Image
  BY StepRefines
<1> QED
  BY <1>1, <1>2, GraphTypeCorrect, PTL DEF Spec, ImplementsSession, Session!Spec
=============================================================================
