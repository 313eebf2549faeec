------------------------ MODULE AgentServicesProofs ------------------------
(***************************************************************************)
(* Theorems about the parts of AgentServices, for every value of their      *)
(* constants: for each part what its own behaviours keep, and at the end    *)
(* what all of them together keep.                                         *)
(***************************************************************************)
EXTENDS AgentServices, FiniteSets, FiniteSetTheorems, SequenceTheorems, WellFoundedInduction,
        TLAPS

-----------------------------------------------------------------------------
(* A team: what it has shown by the time it is judged, verified or done.    *)
TeamTypes ==
    /\ team \in Team!Teams
    /\ usage \in [turns : Nat, calls : Nat]
    /\ results \in [Team!Names -> {"none", "ok", "failed"}]
    /\ checks \in Seq(BOOLEAN)

(* The judgement is passed once, on a usage and on results that no later    *)
(* step touches; only commands that passed are behind a team that verifies. *)
TeamJudged ==
    /\ phase = "verifying" =>
          /\ ~ Team!OverBudget(FALSE) /\ Team!RolesSucceeded
          /\ Len(checks) < team.commands /\ \A i \in DOMAIN checks : checks[i]
    /\ phase \notin {"verifying", "ended"} => checks = <<>>
    /\ phase \notin {"hired", "ended"} => team.commands # 0 \/ ~ team.writes \/ team.waived

TeamKeeps ==
    /\ TeamTypes
    /\ TeamJudged
    /\ verdict.status = "succeeded" => phase = "ended"
    /\ Team!SuccessIsEarned

LEMMA TeamInit == Team!Init => TeamKeeps
<1> SUFFICES ASSUME Team!Init PROVE TeamKeeps OBVIOUS
<1> USE DEF Team!Init
<1>1. TeamTypes BY DEF TeamTypes
<1>2. TeamJudged BY DEF TeamJudged
<1>3. verdict.status = "running" OBVIOUS
<1>4. QED BY <1>1, <1>2, <1>3 DEF TeamKeeps, Team!SuccessIsEarned

(* While a role acts nothing is checked, and only usage and results move.   *)
LEMMA TeamActs ==
    ASSUME TeamKeeps, phase \in {"acting", "delegating"},
           UNCHANGED <<team, checks, verdict>>, phase' \in {"acting", "delegating", "idle"},
           usage' \in [turns : Nat, calls : Nat],
           results' \in [Team!Names -> {"none", "ok", "failed"}]
    PROVE  TeamKeeps'
<1>1. verdict.status # "succeeded" BY DEF TeamKeeps
<1>2. TeamTypes' BY DEF TeamKeeps, TeamTypes
<1>3. TeamJudged' BY DEF TeamKeeps, TeamJudged
<1>4. QED BY <1>1, <1>2, <1>3 DEF TeamKeeps, Team!SuccessIsEarned

LEMMA TeamTurns ==
    ASSUME TeamKeeps, phase \in {"acting", "delegating"}, NEW failed,
           Team!TurnEnds(failed) \/ Team!ActEnds(failed)
    PROVE  /\ UNCHANGED <<team, checks, verdict>>
           /\ phase' \in {"acting", "delegating", "idle"}
           /\ results' \in [Team!Names -> {"none", "ok", "failed"}]
<1>1. CASE Team!ActEnds(failed) BY <1>1 DEF Team!ActEnds, TeamKeeps, TeamTypes
<1>2. CASE Team!TurnEnds(failed) /\ ~ Team!ActEnds(TRUE)
  BY <1>2 DEF Team!TurnEnds, Team!acting, TeamKeeps, TeamTypes
<1>3. CASE Team!ActEnds(TRUE) BY <1>3 DEF Team!ActEnds, TeamKeeps, TeamTypes
<1>4. QED BY <1>1, <1>2, <1>3

LEMMA TeamStep == TeamKeeps /\ [Team!Next]_Team!vars => TeamKeeps'
<1> SUFFICES ASSUME TeamKeeps, [Team!Next]_Team!vars PROVE TeamKeeps'
  OBVIOUS
<1> USE DEF TeamKeeps
<1>0. TeamTypes /\ TeamJudged OBVIOUS
(* Steps that end the run without success.                                 *)
<1>1. ASSUME NEW status, NEW reason, Team!Ended(status, reason), status # "succeeded",
             UNCHANGED <<team, Team!talking>>, checks' \in Seq(BOOLEAN)
      PROVE  TeamKeeps'
  <2>1. verdict'.status # "succeeded" /\ phase' = "ended" BY <1>1 DEF Team!Ended
  <2>2. TeamTypes' BY <1>0, <1>1 DEF TeamTypes, Team!talking
  <2>3. QED BY <2>1, <2>2 DEF TeamJudged, Team!SuccessIsEarned
(* Steps before the judgement that move neither usage nor results.          *)
<1>2. ASSUME UNCHANGED <<team, usage, results, checks, verdict>>,
             phase \in {"hired", "idle"}, phase' \in {"idle", "acting", "judging"},
             phase = "hired" => team.commands # 0 \/ ~ team.writes \/ team.waived
      PROVE  TeamKeeps'
  <2>1. TeamTypes' BY <1>0, <1>2 DEF TeamTypes
  <2>2. TeamJudged' BY <1>0, <1>2 DEF TeamJudged
  <2>3. QED BY <1>2, <2>1, <2>2 DEF Team!SuccessIsEarned
<1>3. CASE Team!Blocked BY <1>0, <1>1, <1>3 DEF Team!Blocked, TeamTypes
<1>4. CASE Team!TeamFails BY <1>0, <1>1, <1>4 DEF Team!TeamFails, TeamTypes
<1>5. CASE Team!VerifyRaises BY <1>0, <1>1, <1>5 DEF Team!VerifyRaises, TeamTypes
<1>6. CASE Team!Begins
  <2>1. team.commands # 0 \/ ~ team.writes \/ team.waived
    BY <1>0, <1>6 DEF Team!Begins, TeamTypes, Team!Teams
  <2>2. QED BY <1>2, <1>6, <2>1 DEF Team!Begins
<1>7. CASE Team!Assigns BY <1>2, <1>7 DEF Team!Assigns, Team!ActBegins
<1>8. CASE Team!TeamStops BY <1>2, <1>8 DEF Team!TeamStops
<1>9. CASE Team!Delegates
  BY <1>0, <1>9, TeamActs DEF Team!Delegates, Team!ChildBegins, Team!acting, TeamTypes
<1>10. CASE \E bad \in BOOLEAN : Team!ChildCalls(bad)
  BY <1>0, <1>10, TeamActs DEF Team!ChildCalls, Team!acting, TeamTypes
(* Steps that count a turn or a call and end a turn or the act.             *)
<1>11. ASSUME NEW failed, Team!TurnEnds(failed) \/ Team!ActEnds(failed),
              phase \in {"acting", "delegating"}, usage' \in [turns : Nat, calls : Nat]
       PROVE  TeamKeeps'
  BY <1>11, TeamTurns, TeamActs
<1>12. CASE Team!ModelFails \/ Team!Answers
  <2>1. phase = "acting" /\ usage' = [usage EXCEPT !.turns = @ + 1]
    BY <1>12 DEF Team!ModelFails, Team!Answers
  <2>2. usage' \in [turns : Nat, calls : Nat] BY <1>0, <2>1 DEF TeamTypes
  <2>3. QED BY <1>11, <1>12, <2>1, <2>2 DEF Team!ModelFails, Team!Answers
<1>13. CASE \E n \in 1..2, bad \in BOOLEAN : Team!Calls(n, bad)
  BY <1>0, <1>11, <1>13 DEF Team!Calls, TeamTypes
<1>14. CASE Team!ChildAnswers \/ Team!ChildRaises
  BY <1>0, <1>11, <1>14 DEF Team!ChildAnswers, Team!ChildRaises, Team!ChildEnds, TeamTypes
<1>15. CASE \E dear \in BOOLEAN : Team!Judge(dear)
  <2> PICK dear \in BOOLEAN : Team!Judge(dear) BY <1>15
  <2>1. UNCHANGED <<team, usage, results, checks>> BY DEF Team!Judge, Team!talking
  <2>2. TeamTypes' BY <1>0, <2>1 DEF TeamTypes
  <2>3. checks = <<>> BY <1>0 DEF TeamJudged, Team!Judge
  <2>4. CASE Team!OverBudget(dear) \/ ~ Team!RolesSucceeded
    BY <1>1, <2>1, <2>2, <2>4 DEF Team!Judge, TeamTypes
  <2>5. CASE ~ Team!OverBudget(dear) /\ Team!RolesSucceeded
    <3>1. ~ Team!OverBudget(FALSE) BY <2>5 DEF Team!OverBudget
    <3>2. Team!RolesSucceeded' /\ ~ Team!OverBudget(FALSE)'
      BY <2>1, <2>5, <3>1 DEF Team!RolesSucceeded, Team!OverBudget
    <3>3. usage.turns <= team.turns /\ usage.calls <= team.calls
      BY <1>0, <3>1 DEF Team!OverBudget, TeamTypes, Team!Teams
    <3>4. CASE team.commands = 0
      BY <1>0, <2>1, <2>2, <2>3, <2>5, <3>3, <3>4
      DEF Team!Judge, Team!Ended, TeamJudged, Team!SuccessIsEarned, Team!RolesSucceeded
    <3>5. CASE team.commands # 0
      <4>1. phase' = "verifying" /\ UNCHANGED verdict BY <2>5, <3>5 DEF Team!Judge
      <4>2. team.commands \in {0, 2} BY <1>0 DEF TeamTypes, Team!Teams
      <4>6. Len(checks') < team'.commands BY <2>1, <2>3, <3>5, <4>2
      <4>7. \A i \in DOMAIN checks' : checks'[i] BY <2>1, <2>3
      <4>3. TeamJudged' BY <2>1, <3>2, <3>5, <4>1, <4>6, <4>7 DEF TeamJudged
      <4>4. verdict.status # "succeeded" BY DEF Team!Judge
      <4>5. QED BY <2>2, <4>1, <4>3, <4>4 DEF Team!SuccessIsEarned
    <3>6. QED BY <3>4, <3>5
  <2>6. QED BY <2>4, <2>5
<1>16. CASE \E passes \in BOOLEAN : Team!Verify(passes)
  <2> PICK passes \in BOOLEAN : Team!Verify(passes) BY <1>16
  <2>1. UNCHANGED <<team, usage, results>> BY DEF Team!Verify, Team!talking
  <2>2. checks' = Append(checks, passes) /\ phase = "verifying" BY DEF Team!Verify
  <2>3. checks' \in Seq(BOOLEAN) /\ Len(checks') = Len(checks) + 1 /\ Len(checks) \in Nat
    BY <1>0, <2>2 DEF TeamTypes
  <2>4. TeamTypes' BY <1>0, <2>1, <2>3 DEF TeamTypes
  <2>5. CASE ~ passes BY <1>1, <2>1, <2>3, <2>5 DEF Team!Verify
  <2>6. CASE passes
    <3>1. \A i \in DOMAIN checks' : checks'[i]
      BY <1>0, <2>2, <2>6 DEF TeamJudged, TeamTypes
    <3>2. team.commands \in {0, 2} BY <1>0 DEF TeamTypes, Team!Teams
    <3>3. CASE Len(checks') = team.commands
      <4>1. usage.turns <= team.turns /\ usage.calls <= team.calls
        BY <1>0, <2>2 DEF TeamJudged, Team!OverBudget, TeamTypes, Team!Teams
      <4>2. \A r \in Team!Names : results[r] # "failed"
        BY <1>0, <2>2 DEF TeamJudged, Team!RolesSucceeded
      <4>3. phase' = "ended" /\ team.commands # 0 
        BY <1>0, <2>2, <2>6, <3>2, <3>3 DEF Team!Verify, Team!Ended, TeamJudged
      <4>4. QED
        BY <2>1, <2>4, <3>1, <3>3, <4>1, <4>2, <4>3 DEF TeamJudged, Team!SuccessIsEarned
    <3>4. CASE Len(checks') # team.commands
      <4>1. UNCHANGED <<phase, verdict>> BY <2>6, <3>4 DEF Team!Verify
      <4>2. Len(checks') < team.commands BY <1>0, <2>2, <2>3, <3>2, <3>4 DEF TeamJudged
      <4>3. Team!RolesSucceeded' /\ ~ Team!OverBudget(FALSE)'
        BY <1>0, <2>1, <2>2 DEF TeamJudged, Team!RolesSucceeded, Team!OverBudget
      <4>4. TeamJudged' BY <1>0, <2>1, <2>2, <3>1, <4>1, <4>2, <4>3 DEF TeamJudged
      <4>5. QED BY <2>2, <2>4, <4>1, <4>4 DEF Team!SuccessIsEarned
    <3>5. QED BY <3>3, <3>4
  <2>7. QED BY <2>5, <2>6
<1>17. CASE UNCHANGED Team!vars
  BY <1>0, <1>17
  DEF Team!vars, TeamTypes, TeamJudged, Team!OverBudget, Team!RolesSucceeded, Team!SuccessIsEarned
<1>18. QED
  BY <1>3, <1>4, <1>5, <1>6, <1>7, <1>8, <1>9, <1>10, <1>12, <1>13, <1>14, <1>15, <1>16, <1>17
  DEF Team!Next

(* Whatever its roles, tools, sub-agents and verification do, a team that   *)
(* succeeded kept to its budget, had no role whose last act failed, and     *)
(* passed every verification command.                                      *)
THEOREM TeamEarnsSuccess == Team!Spec => []Team!SuccessIsEarned
<1>1. TeamKeeps => Team!SuccessIsEarned BY DEF TeamKeeps
<1>2. QED BY <1>1, TeamInit, TeamStep, PTL DEF Team!Spec

-----------------------------------------------------------------------------
(* A terminal: only the worker it started last is at work, and all others   *)
(* have been told to leave.                                                *)
AtWork == {"starting", "running"}
Workers == [kind : Term!Kinds, run : Nat,
            state : AtWork \cup {"unborn", "cancelled", "finished"}]

TerminalTypes ==
    /\ sessions \in Seq(Workers)
    /\ current \in Nat /\ drains \in Nat
    /\ queued \in BOOLEAN /\ held \in BOOLEAN

OnlyLastWorks == \A i \in 1..Len(sessions) : sessions[i].state \in AtWork => i = Len(sessions)

TerminalKeeps == TerminalTypes /\ OnlyLastWorks /\ Term!QueuedIsDrained

LEMMA TerminalInit == Term!Init => TerminalKeeps
<1> SUFFICES ASSUME Term!Init PROVE TerminalKeeps OBVIOUS
<1>1. sessions = <<>> /\ Len(sessions) = 0 /\ ~ queued BY DEF Term!Init
<1>2. sessions \in Seq(Workers) BY <1>1
<1>5. current \in Nat /\ drains \in Nat BY DEF Term!Init
<1>6. TerminalTypes BY <1>2, <1>5 DEF Term!Init, TerminalTypes
<1>3. OnlyLastWorks BY <1>1 DEF OnlyLastWorks
<1>4. QED BY <1>1, <1>3, <1>6 DEF TerminalKeeps, Term!QueuedIsDrained

(* A worker that is cancelled is still a worker, and not at work.           *)
LEMMA CancelledWorker ==
    ASSUME NEW w \in Workers
    PROVE  Term!Cancelled(w) \in Workers /\ Term!Cancelled(w).state \notin AtWork
BY DEF Term!Cancelled, Workers, AtWork

(* A new worker is the last one, and the only one at work.                  *)
LEMMA TerminalBegins ==
    ASSUME TerminalTypes, NEW k \in Term!Kinds, Term!Begin(k)
    PROVE  /\ sessions' \in Seq(Workers) /\ current' \in Nat
           /\ OnlyLastWorks'
           /\ sessions'[Len(sessions')].state = "starting"
<1> DEFINE n == Len(sessions)
           old == [i \in 1..n |-> IF sessions[i].state \in {"starting", "running"}
                                  THEN Term!Cancelled(sessions[i]) ELSE sessions[i]]
           new == [kind |-> k, state |-> "starting", run |-> 0]
<1>1. sessions' = Append(old, new) /\ current' = n + 1
  BY DEF Term!Begin, Term!Started, Term!Active
<1>2. n \in Nat /\ \A i \in 1..n : sessions[i] \in Workers BY DEF TerminalTypes
<1>3. \A i \in 1..n : old[i] \in Workers /\ old[i].state \notin AtWork
  BY <1>2, CancelledWorker DEF AtWork
<1>4. old \in Seq(Workers) /\ Len(old) = n
  <2>1. old \in [1..n -> Workers] BY <1>3
  <2> HIDE DEF old
  <2>2. QED BY <1>2, <2>1
<1>5. new \in Workers BY DEF Workers, AtWork
<1>6. new.state = "starting" OBVIOUS
<1> HIDE DEF old, new, n
<1>7. /\ sessions' \in Seq(Workers) /\ Len(sessions') = n + 1
      /\ \A i \in 1..n : sessions'[i] = old[i]
      /\ sessions'[n + 1] = new
  BY <1>1, <1>2, <1>4, <1>5
<1>8. OnlyLastWorks' BY <1>2, <1>3, <1>7 DEF OnlyLastWorks
<1>9. QED BY <1>1, <1>2, <1>6, <1>7, <1>8

(* A worker that moves on, without beginning to work.                      *)
LEMMA TerminalMoves ==
    ASSUME TerminalTypes, OnlyLastWorks, NEW i \in 1..Len(sessions), NEW w \in Workers,
           w.state \in AtWork => sessions[i].state \in AtWork,
           sessions' = [sessions EXCEPT ![i] = w]
    PROVE  /\ sessions' \in Seq(Workers) /\ Len(sessions') = Len(sessions)
           /\ OnlyLastWorks'
<1>1. sessions \in Seq(Workers) BY DEF TerminalTypes
<1>2. /\ sessions' \in Seq(Workers) /\ Len(sessions') = Len(sessions)
      /\ \A j \in 1..Len(sessions) : sessions'[j] = IF j = i THEN w ELSE sessions[j]
  BY <1>1
<1>3. QED BY <1>2 DEF OnlyLastWorks

LEMMA TerminalStep == TerminalKeeps /\ [Term!Next]_Term!vars => TerminalKeeps'
<1> SUFFICES ASSUME TerminalKeeps, [Term!Next]_Term!vars PROVE TerminalKeeps'
  OBVIOUS
<1> USE DEF TerminalKeeps
<1>0. TerminalTypes /\ OnlyLastWorks OBVIOUS
(* Whoever begins a run leaves nothing queued without a worker.            *)
<1>1. ASSUME NEW k \in Term!Kinds, Term!Begin(k), drains' \in Nat,
             queued' \in BOOLEAN, held' \in BOOLEAN
      PROVE  TerminalKeeps'
  <2>1. TerminalTypes' BY <1>0, <1>1, TerminalBegins DEF TerminalTypes
  <2>2. OnlyLastWorks' BY <1>0, <1>1, TerminalBegins
  <2>3. Term!QueuedIsDrained' BY <1>0, <1>1, TerminalBegins DEF Term!QueuedIsDrained, Term!Active
  <2>4. QED BY <2>1, <2>2, <2>3
<1>2. CASE Term!Submit
  <2>1. CASE Term!Busy
    <3>1. /\ queued' = TRUE /\ UNCHANGED <<sessions, current, drains>>
          /\ held' = (sessions[Len(sessions)].state \in {"unborn", "cancelled"})
          /\ Len(sessions) > 0 /\ sessions[Len(sessions)].state # "finished"
      BY <1>2, <2>1 DEF Term!Submit, Term!Busy, Term!Active, Term!Finished
    <3>2. sessions[Len(sessions)] \in Workers BY <1>0, <3>1 DEF TerminalTypes
    <3>3. ~ held' => sessions[Len(sessions)].state \in AtWork BY <3>1, <3>2 DEF Workers
    <3>4. TerminalTypes' BY <1>0, <3>1 DEF TerminalTypes
    <3>5. OnlyLastWorks' BY <1>0, <3>1 DEF OnlyLastWorks
    <3>6. Term!QueuedIsDrained' BY <3>1, <3>3 DEF Term!QueuedIsDrained, Term!Active, AtWork
    <3>7. QED BY <3>4, <3>5, <3>6
  <2>2. CASE ~ Term!Busy
    BY <1>0, <1>1, <1>2, <2>2 DEF Term!Submit, TerminalTypes, Term!Kinds
  <2>3. QED BY <2>1, <2>2
<1>3. CASE \E k \in Term!Kinds : Term!Command(k)
  BY <1>0, <1>1, <1>3 DEF Term!Command, TerminalTypes
<1>4. CASE Term!Drain
  <2>1. drains' \in Nat /\ queued' = FALSE /\ held' = FALSE
    BY <1>0, <1>4 DEF Term!Drain, TerminalTypes
  <2>2. CASE queued BY <1>1, <1>4, <2>1, <2>2 DEF Term!Drain, Term!Kinds
  <2>3. CASE ~ queued
    <3>1. UNCHANGED <<sessions, current>> BY <1>4, <2>3 DEF Term!Drain
    <3>2. QED BY <1>0, <2>1, <3>1 DEF TerminalTypes, OnlyLastWorks, Term!QueuedIsDrained
  <2>4. QED BY <1>0, <2>2, <2>3 DEF TerminalTypes
<1>5. CASE Term!Cancel
  <2>1. /\ queued' = FALSE /\ held' = FALSE /\ UNCHANGED <<drains, current>>
        /\ Len(sessions) > 0
    BY <1>5 DEF Term!Cancel, Term!Busy, Term!Active
  <2> DEFINE n == Len(sessions)
             w == Term!Cancelled(sessions[n])
  <2>2. n \in 1..Len(sessions) /\ sessions[n] \in Workers BY <1>0, <2>1 DEF TerminalTypes
  <2>3. w \in Workers /\ w.state \notin AtWork BY <2>2, CancelledWorker
  <2>4. sessions' = sessions \/ sessions' = [sessions EXCEPT ![n] = w]
    BY <1>5 DEF Term!Cancel, Term!Active
  <2> HIDE DEF w
  <2>5. sessions' \in Seq(Workers) /\ OnlyLastWorks'
    <3>1. CASE sessions' = sessions BY <1>0, <3>1 DEF TerminalTypes, OnlyLastWorks
    <3>2. CASE sessions' = [sessions EXCEPT ![n] = w]
      BY <1>0, <2>2, <2>3, <3>2, TerminalMoves
    <3>3. QED BY <2>4, <3>1, <3>2
  <2>6. QED BY <1>0, <2>1, <2>5 DEF TerminalTypes, Term!QueuedIsDrained
<1>6. ASSUME NEW i \in 1..Term!Active, Term!Starts(i) PROVE TerminalKeeps'
  <2> DEFINE w == [sessions[i] EXCEPT !.state = "running",
                                      !.run = IF sessions[i].kind = "fork" THEN 0 ELSE current]
  <2>1. /\ sessions[i].state = "starting" /\ sessions' = [sessions EXCEPT ![i] = w]
        /\ UNCHANGED <<queued, drains, current, held>>
    BY <1>6 DEF Term!Starts
  <2>2. i \in 1..Len(sessions) /\ sessions[i] \in Workers BY <1>0 DEF Term!Active, TerminalTypes
  <2>3. w \in Workers /\ w.state = "running" BY <1>0, <2>2 DEF Workers, AtWork, TerminalTypes
  <2> HIDE DEF w
  <2>4. /\ sessions' \in Seq(Workers) /\ Len(sessions') = Len(sessions) /\ OnlyLastWorks'
    BY <1>0, <2>1, <2>2, <2>3, TerminalMoves DEF AtWork
  <2>5. i = Len(sessions) /\ sessions'[i].state = "running"
    BY <1>0, <2>1, <2>2, <2>3 DEF OnlyLastWorks, AtWork, TerminalTypes
  <2>6. Term!QueuedIsDrained' BY <2>4, <2>5 DEF Term!QueuedIsDrained, Term!Active
  <2>7. QED BY <1>0, <2>1, <2>4, <2>6 DEF TerminalTypes
<1>7. ASSUME NEW i \in 1..Term!Active, NEW awaits \in BOOLEAN, NEW fails \in BOOLEAN,
             Term!Ends(i, awaits, fails)
      PROVE  TerminalKeeps'
  <2> DEFINE w == [sessions[i] EXCEPT !.state = "finished"]
  <2>1. /\ sessions' = [sessions EXCEPT ![i] = w]
        /\ UNCHANGED <<queued, held>> /\ current' = 0 /\ drains' = drains + 1
    BY <1>7 DEF Term!Ends
  <2>2. i \in 1..Len(sessions) /\ sessions[i] \in Workers BY <1>0 DEF Term!Active, TerminalTypes
  <2>3. w \in Workers /\ w.state \notin AtWork BY <2>2 DEF Workers, AtWork
  <2> HIDE DEF w
  <2>4. sessions' \in Seq(Workers) /\ OnlyLastWorks'
    BY <1>0, <2>1, <2>2, <2>3, TerminalMoves
  <2>5. drains' > 0 /\ drains' \in Nat BY <1>0, <2>1 DEF TerminalTypes
  <2>6. QED BY <1>0, <2>1, <2>4, <2>5 DEF TerminalTypes, Term!QueuedIsDrained
<1>8. ASSUME NEW i \in 1..Term!Active, Term!CancelArrives(i) PROVE TerminalKeeps'
  <2> DEFINE w == [sessions[i] EXCEPT !.state = "finished"]
  <2>1. /\ sessions' = [sessions EXCEPT ![i] = w]
        /\ sessions[i].state \in {"unborn", "cancelled"}
        /\ UNCHANGED <<queued, held, drains>> /\ current' \in {0, current}
    BY <1>8 DEF Term!CancelArrives
  <2>2. i \in 1..Len(sessions) /\ sessions[i] \in Workers BY <1>0 DEF Term!Active, TerminalTypes
  <2>3. w \in Workers /\ w.state \notin AtWork BY <2>2 DEF Workers, AtWork
  <2> HIDE DEF w
  <2>4. /\ sessions' \in Seq(Workers) /\ Len(sessions') = Len(sessions) /\ OnlyLastWorks'
    BY <1>0, <2>1, <2>2, <2>3, TerminalMoves
  <2>5. \A j \in 1..Len(sessions) : j # i => sessions'[j] = sessions[j]
    BY <1>0, <2>1, <2>2 DEF TerminalTypes
  <2>6. Term!QueuedIsDrained'
    <3>1. SUFFICES ASSUME queued, ~ held, ~ drains > 0
                   PROVE  sessions'[Len(sessions)].state \in {"starting", "running"}
      BY <2>1, <2>4 DEF Term!QueuedIsDrained, Term!Active
    <3>2. sessions[Len(sessions)].state \in {"starting", "running"}
      BY <3>1 DEF Term!QueuedIsDrained, Term!Active
    <3>3. QED BY <1>0, <2>1, <2>2, <2>5, <3>2 DEF TerminalTypes
  <2>7. QED BY <1>0, <2>1, <2>4, <2>6 DEF TerminalTypes
<1>9. CASE UNCHANGED Term!vars
  BY <1>9 DEF Term!vars, TerminalTypes, OnlyLastWorks, Term!QueuedIsDrained, Term!Active
<1>10. QED
  BY <1>2, <1>3, <1>4, <1>5, <1>6, <1>7, <1>8, <1>9 DEF Term!Next

(* However prompts, commands, cancellations and redraws follow each other, *)
(* one session of a terminal is at work at a time, and a queued prompt has *)
(* something that will start it, unless it came into a cancellation.       *)
THEOREM TerminalOrder == Term!Spec => []Term!TerminalKeepsOrder
<1>1. TerminalKeeps => Term!TerminalKeepsOrder
  <2> SUFFICES ASSUME TerminalKeeps PROVE Term!OneSessionAtATime
    BY DEF TerminalKeeps, Term!TerminalKeepsOrder
  <2>1. QED BY DEF TerminalKeeps, OnlyLastWorks, AtWork, Term!OneSessionAtATime, Term!Active
<1>2. QED BY <1>1, TerminalInit, TerminalStep, PTL DEF Term!Spec

-----------------------------------------------------------------------------
(* A command: what is known of its processes before it is over.  A leader   *)
(* never comes back, and only a live one starts descendants.               *)
CommandTypes ==
    /\ kind \in Command!Kinds
    /\ call \in {"new", "running", "draining", "over"}
    /\ leader \in {"none", "alive", "zombie", "gone"}
    /\ reached \in BOOLEAN

Left == leader \in {"zombie", "gone"}

CommandKeeps ==
    /\ CommandTypes
    /\ call = "new" => leader = "none" /\ outcome = "none"
    /\ call = "running" => outcome = "none"
    /\ call \in {"running", "draining"} => leader # "none"
    /\ call = "draining" => outcome # "done"
    /\ leader = "none" => alive = {} /\ ~ reached
    /\ kind = "bwrap" /\ Left => alive = {}
    /\ kind = "docker" /\ Left /\ call = "running" => alive = {}
    /\ reached => Left
    /\ kind \in {"local", "hook"} /\ reached => alive \cap Command!InGroup = {}
    /\ Command!ResultIsFinal

LEMMA CommandInit == Command!Init => CommandKeeps
BY DEF Command!Init, CommandKeeps, CommandTypes, Left, Command!Kinds, Command!ResultIsFinal

LEMMA CommandStep == CommandKeeps /\ [Command!Next]_Command!vars => CommandKeeps'
<1> SUFFICES ASSUME CommandKeeps, [Command!Next]_Command!vars PROVE CommandKeeps'
  OBVIOUS
<1> USE DEF CommandKeeps, CommandTypes, Left, Command!Kinds, Command!ResultIsFinal
<1>1. CASE Command!Refused BY <1>1 DEF Command!Refused
<1>2. ASSUME NEW k, NEW some, Command!Begins(k, some) PROVE CommandKeeps'
  BY <1>2 DEF Command!Begins
<1>3. CASE \/ Command!Spawns \/ Command!SandboxSpawns \/ Command!ContainerSpawns
           \/ Command!HookSpawns \/ Command!ServerSpawns \/ Command!GitSpawns
  BY <1>2, <1>3 DEF Command!Spawns, Command!SandboxSpawns, Command!ContainerSpawns,
                    Command!HookSpawns, Command!ServerSpawns, Command!GitSpawns
<1>4. CASE Command!StartsJob BY <1>4 DEF Command!StartsJob
<1>5. CASE \E d \in Command!Descendants : Command!Forks(d) BY <1>5 DEF Command!Forks
<1>6. CASE \E d \in Command!Descendants : Command!DescendantEnds(d)
  BY <1>6 DEF Command!DescendantEnds
<1>7. CASE Command!LeaderEnds BY <1>7 DEF Command!LeaderEnds
<1>8. CASE Command!Reaped BY <1>8 DEF Command!Reaped
<1>9. CASE Command!Communicated BY <1>9 DEF Command!Communicated, Command!OutputEnds
<1>10. CASE Command!TimesOut BY <1>10 DEF Command!TimesOut, Command!Expires, Command!KillTree, Command!Killed
<1>11. CASE Command!SandboxTimesOut BY <1>11 DEF Command!SandboxTimesOut, Command!Expires, Command!KillSandbox, Command!Killed
<1>12. CASE Command!ContainerTimesOut BY <1>12 DEF Command!ContainerTimesOut, Command!Expires, Command!KillOnly, Command!Killed
<1>13. CASE Command!HookTimesOut BY <1>13 DEF Command!HookTimesOut, Command!Expires, Command!KillGroup, Command!Killed
<1>14. CASE Command!ServerTimesOut BY <1>14 DEF Command!ServerTimesOut, Command!Expires, Command!KillOnly, Command!Killed
(* A cancellation is never a result.                                       *)
<1>15. ASSUME Command!Cancelled, UNCHANGED kind, call \in {"running", "draining"} PROVE CommandKeeps'
  BY <1>15 DEF Command!Cancelled, Command!KillTree, Command!KillSandbox, Command!KillOnly, Command!Killed
<1>16. CASE Command!Cancel BY <1>15, <1>16 DEF Command!Cancel
<1>17. CASE Command!Drained BY <1>17 DEF Command!Drained, Command!OutputEnds
<1>18. CASE Command!Status BY <1>18 DEF Command!Status
<1>19. CASE Command!Terminate BY <1>15, <1>19 DEF Command!Terminate
<1>20. CASE Command!Terminated BY <1>20 DEF Command!Terminated
<1>21. CASE UNCHANGED Command!vars BY <1>21 DEF Command!vars
<1>22. QED
  BY <1>1, <1>3, <1>4, <1>5, <1>6, <1>7, <1>8, <1>9, <1>10, <1>11, <1>12, <1>13, <1>14, <1>16,
     <1>17, <1>18, <1>19, <1>20, <1>21
  DEF Command!Next

(* Whatever it starts, and whoever times it out, cancels it or ends it, a   *)
(* command with a result has no process left that could add to its output, *)
(* and of its other descendants only those that the model says may stay.   *)
THEOREM CommandResultIsFinal == Command!Spec => []Command!ResultIsFinal
<1>1. CommandKeeps => Command!ResultIsFinal BY DEF CommandKeeps
<1>2. QED BY <1>1, CommandInit, CommandStep, PTL DEF Command!Spec

-----------------------------------------------------------------------------
(* The legacy tasks.  A task the handlers have not torn has at most one of  *)
(* them past the engine, and each of its steps takes one of the places.    *)
Handlers == [kind : {"none", "create", "interrupt", "resume"}, at : Legacy!Steps,
             token : Tokens \cup {"none"}, task : 0..MaxTasks]

PlaceTypes ==
    /\ req \in [Requests -> Handlers]
    /\ taskIds \in 0..MaxTasks
    /\ row \in [Legacy!Tasks -> {"none", "running", "interrupted"}]
    /\ engine \in [Legacy!Tasks -> {"none", "running", "interrupted"}]
    /\ state \subseteq Legacy!Tasks /\ control \subseteq Legacy!Tasks /\ expired \subseteq Legacy!Tasks
    /\ answers \in [Tokens -> 0..MaxTasks]

Creating == {"state", "commit"}
Ending == {"flag", "write"}

(* What a handler knows of its task: one that creates it is alone, and one  *)
(* that changes it has seen its row.                                       *)
HandlerKnows(r) ==
    /\ req[r].kind = "none" => req[r].at = "new"
    /\ req[r].kind = "create" => req[r].token \in Tokens
    /\ req[r].at \in Creating =>
          /\ req[r].task \in 1..taskIds
          /\ row[req[r].task] = "none" /\ engine[req[r].task] = "running"
          /\ req[r].at = "commit" => req[r].task \in state
          /\ \A q \in Requests \ {r} : req[q].at \in Creating => req[q].task # req[r].task
    /\ req[r].at \in Ending \cup {"call"} =>
          /\ req[r].kind \in {"interrupt", "resume"}
          /\ req[r].task \in Legacy!Tasks /\ row[req[r].task] # "none"

TaskIsKnown(t) ==
    /\ t > taskIds => row[t] = "none"
    /\ row[t] = "none" => t \notin Legacy!Flagged
    /\ row[t] # "none" => t \in state

(* The handler past the engine has the row behind it, and Redis on its side *)
(* once it has flagged.                                                    *)
HandlerIsAlone(r) ==
    req[r].at \in Ending /\ req[r].task \notin torn =>
        LET t == req[r].task
            k == req[r].kind IN
        /\ \A q \in Requests \ {r} : req[q].at \in Ending => req[q].task # t
        /\ row[t] = Legacy!From(k) /\ engine[t] = Legacy!To(k)
        /\ (t \in Legacy!Flagged) <=> ((req[r].at = "flag") <=> (k = "resume"))

PlacesKeep ==
    /\ PlaceTypes
    /\ \A r \in Requests : HandlerKnows(r) /\ HandlerIsAlone(r)
    /\ \A t \in Legacy!Tasks : TaskIsKnown(t)
    /\ Legacy!TasksAgree

LEMMA PlacesInit == ASSUME MaxTasks \in Nat, Legacy!Init PROVE PlacesKeep
<1> USE DEF Legacy!Init, Legacy!Idle, Legacy!Tasks, Legacy!Flagged
<1>1. Legacy!Idle \in Handlers BY DEF Handlers, Legacy!Steps
<1>2. PlaceTypes BY <1>1 DEF PlaceTypes
<1>3. \A r \in Requests : HandlerKnows(r) /\ HandlerIsAlone(r)
  BY DEF HandlerKnows, HandlerIsAlone, Creating, Ending
<1>4. \A t \in Legacy!Tasks : TaskIsKnown(t) BY DEF TaskIsKnown
<1>5. QED BY <1>2, <1>3, <1>4 DEF PlacesKeep, Legacy!TasksAgree

LEMMA PlacesStep ==
    ASSUME MaxTasks \in Nat, PlacesKeep, [Legacy!Next]_Legacy!vars
    PROVE  PlacesKeep'
<1> USE DEF PlacesKeep, Legacy!Tasks, Legacy!Flagged
<1>0. PlaceTypes OBVIOUS
<1>h. ASSUME NEW r \in Requests
      PROVE  /\ req[r] \in Handlers /\ HandlerKnows(r) /\ HandlerIsAlone(r)
             /\ req[r] = [kind |-> req[r].kind, at |-> req[r].at, token |-> req[r].token, task |-> req[r].task]
  BY <1>0, <1>h DEF PlaceTypes, Handlers
(* A handler that changes none of the places, before the engine or after   *)
(* its last step, leaves them as they were.                                *)
<1>1. ASSUME NEW r \in Requests, NEW new \in Handlers, req' = [req EXCEPT ![r] = new],
             req[r].at \notin Ending, new.at \notin Creating \cup Ending,
             new.kind # "none", new.kind = "create" => new.token \in Tokens,
             new.at = "call" => /\ new.kind \in {"interrupt", "resume"}
                                /\ new.task \in Legacy!Tasks /\ row[new.task] # "none",
             answers' \in [Tokens -> 0..MaxTasks],
             UNCHANGED <<taskIds, row, engine, state, control, expired, torn>>
      PROVE  PlacesKeep'
  <2>1. PlaceTypes' BY <1>0, <1>1 DEF PlaceTypes
  <2>2. req'[r] = new /\ \A q \in Requests \ {r} : req'[q] = req[q]
    BY <1>0, <1>1 DEF PlaceTypes
  <2>3. ASSUME NEW q \in Requests PROVE HandlerKnows(q)'
    <3>1. CASE q = r BY <1>1, <2>2, <3>1 DEF HandlerKnows, Creating, Ending
    <3>2. CASE q # r BY <1>1, <1>h, <2>2, <2>3, <3>2 DEF HandlerKnows, Creating, Ending
    <3>3. QED BY <3>1, <3>2
  <2>4. ASSUME NEW q \in Requests PROVE HandlerIsAlone(q)'
    <3>1. CASE q = r BY <1>1, <2>2, <3>1 DEF HandlerIsAlone
    <3>2. CASE q # r BY <1>1, <1>h, <2>2, <2>4, <3>2 DEF HandlerIsAlone
    <3>3. QED BY <3>1, <3>2
  <2>5. \A t \in Legacy!Tasks : TaskIsKnown(t)' BY <1>1 DEF TaskIsKnown
  <2>6. \A t : Legacy!Between(t)' = Legacy!Between(t)
    BY <1>1, <2>2 DEF Legacy!Between, Creating, Ending
  <2>7. Legacy!TasksAgree' BY <1>1, <2>6 DEF Legacy!TasksAgree
  <2>8. QED BY <2>1, <2>3, <2>4, <2>5, <2>7
(* A handler at an end: it stops where it is.                              *)
<1>2. ASSUME NEW r \in Requests, req[r].kind # "none", req[r].at \notin Ending, Legacy!Stops(r),
             answers' \in [Tokens -> 0..MaxTasks],
             UNCHANGED <<taskIds, row, engine, state, control, expired, torn>>
      PROVE  PlacesKeep'
  <2> DEFINE new == [req[r] EXCEPT !.at = "over"]
  <2>1. req' = [req EXCEPT ![r] = new] BY <1>2 DEF Legacy!Stops, Legacy!Goes
  <2>2. new \in Handlers /\ new.at = "over" /\ new.kind = req[r].kind /\ new.token = req[r].token
    BY <1>h, <1>2 DEF Handlers, Legacy!Steps
  <2>3. new.kind = "create" => new.token \in Tokens BY <1>h, <1>2, <2>2 DEF HandlerKnows
  <2> HIDE DEF new
  <2>4. QED BY <1>1, <1>2, <2>1, <2>2, <2>3 DEF Creating, Ending
<1>3. ASSUME NEW r \in Requests, NEW token \in Tokens, Legacy!Asks(r, token) PROVE PlacesKeep'
  <2> DEFINE new == [kind |-> "create", at |-> IF asked' > Limit THEN "over" ELSE "ask",
                     token |-> token, task |-> 0]
  <2>1. req' = [req EXCEPT ![r] = new] /\ UNCHANGED <<taskIds, row, engine, state, control, expired, answers, torn>>
    BY <1>3 DEF Legacy!Asks
  <2>2. new \in Handlers /\ new.at \in {"over", "ask"} /\ new.kind = "create" /\ new.token \in Tokens
    BY <1>3 DEF Handlers, Legacy!Steps
  <2>3. req[r].at = "new" BY <1>3 DEF Legacy!Asks, Legacy!At
  <2>4. answers' \in [Tokens -> 0..MaxTasks] BY <1>0, <2>1 DEF PlaceTypes
  <2> HIDE DEF new
  <2>5. QED BY <1>1, <1>3, <2>1, <2>2, <2>3, <2>4 DEF Creating, Ending
<1>4. ASSUME NEW r \in Requests, Legacy!LooksUp(r) PROVE PlacesKeep'
  <2> DEFINE saved == answers[req[r].token]
  <2> DEFINE new == [req[r] EXCEPT !.at = IF saved # 0 THEN "over" ELSE "insert", !.task = saved]
  <2>1. req' = [req EXCEPT ![r] = new] /\ UNCHANGED <<taskIds, row, engine, state, control, expired, answers, torn>>
    BY <1>4 DEF Legacy!LooksUp
  <2>2. req[r].at = "ask" /\ req[r].kind = "create" /\ req[r].token \in Tokens
    BY <1>h, <1>4 DEF Legacy!LooksUp, Legacy!At, HandlerKnows
  <2>3. saved \in 0..MaxTasks BY <1>0, <2>2 DEF PlaceTypes
  <2>4. new \in Handlers /\ new.at \in {"over", "insert"} /\ new.kind = "create" /\ new.token \in Tokens
    BY <1>h, <1>4, <2>2, <2>3 DEF Handlers, Legacy!Steps
  <2>5. answers' \in [Tokens -> 0..MaxTasks] BY <1>0, <2>1 DEF PlaceTypes
  <2> HIDE DEF new, saved
  <2>6. QED BY <1>1, <1>4, <2>1, <2>2, <2>4, <2>5 DEF Creating, Ending
<1>5. ASSUME NEW r \in Requests, NEW k \in {"interrupt", "resume"}, NEW t \in Legacy!Tasks,
             Legacy!Controls(r, k, t)
      PROVE  PlacesKeep'
  <2> DEFINE new == [kind |-> k, token |-> "none", task |-> t,
                     at |-> IF row[t] = Legacy!From(k) THEN "call" ELSE "over"]
  <2>1. req' = [req EXCEPT ![r] = new] /\ UNCHANGED <<taskIds, row, engine, state, control, expired, answers, torn>>
    BY <1>5 DEF Legacy!Controls
  <2>2. new \in Handlers /\ new.at \in {"over", "call"} /\ new.kind = k /\ new.task = t
    BY <1>5 DEF Handlers, Legacy!Steps
  <2>3. req[r].at = "new" /\ row[t] # "none" BY <1>5 DEF Legacy!Controls, Legacy!At
  <2>4. answers' \in [Tokens -> 0..MaxTasks] BY <1>0, <2>1 DEF PlaceTypes
  <2> HIDE DEF new
  <2>5. QED BY <1>1, <1>5, <2>1, <2>2, <2>3, <2>4 DEF Creating, Ending
<1>6. ASSUME NEW r \in Requests, Legacy!Saves(r) PROVE PlacesKeep'
  BY <1>0, <1>2, <1>6, <1>h DEF Legacy!Saves, Legacy!At, Ending, PlaceTypes, Handlers
(* A task is created: its id is new, and the row is the last to know of it. *)
<1>7. ASSUME NEW r \in Requests, Legacy!Submits(r) PROVE PlacesKeep'
  <2> DEFINE new == [req[r] EXCEPT !.at = "state", !.task = taskIds + 1]
  <2>1. /\ req' = [req EXCEPT ![r] = new] /\ taskIds' = taskIds + 1 /\ taskIds < MaxTasks
        /\ engine' = [engine EXCEPT ![taskIds + 1] = "running"]
        /\ UNCHANGED <<row, state, control, expired, answers, torn>>
        /\ req[r].at = "insert" /\ req[r].kind = "create" /\ req[r].token \in Tokens
    BY <1>h, <1>7 DEF Legacy!Submits, Legacy!At, HandlerKnows
  <2>2. taskIds \in Nat /\ taskIds + 1 \in Legacy!Tasks /\ taskIds + 1 \in 0..MaxTasks
    BY <1>0, <2>1 DEF PlaceTypes
  <2>3. new \in Handlers /\ new.at = "state" /\ new.task = taskIds + 1 /\ new.kind = "create" /\ new.token \in Tokens
    BY <1>h, <1>7, <2>1, <2>2 DEF Handlers, Legacy!Steps
  <2> HIDE DEF new
  <2>4. PlaceTypes' BY <1>0, <2>1, <2>2, <2>3 DEF PlaceTypes
  <2>5. req'[r] = new /\ \A q \in Requests \ {r} : req'[q] = req[q] BY <1>0, <2>1 DEF PlaceTypes
  <2>6. row[taskIds + 1] = "none" BY <2>2 DEF TaskIsKnown
  <2>7. ASSUME NEW q \in Requests PROVE HandlerKnows(q)'
    <3>1. CASE q = r
      <4>1. ASSUME NEW p \in Requests \ {r}, req[p].at \in Creating PROVE req[p].task # taskIds + 1
        BY <1>h, <2>2, <4>1 DEF HandlerKnows
      <4>2. engine'[taskIds + 1] = "running" BY <1>0, <2>1, <2>2 DEF PlaceTypes
      <4>3. QED BY <2>1, <2>2, <2>3, <2>5, <2>6, <3>1, <4>1, <4>2 DEF HandlerKnows, Creating, Ending
    <3>2. CASE q # r
      <4>1. req[q].at \in Creating => req[q].task # taskIds + 1 /\ engine'[req[q].task] = engine[req[q].task]
                                      /\ req[q].task \in 1..taskIds'
        BY <1>0, <1>h, <2>1, <2>2, <2>7 DEF HandlerKnows, PlaceTypes
      <4>2. HandlerKnows(q) BY <2>7
      <4>3. QED BY <2>1, <2>3, <2>5, <2>7, <3>2, <4>1, <4>2 DEF HandlerKnows
    <3>3. QED BY <3>1, <3>2
  <2>8. ASSUME NEW q \in Requests PROVE HandlerIsAlone(q)'
    <3>1. CASE q = r BY <2>3, <2>5, <3>1 DEF HandlerIsAlone, Ending
    <3>2. CASE q # r
      <4>1. req[q].at \in Ending => req[q].task # taskIds + 1 /\ engine'[req[q].task] = engine[req[q].task]
        BY <1>0, <1>h, <2>1, <2>6, <2>8 DEF HandlerKnows, PlaceTypes
      <4>2. HandlerIsAlone(q) BY <2>8
      <4>3. QED BY <2>1, <2>3, <2>5, <2>8, <3>2, <4>1, <4>2 DEF HandlerIsAlone, Ending
    <3>3. QED BY <3>1, <3>2
  <2>9. \A t \in Legacy!Tasks : TaskIsKnown(t)' BY <2>1, <2>2 DEF TaskIsKnown
  <2>10. \A t : Legacy!Between(t)' = Legacy!Between(t)
    BY <2>1, <2>3, <2>5 DEF Legacy!Between
  <2>11. Legacy!TasksAgree'
    BY <1>0, <2>1, <2>2, <2>6, <2>10 DEF Legacy!TasksAgree, PlaceTypes
  <2>12. QED BY <2>4, <2>7, <2>8, <2>9, <2>11
<1>8. ASSUME NEW r \in Requests, Legacy!SetsState(r) PROVE PlacesKeep'
  <2> DEFINE new == [req[r] EXCEPT !.at = "commit"]
  <2>1. /\ req' = [req EXCEPT ![r] = new] /\ state' = state \cup {req[r].task}
        /\ UNCHANGED <<taskIds, row, engine, control, expired, answers, torn>>
        /\ req[r].at = "state" /\ req[r].kind = "create"
    BY <1>8 DEF Legacy!SetsState, Legacy!At, Legacy!Goes
  <2>2. /\ req[r].task \in 1..taskIds /\ req[r].task \in Legacy!Tasks /\ taskIds \in Nat
        /\ HandlerKnows(r)
    BY <1>0, <1>h, <2>1 DEF PlaceTypes, HandlerKnows, Creating
  <2>3. /\ new \in Handlers /\ new.at = "commit" /\ new.task = req[r].task /\ new.kind = "create"
        /\ new.token = req[r].token
    BY <1>h, <1>8, <2>1 DEF Handlers, Legacy!Steps
  <2> HIDE DEF new
  <2>4. PlaceTypes' BY <1>0, <2>1, <2>2, <2>3 DEF PlaceTypes
  <2>5. req'[r] = new /\ \A q \in Requests \ {r} : req'[q] = req[q] BY <1>0, <2>1 DEF PlaceTypes
  <2>6. ASSUME NEW q \in Requests PROVE HandlerKnows(q)'
    <3>1. CASE q = r BY <2>1, <2>2, <2>3, <2>5, <3>1 DEF HandlerKnows, Creating, Ending
    <3>2. CASE q # r
      <4>1. HandlerKnows(q) BY <2>6
      <4>2. QED BY <2>1, <2>3, <2>5, <2>6, <3>2, <4>1 DEF HandlerKnows, Creating
    <3>3. QED BY <3>1, <3>2
  <2>7. ASSUME NEW q \in Requests PROVE HandlerIsAlone(q)'
    <3>1. CASE q = r BY <2>3, <2>5, <3>1 DEF HandlerIsAlone, Ending
    <3>2. CASE q # r
      <4>1. HandlerIsAlone(q) BY <2>7
      <4>2. QED BY <2>1, <2>3, <2>5, <2>7, <3>2, <4>1 DEF HandlerIsAlone, Ending
    <3>3. QED BY <3>1, <3>2
  <2>8. \A t \in Legacy!Tasks : TaskIsKnown(t)' BY <2>1 DEF TaskIsKnown
  <2>9. \A t : Legacy!Between(t)' = Legacy!Between(t)
    BY <2>1, <2>3, <2>5 DEF Legacy!Between
  <2>10. Legacy!TasksAgree' BY <2>1, <2>9 DEF Legacy!TasksAgree
  <2>11. QED BY <2>4, <2>6, <2>7, <2>8, <2>10
<1>9. ASSUME NEW r \in Requests, Legacy!Commits(r) PROVE PlacesKeep'
  <2> DEFINE new == [req[r] EXCEPT !.at = "save"]
  <2> DEFINE t == req[r].task
  <2>1. /\ req' = [req EXCEPT ![r] = new] /\ row' = [row EXCEPT ![t] = "running"]
        /\ UNCHANGED <<taskIds, engine, state, control, expired, answers, torn>>
        /\ req[r].at = "commit" /\ req[r].kind = "create"
    BY <1>9 DEF Legacy!Commits, Legacy!At, Legacy!Goes
  <2>2. /\ t \in 1..taskIds /\ t \in Legacy!Tasks /\ taskIds \in Nat
        /\ row[t] = "none" /\ engine[t] = "running" /\ t \in state /\ t \notin Legacy!Flagged
        /\ req[r].token \in Tokens
        /\ \A q \in Requests \ {r} : req[q].at \in Creating => req[q].task # t
    <3>1. taskIds \in 0..MaxTasks BY <1>0 DEF PlaceTypes
    <3>2. HandlerKnows(r) BY <1>9
    <3>3. QED BY <2>1, <3>1, <3>2 DEF HandlerKnows, Creating, TaskIsKnown
  <2>3. /\ new \in Handlers /\ new.at = "save" /\ new.kind = "create" /\ new.token = req[r].token
    BY <1>h, <1>9, <2>1 DEF Handlers, Legacy!Steps
  <2> HIDE DEF new, t
  <2>4. PlaceTypes' BY <1>0, <2>1, <2>2, <2>3 DEF PlaceTypes
  <2>5. req'[r] = new /\ \A q \in Requests \ {r} : req'[q] = req[q] BY <1>0, <2>1 DEF PlaceTypes
  <2>6. row'[t] = "running" /\ \A u \in Legacy!Tasks \ {t} : row'[u] = row[u]
    BY <1>0, <2>1, <2>2 DEF PlaceTypes
  <2>7. ASSUME NEW q \in Requests PROVE HandlerKnows(q)'
    <3>1. CASE q = r BY <2>2, <2>3, <2>5, <3>1 DEF HandlerKnows, Creating, Ending
    <3>2. CASE q # r
      <4>1. HandlerKnows(q) /\ taskIds \in 0..MaxTasks BY <1>0, <2>7 DEF PlaceTypes
      <4>2. req[q].at \in Creating => req[q].task \in Legacy!Tasks \ {t}
        BY <2>2, <2>7, <3>2, <4>1 DEF HandlerKnows
      <4>3. req[q].at \in Ending \cup {"call"} => row'[req[q].task] # "none"
        BY <2>6, <4>1 DEF HandlerKnows
      <4>4. QED BY <2>1, <2>3, <2>5, <2>6, <2>7, <3>2, <4>1, <4>2, <4>3 DEF HandlerKnows, Creating
    <3>3. QED BY <3>1, <3>2
  <2>8. ASSUME NEW q \in Requests, req[q].at \in Ending PROVE req[q].task \in Legacy!Tasks \ {t}
    BY <1>h, <2>2, <2>8 DEF HandlerKnows
  <2>9. ASSUME NEW q \in Requests PROVE HandlerIsAlone(q)'
    <3>1. CASE q = r BY <2>3, <2>5, <3>1 DEF HandlerIsAlone, Ending
    <3>2. CASE q # r
      <4>1. HandlerIsAlone(q) BY <2>9
      <4>2. QED BY <2>1, <2>3, <2>5, <2>6, <2>8, <2>9, <3>2, <4>1 DEF HandlerIsAlone, Ending
    <3>3. QED BY <3>1, <3>2
  <2>10. \A u \in Legacy!Tasks : TaskIsKnown(u)' BY <1>0, <2>1, <2>2, <2>6 DEF TaskIsKnown
  <2>11. \A u : Legacy!Between(u)' = Legacy!Between(u)
    BY <2>1, <2>3, <2>5 DEF Legacy!Between
  <2>12. Legacy!TasksAgree' BY <2>1, <2>2, <2>6, <2>11 DEF Legacy!TasksAgree
  <2>13. QED BY <2>4, <2>7, <2>9, <2>10, <2>12
(* The engine takes the first of two requests, and refuses one that comes   *)
(* for a status it has left.                                               *)
<1>10. ASSUME NEW r \in Requests, Legacy!Calls(r) PROVE PlacesKeep'
  <2> DEFINE new == [req[r] EXCEPT !.at = "flag"]
  <2> DEFINE t == req[r].task
  <2> DEFINE k == req[r].kind
  <2>1. k \in {"interrupt", "resume"} /\ req[r].at = "call" /\ UNCHANGED <<taskIds, row, state, control, expired, answers>>
    BY <1>10 DEF Legacy!Calls
  <2>2. CASE ~ (t \in state /\ engine[t] = Legacy!From(k))
    <3>1. Legacy!Stops(r) /\ UNCHANGED <<engine, torn>> BY <1>10, <2>2 DEF Legacy!Calls
    <3>2. answers' \in [Tokens -> 0..MaxTasks] BY <1>0, <2>1 DEF PlaceTypes
    <3>3. QED BY <1>2, <2>1, <3>1, <3>2 DEF Ending
  <2>3. CASE t \in state /\ engine[t] = Legacy!From(k)
    <3>1. /\ req' = [req EXCEPT ![r] = new] /\ engine' = [engine EXCEPT ![t] = Legacy!To(k)]
          /\ torn' = IF Legacy!Between(t) # {} THEN torn \cup {t} ELSE torn
      BY <1>10, <2>3 DEF Legacy!Calls, Legacy!Goes
    <3>2. /\ new \in Handlers /\ new.at = "flag" /\ new.kind = k /\ new.token = req[r].token /\ new.task = t
      BY <1>h, <1>10, <2>1 DEF Handlers, Legacy!Steps
    <3>3. /\ t \in Legacy!Tasks /\ row[t] # "none" /\ engine[t] # "none"
          /\ Legacy!From(k) \in {"running", "interrupted"} /\ Legacy!To(k) \in {"running", "interrupted"}
      BY <1>h, <2>1, <2>3 DEF HandlerKnows, Legacy!From, Legacy!To
    <3> HIDE DEF new, t, k
    <3>4. PlaceTypes' BY <1>0, <2>1, <3>1, <3>2, <3>3 DEF PlaceTypes
    <3>5. req'[r] = new /\ \A q \in Requests \ {r} : req'[q] = req[q] BY <1>0, <3>1 DEF PlaceTypes
    <3>6. engine'[t] = Legacy!To(k) /\ \A u \in Legacy!Tasks \ {t} : engine'[u] = engine[u]
      BY <1>0, <3>1, <3>3 DEF PlaceTypes
    <3>7. ASSUME NEW q \in Requests PROVE HandlerKnows(q)'
      <4>1. CASE q = r BY <2>1, <3>2, <3>3, <3>5, <4>1 DEF HandlerKnows, Creating, Ending
      <4>2. CASE q # r
        <5>1. HandlerKnows(q) /\ taskIds \in 0..MaxTasks BY <1>0, <3>7 DEF PlaceTypes
        <5>2. req[q].at \in Creating => req[q].task \in Legacy!Tasks \ {t}
          BY <3>3, <5>1 DEF HandlerKnows
        <5>3. QED BY <2>1, <3>2, <3>5, <3>6, <3>7, <4>2, <5>1, <5>2 DEF HandlerKnows, Creating
      <4>3. QED BY <4>1, <4>2
    (* Nobody else has passed the engine, or the task is torn from now on. *)
    <3>8. t \notin torn' => Legacy!Between(t) = {} BY <3>1
    <3>9. ASSUME NEW q \in Requests PROVE HandlerIsAlone(q)'
      <4>1. CASE q = r
        <5>1. SUFFICES ASSUME t \notin torn' PROVE HandlerIsAlone(q)'
          BY <3>2, <3>5, <4>1 DEF HandlerIsAlone
        <5>2. t \notin torn /\ \A p \in Requests : req[p].at \in Ending => req[p].task # t
          BY <3>1, <3>8, <5>1 DEF Legacy!Between, Ending
        <5>3. row[t] = Legacy!From(k) /\ (row[t] = "interrupted" <=> t \in Legacy!Flagged)
          BY <2>3, <3>3, <3>8, <5>1, <5>2 DEF Legacy!TasksAgree, t, k
        <5>4. QED BY <2>1, <3>2, <3>5, <3>6, <4>1, <5>2, <5>3 DEF HandlerIsAlone, Ending, Legacy!From
      <4>2. CASE q # r
        <5>1. SUFFICES ASSUME req[q].at \in Ending, req[q].task \notin torn' PROVE HandlerIsAlone(q)'
          BY <3>5, <3>9, <4>2 DEF HandlerIsAlone
        <5>2. req[q].task # t /\ req[q].task \notin torn /\ req[q].task \in Legacy!Tasks
          BY <1>h, <3>1, <3>8, <3>9, <5>1 DEF Legacy!Between, Ending, HandlerKnows
        <5>3. HandlerIsAlone(q) BY <3>9
        <5>4. QED BY <2>1, <3>2, <3>5, <3>6, <3>9, <4>2, <5>1, <5>2, <5>3 DEF HandlerIsAlone, Ending
      <4>3. QED BY <4>1, <4>2
    <3>10. \A u \in Legacy!Tasks : TaskIsKnown(u)' BY <2>1 DEF TaskIsKnown
    <3>11. ASSUME NEW u \in Legacy!Tasks, u \notin torn', Legacy!Between(u)' = {} PROVE u # t /\ Legacy!Between(u) = {}
      BY <2>1, <3>2, <3>5, <3>11 DEF Legacy!Between
    <3>12. Legacy!TasksAgree' BY <2>1, <3>1, <3>6, <3>11 DEF Legacy!TasksAgree
    <3>13. QED BY <3>4, <3>7, <3>9, <3>10, <3>12
  <2>4. QED BY <2>2, <2>3
<1>11. ASSUME NEW r \in Requests, Legacy!Flags(r) PROVE PlacesKeep'
  <2> DEFINE new == [req[r] EXCEPT !.at = "write"]
  <2> DEFINE t == req[r].task
  <2> DEFINE k == req[r].kind
  <2>1. /\ req' = [req EXCEPT ![r] = new] /\ req[r].at = "flag"
        /\ control' = IF k = "interrupt" THEN control \cup {t} ELSE control \ {t}
        /\ expired' = expired \ {t}
        /\ UNCHANGED <<taskIds, row, engine, state, answers, torn>>
    BY <1>11 DEF Legacy!Flags, Legacy!Goes
  <2>2. /\ new \in Handlers /\ new.at = "write" /\ new.kind = k /\ new.token = req[r].token /\ new.task = t
    BY <1>h, <1>11, <2>1 DEF Handlers, Legacy!Steps
  <2>3. t \in Legacy!Tasks /\ row[t] # "none" /\ k \in {"interrupt", "resume"}
    BY <1>h, <2>1 DEF HandlerKnows, Ending
  <2> HIDE DEF new, t, k
  <2>4. PlaceTypes' BY <1>0, <2>1, <2>2, <2>3 DEF PlaceTypes
  <2>5. req'[r] = new /\ \A q \in Requests \ {r} : req'[q] = req[q] BY <1>0, <2>1 DEF PlaceTypes
  <2>6. ASSUME NEW q \in Requests PROVE HandlerKnows(q)'
    <3>1. CASE q = r BY <2>1, <2>2, <2>3, <2>5, <3>1 DEF HandlerKnows, Creating, Ending
    <3>2. CASE q # r
      <4>1. HandlerKnows(q) BY <2>6
      <4>2. QED BY <2>1, <2>2, <2>5, <2>6, <3>2, <4>1 DEF HandlerKnows, Creating
    <3>3. QED BY <3>1, <3>2
  <2>7. HandlerIsAlone(r) /\ HandlerKnows(r) BY <1>11
  <2>8. ASSUME NEW q \in Requests PROVE HandlerIsAlone(q)'
    <3>1. CASE q = r
      <4>1. t \notin torn => /\ \A p \in Requests \ {r} : req[p].at \in Ending => req[p].task # t
                             /\ row[t] = Legacy!From(k) /\ engine[t] = Legacy!To(k)
        BY <2>1, <2>7 DEF HandlerIsAlone, Ending, t, k
      <4>2. QED BY <2>1, <2>2, <2>3, <2>5, <3>1, <4>1 DEF HandlerIsAlone, Ending
    <3>2. CASE q # r
      <4>1. HandlerIsAlone(q) BY <2>8
      <4>2. req[q].at \in Ending /\ req[q].task \notin torn => req[q].task # t
        BY <2>1, <2>7, <2>8, <3>2 DEF HandlerIsAlone, Ending, t
      <4>3. QED BY <2>1, <2>2, <2>5, <2>8, <3>2, <4>1, <4>2 DEF HandlerIsAlone, Ending
    <3>3. QED BY <3>1, <3>2
  <2>9. \A u \in Legacy!Tasks : TaskIsKnown(u)' BY <2>1, <2>3 DEF TaskIsKnown
  <2>10. ASSUME NEW u \in Legacy!Tasks, Legacy!Between(u)' = {} PROVE u # t /\ Legacy!Between(u) = {}
    BY <2>1, <2>2, <2>5, <2>10 DEF Legacy!Between, t
  <2>11. Legacy!TasksAgree' BY <2>1, <2>10 DEF Legacy!TasksAgree
  <2>12. QED BY <2>4, <2>6, <2>8, <2>9, <2>11
(* The row comes last: the three places agree again.                       *)
<1>12. ASSUME NEW r \in Requests, Legacy!Writes(r) PROVE PlacesKeep'
  <2> DEFINE new == [req[r] EXCEPT !.at = "over"]
  <2> DEFINE t == req[r].task
  <2> DEFINE k == req[r].kind
  <2>1. /\ req' = [req EXCEPT ![r] = new] /\ req[r].at = "write"
        /\ row' = [row EXCEPT ![t] = Legacy!To(k)]
        /\ UNCHANGED <<taskIds, engine, state, control, expired, answers, torn>>
    BY <1>12 DEF Legacy!Writes, Legacy!Stops, Legacy!Goes
  <2>2. /\ new \in Handlers /\ new.at = "over" /\ new.kind = k /\ new.token = req[r].token /\ new.task = t
    BY <1>h, <1>12, <2>1 DEF Handlers, Legacy!Steps
  <2>3. /\ t \in Legacy!Tasks /\ row[t] # "none" /\ k \in {"interrupt", "resume"} /\ t \in state
        /\ t <= taskIds /\ Legacy!To(k) \in {"running", "interrupted"}
    <3>1. t \in Legacy!Tasks /\ row[t] # "none" /\ k \in {"interrupt", "resume"}
      BY <1>h, <2>1 DEF HandlerKnows, Ending
    <3>2. taskIds \in 0..MaxTasks BY <1>0 DEF PlaceTypes
    <3>3. QED BY <3>1, <3>2 DEF TaskIsKnown, Legacy!To
  <2>4. HandlerIsAlone(r) /\ HandlerKnows(r) BY <1>12
  <2>5. t \notin torn => /\ \A p \in Requests \ {r} : req[p].at \in Ending => req[p].task # t
                         /\ engine[t] = Legacy!To(k) /\ ((t \in Legacy!Flagged) <=> (k = "interrupt"))
    BY <2>1, <2>3, <2>4 DEF HandlerIsAlone, Ending
  <2> HIDE DEF new, t, k
  <2>6. PlaceTypes' BY <1>0, <2>1, <2>2, <2>3 DEF PlaceTypes
  <2>7. req'[r] = new /\ \A q \in Requests \ {r} : req'[q] = req[q] BY <1>0, <2>1 DEF PlaceTypes
  <2>8. row'[t] = Legacy!To(k) /\ \A u \in Legacy!Tasks \ {t} : row'[u] = row[u]
    BY <1>0, <2>1, <2>3 DEF PlaceTypes
  <2>9. ASSUME NEW q \in Requests PROVE HandlerKnows(q)'
    <3>1. CASE q = r
      <4>1. HandlerKnows(q) BY <2>9
      <4>2. QED BY <2>2, <2>3, <2>7, <3>1, <4>1 DEF HandlerKnows, Creating, Ending
    <3>2. CASE q # r
      <4>1. HandlerKnows(q) /\ taskIds \in 0..MaxTasks BY <1>0, <2>9 DEF PlaceTypes
      <4>2. req[q].at \in Creating => req[q].task \in Legacy!Tasks \ {t}
        BY <2>3, <4>1 DEF HandlerKnows
      <4>3. req[q].at \in Ending \cup {"call"} => row'[req[q].task] # "none"
        BY <2>3, <2>8, <4>1 DEF HandlerKnows
      <4>4. QED BY <2>1, <2>2, <2>7, <2>8, <2>9, <3>2, <4>1, <4>2, <4>3 DEF HandlerKnows, Creating
    <3>3. QED BY <3>1, <3>2
  <2>10. ASSUME NEW q \in Requests PROVE HandlerIsAlone(q)'
    <3>1. CASE q = r BY <2>2, <2>7, <3>1 DEF HandlerIsAlone, Ending
    <3>2. CASE q # r
      <4>1. HandlerIsAlone(q) BY <2>10
      <4>2. req[q].at \in Ending /\ req[q].task \notin torn => req[q].task \in Legacy!Tasks \ {t}
        BY <1>h, <2>5, <2>10, <3>2 DEF HandlerKnows
      <4>3. QED BY <2>1, <2>2, <2>7, <2>8, <2>10, <3>2, <4>1, <4>2 DEF HandlerIsAlone, Ending
    <3>3. QED BY <3>1, <3>2
  <2>11. \A u \in Legacy!Tasks : TaskIsKnown(u)' BY <1>0, <2>1, <2>3, <2>8 DEF TaskIsKnown
  <2>12. ASSUME NEW u \in Legacy!Tasks, u # t PROVE Legacy!Between(u)' = Legacy!Between(u)
    BY <2>1, <2>2, <2>7, <2>12 DEF Legacy!Between, t
  <2>13. ASSUME NEW u \in Legacy!Tasks, u \notin torn', row'[u] # "none", Legacy!Between(u)' = {}
         PROVE  /\ u \in state' /\ (row'[u] = "interrupted" <=> u \in Legacy!Flagged')
                /\ engine'[u] \in {"none", row'[u]}
    <3>1. CASE u = t BY <2>1, <2>3, <2>5, <2>8, <2>13, <3>1 DEF Legacy!To
    <3>2. CASE u # t BY <2>1, <2>8, <2>12, <2>13, <3>2 DEF Legacy!TasksAgree
    <3>3. QED BY <3>1, <3>2
  <2>14. Legacy!TasksAgree' BY <2>13 DEF Legacy!TasksAgree
  <2>15. QED BY <2>6, <2>9, <2>10, <2>11, <2>14
(* Half-way, the task of the handler is torn.                              *)
<1>13. ASSUME NEW r \in Requests, Legacy!Breaks(r) PROVE PlacesKeep'
  <2> DEFINE new == [req[r] EXCEPT !.at = "over"]
  <2> DEFINE t == req[r].task
  <2>1. /\ Legacy!Stops(r) /\ req' = [req EXCEPT ![r] = new]
        /\ UNCHANGED <<taskIds, row, engine, state, control, expired, answers>> /\ req[r].kind # "none"
        /\ torn' = IF req[r].at \in {"flag", "write"} THEN torn \cup {t} ELSE torn
    BY <1>13 DEF Legacy!Breaks, Legacy!Stops, Legacy!Goes
  <2>2. answers' \in [Tokens -> 0..MaxTasks] BY <1>0, <2>1 DEF PlaceTypes
  <2>3. CASE req[r].at \notin Ending BY <1>2, <2>1, <2>2, <2>3 DEF Ending
  <2>4. CASE req[r].at \in Ending
    <3>1. /\ new \in Handlers /\ new.at = "over" /\ new.kind = req[r].kind /\ new.token = req[r].token
      BY <1>h, <1>13, <2>1 DEF Handlers, Legacy!Steps
    <3>2. torn' = torn \cup {t} BY <2>1, <2>4 DEF Ending
    <3> HIDE DEF new, t
    <3>3. PlaceTypes' BY <1>0, <2>1, <3>1 DEF PlaceTypes
    <3>4. req'[r] = new /\ \A q \in Requests \ {r} : req'[q] = req[q] BY <1>0, <2>1 DEF PlaceTypes
    <3>5. ASSUME NEW q \in Requests PROVE HandlerKnows(q)'
      <4>1. HandlerKnows(q) BY <3>5
      <4>2. CASE q = r BY <2>1, <3>1, <3>4, <4>1, <4>2 DEF HandlerKnows, Creating, Ending
      <4>3. CASE q # r BY <2>1, <3>1, <3>4, <3>5, <4>1, <4>3 DEF HandlerKnows, Creating
      <4>4. QED BY <4>2, <4>3
    <3>6. ASSUME NEW q \in Requests PROVE HandlerIsAlone(q)'
      <4>1. HandlerIsAlone(q) BY <3>6
      <4>2. CASE q = r BY <3>1, <3>4, <4>2 DEF HandlerIsAlone, Ending
      <4>3. CASE q # r BY <2>1, <3>1, <3>2, <3>4, <3>6, <4>1, <4>3 DEF HandlerIsAlone, Ending
      <4>4. QED BY <4>2, <4>3
    <3>7. \A u \in Legacy!Tasks : TaskIsKnown(u)' BY <2>1 DEF TaskIsKnown
    <3>8. ASSUME NEW u \in Legacy!Tasks, u # t PROVE Legacy!Between(u)' = Legacy!Between(u)
      BY <2>1, <3>1, <3>4, <3>8 DEF Legacy!Between, t
    <3>9. Legacy!TasksAgree' BY <2>1, <3>2, <3>8 DEF Legacy!TasksAgree
    <3>10. QED BY <3>3, <3>5, <3>6, <3>7, <3>9
  <2>5. QED BY <2>3, <2>4
<1>14. CASE Legacy!Restart
  <2>1. /\ req' = [r \in Requests |-> IF req[r].kind = "none" THEN req[r] ELSE [req[r] EXCEPT !.at = "over"]]
        /\ torn' = torn \cup {t \in Legacy!Tasks : Legacy!Between(t) # {}}
        /\ engine' = [t \in Legacy!Tasks |-> "none"]
        /\ UNCHANGED <<taskIds, row, state, control, expired, answers>>
    BY <1>14 DEF Legacy!Restart
  <2>2. ASSUME NEW r \in Requests
        PROVE  /\ req'[r] \in Handlers /\ req'[r].kind = req[r].kind /\ req'[r].token = req[r].token
               /\ req'[r].at \notin Creating \cup Ending \cup {"call"}
               /\ req'[r].kind = "none" => req'[r].at = "new"
    <3>1. CASE req[r].kind = "none"
      <4>1. req'[r] = req[r] BY <2>1, <2>2, <3>1
      <4>2. req[r].at = "new" BY <1>h, <2>2, <3>1 DEF HandlerKnows
      <4>3. QED BY <1>h, <2>2, <4>1, <4>2 DEF Creating, Ending
    <3>2. CASE req[r].kind # "none"
      <4>1. req'[r] = [req[r] EXCEPT !.at = "over"] BY <2>1, <2>2, <3>2
      <4>2. QED BY <1>h, <2>2, <3>2, <4>1 DEF Handlers, Legacy!Steps, Creating, Ending
    <3>3. QED BY <3>1, <3>2
  <2>3. PlaceTypes'
    <3>1. req' \in [Requests -> Handlers]
      <4>1. \A r \in Requests : req'[r] \in Handlers BY <2>2
      <4>2. req' = [r \in Requests |-> req'[r]] BY <2>1
      <4> HIDE <2>1
      <4>3. QED BY <4>1, <4>2
    <3>2. QED BY <1>0, <2>1, <3>1 DEF PlaceTypes
  <2>4. \A r \in Requests : HandlerKnows(r)' BY <1>h, <2>2 DEF HandlerKnows, Creating, Ending
  <2>5. \A r \in Requests : HandlerIsAlone(r)' BY <2>2 DEF HandlerIsAlone
  <2>6. \A t \in Legacy!Tasks : TaskIsKnown(t)' BY <2>1 DEF TaskIsKnown
  <2>7. ASSUME NEW t \in Legacy!Tasks, t \notin torn' PROVE t \notin torn /\ Legacy!Between(t) = {}
    BY <2>1, <2>7
  <2>8. Legacy!TasksAgree' BY <2>1, <2>7 DEF Legacy!TasksAgree
  <2>9. QED BY <2>3, <2>4, <2>5, <2>6, <2>8
(* What runs out in Redis leaves the story as it was told.                 *)
<1>15. ASSUME UNCHANGED <<req, taskIds, row, engine, state, torn>>, Legacy!Flagged' = Legacy!Flagged,
              answers' \in [Tokens -> 0..MaxTasks]
       PROVE  PlacesKeep'
  <2>1. PlaceTypes' BY <1>0, <1>15 DEF PlaceTypes
  <2>2. \A u : Legacy!Between(u)' = Legacy!Between(u) BY <1>15 DEF Legacy!Between
  <2>3. Legacy!TasksAgree' BY <1>15, <2>2 DEF Legacy!TasksAgree
  <2>4. \A q \in Requests : HandlerKnows(q)' /\ HandlerIsAlone(q)'
    BY <1>h, <1>15 DEF HandlerKnows, HandlerIsAlone
  <2>5. \A u \in Legacy!Tasks : TaskIsKnown(u)' BY <1>15 DEF TaskIsKnown
  <2>6. QED BY <2>1, <2>3, <2>4, <2>5
<1>16. CASE Legacy!MinutePasses BY <1>0, <1>15, <1>16 DEF Legacy!MinutePasses, PlaceTypes
<1>17. CASE UNCHANGED Legacy!vars BY <1>0, <1>15, <1>17 DEF Legacy!vars, PlaceTypes
<1>18. ASSUME NEW token \in Tokens, Legacy!AnswerExpires(token) PROVE PlacesKeep'
  BY <1>0, <1>15, <1>18 DEF Legacy!AnswerExpires, PlaceTypes
<1>19. ASSUME NEW t \in Legacy!Tasks, Legacy!FlagExpires(t) PROVE PlacesKeep'
  <2>1. Legacy!Flagged' = Legacy!Flagged BY <1>19 DEF Legacy!FlagExpires
  <2>2. QED BY <1>0, <1>15, <1>19, <2>1 DEF Legacy!FlagExpires, PlaceTypes
<1>20. QED
  BY <1>3, <1>4, <1>5, <1>6, <1>7, <1>8, <1>9, <1>10, <1>11, <1>12, <1>13, <1>14, <1>16, <1>17, <1>18, <1>19
  DEF Legacy!Next

(* A request that found an answer waiting for it has not gone past it, and  *)
(* the answer is still there.                                              *)
Promised(r) ==
    promised[r] # 0 =>
        /\ req[r].kind = "create" /\ req[r].token \in Tokens /\ req[r].at \in {"ask", "over"}
        /\ answers[req[r].token] = promised[r]
        /\ req[r].task \in {0, promised[r]}

PromisesKeep ==
    /\ promised \in [Requests -> 0..MaxTasks]
    /\ \A r \in Requests : Promised(r)

LEMMA PromisesStep ==
    ASSUME MaxTasks \in Nat, PlacesKeep, PromisesKeep, [Legacy!Next]_Legacy!vars
    PROVE  PromisesKeep'
<1>0. PlaceTypes /\ \A r \in Requests : req[r] \in Handlers /\ HandlerKnows(r)
  BY DEF PlacesKeep, PlaceTypes
<1> USE DEF PromisesKeep
(* A handler moves, and no answer that is there changes.                   *)
<1>1. ASSUME NEW r \in Requests, NEW new, req' = [req EXCEPT ![r] = new], promised' = promised,
             \A k \in Tokens : answers[k] # 0 => answers'[k] = answers[k],
             promised[r] # 0 => /\ new.kind = "create" /\ new.token = req[r].token
                                /\ new.at \in {"ask", "over"} /\ new.task \in {0, promised[r]}
      PROVE  PromisesKeep'
  <2>1. req'[r] = new /\ \A q \in Requests \ {r} : req'[q] = req[q]
    BY <1>0, <1>1 DEF PlaceTypes
  <2>2. \A q \in Requests : promised[q] # 0 => answers'[req[q].token] = promised[q]
    BY <1>1 DEF Promised
  <2>3. ASSUME NEW q \in Requests PROVE Promised(q)'
    <3>1. CASE q = r BY <1>1, <2>1, <2>2, <3>1 DEF Promised
    <3>2. CASE q # r BY <1>1, <2>1, <2>2, <2>3, <3>2 DEF Promised
    <3>3. QED BY <3>1, <3>2
  <2>4. QED BY <1>1, <2>3
(* One that is past the answers was promised nothing.                      *)
<1>2. ASSUME NEW r \in Requests, req[r].at \notin {"ask", "over"}, NEW new,
             req' = [req EXCEPT ![r] = new], promised' = promised,
             \A k \in Tokens : answers[k] # 0 => answers'[k] = answers[k]
      PROVE  PromisesKeep'
  BY <1>1, <1>2 DEF Promised
<1>3. ASSUME NEW r \in Requests, NEW token \in Tokens, Legacy!Asks(r, token) PROVE PromisesKeep'
  <2> DEFINE new == [kind |-> "create", at |-> IF asked' > Limit THEN "over" ELSE "ask",
                     token |-> token, task |-> 0]
  <2>1. req' = [req EXCEPT ![r] = new] /\ promised' = [promised EXCEPT ![r] = answers[token]] /\ answers' = answers
    BY <1>3 DEF Legacy!Asks
  <2>2. new.kind = "create" /\ new.token = token /\ new.at \in {"ask", "over"} /\ new.task = 0 OBVIOUS
  <2>3. answers[token] \in 0..MaxTasks BY <1>0 DEF PlaceTypes
  <2> HIDE DEF new
  <2>4. /\ req'[r] = new /\ promised'[r] = answers[token]
        /\ \A q \in Requests \ {r} : req'[q] = req[q] /\ promised'[q] = promised[q]
    BY <1>0, <2>1 DEF PlaceTypes
  <2>5. ASSUME NEW q \in Requests PROVE Promised(q)'
    <3>1. CASE q = r BY <2>1, <2>2, <2>4, <3>1 DEF Promised
    <3>2. CASE q # r BY <2>1, <2>4, <2>5, <3>2 DEF Promised
    <3>3. QED BY <3>1, <3>2
  <2>6. QED BY <2>1, <2>3, <2>5
<1>4. ASSUME NEW r \in Requests, Legacy!LooksUp(r) PROVE PromisesKeep'
  <2> DEFINE saved == answers[req[r].token]
  <2> DEFINE new == [req[r] EXCEPT !.at = IF saved # 0 THEN "over" ELSE "insert", !.task = saved]
  <2>1. req' = [req EXCEPT ![r] = new] /\ promised' = promised /\ answers' = answers
    BY <1>4 DEF Legacy!LooksUp
  <2>2. new.kind = req[r].kind /\ new.token = req[r].token /\ new.task = saved /\ (saved # 0 => new.at = "over")
    BY <1>0 DEF Handlers
  <2> HIDE DEF new
  <2>3. QED BY <1>1, <2>1, <2>2 DEF Promised
<1>5. ASSUME NEW r \in Requests, NEW k \in {"interrupt", "resume"}, NEW t \in Legacy!Tasks,
             Legacy!Controls(r, k, t)
      PROVE  PromisesKeep'
  BY <1>2, <1>5 DEF Legacy!Controls, Legacy!At
<1>6. ASSUME NEW r \in Requests, Legacy!Saves(r) PROVE PromisesKeep'
  <2>1. req' = [req EXCEPT ![r] = [req[r] EXCEPT !.at = "over"]] /\ promised' = promised /\ req[r].at = "save"
    BY <1>6 DEF Legacy!Saves, Legacy!At, Legacy!Stops, Legacy!Goes
  <2>2. \A k \in Tokens : answers[k] # 0 => answers'[k] = answers[k]
    BY <1>0, <1>6 DEF Legacy!Saves, PlaceTypes
  <2>3. QED BY <1>2, <2>1, <2>2
<1>7. ASSUME NEW r \in Requests,
             \/ Legacy!Submits(r) \/ Legacy!SetsState(r) \/ Legacy!Commits(r)
             \/ Legacy!Calls(r) \/ Legacy!Flags(r) \/ Legacy!Writes(r)
      PROVE  PromisesKeep'
  <2>1. req[r].at \notin {"ask", "over"} /\ promised' = promised /\ answers' = answers
    BY <1>7 DEF Legacy!Submits, Legacy!SetsState, Legacy!Commits, Legacy!Calls, Legacy!Flags, Legacy!Writes, Legacy!At
  <2>2. PICK new : req' = [req EXCEPT ![r] = new]
    BY <1>7 DEF Legacy!Submits, Legacy!SetsState, Legacy!Commits, Legacy!Calls, Legacy!Flags, Legacy!Writes, Legacy!Goes, Legacy!Stops
  <2>3. QED BY <1>2, <2>1, <2>2
<1>8. ASSUME NEW r \in Requests, Legacy!Breaks(r) PROVE PromisesKeep'
  <2> DEFINE new == [req[r] EXCEPT !.at = "over"]
  <2>1. req' = [req EXCEPT ![r] = new] /\ promised' = promised /\ answers' = answers
    BY <1>8 DEF Legacy!Breaks, Legacy!Stops, Legacy!Goes
  <2>2. new.kind = req[r].kind /\ new.token = req[r].token /\ new.task = req[r].task /\ new.at = "over"
    BY <1>0 DEF Handlers
  <2> HIDE DEF new
  <2>3. QED BY <1>1, <2>1, <2>2 DEF Promised
<1>9. CASE Legacy!Restart
  <2>1. /\ req' = [r \in Requests |-> IF req[r].kind = "none" THEN req[r] ELSE [req[r] EXCEPT !.at = "over"]]
        /\ promised' = promised /\ answers' = answers
    BY <1>9 DEF Legacy!Restart
  <2>2. ASSUME NEW r \in Requests, promised[r] # 0 PROVE Promised(r)'
    <3>1. req'[r] = [req[r] EXCEPT !.at = "over"] BY <2>1, <2>2 DEF Promised
    <3>2. req'[r].kind = req[r].kind /\ req'[r].token = req[r].token /\ req'[r].task = req[r].task /\ req'[r].at = "over"
      BY <1>0, <3>1 DEF Handlers
    <3>3. QED BY <2>1, <2>2, <3>2 DEF Promised
  <2>3. QED BY <2>1, <2>2 DEF Promised
<1>10. ASSUME NEW token \in Tokens, Legacy!AnswerExpires(token) PROVE PromisesKeep'
  <2>1. /\ req' = req /\ answers' = [answers EXCEPT ![token] = 0]
        /\ promised' = [r \in Requests |-> IF req[r].token = token THEN 0 ELSE promised[r]]
    BY <1>10 DEF Legacy!AnswerExpires
  <2>2. ASSUME NEW r \in Requests PROVE Promised(r)' /\ promised'[r] \in 0..MaxTasks
    <3>1. CASE req[r].token = token BY <2>1, <2>2, <3>1 DEF Promised
    <3>2. CASE req[r].token # token
      <4>1. promised[r] # 0 => answers'[req[r].token] = answers[req[r].token]
        BY <1>0, <2>1, <3>2 DEF Promised, PlaceTypes
      <4>2. QED BY <2>1, <2>2, <3>2, <4>1 DEF Promised
    <3>3. QED BY <3>1, <3>2
  <2>3. QED BY <2>1, <2>2
<1>11. CASE UNCHANGED <<req, answers, promised>> BY <1>11 DEF Promised
<1>12. QED
  BY <1>3, <1>4, <1>5, <1>6, <1>7, <1>8, <1>9, <1>10, <1>11
  DEF Legacy!Next, Legacy!MinutePasses, Legacy!FlagExpires, Legacy!vars

(* However the requests interleave with the engine, with Redis and with the *)
(* database, and whenever the API restarts, the row, the stop command and   *)
(* the engine tell the same story of every task whose handlers neither     *)
(* overlapped past the engine nor failed half-way; and a request whose     *)
(* token has an answer is given this one.                                  *)
THEOREM LegacyPlacesAgree ==
    ASSUME MaxTasks \in Nat
    PROVE  Legacy!Spec => []Legacy!PlacesAgree
<1>0. Legacy!Init => PlacesKeep /\ PromisesKeep
  BY PlacesInit DEF Legacy!Init, PromisesKeep, Promised
<1>1. PlacesKeep /\ PromisesKeep /\ [Legacy!Next]_Legacy!vars => PlacesKeep' /\ PromisesKeep'
  BY PlacesStep, PromisesStep
<1>2. PlacesKeep /\ PromisesKeep => Legacy!PlacesAgree
  BY DEF PlacesKeep, PromisesKeep, Promised, Legacy!PlacesAgree, Legacy!AnswersAreKept
<1>3. QED BY <1>0, <1>1, <1>2, PTL DEF Legacy!Spec

-----------------------------------------------------------------------------
(* Worktrees: a worktree is on the branch of its run, which exists as long  *)
(* as the repository does, and git lets no two worktrees have one branch.   *)
TreeRows == [step : {"new", "clean", "exists", "made", "working", "failed"}, base : Nat]

TreeTypes ==
    /\ head \in Nat \ {0}
    /\ branches \in [Trees!Branches -> Nat]
    /\ trees \in [RunIds -> Trees!Branches \cup {Trees!None}]
    /\ task \in [RunIds -> TreeRows]

BranchesKnown == \A b \in Trees!Branches : branches[b] <= head

TreeIsItsRuns(r) ==
    trees[r] # Trees!None =>
        /\ trees[r] = BranchOf[r] /\ r \notin stray /\ branches[BranchOf[r]] # 0
        /\ \A q \in RunIds \ {r} : trees[q] # BranchOf[r]

(* What the process of a run has learnt.                                   *)
TreeLearnt(r) ==
    /\ task[r].step = "exists" => r \notin stray /\ branches[BranchOf[r]] # 0
    /\ task[r].step \in {"made", "working"} => trees[r] = BranchOf[r]
    /\ task[r].step = "working" => branches[BranchOf[r]] <= task[r].base

TreesKeep ==
    /\ TreeTypes
    /\ BranchesKnown
    /\ \A r \in RunIds : TreeIsItsRuns(r) /\ TreeLearnt(r)

LEMMA TreesInit == Trees!Init => TreesKeep
BY DEF Trees!Init, TreesKeep, TreeTypes, TreeRows, BranchesKnown, TreeIsItsRuns, TreeLearnt

LEMMA TreesStep ==
    ASSUME Trees!None \notin Trees!Branches, TreesKeep, [Trees!Next]_Trees!vars
    PROVE  TreesKeep'
<1> USE DEF TreesKeep
<1>0. TreeTypes OBVIOUS
<1>r. ASSUME NEW r \in RunIds PROVE BranchOf[r] \in Trees!Branches /\ BranchOf[r] # Trees!None
  BY <1>r DEF Trees!Branches
(* A step of one run's process that leaves the worktrees alone.            *)
<1>1. ASSUME NEW r \in RunIds, UNCHANGED <<head, branches, trees, stray>>,
             NEW new \in TreeRows, task' = [task EXCEPT ![r] = new],
             new.step = "exists" => r \notin stray /\ branches[BranchOf[r]] # 0,
             new.step \in {"made", "working"} => trees[r] = BranchOf[r],
             new.step = "working" => branches[BranchOf[r]] <= new.base
      PROVE  TreesKeep'
  <2>1. TreeTypes' BY <1>0, <1>1 DEF TreeTypes
  <2>2. BranchesKnown' BY <1>1 DEF BranchesKnown
  <2>3. \A q \in RunIds : TreeIsItsRuns(q)' BY <1>1 DEF TreeIsItsRuns
  <2>4. \A q \in RunIds : TreeLearnt(q)' BY <1>0, <1>1 DEF TreeLearnt, TreeTypes
  <2>5. QED BY <2>1, <2>2, <2>3, <2>4
<1>2. ASSUME NEW r \in RunIds, NEW from, NEW to \in {"clean", "exists", "made", "failed"},
             Trees!Goes(r, from, to), UNCHANGED <<head, branches, trees, stray>>,
             to = "exists" => r \notin stray /\ branches[BranchOf[r]] # 0,
             to = "made" => trees[r] = BranchOf[r]
      PROVE  TreesKeep'
  <2> DEFINE new == [task[r] EXCEPT !.step = to]
  <2>1. task' = [task EXCEPT ![r] = new] BY <1>2 DEF Trees!Goes
  <2>2. new \in TreeRows /\ new.step = to BY <1>0, <1>2 DEF TreeTypes, TreeRows
  <2> HIDE DEF new
  <2>3. QED BY <1>1, <1>2, <2>1, <2>2
(* A worktree is made on a branch that exists and that nobody has.          *)
<1>3. ASSUME NEW r \in RunIds, task[r].step \in {"clean", "exists"},
             task' = [task EXCEPT ![r].step = "made"],
             trees' = [trees EXCEPT ![r] = BranchOf[r]],
             r \notin stray, \A q \in RunIds : trees[q] # BranchOf[r],
             branches' \in [Trees!Branches -> Nat], branches'[BranchOf[r]] # 0,
             \A b \in Trees!Branches : branches'[b] # branches[b] =>
                 b = BranchOf[r] /\ branches[b] = 0 /\ branches'[b] <= head,
             UNCHANGED <<head, stray>>
      PROVE  TreesKeep'
  <2> DEFINE new == [task[r] EXCEPT !.step = "made"]
  <2>1. task' = [task EXCEPT ![r] = new] BY <1>3
  <2>2. new \in TreeRows /\ new.step = "made" BY <1>0, <1>3 DEF TreeTypes, TreeRows
  <2> HIDE DEF new
  <2>3. TreeTypes' BY <1>0, <1>3, <1>r, <2>1, <2>2 DEF TreeTypes
  <2>4. BranchesKnown' BY <1>3 DEF BranchesKnown
  <2>5. ASSUME NEW q \in RunIds PROVE TreeIsItsRuns(q)'
    <3>1. CASE q = r BY <1>0, <1>3, <2>5, <3>1 DEF TreeIsItsRuns, TreeTypes
    <3>2. CASE q # r BY <1>0, <1>3, <1>r, <2>5, <3>2 DEF TreeIsItsRuns, TreeTypes
    <3>3. QED BY <3>1, <3>2
  <2>6. ASSUME NEW q \in RunIds PROVE TreeLearnt(q)'
    <3>1. CASE q = r BY <1>0, <1>3, <2>1, <2>2, <2>6, <3>1 DEF TreeLearnt, TreeTypes
    <3>2. CASE q # r
      <4>1. task'[q] = task[q] /\ trees'[q] = trees[q]
        BY <1>0, <1>3, <2>1, <2>6, <3>2 DEF TreeTypes
      <4>2. task[q].step \in {"made", "working"} => branches[BranchOf[q]] # 0 /\ trees[q] # Trees!None
        BY <1>r, <2>6 DEF TreeLearnt, TreeIsItsRuns
      <4>3. branches[BranchOf[q]] # 0 => branches'[BranchOf[q]] = branches[BranchOf[q]]
        BY <1>3, <1>r, <2>6
      <4>4. TreeLearnt(q) BY <2>6
      <4>5. QED BY <1>3, <4>1, <4>2, <4>3, <4>4 DEF TreeLearnt
    <3>3. QED BY <3>1, <3>2
  <2>7. QED BY <2>3, <2>4, <2>5, <2>6
<1>4. ASSUME NEW r \in RunIds, Trees!Inspects(r) PROVE TreesKeep'
  BY <1>2, <1>4 DEF Trees!Inspects
<1>5. ASSUME NEW r \in RunIds, Trees!Reuses(r) PROVE TreesKeep'
  BY <1>2, <1>5 DEF Trees!Reuses
<1>6. ASSUME NEW r \in RunIds, Trees!Adds(r) PROVE TreesKeep'
  <2>1. CASE branches[BranchOf[r]] # 0 BY <1>2, <1>6, <2>1 DEF Trees!Adds
  <2>2. CASE branches[BranchOf[r]] = 0
    <3>1. /\ task[r].step = "clean" /\ task' = [task EXCEPT ![r].step = "made"]
          /\ branches' = [branches EXCEPT ![BranchOf[r]] = head]
          /\ trees' = [trees EXCEPT ![r] = BranchOf[r]]
          /\ r \notin stray /\ UNCHANGED <<head, stray>>
      BY <1>6, <2>2 DEF Trees!Adds
    <3>2. \A q \in RunIds : trees[q] # BranchOf[r] BY <1>6, <1>r, <2>2 DEF TreeIsItsRuns
    <3>3. /\ branches' \in [Trees!Branches -> Nat] /\ branches'[BranchOf[r]] # 0
          /\ \A b \in Trees!Branches : branches'[b] # branches[b] =>
                b = BranchOf[r] /\ branches[b] = 0 /\ branches'[b] <= head
      BY <1>0, <1>6, <1>r, <2>2, <3>1 DEF TreeTypes
    <3>4. QED BY <1>3, <1>6, <3>1, <3>2, <3>3
  <2>3. QED BY <2>1, <2>2
<1>7. ASSUME NEW r \in RunIds, Trees!AddsBranch(r) PROVE TreesKeep'
  <2>1. CASE \E q \in RunIds : trees[q] = BranchOf[r] BY <1>2, <1>7, <2>1 DEF Trees!AddsBranch
  <2>2. CASE ~ \E q \in RunIds : trees[q] = BranchOf[r]
    <3>1. /\ task[r].step = "exists" /\ task' = [task EXCEPT ![r].step = "made"]
          /\ trees' = [trees EXCEPT ![r] = BranchOf[r]]
          /\ UNCHANGED <<head, branches, stray>>
      BY <1>7, <2>2 DEF Trees!AddsBranch, Trees!Goes
    <3>2. r \notin stray /\ branches[BranchOf[r]] # 0 BY <1>7, <3>1 DEF TreeLearnt
    <3>3. QED BY <1>0, <1>3, <1>7, <2>2, <3>1, <3>2 DEF TreeTypes
  <2>3. QED BY <2>1, <2>2
<1>8. ASSUME NEW r \in RunIds, Trees!Manifests(r) PROVE TreesKeep'
  <2> DEFINE new == [task[r] EXCEPT !.step = "working", !.base = head]
  <2>1. task' = [task EXCEPT ![r] = new] /\ task[r].step = "made"
        /\ UNCHANGED <<head, branches, trees, stray>>
    BY <1>8 DEF Trees!Manifests
  <2>2. new \in TreeRows /\ new.step = "working" /\ new.base = head
    BY <1>0, <1>8 DEF TreeTypes, TreeRows
  <2>3. trees[r] = BranchOf[r] /\ branches[BranchOf[r]] <= head
    BY <1>8, <1>r, <2>1 DEF TreeLearnt, BranchesKnown
  <2> HIDE DEF new
  <2>4. QED BY <1>1, <1>8, <2>1, <2>2, <2>3
<1>9. ASSUME NEW r \in RunIds, Trees!Restarts(r) PROVE TreesKeep'
  <2>1. [step |-> "new", base |-> 0] \in TreeRows BY DEF TreeRows
  <2>2. QED BY <1>1, <1>9, <2>1 DEF Trees!Restarts
<1>10. ASSUME NEW r \in RunIds, Trees!Remove(r) PROVE TreesKeep'
  <2>1. /\ trees' = [trees EXCEPT ![r] = Trees!None] /\ task[r].step \in {"new", "failed"}
        /\ UNCHANGED <<head, branches, stray, task>>
    BY <1>10 DEF Trees!Remove
  <2>2. TreeTypes' BY <1>0, <2>1 DEF TreeTypes
  <2>3. BranchesKnown' BY <2>1 DEF BranchesKnown
  <2>4. \A q \in RunIds : TreeIsItsRuns(q)' BY <1>0, <1>r, <2>1 DEF TreeIsItsRuns, TreeTypes
  <2>5. \A q \in RunIds : TreeLearnt(q)' BY <1>0, <2>1 DEF TreeLearnt, TreeTypes
  <2>6. QED BY <2>2, <2>3, <2>4, <2>5
<1>11. CASE Trees!Commit
  <2>1. head' = head + 1 /\ UNCHANGED <<branches, trees, stray, task>> BY <1>11 DEF Trees!Commit
  <2>2. TreeTypes' BY <1>0, <2>1 DEF TreeTypes
  <2>3. BranchesKnown' BY <1>0, <2>1 DEF BranchesKnown, TreeTypes
  <2>4. QED BY <2>1, <2>2, <2>3 DEF TreeIsItsRuns, TreeLearnt
<1>12. CASE Trees!ChangeSource
  BY <1>12 DEF Trees!ChangeSource, TreeTypes, BranchesKnown, TreeIsItsRuns, TreeLearnt
<1>13. CASE UNCHANGED Trees!vars
  BY <1>13 DEF Trees!vars, TreeTypes, BranchesKnown, TreeIsItsRuns, TreeLearnt
<1>14. QED
  BY <1>4, <1>5, <1>6, <1>7, <1>8, <1>9, <1>10, <1>11, <1>12, <1>13 DEF Trees!Next

(* However runs start, die, are resumed and are removed, and whatever the   *)
(* user does to the source: a run at work is alone in its own worktree, on *)
(* its own branch, whose base the manifest does not precede.  A branch has *)
(* a name ("zhixiao/...").                                                 *)
THEOREM WorktreesAreOwn ==
    ASSUME Trees!None \notin Trees!Branches
    PROVE  Trees!Spec => []Trees!WorktreeIsOwn
<1>1. TreesKeep => Trees!WorktreeIsOwn
  <2> SUFFICES ASSUME TreesKeep, NEW r \in RunIds, task[r].step \in {"made", "working"}
               PROVE  /\ trees[r] = BranchOf[r] /\ r \notin stray /\ branches[BranchOf[r]] # 0
                      /\ \A q \in RunIds \ {r} : trees[q] # BranchOf[r]
                      /\ task[r].step = "working" => branches[BranchOf[r]] <= task[r].base
    BY DEF Trees!WorktreeIsOwn
  <2>1. BranchOf[r] # Trees!None BY DEF Trees!Branches
  <2>2. QED BY <2>1 DEF TreesKeep, TreeIsItsRuns, TreeLearnt
<1>2. TreesKeep /\ [Trees!Next]_Trees!vars => TreesKeep' BY TreesStep
<1>3. QED BY <1>1, <1>2, TreesInit, PTL DEF Trees!Spec


-----------------------------------------------------------------------------
(* The tool calls of a turn.                                               *)
CallSteps == {"waits", "before", "thread", "writes", "after", "over"}

CallTypes ==
    /\ batch \in Seq(CallRows) /\ setting \in SettingRows
    /\ at \in [Tools!Calls -> CallSteps]
    /\ result \in [Tools!Calls -> {"none", "ok", "error"}]
    /\ DOMAIN taken = Tools!Calls
    /\ effects \in Seq(Tools!Calls)
    /\ meddled \in BOOLEAN

(* Unless the batch only reads, a call begins when those before it are over. *)
OneByOne ==
    \/ \A k \in Tools!Calls : Tools!ReadOnly(batch[k])
    \/ \A k \in Tools!Calls : at[k] # "waits" => \A j \in 1..(k - 1) : at[j] = "over"

(* What a call is known to have passed where it is.                        *)
CallKnows(k) ==
    /\ at[k] \in {"thread", "writes", "after"} /\ setting.before > 0 => Tools!MayHook
    /\ at[k] \in {"thread", "writes"} /\ ~ Tools!ReadOnly(batch[k]) => Tools!MayWrite /\ batch[k].allowed
    /\ at[k] = "writes" => batch[k].tool = "edit" /\ (~ meddled => taken[k] = file)
    /\ result[k] = "ok" => at[k] \in {"after", "over"}
    /\ result[k] = "ok" /\ ~ Tools!ReadOnly(batch[k]) => \E i \in DOMAIN effects : effects[i] = k
    /\ result[k] = "ok" /\ at[k] = "over" /\ setting.before + setting.after > 0 => Tools!MayHook

(* Who wrote, wrote after all that wrote before.                           *)
EffectsInOrder ==
    /\ \A i \in DOMAIN effects :
          /\ ~ Tools!ReadOnly(batch[effects[i]]) /\ at[effects[i]] \in {"after", "over"}
          /\ Tools!MayWrite /\ batch[effects[i]].allowed
    /\ \A i, j \in DOMAIN effects : i < j => effects[i] < effects[j]

CallsKeep ==
    /\ CallTypes
    /\ OneByOne
    /\ \A k \in Tools!Calls : CallKnows(k)
    /\ EffectsInOrder

LEMMA CallsInit == BatchesAreCalls => (Tools!Init => CallsKeep)
<1> SUFFICES ASSUME BatchesAreCalls, Tools!Init PROVE CallsKeep OBVIOUS
<1> USE DEF Tools!Init
<1>1. CallTypes
  <2>1. batch \in Seq(CallRows) /\ setting \in SettingRows BY DEF BatchesAreCalls
  <2>2. at \in [Tools!Calls -> CallSteps] /\ result \in [Tools!Calls -> {"none", "ok", "error"}]
    BY DEF CallSteps
  <2>3. DOMAIN taken = Tools!Calls OBVIOUS
  <2>4. effects \in Seq(Tools!Calls) OBVIOUS
  <2>5. QED BY <2>1, <2>2, <2>3, <2>4 DEF CallTypes
<1>2. OneByOne BY DEF OneByOne
<1>3. \A k \in Tools!Calls : CallKnows(k) BY DEF CallKnows
<1>4. EffectsInOrder BY DEF EffectsInOrder
<1>5. QED BY <1>1, <1>2, <1>3, <1>4 DEF CallsKeep

(* One call gets on, and nobody else's file or result is touched.           *)
LEMMA CallMoves ==
    ASSUME CallsKeep, NEW k \in Tools!Calls, NEW to \in CallSteps \ {"waits"}, at[k] # "over",
           at' = [at EXCEPT ![k] = to], UNCHANGED <<batch, setting, effects>>,
           at[k] = "after" => to = "over",
           at[k] = "waits" => \/ \A j \in Tools!Calls : Tools!ReadOnly(batch[j])
                              \/ \A j \in 1..(k - 1) : at[j] = "over",
           result' \in [Tools!Calls -> {"none", "ok", "error"}], DOMAIN taken' = Tools!Calls,
           \A j \in Tools!Calls \ {k} : result'[j] = result[j] /\ taken'[j] = taken[j],
           (meddled' = meddled /\ file' = file) \/ meddled' = TRUE,
           CallKnows(k)'
    PROVE  CallsKeep'
<1> USE DEF CallsKeep
<1>0. Tools!Calls' = Tools!Calls BY DEF Tools!Calls
<1>1. at' \in [Tools!Calls -> CallSteps] /\ at'[k] = to /\ \A j \in Tools!Calls \ {k} : at'[j] = at[j]
  BY DEF CallTypes
<1>2. CallTypes' BY <1>0, <1>1 DEF CallTypes
<1>3. OneByOne'
  <2>1. CASE \A j \in Tools!Calls : Tools!ReadOnly(batch[j]) BY <1>0, <2>1 DEF OneByOne, Tools!ReadOnly
  <2>2. CASE ~ \A j \in Tools!Calls : Tools!ReadOnly(batch[j])
    <3>1. \A j \in Tools!Calls : j \in Nat /\ \A i \in 1..(j - 1) : i \in Tools!Calls
      BY DEF CallTypes, Tools!Calls
    <3>2. \A j \in Tools!Calls : at[j] # "waits" => \A i \in 1..(j - 1) : at[i] = "over"
      BY <2>2 DEF OneByOne
    <3>3. ASSUME NEW j \in Tools!Calls, at'[j] # "waits", NEW i \in 1..(j - 1) PROVE at'[i] = "over"
      <4>1. at[i] = "over" BY <1>1, <2>2, <3>2, <3>3
      <4>2. i # k /\ i \in Tools!Calls BY <3>1, <4>1
      <4>3. QED BY <1>1, <4>1, <4>2
    <3>4. QED BY <1>0, <3>3 DEF OneByOne
  <2>3. QED BY <2>1, <2>2
<1>4. \A j \in Tools!Calls : CallKnows(j)'
  <2>1. ASSUME NEW j \in Tools!Calls \ {k} PROVE CallKnows(j)'
    <3>1. CallKnows(j) /\ at'[j] = at[j] /\ result'[j] = result[j] /\ taken'[j] = taken[j] BY <1>1
    <3>2. meddled \in BOOLEAN /\ (~ meddled' => ~ meddled /\ file' = file) BY DEF CallTypes
    <3>3. QED BY <3>1, <3>2 DEF CallKnows, Tools!ReadOnly, Tools!MayWrite, Tools!MayHook
  <2>2. QED BY <2>1
<1>5. EffectsInOrder'
  <2>1. \A i \in DOMAIN effects : effects[i] \in Tools!Calls BY DEF CallTypes
  <2>2. QED BY <1>1, <2>1 DEF EffectsInOrder, Tools!ReadOnly, Tools!MayWrite
<1>6. QED BY <1>0, <1>2, <1>3, <1>4, <1>5

LEMMA CallsStep == CallsKeep /\ [Tools!Next]_Tools!vars => CallsKeep'
<1> SUFFICES ASSUME CallsKeep, [Tools!Next]_Tools!vars PROVE CallsKeep' OBVIOUS
<1>0. CallTypes /\ \A k \in Tools!Calls : CallKnows(k) BY DEF CallsKeep
<1> DEFINE Same == UNCHANGED <<batch, setting, effects, meddled>> /\ file' = file
<1>s. ASSUME NEW k \in Tools!Calls
      PROVE  /\ setting.before \in Nat /\ setting.after \in Nat
             /\ batch[k].tool \in {"read", "edit", "write"} /\ batch[k].allowed \in BOOLEAN
  <2>1. batch[k] \in CallRows /\ setting \in SettingRows BY <1>0 DEF CallTypes, Tools!Calls
  <2>2. QED BY <2>1 DEF CallRows, SettingRows
(* A call that goes on without its thread.                                  *)
<1>g. ASSUME NEW k \in Tools!Calls, NEW from \in {"waits", "before", "after"},
             NEW to \in {"before", "thread", "after", "over"}, Tools!Goes(k, from, to),
             from = "after" => to = "over", from # "waits" \/ Tools!Begins(k),
             result' = result \/ Tools!Reports(k, "error"), Tools!Undone, CallKnows(k)'
      PROVE  CallsKeep'
  <2>1. at[k] = from /\ at' = [at EXCEPT ![k] = to] /\ Same /\ taken' = taken
    BY <1>g DEF Tools!Goes, Tools!Undone
  <2>2. result' \in [Tools!Calls -> {"none", "ok", "error"}]
        /\ \A j \in Tools!Calls \ {k} : result'[j] = result[j]
    BY <1>0, <1>g DEF CallTypes, Tools!Reports
  <2>3. at[k] = "waits" => \/ \A j \in Tools!Calls : Tools!ReadOnly(batch[j])
                           \/ \A j \in 1..(k - 1) : at[j] = "over"
    BY <1>g, <2>1 DEF Tools!Begins
  <2>4. to \in CallSteps \ {"waits"} BY DEF CallSteps
  <2>5. DOMAIN taken' = Tools!Calls BY <1>0, <2>1 DEF CallTypes
  <2>6. QED BY <1>g, <2>1, <2>2, <2>3, <2>4, <2>5, CallMoves
<1>a. ASSUME NEW k \in Tools!Calls, NEW to, at' = [at EXCEPT ![k] = to] PROVE at'[k] = to
  BY <1>0, <1>a DEF CallTypes
<1>r. ASSUME NEW k \in Tools!Calls, NEW r, Tools!Reports(k, r) PROVE result'[k] = r
  BY <1>0, <1>r DEF CallTypes, Tools!Reports
<1>1. ASSUME NEW k \in Tools!Calls, Tools!Begins(k) PROVE CallsKeep'
  <2>1. Tools!Goes(k, "waits", "before") /\ result' = result /\ Tools!Undone BY <1>1 DEF Tools!Begins
  <2>2. at[k] = "waits" /\ at'[k] = "before" BY <1>a, <2>1 DEF Tools!Goes
  <2>3. CallKnows(k)' BY <1>0, <2>1, <2>2 DEF CallKnows
  <2>4. QED BY <1>g, <1>1, <2>1, <2>3
<1>2. ASSUME NEW k \in Tools!Calls, Tools!Refused(k) PROVE CallsKeep'
  <2>1. Tools!Goes(k, "before", "over") /\ Tools!Reports(k, "error") /\ Tools!Undone
    BY <1>2 DEF Tools!Refused
  <2>2. at'[k] = "over" /\ result'[k] = "error" BY <1>a, <1>r, <2>1 DEF Tools!Goes
  <2>3. CallKnows(k)' BY <2>2 DEF CallKnows
  <2>4. QED BY <1>g, <2>1, <2>3
<1>3. ASSUME NEW k \in Tools!Calls, Tools!Looks(k) PROVE CallsKeep'
  <2> DEFINE c == batch[k]
  <2>1. /\ setting.before > 0 => Tools!MayHook
        /\ \/ /\ Tools!Goes(k, "before", "thread") /\ result' = result
              /\ c.allowed /\ (c.tool \in {"edit", "write"} => Tools!MayWrite)
           \/ Tools!Goes(k, "before", "after") /\ Tools!Reports(k, "error")
        /\ Tools!Undone
    BY <1>3 DEF Tools!Looks
  <2>2. UNCHANGED <<batch, setting>> BY <2>1 DEF Tools!Goes
  <2>3. CASE Tools!Goes(k, "before", "thread") /\ result' = result
              /\ c.allowed /\ (c.tool \in {"edit", "write"} => Tools!MayWrite)
    <3>1. at[k] = "before" /\ at'[k] = "thread" BY <1>a, <2>3 DEF Tools!Goes
    <3>2. c.allowed' = c.allowed BY <2>2
    <3>3. result'[k] # "ok" BY <1>0, <2>3, <3>1 DEF CallKnows
    <3>4. ~ Tools!ReadOnly(batch[k]) => Tools!MayWrite /\ batch[k].allowed BY <1>s, <2>3 DEF Tools!ReadOnly
    <3>5. CallKnows(k)'
      BY <2>1, <2>2, <3>1, <3>3, <3>4 DEF CallKnows, Tools!MayHook, Tools!MayWrite, Tools!ReadOnly
    <3>6. QED BY <1>g, <2>1, <2>3, <3>5
  <2>4. CASE Tools!Goes(k, "before", "after") /\ Tools!Reports(k, "error")
    <3>1. at'[k] = "after" /\ result'[k] = "error" BY <1>a, <1>r, <2>4 DEF Tools!Goes
    <3>2. CallKnows(k)' BY <2>1, <2>2, <3>1 DEF CallKnows, Tools!MayHook
    <3>3. QED BY <1>g, <2>1, <2>4, <3>2
  <2>5. QED BY <2>1, <2>3, <2>4
(* The thread of a call has read the file.                                  *)
<1>t. ASSUME NEW k \in Tools!Calls, NEW to \in {"writes", "after"}, Tools!ThreadReads(k, to),
             result' = result \/ \E r \in {"ok", "error"} : Tools!Reports(k, r),
             to = "writes" => batch[k].tool = "edit",
             result'[k] = "ok" => to = "after" /\ Tools!ReadOnly(batch[k])
      PROVE  CallsKeep'
  <2>1. at[k] = "thread" /\ at' = [at EXCEPT ![k] = to] /\ Same /\ taken' = [taken EXCEPT ![k] = file]
    BY <1>t DEF Tools!ThreadReads
  <2>2. result' \in [Tools!Calls -> {"none", "ok", "error"}]
        /\ \A j \in Tools!Calls \ {k} : result'[j] = result[j]
    BY <1>0, <1>t DEF CallTypes, Tools!Reports
  <2>3. DOMAIN taken' = Tools!Calls /\ taken'[k] = file
        /\ \A j \in Tools!Calls \ {k} : taken'[j] = taken[j]
    BY <1>0, <2>1 DEF CallTypes
  <2>4. CallKnows(k)'
    <3>1. at'[k] = to BY <1>a, <2>1
    <3>2. batch' = batch /\ setting' = setting /\ file' = file /\ effects' = effects BY <2>1
    <3>3. setting.before > 0 => Tools!MayHook BY <1>0, <2>1 DEF CallKnows
    <3>4. ~ Tools!ReadOnly(batch[k]) => Tools!MayWrite /\ batch[k].allowed BY <1>0, <2>1 DEF CallKnows
    <3>5. QED BY <1>t, <2>3, <3>1, <3>2, <3>3, <3>4 DEF CallKnows, Tools!MayHook, Tools!MayWrite, Tools!ReadOnly
  <2>5. to \in CallSteps \ {"waits"} BY DEF CallSteps
  <2>6. QED BY <2>1, <2>2, <2>3, <2>4, <2>5, CallMoves
<1>4. ASSUME NEW k \in Tools!Calls, Tools!Reads(k) PROVE CallsKeep'
  <2>1. /\ Tools!ReadOnly(batch[k]) /\ Tools!ThreadReads(k, "after")
        /\ \E r \in {"ok", "error"} : Tools!Reports(k, r)
    BY <1>4 DEF Tools!Reads
  <2>2. QED BY <1>t, <2>1
<1>5. ASSUME NEW k \in Tools!Calls, Tools!ReadsToEdit(k) PROVE CallsKeep'
  <2>1. /\ batch[k].tool = "edit"
        /\ \/ Tools!ThreadReads(k, "writes") /\ result' = result
           \/ Tools!ThreadReads(k, "after") /\ Tools!Reports(k, "error")
    BY <1>5 DEF Tools!ReadsToEdit
  <2>2. CASE Tools!ThreadReads(k, "writes") /\ result' = result
    <3>1. at[k] = "thread" BY <2>2 DEF Tools!ThreadReads
    <3>2. result'[k] # "ok" BY <1>0, <2>2, <3>1 DEF CallKnows
    <3>3. QED BY <1>t, <2>1, <2>2, <3>2
  <2>3. CASE Tools!ThreadReads(k, "after") /\ Tools!Reports(k, "error")
    <3>1. result'[k] # "ok" BY <1>r, <2>3
    <3>2. QED BY <1>t, <2>3, <3>1
  <2>4. QED BY <2>1, <2>2, <2>3
(* It writes: it is the only one at work, and those before it are over.      *)
<1>6. ASSUME NEW k \in Tools!Calls, Tools!Writes(k) PROVE CallsKeep'
  <2>1. /\ at[k] \in {"thread", "writes"} /\ batch[k].tool \in {"edit", "write"}
        /\ at' = [at EXCEPT ![k] = "after"] /\ Tools!Reports(k, "ok") /\ effects' = Append(effects, k)
        /\ UNCHANGED <<batch, setting, taken, cancelled, meddled>>
    BY <1>6 DEF Tools!Writes
  <2>2. Tools!Calls' = Tools!Calls BY <2>1 DEF Tools!Calls
  <2>3. at' \in [Tools!Calls -> CallSteps] /\ at'[k] = "after" /\ \A j \in Tools!Calls \ {k} : at'[j] = at[j]
    BY <1>0, <2>1 DEF CallTypes, CallSteps
  <2>4. result' \in [Tools!Calls -> {"none", "ok", "error"}] /\ result'[k] = "ok"
        /\ \A j \in Tools!Calls \ {k} : result'[j] = result[j]
    BY <1>0, <2>1 DEF CallTypes, Tools!Reports
  <2>5. /\ effects' \in Seq(Tools!Calls) /\ DOMAIN effects' = 1..(Len(effects) + 1) /\ Len(effects) \in Nat
        /\ DOMAIN effects = 1..Len(effects)
        /\ effects'[Len(effects) + 1] = k /\ \A i \in DOMAIN effects : effects'[i] = effects[i]
    BY <1>0, <2>1 DEF CallTypes
  <2>6. CallTypes' BY <1>0, <2>1, <2>2, <2>3, <2>4, <2>5 DEF CallTypes
  <2>7. \A j \in Tools!Calls : j \in Nat \ {0} /\ \A i \in 1..(j - 1) : i \in Tools!Calls
    BY <1>0 DEF CallTypes, Tools!Calls
  <2>8. \A j \in Tools!Calls : at[j] # "waits" => \A i \in 1..(j - 1) : at[i] = "over"
    <3>1. ~ Tools!ReadOnly(batch[k]) BY <2>1 DEF Tools!ReadOnly
    <3>2. QED BY <3>1 DEF CallsKeep, OneByOne
  <2>9. ASSUME NEW j \in Tools!Calls \ {k}, at[j] # "waits" PROVE j < k /\ at[j] = "over"
    <3>1. ~ k \in 1..(j - 1) BY <2>1, <2>8, <2>9
    <3>2. j < k
      <4>1. j \in Nat \ {0} /\ k \in Nat \ {0} /\ j # k BY <2>7, <2>9
      <4>2. QED BY <3>1, <4>1
    <3>3. j \in 1..(k - 1)
      <4>1. j \in 1..Len(batch) /\ Len(batch) \in Nat BY <1>0 DEF CallTypes, Tools!Calls
      <4>2. QED BY <2>7, <3>2, <4>1
    <3>4. QED BY <2>1, <2>8, <3>2, <3>3
  <2>10. OneByOne'
    <3>1. ASSUME NEW j \in Tools!Calls, at'[j] # "waits", NEW i \in 1..(j - 1) PROVE at'[i] = "over"
      <4>1. at[i] = "over" BY <2>1, <2>3, <2>8, <3>1
      <4>2. i # k /\ i \in Tools!Calls BY <2>1, <2>7, <4>1
      <4>3. QED BY <2>3, <4>1, <4>2
    <3>2. QED BY <2>2, <3>1 DEF OneByOne
  <2>11. \A j \in Tools!Calls : CallKnows(j)'
    <3>1. CallKnows(k)'
      <4>1. \E i \in DOMAIN effects' : effects'[i] = k
        <5>1. Len(effects) + 1 \in DOMAIN effects' BY <2>5
        <5>2. QED BY <2>5, <5>1
      <4>2. setting.before > 0 => Tools!MayHook BY <1>0, <2>1 DEF CallKnows
      <4>3. QED BY <2>1, <2>3, <2>4, <4>1, <4>2 DEF CallKnows, Tools!MayHook
    <3>2. ASSUME NEW j \in Tools!Calls \ {k} PROVE CallKnows(j)'
      <4>1. CallKnows(j) /\ at'[j] = at[j] /\ result'[j] = result[j] BY <1>0, <2>3, <2>4
      <4>2. at[j] \in {"waits", "over"} BY <2>9
      <4>3. (\E i \in DOMAIN effects : effects[i] = j) => \E i \in DOMAIN effects' : effects'[i] = j
        <5>1. ASSUME NEW i \in DOMAIN effects, effects[i] = j PROVE \E l \in DOMAIN effects' : effects'[l] = j
          <6>1. i \in DOMAIN effects' /\ effects'[i] = j BY <2>5, <5>1
          <6>2. QED BY <6>1
        <5>2. QED BY <5>1
      <4>4. batch' = batch /\ setting' = setting BY <2>1
      <4>5. QED BY <4>1, <4>2, <4>3, <4>4 DEF CallKnows, Tools!ReadOnly, Tools!MayHook
    <3>3. QED BY <3>1, <3>2
  <2>12. EffectsInOrder'
    <3>0. \A i \in DOMAIN effects : effects[i] \in Tools!Calls BY <1>0 DEF CallTypes
    <3>1. ASSUME NEW i \in DOMAIN effects PROVE effects[i] # k /\ effects[i] < k
      <4>1. at[effects[i]] \in {"after", "over"} BY DEF CallsKeep, EffectsInOrder
      <4>2. effects[i] # k BY <2>1, <4>1
      <4>3. QED BY <2>9, <3>0, <4>1, <4>2
    <3>2. \A i \in DOMAIN effects' :
              /\ ~ Tools!ReadOnly(batch[effects'[i]]) /\ at'[effects'[i]] \in {"after", "over"}
              /\ Tools!MayWrite /\ batch[effects'[i]].allowed
      <4>1. ~ Tools!ReadOnly(batch[k]) /\ Tools!MayWrite /\ batch[k].allowed
        BY <1>0, <2>1 DEF CallKnows, Tools!ReadOnly
      <4>2. ASSUME NEW i \in DOMAIN effects
            PROVE  /\ ~ Tools!ReadOnly(batch[effects'[i]]) /\ at'[effects'[i]] \in {"after", "over"}
                   /\ Tools!MayWrite /\ batch[effects'[i]].allowed
        <5>1. /\ ~ Tools!ReadOnly(batch[effects[i]]) /\ at[effects[i]] \in {"after", "over"}
              /\ Tools!MayWrite /\ batch[effects[i]].allowed
          BY DEF CallsKeep, EffectsInOrder
        <5>2. effects'[i] = effects[i] /\ at'[effects[i]] = at[effects[i]] BY <2>3, <2>5, <3>0, <3>1
        <5>3. QED BY <5>1, <5>2
      <4>3. \A i \in DOMAIN effects' : i \in DOMAIN effects \/ i = Len(effects) + 1 BY <2>5
      <4>4. QED BY <2>3, <2>5, <4>1, <4>2, <4>3
    <3>3. ASSUME NEW i \in DOMAIN effects', NEW j \in DOMAIN effects', i < j PROVE effects'[i] < effects'[j]
      <4>1. i \in DOMAIN effects BY <2>5, <3>3
      <4>2. CASE j \in DOMAIN effects BY <2>5, <3>3, <4>1, <4>2 DEF CallsKeep, EffectsInOrder
      <4>3. CASE j = Len(effects) + 1 BY <2>5, <3>1, <4>1, <4>3
      <4>4. QED BY <2>5, <4>2, <4>3
    <3>4. QED BY <2>1, <3>2, <3>3 DEF EffectsInOrder, Tools!ReadOnly, Tools!MayWrite
  <2>13. QED BY <2>2, <2>6, <2>10, <2>11, <2>12 DEF CallsKeep
<1>7. ASSUME NEW k \in Tools!Calls, Tools!WriteFails(k) PROVE CallsKeep'
  <2>1. /\ at[k] \in {"thread", "writes"} /\ at' = [at EXCEPT ![k] = "after"] /\ Tools!Reports(k, "error")
        /\ meddled' = TRUE /\ UNCHANGED <<batch, setting, taken, effects>>
    BY <1>7 DEF Tools!WriteFails
  <2>2. at'[k] = "after" /\ result'[k] = "error" BY <1>a, <1>r, <2>1
  <2>3. CallKnows(k)'
    <3>1. setting.before > 0 => Tools!MayHook BY <1>0, <2>1 DEF CallKnows
    <3>2. QED BY <2>1, <2>2, <3>1 DEF CallKnows, Tools!MayHook
  <2>4. result' \in [Tools!Calls -> {"none", "ok", "error"}]
        /\ \A j \in Tools!Calls \ {k} : result'[j] = result[j]
    BY <1>0, <2>1 DEF CallTypes, Tools!Reports
  <2>5. DOMAIN taken' = Tools!Calls /\ taken' = taken BY <1>0, <2>1 DEF CallTypes
  <2>6. "after" \in CallSteps \ {"waits"} BY DEF CallSteps
  <2>7. QED BY <2>1, <2>3, <2>4, <2>5, <2>6, CallMoves
<1>8. ASSUME NEW k \in Tools!Calls, Tools!Passes(k) PROVE CallsKeep'
  <2>1. /\ setting.after > 0 => Tools!MayHook
        /\ Tools!Goes(k, "after", "over") /\ result' = result /\ Tools!Undone
    BY <1>8 DEF Tools!Passes
  <2>2. at[k] = "after" /\ at'[k] = "over" /\ batch' = batch /\ setting' = setting /\ effects' = effects
    BY <1>a, <2>1 DEF Tools!Goes, Tools!Undone
  <2>3. CallKnows(k)'
    <3>1. setting.before > 0 => Tools!MayHook BY <1>0, <2>2 DEF CallKnows
    <3>2. setting.before + setting.after > 0 => Tools!MayHook BY <1>s, <2>1, <3>1
    <3>3. result[k] = "ok" /\ ~ Tools!ReadOnly(batch[k]) => \E i \in DOMAIN effects : effects[i] = k
      BY <1>0 DEF CallKnows
    <3>4. QED BY <2>1, <2>2, <3>2, <3>3 DEF CallKnows, Tools!MayHook, Tools!ReadOnly
  <2>4. QED BY <1>g, <2>1, <2>3
<1>9. ASSUME NEW k \in Tools!Calls, Tools!Fails(k) PROVE CallsKeep'
  <2>1. Tools!Goes(k, "after", "over") /\ Tools!Reports(k, "error") /\ Tools!Undone
    BY <1>9 DEF Tools!Fails
  <2>2. at'[k] = "over" /\ result'[k] = "error" BY <1>a, <1>r, <2>1 DEF Tools!Goes
  <2>3. CallKnows(k)' BY <2>2 DEF CallKnows
  <2>4. QED BY <1>g, <2>1, <2>3
(* Nobody but the user or another program touches the file.                 *)
<1>10. ASSUME UNCHANGED <<batch, setting, at, result, taken, effects>>,
              (meddled' = meddled /\ file' = file) \/ meddled' = TRUE
       PROVE  CallsKeep'
  <2>1. Tools!Calls' = Tools!Calls BY <1>10 DEF Tools!Calls
  <2>2. CallTypes' BY <1>0, <1>10, <2>1 DEF CallTypes
  <2>3. OneByOne' /\ EffectsInOrder'
    BY <1>10, <2>1 DEF CallsKeep, OneByOne, EffectsInOrder, Tools!ReadOnly, Tools!MayWrite
  <2>4. ASSUME NEW k \in Tools!Calls PROVE CallKnows(k)'
    <3>1. CallKnows(k) /\ (~ meddled' => ~ meddled /\ file' = file) BY <1>0, <1>10 DEF CallTypes
    <3>2. QED BY <1>10, <3>1 DEF CallKnows, Tools!ReadOnly, Tools!MayWrite, Tools!MayHook
  <2>5. QED BY <2>1, <2>2, <2>3, <2>4 DEF CallsKeep
<1>11. CASE Tools!Cancel BY <1>10, <1>11 DEF Tools!Cancel
<1>12. ASSUME NEW text, Tools!Meddles(text) PROVE CallsKeep' BY <1>10, <1>12 DEF Tools!Meddles
<1>13. CASE UNCHANGED Tools!vars BY <1>10, <1>13 DEF Tools!vars
<1>14. CASE \E k \in Tools!Calls :
                \/ Tools!Begins(k) \/ Tools!Refused(k) \/ Tools!Looks(k)
                \/ Tools!Reads(k) \/ Tools!ReadsToEdit(k) \/ Tools!Writes(k) \/ Tools!WriteFails(k)
                \/ Tools!Passes(k) \/ Tools!Fails(k)
  BY <1>1, <1>2, <1>3, <1>4, <1>5, <1>6, <1>7, <1>8, <1>9, <1>14
<1>15. QED BY <1>11, <1>12, <1>13, <1>14 DEF Tools!Next

(* The calls of a batch that writes take effect in the model's order, each  *)
(* on what the one before it left; a call reported as done did its work    *)
(* with its hooks' consent; at most one call is at work on the file, also  *)
(* when the run is cancelled (CallsTakeEffectInOrder): for any batch, any   *)
(* settings, whichever hooks, threads and writes fail.                     *)
THEOREM ToolCallsTakeEffectInOrder ==
    ASSUME BatchesAreCalls
    PROVE  Tools!Spec => []Tools!CallsTakeEffectInOrder
<1>1. Tools!Init => CallsKeep BY CallsInit
<1>2. ASSUME CallsKeep PROVE Tools!CallsTakeEffectInOrder
  <2>0. CallTypes /\ EffectsInOrder /\ \A k \in Tools!Calls : CallKnows(k) BY <1>2 DEF CallsKeep
  <2>e. /\ DOMAIN effects = 1..Len(effects) /\ Len(effects) \in Nat
        /\ Tools!ToSet(effects) = {effects[i] : i \in DOMAIN effects}
        /\ \A i \in DOMAIN effects : effects[i] \in Tools!Calls
    BY <2>0 DEF CallTypes, Tools!ToSet
  <2>o. ASSUME NEW k \in Tools!Calls, ~ Tools!ReadOnly(batch[k]), at[k] \in {"thread", "writes"},
               NEW j \in Tools!Calls \ {k}, at[j] # "waits"
        PROVE  j < k /\ at[j] = "over"
    <3>1. \A l \in Tools!Calls : at[l] # "waits" => \A i \in 1..(l - 1) : at[i] = "over"
      BY <1>2, <2>o DEF CallsKeep, OneByOne
    <3>2. j \in Nat \ {0} /\ k \in Nat \ {0} /\ j # k BY <2>0, <2>o DEF CallTypes, Tools!Calls
    <3>3. ~ k \in 1..(j - 1) BY <2>o, <3>1
    <3>4. j < k /\ j \in 1..(k - 1) BY <3>2, <3>3
    <3>5. QED BY <2>o, <3>1, <3>4
  <2>1. \A i \in 1..(Len(effects) - 1) : effects[i] < effects[i + 1]
    <3>1. ASSUME NEW i \in 1..(Len(effects) - 1) PROVE effects[i] < effects[i + 1]
      <4>1. i \in DOMAIN effects /\ i + 1 \in DOMAIN effects /\ i < i + 1 BY <2>e
      <4>2. QED BY <2>0, <4>1 DEF EffectsInOrder
    <3>2. QED BY <3>1
  <2>2. ASSUME ~ meddled, NEW k \in Tools!Calls, at[k] = "writes"
        PROVE  taken[k] = file /\ \A j \in Tools!ToSet(effects) : j < k
    <3>1. taken[k] = file /\ batch[k].tool = "edit" BY <2>0, <2>2 DEF CallKnows
    <3>2. ASSUME NEW i \in DOMAIN effects PROVE effects[i] < k
      <4>1. effects[i] \in Tools!Calls /\ at[effects[i]] \in {"after", "over"}
        BY <2>0, <2>e DEF EffectsInOrder
      <4>2. ~ Tools!ReadOnly(batch[k]) BY <3>1 DEF Tools!ReadOnly
      <4>3. effects[i] # k BY <2>2, <4>1
      <4>4. QED BY <2>2, <2>o, <4>1, <4>2, <4>3
    <3>3. QED BY <2>e, <3>1, <3>2
  <2>3. ASSUME NEW k \in Tools!Calls
        PROVE  /\ result[k] = "ok" /\ ~ Tools!ReadOnly(batch[k]) => k \in Tools!ToSet(effects)
               /\ result[k] = "ok" /\ at[k] = "over" /\ setting.before + setting.after > 0 => Tools!MayHook
               /\ k \in Tools!ToSet(effects) => Tools!MayWrite /\ batch[k].allowed
    BY <2>0, <2>e DEF CallKnows, EffectsInOrder
  <2>4. Cardinality({k \in Tools!Calls : at[k] \in {"thread", "writes"} /\ ~ Tools!ReadOnly(batch[k])}) <= 1
    <3> DEFINE working == {k \in Tools!Calls : at[k] \in {"thread", "writes"} /\ ~ Tools!ReadOnly(batch[k])}
    <3>1. \A k, j \in working : k = j
      <4>1. ASSUME NEW k \in working, NEW j \in working, k # j PROVE FALSE
        <5>1. at[j] = "over" BY <2>o, <4>1
        <5>2. QED BY <4>1, <5>1
      <4>2. QED BY <4>1
    <3> HIDE DEF working
    <3>2. CASE working = {}
      <4>1. Cardinality(working) = 0 BY <3>2, FS_EmptySet
      <4>2. QED BY <4>1 DEF working
    <3>3. CASE working # {}
      <4>1. PICK k \in working : TRUE BY <3>3
      <4>2. working = {k} BY <3>1, <4>1
      <4>3. Cardinality({k}) = 1 BY FS_Singleton
      <4>4. QED BY <4>2, <4>3 DEF working
    <3>4. QED BY <3>2, <3>3
  <2>5. ASSUME NEW S PROVE Tools!Cardinality(S) = Cardinality(S) BY DEF Tools!Cardinality, Cardinality
  <2>6. QED BY <2>1, <2>2, <2>3, <2>4, <2>5 DEF Tools!CallsTakeEffectInOrder
<1>3. QED BY <1>1, <1>2, CallsStep, PTL DEF Tools!Spec

-----------------------------------------------------------------------------
(* Numbers, and sums over functions.                                       *)

(* A set of numbers that is not empty has a smallest.                       *)
LEMMA SmallestNumber ==
    ASSUME NEW P \in SUBSET Nat, P # {}
    PROVE  \E x \in P : \A y \in P : x <= y
<1>1. \E x \in P : \A y \in P : ~ (<<y, x>> \in OpToRel(<, Nat))
  BY NatLessThanWellFounded, WFMin
<1>2. \A x, y \in Nat : <<y, x>> \in OpToRel(<, Nat) <=> y < x
  BY DEF OpToRel
<1>3. \A x, y \in Nat : ~ (y < x) => x <= y
  OBVIOUS
<1>4. QED BY <1>1, <1>2, <1>3, Zenon

(* A set that holds 0, and with a number below K its successor, holds all   *)
(* numbers up to K.                                                        *)
LEMMA Upward ==
    ASSUME NEW K \in Nat, NEW S, 0 \in S, \A n \in 0..K : n \in S /\ n < K => n + 1 \in S
    PROVE  \A n \in 0..K : n \in S
<1> DEFINE Bad == {n \in 0..K : n \notin S}
<1> SUFFICES ASSUME Bad # {} PROVE FALSE
  OBVIOUS
<1>1. Bad \in SUBSET Nat
  OBVIOUS
<1>2. PICK n \in Bad : \A j \in Bad : n <= j
  <2> HIDE DEF Bad
  <2>1. QED BY <1>1, SmallestNumber
<1>3. n \in 0..K /\ n \notin S /\ n # 0
  OBVIOUS
<1>4. n - 1 \in 0..K /\ n - 1 < K /\ ~ (n <= n - 1) /\ (n - 1) + 1 = n
  BY <1>3
<1>5. n - 1 \in S
  BY <1>2, <1>4
<1>6. n \in S
  BY <1>4, <1>5
<1>7. QED BY <1>3, <1>6

(* The sum that Total takes, element by element, over the subsets of D.     *)
Picked(S) == CHOOSE x \in S : TRUE
SumOf(f, g, S) == IF S = {} THEN 0 ELSE f[Picked(S)] + g[S \ {Picked(S)}]
Sums(f, D) == CHOOSE sum : sum = [S \in SUBSET D |-> SumOf(f, sum, S)]

(* The model's sum of a window is the sum by picked elements.               *)
LEMMA TotalIsSum == ASSUME NEW f PROVE Model!Total(f) = Sums(f, DOMAIN f)[DOMAIN f]
BY DEF Model!Total, Model!MapThenSumSet, Model!MapThenFoldSet, Sums, SumOf, Picked

(* There is such a sum, on every subset of a finite domain.                 *)
LEMMA SumExists ==
    ASSUME NEW D, IsFiniteSet(D), NEW f \in [D -> Nat]
    PROVE  /\ Sums(f, D) = [S \in SUBSET D |-> SumOf(f, Sums(f, D), S)]
           /\ \A S \in SUBSET D : Sums(f, D)[S] \in Nat
<1> DEFINE N == Cardinality(D)
           Part(n) == {S \in SUBSET D : Cardinality(S) <= n}
           Is(g, n) == /\ g = [S \in Part(n) |-> SumOf(f, g, S)]
                       /\ \A S \in Part(n) : g[S] \in Nat
           Good == {n \in 0..N : \E g : Is(g, n)}
<1>0. /\ N \in Nat
      /\ \A S \in SUBSET D : IsFiniteSet(S) /\ Cardinality(S) \in Nat /\ Cardinality(S) <= N
  BY FS_CardinalityType, FS_Subset
<1>1. \A S \in SUBSET D : S # {} => /\ Picked(S) \in S
                                    /\ Cardinality(S \ {Picked(S)}) = Cardinality(S) - 1
  <2> TAKE S \in SUBSET D
  <2> HAVE S # {}
  <2>1. Picked(S) \in S BY DEF Picked
  <2>2. QED BY <1>0, <2>1, FS_RemoveElement
<1> HIDE DEF N
<1>2. 0 \in Good
  <2> DEFINE g == [S \in Part(0) |-> 0]
  <2>1. \A S \in Part(0) : S = {}
    BY <1>0, FS_EmptySet
  <2>2. g = [S \in Part(0) |-> SumOf(f, g, S)]
    BY <2>1 DEF SumOf
  <2>3. \A S \in Part(0) : g[S] \in Nat
    OBVIOUS
  <2> HIDE DEF g, Part
  <2>4. 0 \in 0..N BY <1>0
  <2>5. QED BY <2>2, <2>3, <2>4
<1>3. ASSUME NEW n \in 0..N, n \in Good, n < N PROVE n + 1 \in Good
  <2>1. PICK g : Is(g, n) BY <1>3
  <2> DEFINE h == [S \in Part(n + 1) |-> SumOf(f, g, S)]
  <2>2. ASSUME NEW S \in Part(n + 1), S # {}
        PROVE  S \ {Picked(S)} \in Part(n) /\ S \ {Picked(S)} \in Part(n + 1)
    <3>1. S \in SUBSET D /\ Cardinality(S) <= n + 1 OBVIOUS
    <3>2. Cardinality(S \ {Picked(S)}) = Cardinality(S) - 1 /\ Cardinality(S) \in Nat
      BY <1>0, <1>1, <2>2, <3>1
    <3>3. Cardinality(S \ {Picked(S)}) <= n /\ Cardinality(S \ {Picked(S)}) <= n + 1
      BY <3>1, <3>2
    <3>4. QED BY <3>1, <3>3
  <2>3. ASSUME NEW S \in Part(n), S \in Part(n + 1) PROVE h[S] = g[S]
    <3>1. g[S] = SumOf(f, g, S)
      <4> HIDE DEF Part
      <4>1. QED BY <2>1
    <3>2. QED BY <2>3, <3>1
  <2>4. ASSUME NEW S \in Part(n + 1)
        PROVE  h[S] = SumOf(f, g, S) /\ SumOf(f, g, S) = SumOf(f, h, S) /\ h[S] \in Nat
    <3>1. h[S] = SumOf(f, g, S) OBVIOUS
    <3>2. S # {} => Picked(S) \in D BY <1>1
    <3> HIDE DEF h, Part
    <3>3. CASE S = {} BY <3>1, <3>3 DEF SumOf
    <3>4. CASE S # {}
      <4>1. h[S \ {Picked(S)}] = g[S \ {Picked(S)}] BY <2>2, <2>3, <3>4
      <4>2. g[S \ {Picked(S)}] \in Nat BY <2>1, <2>2, <3>4
      <4>3. f[Picked(S)] \in Nat BY <3>2, <3>4
      <4>4. QED BY <3>1, <3>4, <4>1, <4>2, <4>3 DEF SumOf
    <3>5. QED BY <3>3, <3>4
  <2>5. h = [S \in Part(n + 1) |-> h[S]]
    OBVIOUS
  <2> HIDE DEF h, Part
  <2>6. h = [S \in Part(n + 1) |-> SumOf(f, h, S)]
    BY <2>4, <2>5
  <2>7. n + 1 \in 0..N BY <1>0, <1>3
  <2>8. QED BY <2>4, <2>6, <2>7
<1>4. N \in Good
  <2> HIDE DEF Good
  <2>1. N \in 0..N BY <1>0
  <2>2. QED BY <1>0, <1>2, <1>3, <2>1, Upward
<1>5. Part(N) = SUBSET D
  BY <1>0
<1>6. \E g : g = [S \in SUBSET D |-> SumOf(f, g, S)] /\ \A S \in SUBSET D : g[S] \in Nat
  BY <1>4, <1>5
<1>7. Sums(f, D) = [S \in SUBSET D |-> SumOf(f, Sums(f, D), S)]
  BY <1>6 DEF Sums
<1> DEFINE G == Sums(f, D)
           Sound == {n \in 0..N : \A S \in SUBSET D : Cardinality(S) <= n => G[S] \in Nat}
<1> HIDE DEF G
<1>8. \A S \in SUBSET D : G[S] = SumOf(f, G, S)
  BY <1>7 DEF G
<1>9. 0 \in Sound
  <2>1. \A S \in SUBSET D : Cardinality(S) <= 0 => S = {}
    BY <1>0, FS_EmptySet
  <2>2. ASSUME NEW S \in SUBSET D, S = {} PROVE G[S] \in Nat
    <3>1. G[S] = SumOf(f, G, S) BY <1>8
    <3>2. SumOf(f, G, S) = 0 BY <2>2 DEF SumOf
    <3> HIDE DEF Part, Is, Good, Sound
    <3>3. QED BY <3>1, <3>2
  <2>3. 0 \in 0..N BY <1>0
  <2>4. QED BY <2>1, <2>2, <2>3
<1>10. ASSUME NEW n \in 0..N, n \in Sound, n < N PROVE n + 1 \in Sound
  <2>1. ASSUME NEW S \in SUBSET D, Cardinality(S) <= n + 1 PROVE G[S] \in Nat
    <3>1. CASE S = {}
      <4>1. G[S] = SumOf(f, G, S) BY <1>8
      <4>2. SumOf(f, G, S) = 0 BY <3>1 DEF SumOf
      <4> HIDE DEF Part, Is, Good, Sound
      <4>3. QED BY <4>1, <4>2
    <3>2. CASE S # {}
      <4>1. Cardinality(S \ {Picked(S)}) = Cardinality(S) - 1 /\ Cardinality(S) \in Nat /\ Picked(S) \in S
        BY <1>0, <1>1, <3>2
      <4>2. Cardinality(S \ {Picked(S)}) <= n BY <2>1, <4>1
      <4>3. G[S \ {Picked(S)}] \in Nat BY <1>10, <4>2
      <4>4. f[Picked(S)] \in Nat BY <4>1
      <4>5. SumOf(f, G, S) = f[Picked(S)] + G[S \ {Picked(S)}] BY <3>2 DEF SumOf
      <4>6. G[S] = SumOf(f, G, S) BY <1>8
      <4> HIDE DEF Part, Is, Good, Sound
      <4>7. QED BY <4>3, <4>4, <4>5, <4>6
    <3>3. QED BY <3>1, <3>2
  <2>2. n + 1 \in 0..N BY <1>0, <1>10
  <2>3. QED BY <2>1, <2>2
<1>11. N \in Sound
  <2> HIDE DEF Sound
  <2>1. N \in 0..N BY <1>0
  <2>2. QED BY <1>0, <1>9, <1>10, <2>1, Upward
<1>12. QED BY <1>0, <1>7, <1>11 DEF G

(* Any element may be the last one added.                                  *)
LEMMA SumPicks ==
    ASSUME NEW D, IsFiniteSet(D), NEW f \in [D -> Nat], NEW S \in SUBSET D, NEW x \in S
    PROVE  Sums(f, D)[S] = f[x] + Sums(f, D)[S \ {x}]
<1> DEFINE N == Cardinality(D)
           G == Sums(f, D)
           Sound == {n \in 0..N : \A T \in SUBSET D : Cardinality(T) <= n =>
                                     \A y \in T : G[T] = f[y] + G[T \ {y}]}
<1>0. /\ N \in Nat
      /\ \A T \in SUBSET D : IsFiniteSet(T) /\ Cardinality(T) \in Nat /\ Cardinality(T) <= N
  BY FS_CardinalityType, FS_Subset
<1>1. \A T \in SUBSET D : G[T] = SumOf(f, G, T) /\ G[T] \in Nat
  <2>1. G = [T \in SUBSET D |-> SumOf(f, G, T)] BY SumExists
  <2>2. \A T \in SUBSET D : G[T] \in Nat BY SumExists
  <2> HIDE DEF G
  <2>3. QED BY <2>1, <2>2
<1> HIDE DEF G, N
<1>2. 0 \in Sound
  <2>1. \A T \in SUBSET D : Cardinality(T) <= 0 => T = {}
    BY <1>0, FS_EmptySet
  <2>2. QED BY <1>0, <2>1
<1>3. ASSUME NEW n \in 0..N, n \in Sound, n < N PROVE n + 1 \in Sound
  <2>1. ASSUME NEW T \in SUBSET D, Cardinality(T) <= n + 1, NEW y \in T
        PROVE  G[T] = f[y] + G[T \ {y}]
    <3> DEFINE z == Picked(T)
    <3>1. z \in T BY <2>1 DEF Picked
    <3>2. G[T] = f[z] + G[T \ {z}] BY <1>1, <2>1 DEF SumOf
    <3> HIDE DEF z
    <3>3. CASE y = z BY <3>2, <3>3
    <3>4. CASE y # z
      <4>1. \A w \in T : Cardinality(T \ {w}) <= n
        <5>1. \A w \in T : Cardinality(T \ {w}) = Cardinality(T) - 1 BY <1>0, FS_RemoveElement
        <5>2. Cardinality(T) \in Nat BY <1>0
        <5>3. QED BY <2>1, <5>1, <5>2
      <4>2. G[T \ {z}] = f[y] + G[(T \ {z}) \ {y}] BY <1>3, <3>1, <3>4, <4>1
      <4>3. G[T \ {y}] = f[z] + G[(T \ {y}) \ {z}] BY <1>3, <3>1, <3>4, <4>1
      <4>4. (T \ {z}) \ {y} = (T \ {y}) \ {z} OBVIOUS
      <4>5. /\ G[(T \ {y}) \ {z}] \in Nat /\ G[T \ {y}] \in Nat /\ G[T \ {z}] \in Nat
            /\ f[y] \in Nat /\ f[z] \in Nat
        BY <1>1, <3>1
      <4>6. QED BY <3>2, <4>2, <4>3, <4>4, <4>5
    <3>5. QED BY <3>3, <3>4
  <2>2. n + 1 \in 0..N BY <1>0, <1>3
  <2>3. QED BY <2>1, <2>2
<1>4. N \in Sound
  <2> HIDE DEF Sound
  <2>1. N \in 0..N BY <1>0
  <2>2. QED BY <1>0, <1>2, <1>3, <2>1, Upward
<1>5. G[S] = f[x] + G[S \ {x}]
  BY <1>0, <1>4
<1>6. QED BY <1>5 DEF G

(* The sum of the first n entries of a window.                              *)
Below(f, n) == Sums(f, DOMAIN f)[0..(n - 1)]

(* It grows by one entry at a time, up to the whole sum.                    *)
LEMMA BelowFacts ==
    ASSUME NEW K \in Nat, NEW f \in [0..K -> Nat]
    PROVE  /\ Below(f, 0) = 0
           /\ \A n \in 0..K : Below(f, n + 1) = Below(f, n) + f[n]
           /\ \A n \in 0..(K + 1) : Below(f, n) \in Nat
           /\ Model!Total(f) = Below(f, K + 1)
<1>1. DOMAIN f = 0..K /\ IsFiniteSet(0..K) BY FS_Interval
<1>2. /\ Sums(f, 0..K) = [S \in SUBSET (0..K) |-> SumOf(f, Sums(f, 0..K), S)]
      /\ \A S \in SUBSET (0..K) : Sums(f, 0..K)[S] \in Nat
  BY <1>1, SumExists
<1>3. Below(f, 0) = 0
  <2> DEFINE G == Sums(f, 0..K)
  <2>1. G = [S \in SUBSET (0..K) |-> SumOf(f, G, S)] BY <1>2
  <2>2. Below(f, 0) = G[0..(0 - 1)] BY <1>1 DEF Below
  <2> HIDE DEF G
  <2>3. 0..(0 - 1) = {} OBVIOUS
  <2>4. G[{}] = SumOf(f, G, {}) BY <2>1
  <2>5. QED BY <2>2, <2>3, <2>4 DEF SumOf
<1>4. ASSUME NEW n \in 0..K PROVE Below(f, n + 1) = Below(f, n) + f[n]
  <2>1. 0..((n + 1) - 1) \in SUBSET (0..K) /\ n \in 0..((n + 1) - 1)
        /\ (0..((n + 1) - 1)) \ {n} = 0..(n - 1)
    OBVIOUS
  <2>2. Sums(f, 0..K)[0..((n + 1) - 1)] = f[n] + Sums(f, 0..K)[(0..((n + 1) - 1)) \ {n}]
    <3> DEFINE D == 0..K
               T == 0..((n + 1) - 1)
    <3>1. IsFiniteSet(D) /\ f \in [D -> Nat] /\ T \in SUBSET D /\ n \in T BY <1>1, <2>1
    <3> HIDE DEF D, T
    <3>2. \A X \in SUBSET D : \A y \in X : Sums(f, D)[X] = f[y] + Sums(f, D)[X \ {y}]
      BY <3>1, SumPicks
    <3>3. Sums(f, D)[T] = f[n] + Sums(f, D)[T \ {n}] BY <3>1, <3>2
    <3>4. QED BY <3>3 DEF D, T
  <2>3. 0..(n - 1) \in SUBSET (0..K) OBVIOUS
  <2>4. Sums(f, 0..K)[0..(n - 1)] \in Nat /\ f[n] \in Nat BY <1>2, <2>3
  <2>5. /\ Below(f, n + 1) = Sums(f, 0..K)[0..((n + 1) - 1)]
        /\ Below(f, n) = Sums(f, 0..K)[0..(n - 1)]
    BY <1>1 DEF Below
  <2>6. Below(f, n + 1) = f[n] + Below(f, n) /\ Below(f, n) \in Nat
    BY <2>1, <2>2, <2>4, <2>5
  <2>7. QED BY <2>4, <2>6
<1>5. \A n \in 0..(K + 1) : Below(f, n) \in Nat
  <2>1. \A n \in 0..(K + 1) : 0..(n - 1) \in SUBSET (0..K) OBVIOUS
  <2>2. QED BY <1>1, <1>2, <2>1 DEF Below
<1>6. Model!Total(f) = Below(f, K + 1)
  <2>1. (K + 1) - 1 = K OBVIOUS
  <2>2. QED BY <1>1, <2>1, TotalIsSum DEF Below
<1>7. QED BY <1>3, <1>4, <1>5, <1>6

(* The first entries add up to no more than all of them.                    *)
LEMMA BelowGrows ==
    ASSUME NEW K \in Nat, NEW f \in [0..K -> Nat], NEW m \in 0..(K + 1)
    PROVE  Below(f, m) <= Model!Total(f)
<1> DEFINE S == {n \in 0..(K + 1) : n < m \/ Below(f, m) <= Below(f, n)}
<1>1. /\ \A n \in 0..K : Below(f, n + 1) = Below(f, n) + f[n] /\ f[n] \in Nat
      /\ \A n \in 0..(K + 1) : Below(f, n) \in Nat
      /\ Model!Total(f) = Below(f, K + 1)
  BY BelowFacts
<1>2. 0 \in S BY <1>1
<1>3. ASSUME NEW n \in 0..(K + 1), n \in S, n < K + 1 PROVE n + 1 \in S
  <2>1. n \in 0..K /\ n + 1 \in 0..(K + 1) BY <1>3
  <2>2. Below(f, n) <= Below(f, n + 1) /\ Below(f, n) \in Nat /\ Below(f, n + 1) \in Nat
    BY <1>1, <2>1
  <2>3. Below(f, m) \in Nat BY <1>1
  <2>4. CASE n < m
    <3>1. n + 1 < m \/ n + 1 = m BY <2>4
    <3>2. QED BY <2>1, <2>3, <3>1
  <2>5. CASE Below(f, m) <= Below(f, n) BY <2>1, <2>2, <2>3, <2>5
  <2>6. QED BY <1>3, <2>4, <2>5
<1>4. K + 1 \in Nat /\ K + 1 \in 0..(K + 1) OBVIOUS
<1>5. K + 1 \in S
  <2> HIDE DEF S
  <2>1. QED BY <1>2, <1>3, <1>4, Upward
<1>6. QED BY <1>1, <1>5

(* An entry is no more than the total, and is left of the total with those  *)
(* before it.                                                              *)
LEMMA EntryInTotal ==
    ASSUME NEW K \in Nat, NEW f \in [0..K -> Nat], NEW i \in 0..K
    PROVE  /\ Below(f, i) + f[i] <= Model!Total(f)
           /\ f[i] <= Model!Total(f)
           /\ Below(f, i) \in Nat /\ f[i] \in Nat /\ Model!Total(f) \in Nat
<1>1. i + 1 \in 0..(K + 1) /\ i \in 0..(K + 1) /\ K + 1 \in 0..(K + 1) OBVIOUS
<1>2. Below(f, i + 1) <= Model!Total(f) BY <1>1, BelowGrows
<1>3. /\ Below(f, i + 1) = Below(f, i) + f[i] /\ Below(f, i) \in Nat
      /\ Model!Total(f) = Below(f, K + 1) /\ Below(f, K + 1) \in Nat
  BY <1>1, BelowFacts
<1>4. f[i] \in Nat OBVIOUS
<1>5. QED BY <1>2, <1>3, <1>4

(* One more at i.                                                          *)
LEMMA OneMore ==
    ASSUME NEW K \in Nat, NEW f \in [0..K -> Nat], NEW i \in 0..K,
           NEW g \in [0..K -> Nat], g[i] = f[i] + 1, \A j \in 0..K : j # i => g[j] = f[j]
    PROVE  Model!Total(g) = Model!Total(f) + 1
<1> DEFINE S == {n \in 0..(K + 1) : Below(g, n) = Below(f, n) + (IF i < n THEN 1 ELSE 0)}
<1>1. /\ Below(f, 0) = 0
      /\ \A n \in 0..K : Below(f, n + 1) = Below(f, n) + f[n] /\ f[n] \in Nat
      /\ \A n \in 0..(K + 1) : Below(f, n) \in Nat
      /\ Model!Total(f) = Below(f, K + 1)
  BY BelowFacts
<1>2. /\ Below(g, 0) = 0
      /\ \A n \in 0..K : Below(g, n + 1) = Below(g, n) + g[n] /\ g[n] \in Nat
      /\ Model!Total(g) = Below(g, K + 1)
  BY BelowFacts
<1>3. 0 \in S BY <1>1, <1>2
<1>4. ASSUME NEW n \in 0..(K + 1), n \in S, n < K + 1 PROVE n + 1 \in S
  <2>1. n \in 0..K /\ n + 1 \in 0..(K + 1) BY <1>4
  <2>2. /\ Below(f, n + 1) = Below(f, n) + f[n] /\ f[n] \in Nat /\ Below(f, n) \in Nat
        /\ Below(g, n + 1) = Below(g, n) + g[n]
        /\ Below(g, n) = Below(f, n) + (IF i < n THEN 1 ELSE 0)
    BY <1>1, <1>2, <1>4, <2>1
  <2>3. Below(g, n + 1) = Below(f, n + 1) + (IF i < n + 1 THEN 1 ELSE 0)
    <3>1. CASE i < n
      <4>1. g[n] = f[n] BY <2>1, <3>1
      <4>2. i < n + 1 BY <3>1
      <4>3. Below(g, n) = Below(f, n) + 1 BY <2>2, <3>1
      <4>4. Below(g, n + 1) = Below(f, n + 1) + 1
        <5> HIDE DEF S
        <5>1. Below(g, n + 1) = (Below(f, n) + 1) + f[n] BY <2>2, <4>1, <4>3
        <5>2. \A a, b \in Nat : (a + 1) + b = (a + b) + 1 OBVIOUS
        <5>3. (Below(f, n) + 1) + f[n] = (Below(f, n) + f[n]) + 1 BY <2>2, <5>2
        <5>4. QED BY <2>2, <5>1, <5>3, Zenon
      <4>5. QED BY <4>2, <4>4
    <3>2. CASE i = n
      <4>1. g[n] = f[n] + 1 BY <3>2
      <4>2. ~ (i < n) /\ i < n + 1 BY <3>2
      <4>3. Below(g, n) = Below(f, n) BY <2>2, <4>2
      <4>4. QED BY <2>2, <4>1, <4>2, <4>3
    <3>3. CASE n < i
      <4>1. g[n] = f[n] BY <2>1, <3>3
      <4>2. ~ (i < n) /\ ~ (i < n + 1) BY <3>3
      <4>3. Below(g, n) = Below(f, n) BY <2>2, <4>2
      <4>4. QED BY <2>2, <4>1, <4>2, <4>3
    <3>4. QED BY <3>1, <3>2, <3>3
  <2>4. QED BY <2>1, <2>3
<1>5. K + 1 \in Nat /\ K + 1 \in 0..(K + 1) /\ i < K + 1 OBVIOUS
<1>6. K + 1 \in S
  <2> HIDE DEF S
  <2>1. QED BY <1>3, <1>4, <1>5, Upward
<1>7. QED BY <1>1, <1>2, <1>5, <1>6

(* Nothing anywhere.                                                       *)
LEMMA NothingAnywhere ==
    ASSUME NEW K \in Nat, NEW f \in [0..K -> Nat], \A i \in 0..K : f[i] = 0
    PROVE  Model!Total(f) = 0
<1> DEFINE S == {n \in 0..(K + 1) : Below(f, n) = 0}
<1>1. /\ Below(f, 0) = 0 /\ \A n \in 0..K : Below(f, n + 1) = Below(f, n) + f[n]
      /\ Model!Total(f) = Below(f, K + 1)
  BY BelowFacts
<1>2. 0 \in S BY <1>1
<1>3. ASSUME NEW n \in 0..(K + 1), n \in S, n < K + 1 PROVE n + 1 \in S
  <2>1. n \in 0..K /\ n + 1 \in 0..(K + 1) BY <1>3
  <2>2. Below(f, n + 1) = 0 + 0 BY <1>1, <1>3, <2>1
  <2>3. QED BY <2>1, <2>2
<1>4. K + 1 \in Nat /\ K + 1 \in 0..(K + 1) OBVIOUS
<1>5. K + 1 \in S
  <2> HIDE DEF S
  <2>1. QED BY <1>2, <1>3, <1>4, Upward
<1>6. QED BY <1>1, <1>5

(* A tick moves a window by one.                                           *)
LEMMA OlderMoves ==
    ASSUME NEW K \in Nat, NEW f \in [0..K -> Nat]
    PROVE  /\ Model!Older(f) \in [0..K -> Nat]
           /\ \A n \in 1..(K + 1) : Below(Model!Older(f), n) = Below(f, n - 1)
           /\ Model!Total(Model!Older(f)) <= Model!Total(f)
<1> DEFINE g == Model!Older(f)
           S == {n \in 0..K : Below(g, n + 1) = Below(f, n)}
<1>1. /\ g \in [0..K -> Nat] /\ g[0] = 0
      /\ \A i \in 0..K : i # 0 => g[i] = f[i - 1]
  <2>1. \A i \in 0..K : i # 0 => i - 1 \in 0..K OBVIOUS
  <2>2. DOMAIN f = 0..K OBVIOUS
  <2>3. g = [i \in 0..K |-> IF i = 0 THEN 0 ELSE f[i - 1]] BY <2>2 DEF Model!Older
  <2> HIDE DEF g
  <2>4. QED BY <2>1, <2>3
<1> HIDE DEF g
<1>2. /\ Below(f, 0) = 0
      /\ \A n \in 0..K : Below(f, n + 1) = Below(f, n) + f[n] /\ f[n] \in Nat
      /\ \A n \in 0..(K + 1) : Below(f, n) \in Nat
  BY BelowFacts
<1>3. /\ Below(g, 0) = 0
      /\ \A n \in 0..K : Below(g, n + 1) = Below(g, n) + g[n]
      /\ Model!Total(g) = Below(g, K + 1)
  BY <1>1, BelowFacts
<1>4. 0 \in S
  <2>1. Below(g, 0 + 1) = 0 + 0 BY <1>1, <1>3
  <2>2. QED BY <1>2, <2>1
<1>5. ASSUME NEW n \in 0..K, n \in S, n < K PROVE n + 1 \in S
  <2>1. n + 1 \in 0..K /\ n + 1 # 0 /\ (n + 1) - 1 = n BY <1>5
  <2>2. Below(g, (n + 1) + 1) = Below(g, n + 1) + g[n + 1] BY <1>3, <2>1
  <2>3. g[n + 1] = f[n] BY <1>1, <2>1
  <2>4. Below(f, n + 1) = Below(f, n) + f[n] BY <1>2
  <2>5. Below(g, n + 1) = Below(f, n) BY <1>5
  <2>6. QED BY <2>1, <2>2, <2>3, <2>4, <2>5
<1>6. \A n \in 0..K : n \in S
  <2> HIDE DEF S
  <2>1. QED BY <1>4, <1>5, Upward
<1>7. \A n \in 1..(K + 1) : Below(g, n) = Below(f, n - 1)
  <2> TAKE n \in 1..(K + 1)
  <2>1. n - 1 \in 0..K /\ (n - 1) + 1 = n OBVIOUS
  <2>2. Below(g, (n - 1) + 1) = Below(f, n - 1) BY <1>6, <2>1
  <2>3. QED BY <2>1, <2>2
<1>8. Model!Total(g) <= Model!Total(f)
  <2>1. K + 1 \in 1..(K + 1) /\ (K + 1) - 1 = K /\ K \in 0..(K + 1) OBVIOUS
  <2>2. Model!Total(g) = Below(f, K) BY <1>3, <1>7, <2>1
  <2>3. QED BY <2>1, <2>2, BelowGrows
<1>9. QED BY <1>1, <1>7, <1>8 DEF g

(* A set of numbers up to K that is not empty has a largest.                *)
LEMMA LargestNumber ==
    ASSUME NEW K \in Nat, NEW S \in SUBSET (0..K), S # {}
    PROVE  Model!Max(S) \in S
<1> DEFINE T == {K - x : x \in S}
<1>1. T \in SUBSET Nat /\ T # {}
  <2>1. \A x \in S : x \in 0..K /\ K - x \in Nat OBVIOUS
  <2>2. PICK x \in S : TRUE OBVIOUS
  <2>3. K - x \in T OBVIOUS
  <2>4. \A t \in T : t \in Nat BY <2>1
  <2>5. QED BY <2>3, <2>4
<1>2. PICK t \in T : \A u \in T : t <= u
  <2> HIDE DEF T
  <2>1. QED BY <1>1, SmallestNumber
<1>3. PICK x \in S : t = K - x OBVIOUS
<1>4. \A y \in S : K - x <= K - y BY <1>2, <1>3
<1>5. \A y \in S : x >= y
  <2> TAKE y \in S
  <2>1. K - x <= K - y /\ x \in 0..K /\ y \in 0..K BY <1>4
  <2>2. QED BY <2>1
<1>6. QED BY <1>5 DEF Model!Max

-----------------------------------------------------------------------------
(* What holds of a window of a minute.                                      *)
LEMMA WindowFacts ==
    ASSUME NEW f \in [0..(Minute - 1) -> Nat]
    PROVE  /\ Model!Total(f) \in Nat
           /\ Model!Total(f) = Below(f, Minute)
           /\ \A n \in 0..Minute : Below(f, n) \in Nat /\ Below(f, n) <= Model!Total(f)
           /\ \A i \in 0..(Minute - 1) : Below(f, i) + f[i] <= Model!Total(f)
           /\ Model!Sent(f) \in [0..(Minute - 1) -> Nat]
           /\ Model!Sent(f)[0] = f[0] + 1
           /\ \A i \in 0..(Minute - 1) : i # 0 => Model!Sent(f)[i] = f[i]
           /\ Model!Total(Model!Sent(f)) = Model!Total(f) + 1
           /\ Model!Older(f) \in [0..(Minute - 1) -> Nat]
           /\ Model!Older(f)[0] = 0
           /\ \A i \in 0..(Minute - 1) : i # 0 => Model!Older(f)[i] = f[i - 1]
           /\ \A n \in 1..Minute : Below(Model!Older(f), n) = Below(f, n - 1)
           /\ Model!Total(Model!Older(f)) <= Model!Total(f)
<1> DEFINE K == Minute - 1
<1>1. K \in Nat /\ K + 1 = Minute /\ 0 \in 0..K BY ProfilesAssumption
<1>2. f \in [0..K -> Nat] OBVIOUS
<1> HIDE DEF K
<1>3. /\ \A n \in 0..(K + 1) : Below(f, n) \in Nat
      /\ Model!Total(f) = Below(f, K + 1)
  BY <1>1, <1>2, BelowFacts
<1>4. \A n \in 0..(K + 1) : Below(f, n) <= Model!Total(f) BY <1>1, <1>2, BelowGrows
<1>5. \A i \in 0..K : Below(f, i) + f[i] <= Model!Total(f) BY <1>1, <1>2, EntryInTotal
<1>6. /\ Model!Sent(f) \in [0..K -> Nat] /\ Model!Sent(f)[0] = f[0] + 1
      /\ \A j \in 0..K : j # 0 => Model!Sent(f)[j] = f[j]
  BY <1>1, <1>2 DEF Model!Sent
<1>7. Model!Total(Model!Sent(f)) = Model!Total(f) + 1 BY <1>1, <1>2, <1>6, OneMore
<1>8. /\ Model!Older(f) \in [0..K -> Nat]
      /\ \A n \in 1..(K + 1) : Below(Model!Older(f), n) = Below(f, n - 1)
      /\ Model!Total(Model!Older(f)) <= Model!Total(f)
  BY <1>1, <1>2, OlderMoves
<1>9. Model!Older(f)[0] = 0 /\ \A i \in 0..K : i # 0 => Model!Older(f)[i] = f[i - 1]
  BY <1>1, <1>2 DEF Model!Older
<1>10. K + 1 \in 0..(K + 1) BY <1>1
<1>11. Model!Total(f) \in Nat BY <1>3, <1>10
<1>12. QED BY <1>1, <1>3, <1>4, <1>5, <1>6, <1>7, <1>8, <1>9, <1>11 DEF K

(* What holds of the sleepers: a tick wakes some and loses none.            *)
Awake(f) == [d \in DOMAIN f |->
                (IF d = 0 THEN f[0] ELSE 0) + (IF d = Minute THEN 0 ELSE f[d + 1])]

(* How those who sleep are counted before and after a tick.                 *)
LEMMA SleeperFacts ==
    ASSUME NEW f \in [0..Minute -> Nat]
    PROVE  /\ Model!Total(f) \in Nat
           /\ \A d \in 0..Minute : f[d] <= Model!Total(f)
           /\ Awake(f) \in [0..Minute -> Nat]
           /\ Awake(f)[0] = f[0] + f[1]
           /\ \A d \in 1..(Minute - 1) : Awake(f)[d] = f[d + 1]
           /\ Awake(f)[Minute] = 0
           /\ Model!Total(Awake(f)) = Model!Total(f)
<1> DEFINE g == Awake(f)
           S == {n \in 0..(Minute - 1) : Below(g, n + 1) = Below(f, n + 2)}
<1>0. Minute \in Nat /\ Minute # 0 /\ Minute - 1 \in Nat /\ (Minute - 1) + 1 = Minute
      /\ 0 \in 0..Minute /\ 1 \in 0..Minute /\ Minute \in 0..Minute
  BY ProfilesAssumption
<1>1. /\ Model!Total(f) \in Nat /\ \A d \in 0..Minute : f[d] <= Model!Total(f)
  BY <1>0, EntryInTotal
<1>2. DOMAIN f = 0..Minute OBVIOUS
<1>3. g = [d \in 0..Minute |-> (IF d = 0 THEN f[0] ELSE 0) + (IF d = Minute THEN 0 ELSE f[d + 1])]
  BY <1>2 DEF Awake
<1> HIDE DEF g
<1>4. \A d \in 0..Minute : d # Minute => d + 1 \in 0..Minute /\ f[d + 1] \in Nat
  BY <1>0
<1>5. /\ g \in [0..Minute -> Nat] /\ g[0] = f[0] + f[1] /\ g[Minute] = 0
      /\ \A d \in 1..(Minute - 1) : g[d] = f[d + 1]
  <2>1. ASSUME NEW d \in 0..Minute
        PROVE  (IF d = 0 THEN f[0] ELSE 0) + (IF d = Minute THEN 0 ELSE f[d + 1]) \in Nat
    BY <1>0, <1>4
  <2>2. g \in [0..Minute -> Nat] BY <1>3, <2>1
  <2>3. g[0] = f[0] + f[1] BY <1>0, <1>3
  <2>4. g[Minute] = 0 BY <1>0, <1>3
  <2>5. ASSUME NEW d \in 1..(Minute - 1) PROVE g[d] = f[d + 1]
    <3>1. d \in 0..Minute /\ d # 0 /\ d # Minute /\ f[d + 1] \in Nat BY <1>0, <1>4
    <3>2. g[d] = 0 + f[d + 1] BY <1>3, <3>1
    <3>3. QED BY <3>1, <3>2
  <2>6. QED BY <2>2, <2>3, <2>4, <2>5
<1>6. /\ Below(f, 0) = 0
      /\ \A n \in 0..Minute : Below(f, n + 1) = Below(f, n) + f[n] /\ f[n] \in Nat
      /\ \A n \in 0..(Minute + 1) : Below(f, n) \in Nat
      /\ Model!Total(f) = Below(f, Minute + 1)
  BY <1>0, BelowFacts
<1>7. /\ Below(g, 0) = 0
      /\ \A n \in 0..Minute : Below(g, n + 1) = Below(g, n) + g[n]
      /\ Model!Total(g) = Below(g, Minute + 1)
  BY <1>0, <1>5, BelowFacts
<1>8. 0 \in S
  <2>1. Below(g, 0 + 1) = 0 + g[0] BY <1>0, <1>7
  <2>2. Below(f, 0 + 1) = 0 + f[0] BY <1>0, <1>6
  <2>3. Below(f, 1 + 1) = Below(f, 1) + f[1] /\ f[0] \in Nat /\ f[1] \in Nat BY <1>0, <1>6
  <2>4. Below(f, 0 + 2) = f[0] + f[1] BY <2>2, <2>3
  <2>5. Below(g, 0 + 1) = f[0] + f[1] BY <1>5, <2>1, <2>3
  <2>6. 0 \in 0..(Minute - 1) BY <1>0
  <2>7. QED BY <2>4, <2>5, <2>6
<1>9. ASSUME NEW n \in 0..(Minute - 1), n \in S, n < Minute - 1 PROVE n + 1 \in S
  <2>1. n + 1 \in 1..(Minute - 1) /\ n + 1 \in 0..Minute /\ n + 2 \in 0..Minute BY <1>0, <1>9
  <2>2. Below(g, (n + 1) + 1) = Below(g, n + 1) + g[n + 1] BY <1>7, <2>1
  <2>3. g[n + 1] = f[(n + 1) + 1] BY <1>5, <2>1
  <2>4. Below(f, (n + 2) + 1) = Below(f, n + 2) + f[n + 2] BY <1>6, <2>1
  <2>5. Below(g, n + 1) = Below(f, n + 2) BY <1>9
  <2>6. (n + 1) + 1 = n + 2 /\ (n + 2) + 1 = (n + 1) + 2 OBVIOUS
  <2>7. Below(g, (n + 1) + 1) = Below(f, (n + 1) + 2) BY <2>2, <2>3, <2>4, <2>5, <2>6
  <2>8. n + 1 \in 0..(Minute - 1) BY <1>0, <1>9
  <2>9. QED BY <2>7, <2>8
<1>10. Minute - 1 \in S
  <2> HIDE DEF S
  <2>1. Minute - 1 \in 0..(Minute - 1) BY <1>0
  <2>2. QED BY <1>0, <1>8, <1>9, <2>1, Upward
<1>11. Model!Total(g) = Model!Total(f)
  <2>1. Below(g, (Minute - 1) + 1) = Below(f, (Minute - 1) + 2) BY <1>10
  <2>2. (Minute - 1) + 2 = Minute + 1 BY <1>0
  <2>3. Below(g, Minute) = Model!Total(f) BY <1>0, <1>6, <2>1, <2>2
  <2>4. Below(g, Minute + 1) = Below(g, Minute) + 0 BY <1>0, <1>5, <1>7
  <2>5. QED BY <1>1, <1>7, <2>3, <2>4
<1>12. QED BY <1>1, <1>5, <1>11 DEF g

-----------------------------------------------------------------------------
(* A client of a model: no more calls inside than the semaphore has places. *)
(* What was sent without a sleep is within the rate.  Those who are awake   *)
(* and have not sent yet, with those who just did, hold places.  With one   *)
(* place, who sleeps is alone, and by the time it wakes one of the requests *)
(* that were in its way has left the window.                               *)
RateTypes ==
    /\ profile \in Model!ProfileRows
    /\ ages \in [0..(Minute - 1) -> Nat] /\ late \in [0..(Minute - 1) -> Nat]
    /\ asleep \in [0..Minute -> Nat]
    /\ sending \in Nat
    /\ request \in [at : Model!Places, left : Nat, tries : Nat, heeded : {0, 2},
                    answer : Model!Errors \cup {"none", "ok"}]
    /\ request.at = "throttled" => request.left <= Minute

One(P) == IF P THEN 1 ELSE 0
Sleeps(d) == request.at = "throttled" /\ request.left = d

RateKeeps ==
    /\ RateTypes
    /\ Model!Inside <= profile.max_concurrency
    /\ Model!Total(ages) <= profile.requests_per_minute
    /\ late[0] + asleep[0] + One(Sleeps(0)) <= profile.max_concurrency
    /\ \A a \in 0..(Minute - 1) : late[a] <= profile.max_concurrency
    /\ profile.max_concurrency = 1 =>
          /\ Model!Total(ages) + Model!Total(late) <= profile.requests_per_minute
          /\ \A d \in 0..Minute : asleep[d] > 0 \/ Sleeps(d) =>
                Below(ages, Minute - d) + Below(late, Minute - d) < profile.requests_per_minute

(* A client that has sent nothing keeps to its rate.                        *)
LEMMA RateBegins == Model!Init => RateKeeps
<1> SUFFICES ASSUME Model!Init PROVE RateKeeps
  OBVIOUS
<1>0. Minute \in Nat /\ Minute # 0 /\ Minute - 1 \in Nat /\ 0 \in 0..(Minute - 1) /\ 0 \in 0..Minute
  BY ProfilesAssumption
<1>1. profile \in Model!ProfileRows /\ profile.max_concurrency \in Nat
      /\ profile.requests_per_minute \in Nat /\ profile.requests_per_minute # 0
  BY ProfilesAssumption DEF Model!Init, Model!ProfileRows
<1>2. /\ ages = [a \in 0..(Minute - 1) |-> 0] /\ late = ages /\ asleep = [d \in 0..Minute |-> 0]
      /\ sending = 0
      /\ request = [at |-> "new", left |-> 0, tries |-> 0, heeded |-> 0, answer |-> "none"]
  BY DEF Model!Init
<1>3. RateTypes
  BY <1>0, <1>1, <1>2 DEF RateTypes, Model!Places, Model!Errors
<1>4. Model!Total(ages) = 0 /\ Model!Total(late) = 0
  <2>1. ages \in [0..(Minute - 1) -> Nat] /\ \A i \in 0..(Minute - 1) : ages[i] = 0 BY <1>2
  <2>2. QED BY <1>0, <1>2, <2>1, NothingAnywhere
<1>5. Model!Total(asleep) = 0
  <2>1. asleep \in [0..Minute -> Nat] /\ \A i \in 0..Minute : asleep[i] = 0 BY <1>2
  <2>2. QED BY <1>0, <2>1, NothingAnywhere
<1>6. request.at = "new" BY <1>2
<1>7. Model!Inside = 0 BY <1>2, <1>5, <1>6 DEF Model!Inside
<1>8. \A d \in 0..Minute : asleep[d] = 0 /\ ~ Sleeps(d) BY <1>2, <1>6 DEF Sleeps
<1>9. \A a \in 0..(Minute - 1) : late[a] = 0 BY <1>2
<1>10. late[0] + asleep[0] + One(Sleeps(0)) = 0 BY <1>0, <1>8, <1>9 DEF One
<1>11. QED BY <1>0, <1>1, <1>3, <1>4, <1>7, <1>8, <1>9, <1>10 DEF RateKeeps

(* The numbers of a client that keeps.                                      *)
LEMMA RateNumbers ==
    ASSUME RateKeeps
    PROVE  /\ Minute \in Nat /\ Minute # 0 /\ Minute - 1 \in Nat /\ 0 \in 0..(Minute - 1)
           /\ 0 \in 0..Minute /\ 1 \in 0..Minute
           /\ profile.max_concurrency \in Nat /\ profile.requests_per_minute \in Nat
           /\ profile.requests_per_minute # 0
           /\ Model!Total(ages) \in Nat /\ Model!Total(late) \in Nat /\ Model!Total(asleep) \in Nat
           /\ sending \in Nat /\ Model!Inside \in Nat
           /\ DOMAIN ages = 0..(Minute - 1) /\ DOMAIN asleep = 0..Minute
<1>1. RateTypes BY DEF RateKeeps
<1>2. Minute \in Nat /\ Minute # 0 /\ Minute - 1 \in Nat /\ 0 \in 0..(Minute - 1)
      /\ 0 \in 0..Minute /\ 1 \in 0..Minute
  BY ProfilesAssumption
<1>3. profile.max_concurrency \in Nat /\ profile.requests_per_minute \in Nat
      /\ profile.requests_per_minute # 0
  BY <1>1 DEF RateTypes, Model!ProfileRows
<1>4. Model!Total(ages) \in Nat /\ Model!Total(late) \in Nat BY <1>1, WindowFacts DEF RateTypes
<1>5. Model!Total(asleep) \in Nat /\ sending \in Nat BY <1>1, SleeperFacts DEF RateTypes
<1>6. Model!Inside \in Nat BY <1>5 DEF Model!Inside
<1>7. DOMAIN ages = 0..(Minute - 1) /\ DOMAIN asleep = 0..Minute BY <1>1 DEF RateTypes
<1>8. QED BY <1>2, <1>3, <1>4, <1>5, <1>6, <1>7

(* Who has to sleep sleeps until a request has left the window: at that     *)
(* time fewer are in it than now.                                          *)
LEMMA DelayFrees ==
    ASSUME RateKeeps, Model!Full
    PROVE  /\ Model!Delay \in 1..Minute
           /\ Below(ages, Minute - Model!Delay) + Below(late, Minute - Model!Delay)
                < Model!Total(ages) + Model!Total(late)
<1> DEFINE S == {a \in DOMAIN ages : ages[a] + late[a] > 0}
           m == Model!Max(S)
<1>1. /\ Minute \in Nat /\ Minute # 0 /\ Minute - 1 \in Nat
      /\ profile.requests_per_minute \in Nat /\ profile.requests_per_minute # 0
      /\ DOMAIN ages = 0..(Minute - 1)
  BY RateNumbers
<1>2. ages \in [0..(Minute - 1) -> Nat] /\ late \in [0..(Minute - 1) -> Nat]
  BY DEF RateKeeps, RateTypes
<1>3. S # {}
  <2> SUFFICES ASSUME S = {} PROVE FALSE
    OBVIOUS
  <2>1. \A a \in 0..(Minute - 1) : ages[a] \in Nat /\ late[a] \in Nat /\ ~ (ages[a] + late[a] > 0)
    BY <1>1, <1>2
  <2>2. \A a \in 0..(Minute - 1) : ages[a] = 0 /\ late[a] = 0 BY <2>1
  <2>3. Model!Total(ages) = 0 /\ Model!Total(late) = 0 BY <1>1, <1>2, <2>2, NothingAnywhere
  <2>4. QED BY <1>1, <2>3 DEF Model!Full
<1>4. m \in S
  <2>1. S \in SUBSET (0..(Minute - 1)) BY <1>1
  <2> HIDE DEF S
  <2>2. QED BY <1>1, <1>3, <2>1, LargestNumber
<1>5. Model!Delay = Minute - m BY DEF Model!Delay
<1>6. m \in 0..(Minute - 1) /\ ages[m] + late[m] > 0 BY <1>1, <1>4
<1> HIDE DEF m
<1>7. Minute - Model!Delay = m /\ Model!Delay \in 1..Minute BY <1>1, <1>5, <1>6
<1>8. /\ Below(ages, m) + ages[m] <= Model!Total(ages) /\ Below(ages, m) \in Nat /\ ages[m] \in Nat
      /\ Model!Total(ages) \in Nat
  BY <1>1, <1>2, <1>6, EntryInTotal
<1>9. /\ Below(late, m) + late[m] <= Model!Total(late) /\ Below(late, m) \in Nat /\ late[m] \in Nat
      /\ Model!Total(late) \in Nat
  BY <1>1, <1>2, <1>6, EntryInTotal
<1>10. QED BY <1>6, <1>7, <1>8, <1>9

(* The call stays outside, or leaves.                                       *)
LEMMA OutsideKeeps ==
    ASSUME RateKeeps, UNCHANGED <<profile, ages, late, asleep>>,
           sending' \in 0..sending, RateTypes',
           request'.at # "throttled" \/ request' = request,
           request'.at = "sending" => request.at = "sending"
    PROVE  RateKeeps'
<1>1. /\ Model!Total(asleep) \in Nat /\ sending \in Nat /\ profile.max_concurrency \in Nat
      /\ Model!Inside \in Nat
  BY RateNumbers
<1>2. \A d \in 0..Minute : Sleeps(d)' => Sleeps(d) BY DEF Sleeps
<1>3. Model!Inside' <= Model!Inside BY <1>1 DEF Model!Inside
<1>4. Model!Inside' \in Nat BY <1>1 DEF Model!Inside
<1>5. Model!Inside' <= profile.max_concurrency BY <1>1, <1>3, <1>4 DEF RateKeeps
<1>6. late[0] + asleep[0] + One(Sleeps(0)') <= profile.max_concurrency
  <2>1. 0 \in 0..Minute /\ 0 \in 0..(Minute - 1) BY RateNumbers
  <2>2. late[0] \in Nat /\ asleep[0] \in Nat BY <2>1 DEF RateKeeps, RateTypes
  <2>3. One(Sleeps(0)') <= One(Sleeps(0)) /\ One(Sleeps(0)') \in Nat /\ One(Sleeps(0)) \in Nat
    BY <1>2, <2>1 DEF One
  <2>4. late[0] + asleep[0] + One(Sleeps(0)) <= profile.max_concurrency BY DEF RateKeeps
  <2>5. QED BY <1>1, <2>2, <2>3, <2>4
<1>7. QED BY <1>2, <1>5, <1>6 DEF RateKeeps, One

(* A tick ages what was sent and brings the sleepers nearer to their        *)
(* waking: a sleeper waits until enough of the window has aged out.         *)
LEMMA TickKeeps == ASSUME RateKeeps, Model!Tick PROVE RateKeeps'
<1>1. /\ Minute \in Nat /\ Minute # 0 /\ Minute - 1 \in Nat /\ 0 \in 0..(Minute - 1)
      /\ 0 \in 0..Minute /\ 1 \in 0..Minute
      /\ profile.max_concurrency \in Nat /\ profile.requests_per_minute \in Nat
      /\ Model!Total(ages) \in Nat /\ Model!Total(late) \in Nat /\ Model!Total(asleep) \in Nat
      /\ sending \in Nat
  BY RateNumbers
<1>2. /\ ages \in [0..(Minute - 1) -> Nat] /\ late \in [0..(Minute - 1) -> Nat]
      /\ asleep \in [0..Minute -> Nat] /\ request.left \in Nat
  BY DEF RateKeeps, RateTypes
<1>3. /\ ages' = Model!Older(ages) /\ late' = Model!Older(late) /\ asleep' = Awake(asleep)
      /\ request' = [request EXCEPT !.left = Model!Less(@)]
      /\ profile' = profile /\ sending' = sending
  BY DEF Model!Tick, Awake
<1>4. /\ request'.at = request.at
      /\ request'.left = (IF request.left = 0 THEN 0 ELSE request.left - 1)
  BY <1>3 DEF RateKeeps, RateTypes, Model!Less
<1>5. request'.left \in Nat /\ (request.left <= Minute => request'.left < Minute)
  <2>1. CASE request.left = 0
    <3>1. request'.left = 0 BY <1>4, <2>1
    <3>2. QED BY <1>1, <3>1
  <2>2. CASE request.left # 0
    <3>1. request'.left = request.left - 1 BY <1>4, <2>2
    <3>2. request.left \in Nat BY <1>2
    <3> HIDE <1>4
    <3>3. QED BY <1>1, <2>2, <3>1, <3>2
  <2>3. QED BY <2>1, <2>2
<1>6. RateTypes'
  <2>1. ages' \in [0..(Minute - 1) -> Nat] /\ late' \in [0..(Minute - 1) -> Nat]
    BY <1>2, <1>3, WindowFacts
  <2>2. asleep' \in [0..Minute -> Nat] BY <1>2, <1>3, SleeperFacts
  <2>3. request' \in [at : Model!Places, left : Nat, tries : Nat, heeded : {0, 2},
                      answer : Model!Errors \cup {"none", "ok"}]
    <3>1. Model!Less(request.left) \in Nat BY <1>2 DEF Model!Less
    <3>2. QED BY <1>3, <3>1 DEF RateKeeps, RateTypes
  <2>4. request'.at = "throttled" => request'.left <= Minute
    BY <1>1, <1>4, <1>5 DEF RateKeeps, RateTypes
  <2>5. QED BY <1>3, <2>1, <2>2, <2>3, <2>4 DEF RateKeeps, RateTypes
<1>7. Model!Inside' = Model!Inside
  <2>1. Model!Total(Awake(asleep)) = Model!Total(asleep) BY <1>2, SleeperFacts
  <2>2. QED BY <1>3, <1>4, <2>1 DEF Model!Inside
<1>8. Model!Inside' <= profile.max_concurrency BY <1>7 DEF RateKeeps
<1>9. /\ Model!Total(ages') <= Model!Total(ages) /\ Model!Total(late') <= Model!Total(late)
      /\ Model!Total(ages') \in Nat /\ Model!Total(late') \in Nat
  <2>1. /\ Model!Older(ages) \in [0..(Minute - 1) -> Nat]
        /\ Model!Total(Model!Older(ages)) <= Model!Total(ages)
    BY <1>2, WindowFacts
  <2>2. /\ Model!Older(late) \in [0..(Minute - 1) -> Nat]
        /\ Model!Total(Model!Older(late)) <= Model!Total(late)
    BY <1>2, WindowFacts
  <2>3. Model!Total(Model!Older(ages)) \in Nat /\ Model!Total(Model!Older(late)) \in Nat
    BY <2>1, <2>2, WindowFacts
  <2>4. QED BY <1>3, <2>1, <2>2, <2>3
<1>10. Model!Total(ages') <= profile.requests_per_minute
  <2>1. Model!Total(ages) <= profile.requests_per_minute BY DEF RateKeeps
  <2>2. QED BY <1>1, <1>9, <2>1
<1>11. late'[0] + asleep'[0] + One(Sleeps(0)') <= profile.max_concurrency
  <2>1. late'[0] = 0 BY <1>2, <1>3, WindowFacts
  <2>2. asleep'[0] \in Nat /\ asleep'[0] <= Model!Total(asleep') /\ Model!Total(asleep') \in Nat
    <3>1. Awake(asleep) \in [0..Minute -> Nat] BY <1>2, SleeperFacts
    <3>2. QED BY <1>1, <1>3, <3>1, SleeperFacts
  <2>3. Model!Inside' = Model!Total(asleep') + sending
                          + One(request.at \in {"throttled", "sending"})
    BY <1>3, <1>4 DEF Model!Inside, One
  <2>4. /\ One(Sleeps(0)') <= One(request.at \in {"throttled", "sending"})
        /\ One(Sleeps(0)') \in Nat /\ One(request.at \in {"throttled", "sending"}) \in Nat
    BY <1>4 DEF One, Sleeps
  <2> DEFINE x == One(Sleeps(0)')
             y == One(request.at \in {"throttled", "sending"})
  <2> HIDE DEF x, y
  <2>5. x \in Nat /\ y \in Nat /\ x <= y BY <2>4 DEF x, y
  <2>6. Model!Total(asleep') + sending + y <= profile.max_concurrency BY <1>8, <2>3 DEF y
  <2>7. 0 + asleep'[0] + x <= profile.max_concurrency BY <1>1, <2>2, <2>5, <2>6
  <2>8. QED BY <2>1, <2>7 DEF x
<1>12. \A a \in 0..(Minute - 1) : late'[a] <= profile.max_concurrency
  <2> TAKE a \in 0..(Minute - 1)
  <2>1. CASE a = 0
    <3>1. late'[a] = 0 BY <1>2, <1>3, <2>1, WindowFacts
    <3>2. QED BY <1>1, <3>1
  <2>2. CASE a # 0
    <3>1. late'[a] = late[a - 1] BY <1>2, <1>3, <2>2, WindowFacts
    <3>2. a - 1 \in 0..(Minute - 1) BY <1>1, <2>2
    <3>3. QED BY <3>1, <3>2 DEF RateKeeps
  <2>3. QED BY <2>1, <2>2
<1>13. ASSUME profile.max_concurrency = 1
       PROVE  /\ Model!Total(ages') + Model!Total(late') <= profile.requests_per_minute
              /\ \A d \in 0..Minute : asleep'[d] > 0 \/ Sleeps(d)' =>
                    Below(ages', Minute - d) + Below(late', Minute - d)
                      < profile.requests_per_minute
  <2>1. Model!Total(ages) + Model!Total(late) <= profile.requests_per_minute
    BY <1>13 DEF RateKeeps
  <2>2. Model!Total(ages') + Model!Total(late') <= profile.requests_per_minute
    BY <1>1, <1>9, <2>1
  <2>3. ASSUME NEW d \in 0..Minute, asleep[d] > 0 \/ Sleeps(d)
        PROVE  Below(ages, Minute - d) + Below(late, Minute - d) < profile.requests_per_minute
    BY <1>13, <2>3 DEF RateKeeps
  <2>4. ASSUME NEW d \in 0..Minute, asleep'[d] > 0 \/ Sleeps(d)'
        PROVE  Below(ages', Minute - d) + Below(late', Minute - d) < profile.requests_per_minute
    <3>1. d # Minute /\ (asleep[d + 1] > 0 \/ Sleeps(d + 1) \/ (d = 0 /\ (asleep[0] > 0 \/ Sleeps(0))))
      <4>1. CASE asleep'[d] > 0
        <5>0. asleep'[Minute] = 0 BY <1>2, <1>3, SleeperFacts
        <5>1. d # Minute BY <4>1, <5>0
        <5>2. CASE d = 0
          <6>1. asleep'[0] = asleep[0] + asleep[1] BY <1>2, <1>3, SleeperFacts
          <6>2. asleep[0] \in Nat /\ asleep[1] \in Nat BY <1>1, <1>2
          <6>3. asleep[0] > 0 \/ asleep[1] > 0 BY <4>1, <5>2, <6>1, <6>2
          <6>4. QED BY <5>1, <5>2, <6>3
        <5>3. CASE d # 0
          <6>1. d \in 1..(Minute - 1) BY <1>1, <5>1, <5>3
          <6>2. asleep'[d] = asleep[d + 1] BY <1>2, <1>3, <6>1, SleeperFacts
          <6>3. QED BY <4>1, <5>1, <6>2
        <5>4. QED BY <5>2, <5>3
      <4>2. CASE Sleeps(d)'
        <5>1. request.at = "throttled" /\ request'.left = d BY <1>4, <4>2 DEF Sleeps
        <5>2. request.left <= Minute BY <5>1 DEF RateKeeps, RateTypes
        <5>3. d # Minute BY <1>1, <1>5, <5>1, <5>2
        <5>4. request.left = d + 1 \/ (d = 0 /\ request.left = 0) BY <1>2, <1>4, <5>1
        <5>5. QED BY <5>1, <5>3, <5>4 DEF Sleeps
      <4>3. QED BY <2>4, <4>1, <4>2
    <3>2. Minute - d \in 1..Minute /\ (Minute - d) - 1 = Minute - (d + 1) BY <1>1, <3>1
    <3>3. /\ Below(ages', Minute - d) = Below(ages, Minute - (d + 1))
          /\ Below(late', Minute - d) = Below(late, Minute - (d + 1))
      BY <1>2, <1>3, <3>2, WindowFacts
    <3>4. d + 1 \in 0..Minute BY <1>1, <3>1
    <3>5. CASE asleep[d + 1] > 0 \/ Sleeps(d + 1)
      BY <2>3, <3>3, <3>4, <3>5
    <3>6. CASE d = 0 /\ (asleep[0] > 0 \/ Sleeps(0))
      <4>1. Below(ages, Minute - 0) + Below(late, Minute - 0) < profile.requests_per_minute
        BY <1>1, <2>3, <3>6
      <4>2. Minute - 0 = Minute BY <1>1
      <4>3. Model!Total(ages) + Model!Total(late) < profile.requests_per_minute
        BY <1>2, <4>1, <4>2, WindowFacts
      <4>4. Minute - (d + 1) \in 0..Minute BY <1>1, <3>4
      <4>5. /\ Below(ages, Minute - (d + 1)) <= Model!Total(ages)
            /\ Below(late, Minute - (d + 1)) <= Model!Total(late)
            /\ Below(ages, Minute - (d + 1)) \in Nat /\ Below(late, Minute - (d + 1)) \in Nat
        BY <1>2, <4>4, WindowFacts
      <4>6. QED BY <1>1, <3>3, <4>3, <4>5
    <3>7. QED BY <3>1, <3>5, <3>6
  <2>5. QED BY <2>2, <2>4
<1>14. QED BY <1>3, <1>6, <1>8, <1>10, <1>11, <1>12, <1>13 DEF RateKeeps

(* One more request is sent at once: the window is not full, and with one   *)
(* place nobody sleeps.                                                    *)
LEMMA SentAtOnceKeeps ==
    ASSUME RateKeeps, RateTypes', ~ Model!Full, Model!Admitted,
           UNCHANGED <<profile, late, asleep>>, ages' = Model!Sent(ages),
           request' = request \/ request'.at = "sending",
           Model!Inside' = Model!Inside + 1
    PROVE  RateKeeps'
<1>1. /\ Minute \in Nat /\ Minute # 0 /\ 0 \in 0..(Minute - 1) /\ 0 \in 0..Minute
      /\ profile.max_concurrency \in Nat /\ profile.requests_per_minute \in Nat
      /\ Model!Total(ages) \in Nat /\ Model!Total(late) \in Nat /\ Model!Total(asleep) \in Nat
      /\ Model!Inside \in Nat /\ sending \in Nat
  BY RateNumbers
<1>2. /\ ages \in [0..(Minute - 1) -> Nat] /\ late \in [0..(Minute - 1) -> Nat]
      /\ asleep \in [0..Minute -> Nat]
  BY DEF RateKeeps, RateTypes
<1>3. Model!Total(ages') = Model!Total(ages) + 1 BY <1>2, WindowFacts
<1>4. Model!Total(ages) + Model!Total(late) < profile.requests_per_minute
  BY <1>1 DEF Model!Full
<1>5. Model!Inside' <= profile.max_concurrency BY <1>1 DEF Model!Admitted
<1>6. \A d \in 0..Minute : Sleeps(d)' => Sleeps(d) BY DEF Sleeps
<1>7. late[0] + asleep[0] + One(Sleeps(0)') <= profile.max_concurrency
  <2>1. late[0] \in Nat /\ asleep[0] \in Nat BY <1>1, <1>2
  <2>2. One(Sleeps(0)') <= One(Sleeps(0)) /\ One(Sleeps(0)') \in Nat /\ One(Sleeps(0)) \in Nat
    BY <1>1, <1>6 DEF One
  <2>3. late[0] + asleep[0] + One(Sleeps(0)) <= profile.max_concurrency BY DEF RateKeeps
  <2>4. QED BY <1>1, <2>1, <2>2, <2>3
<1>8. ASSUME profile.max_concurrency = 1, NEW d \in 0..Minute PROVE ~ (asleep[d] > 0 \/ Sleeps(d))
  <2>1. Model!Inside = 0 BY <1>1, <1>8 DEF Model!Admitted
  <2>2. Model!Total(asleep) = 0 /\ request.at # "throttled"
    <3>1. CASE request.at \in {"throttled", "sending"}
      <4>1. Model!Inside = Model!Total(asleep) + sending + 1 BY <3>1 DEF Model!Inside
      <4>2. QED BY <1>1, <2>1, <4>1
    <3>2. CASE request.at \notin {"throttled", "sending"}
      <4>1. Model!Inside = Model!Total(asleep) + sending + 0 BY <3>2 DEF Model!Inside
      <4>2. Model!Total(asleep) = 0 BY <1>1, <2>1, <4>1
      <4>3. QED BY <3>2, <4>2
    <3>3. QED BY <3>1, <3>2
  <2>3. asleep[d] <= 0 /\ asleep[d] \in Nat BY <1>2, <2>2, SleeperFacts
  <2>4. QED BY <2>2, <2>3 DEF Sleeps
<1>9. Model!Total(ages') <= profile.requests_per_minute BY <1>1, <1>3, <1>4
<1>10. Model!Total(ages') + Model!Total(late') <= profile.requests_per_minute BY <1>1, <1>3, <1>4
<1>11. QED BY <1>5, <1>6, <1>7, <1>8, <1>9, <1>10 DEF RateKeeps, One

(* One more call sleeps.                                                   *)
LEMMA SleepingKeeps ==
    ASSUME RateKeeps, RateTypes', Model!Full, Model!Admitted,
           UNCHANGED <<profile, ages, late>>,
           \/ asleep' = [asleep EXCEPT ![Model!Delay] = @ + 1] /\ request' = request
           \/ asleep' = asleep /\ request'.left = Model!Delay,
           Model!Inside' = Model!Inside + 1
    PROVE  RateKeeps'
<1>1. /\ Minute \in Nat /\ Minute # 0 /\ 0 \in 0..(Minute - 1) /\ 0 \in 0..Minute
      /\ profile.max_concurrency \in Nat /\ profile.requests_per_minute \in Nat
      /\ Model!Total(ages) \in Nat /\ Model!Total(late) \in Nat
      /\ Model!Inside \in Nat
  BY RateNumbers
<1>2. asleep \in [0..Minute -> Nat] /\ late \in [0..(Minute - 1) -> Nat] BY DEF RateKeeps, RateTypes
<1>3. /\ Model!Delay \in 1..Minute
      /\ Below(ages, Minute - Model!Delay) + Below(late, Minute - Model!Delay)
           < Model!Total(ages) + Model!Total(late)
  BY DelayFrees
<1>4. Model!Inside' <= profile.max_concurrency BY <1>1 DEF Model!Admitted
<1>5. \A d \in 0..Minute : asleep'[d] > 0 \/ Sleeps(d)' => asleep[d] > 0 \/ Sleeps(d) \/ d = Model!Delay
  BY <1>2 DEF Sleeps
<1>6. asleep'[0] = asleep[0] /\ (Sleeps(0)' => Sleeps(0))
  <2>1. Model!Delay # 0 BY <1>3
  <2>2. CASE asleep' = [asleep EXCEPT ![Model!Delay] = @ + 1] /\ request' = request
    <3>1. asleep'[0] = asleep[0] BY <1>1, <1>2, <2>1, <2>2
    <3>2. QED BY <2>2, <3>1 DEF Sleeps
  <2>3. CASE asleep' = asleep /\ request'.left = Model!Delay
    <3>1. ~ Sleeps(0)' BY <2>1, <2>3 DEF Sleeps
    <3>2. QED BY <2>3, <3>1
  <2>4. QED BY <2>2, <2>3
<1>7. late[0] + asleep'[0] + One(Sleeps(0)') <= profile.max_concurrency
  <2>1. late[0] \in Nat /\ asleep[0] \in Nat BY <1>1, <1>2
  <2>2. One(Sleeps(0)') <= One(Sleeps(0)) /\ One(Sleeps(0)') \in Nat /\ One(Sleeps(0)) \in Nat
    BY <1>6 DEF One
  <2>3. late[0] + asleep[0] + One(Sleeps(0)) <= profile.max_concurrency BY DEF RateKeeps
  <2>4. QED BY <1>1, <1>6, <2>1, <2>2, <2>3
<1>8. ASSUME profile.max_concurrency = 1, NEW d \in 0..Minute, asleep'[d] > 0 \/ Sleeps(d)'
      PROVE  Below(ages, Minute - d) + Below(late, Minute - d) < profile.requests_per_minute
  <2>1. CASE asleep[d] > 0 \/ Sleeps(d) BY <1>8, <2>1 DEF RateKeeps
  <2>2. CASE d = Model!Delay
    <3>1. Model!Total(ages) + Model!Total(late) <= profile.requests_per_minute
      BY <1>8 DEF RateKeeps
    <3>2. /\ Below(ages, Minute - d) \in Nat /\ Below(late, Minute - d) \in Nat
      <4>1. Minute - d \in 0..Minute BY <1>1
      <4>2. ages \in [0..(Minute - 1) -> Nat] BY DEF RateKeeps, RateTypes
      <4>3. QED BY <1>2, <4>1, <4>2, WindowFacts
    <3>3. QED BY <1>1, <1>3, <2>2, <3>1, <3>2
  <2>3. QED BY <1>5, <1>8, <2>1, <2>2
<1>9. QED BY <1>4, <1>7, <1>8 DEF RateKeeps, One

(* One sleeper sends: it was awake, and with one place it was alone and     *)
(* has room.                                                               *)
LEMMA SentLateKeeps ==
    ASSUME RateKeeps, RateTypes', UNCHANGED <<profile, ages>>, late' = Model!Sent(late),
           asleep'[0] + One(Sleeps(0)') + 1 = asleep[0] + One(Sleeps(0)),
           Model!Total(asleep') + One(request'.at = "throttled") + 1
               = Model!Total(asleep) + One(request.at = "throttled"),
           Model!Inside' = Model!Inside
    PROVE  RateKeeps'
<1>1. /\ Minute \in Nat /\ Minute # 0 /\ 0 \in 0..(Minute - 1) /\ 0 \in 0..Minute
      /\ profile.max_concurrency \in Nat /\ profile.requests_per_minute \in Nat
      /\ Model!Total(ages) \in Nat /\ Model!Total(late) \in Nat /\ Model!Total(asleep) \in Nat
      /\ Model!Inside \in Nat /\ sending \in Nat
  BY RateNumbers
<1>2. /\ ages \in [0..(Minute - 1) -> Nat] /\ late \in [0..(Minute - 1) -> Nat]
      /\ asleep \in [0..Minute -> Nat] /\ asleep' \in [0..Minute -> Nat]
  BY DEF RateKeeps, RateTypes
<1>3. /\ late'[0] = late[0] + 1 /\ Model!Total(late') = Model!Total(late) + 1
      /\ \A a \in 0..(Minute - 1) : a # 0 => late'[a] = late[a]
  BY <1>2, WindowFacts
<1>4. /\ late[0] \in Nat /\ asleep[0] \in Nat /\ asleep'[0] \in Nat
      /\ One(Sleeps(0)') \in Nat /\ One(Sleeps(0)) \in Nat
  BY <1>1, <1>2 DEF One
<1>5. late[0] + asleep[0] + One(Sleeps(0)) <= profile.max_concurrency BY DEF RateKeeps
<1>6. late'[0] + asleep'[0] + One(Sleeps(0)') <= profile.max_concurrency
  <2> DEFINE x == One(Sleeps(0)')
             y == One(Sleeps(0))
  <2>1. asleep'[0] + x + 1 = asleep[0] + y OBVIOUS
  <2>2. late[0] + asleep[0] + y <= profile.max_concurrency BY <1>5
  <2>3. x \in Nat /\ y \in Nat BY <1>4
  <2> HIDE DEF x, y
  <2>4. (late[0] + 1) + asleep'[0] + x = late[0] + asleep[0] + y BY <1>4, <2>1, <2>3
  <2>5. late'[0] + asleep'[0] + x <= profile.max_concurrency BY <1>3, <2>2, <2>4
  <2>6. QED BY <2>5 DEF x
<1>7. late'[0] <= profile.max_concurrency
  <2> DEFINE x == One(Sleeps(0)')
  <2>1. x \in Nat /\ late'[0] + asleep'[0] + x <= profile.max_concurrency BY <1>4, <1>6
  <2> HIDE DEF x
  <2>2. late'[0] \in Nat BY <1>3, <1>4
  <2>3. QED BY <1>1, <1>4, <2>1, <2>2
<1>8. \A a \in 0..(Minute - 1) : late'[a] <= profile.max_concurrency
  BY <1>3, <1>7 DEF RateKeeps
<1>9. ASSUME profile.max_concurrency = 1
      PROVE  /\ Model!Total(ages) + Model!Total(late') <= profile.requests_per_minute
             /\ \A d \in 0..Minute : ~ (asleep'[d] > 0 \/ Sleeps(d)')
  <2>1. asleep[0] > 0 \/ Sleeps(0)
    BY <1>4 DEF One
  <2>2. Below(ages, Minute - 0) + Below(late, Minute - 0) < profile.requests_per_minute
    BY <1>1, <1>9, <2>1 DEF RateKeeps
  <2>3. Minute - 0 = Minute BY <1>1
  <2>4. Model!Total(ages) + Model!Total(late) < profile.requests_per_minute
    BY <1>2, <2>2, <2>3, WindowFacts
  <2>5. Model!Total(ages) + Model!Total(late') <= profile.requests_per_minute
    BY <1>1, <1>3, <2>4
  <2>6. Model!Total(asleep) + One(request.at = "throttled") <= 1
    <3>1. Model!Inside <= 1 BY <1>9 DEF RateKeeps
    <3>2. CASE request.at = "throttled"
      <4>1. Model!Inside = Model!Total(asleep) + sending + 1 BY <3>2 DEF Model!Inside
      <4>2. QED BY <1>1, <3>1, <3>2, <4>1 DEF One
    <3>3. CASE request.at # "throttled"
      <4>1. Model!Total(asleep) <= Model!Inside BY <1>1 DEF Model!Inside
      <4>2. QED BY <1>1, <3>1, <3>3, <4>1 DEF One
    <3>4. QED BY <3>2, <3>3
  <2>7. Model!Total(asleep') = 0 /\ request'.at # "throttled"
    <3>1. Model!Total(asleep') \in Nat BY <1>2, SleeperFacts
    <3> DEFINE x == One(request'.at = "throttled")
               y == One(request.at = "throttled")
    <3>2. x \in {0, 1} /\ y \in {0, 1} BY DEF One
    <3>3. Model!Total(asleep') + x + 1 = Model!Total(asleep) + y OBVIOUS
    <3>4. Model!Total(asleep) + y <= 1 BY <2>6
    <3>6. request'.at = "throttled" => x = 1 BY DEF One
    <3> HIDE DEF x, y
    <3>7. Model!Total(asleep') = 0 /\ x = 0 BY <1>1, <3>1, <3>2, <3>3, <3>4
    <3>8. QED BY <3>6, <3>7
  <2>8. ASSUME NEW d \in 0..Minute PROVE ~ (asleep'[d] > 0 \/ Sleeps(d)')
    <3>1. asleep'[d] <= 0 /\ asleep'[d] \in Nat BY <1>2, <2>7, SleeperFacts
    <3>2. QED BY <2>7, <3>1 DEF Sleeps
  <2>9. QED BY <2>5, <2>8
<1>10. QED BY <1>6, <1>8, <1>9 DEF RateKeeps, One

(* One more sleeps until i.                                                 *)
LEMMA SleeperMore ==
    \A f, g \in [0..Minute -> Nat], i \in 0..Minute :
        g[i] = f[i] + 1 /\ (\A j \in 0..Minute : j # i => g[j] = f[j])
            => Model!Total(g) = Model!Total(f) + 1
<1> SUFFICES ASSUME NEW f \in [0..Minute -> Nat], NEW g \in [0..Minute -> Nat],
                    NEW i \in 0..Minute,
                    g[i] = f[i] + 1, \A j \in 0..Minute : j # i => g[j] = f[j]
             PROVE  Model!Total(g) = Model!Total(f) + 1
  OBVIOUS
<1>1. Minute \in Nat BY ProfilesAssumption
<1>2. QED BY <1>1, OneMore

(* The other calls.                                                        *)
LEMMA OthersKeep ==
    ASSUME RateKeeps, Model!OtherEnters \/ Model!OtherSends \/ Model!OtherAnswered
    PROVE  RateKeeps'
<1>1. /\ Minute \in Nat /\ Minute # 0 /\ 0 \in 0..(Minute - 1) /\ 0 \in 0..Minute
      /\ Model!Total(ages) \in Nat /\ Model!Total(late) \in Nat /\ Model!Total(asleep) \in Nat
      /\ Model!Inside \in Nat /\ sending \in Nat
  BY RateNumbers
<1>2. /\ ages \in [0..(Minute - 1) -> Nat] /\ late \in [0..(Minute - 1) -> Nat]
      /\ asleep \in [0..Minute -> Nat]
  BY DEF RateKeeps, RateTypes
<1> DEFINE self == IF request.at \in {"throttled", "sending"} THEN 1 ELSE 0
<1>3. Model!Inside = Model!Total(asleep) + sending + self BY DEF Model!Inside
<1>4. request' = request => Model!Inside' = Model!Total(asleep') + sending' + self
  BY DEF Model!Inside
<1>5. self \in Nat OBVIOUS
<1> HIDE DEF self
<1>6. CASE Model!OtherEnters /\ Model!Full
  <2>1. /\ Model!Admitted /\ asleep' = [asleep EXCEPT ![Model!Delay] = @ + 1]
        /\ UNCHANGED <<profile, ages, late, sending, request>>
    BY <1>6 DEF Model!OtherEnters
  <2>2. Model!Delay \in 0..Minute BY <1>1, <1>6, DelayFrees
  <2>3. asleep' \in [0..Minute -> Nat] BY <1>2, <2>1, <2>2
  <2>4. RateTypes' BY <2>1, <2>3 DEF RateKeeps, RateTypes
  <2>5. Model!Total(asleep') = Model!Total(asleep) + 1
    <3>1. asleep'[Model!Delay] = asleep[Model!Delay] + 1 BY <1>2, <2>1, <2>2
    <3>2. \A j \in 0..Minute : j # Model!Delay => asleep'[j] = asleep[j] BY <1>2, <2>1
    <3>3. QED BY <1>2, <2>2, <2>3, <3>1, <3>2, SleeperMore
  <2>6. Model!Inside' = Model!Inside + 1
    <3>1. Model!Inside' = (Model!Total(asleep) + 1) + sending + self BY <1>4, <2>1, <2>5
    <3> HIDE <2>1
    <3>2. QED BY <1>1, <1>3, <1>5, <3>1
  <2>7. QED BY <1>6, <2>1, <2>4, <2>6, SleepingKeeps
<1>7. CASE Model!OtherEnters /\ ~ Model!Full
  <2>1. /\ Model!Admitted /\ ages' = Model!Sent(ages) /\ sending' = sending + 1
        /\ UNCHANGED <<profile, late, asleep, request>>
    BY <1>7 DEF Model!OtherEnters
  <2>2. ages' \in [0..(Minute - 1) -> Nat] /\ sending' \in Nat
    <3>1. ages' \in [0..(Minute - 1) -> Nat] BY <1>2, <2>1, WindowFacts
    <3>2. sending' \in Nat BY <1>1, <2>1
    <3>3. QED BY <3>1, <3>2
  <2>3. RateTypes' BY <2>1, <2>2 DEF RateKeeps, RateTypes
  <2>4. Model!Inside' = Model!Inside + 1
    <3>1. Model!Inside' = Model!Total(asleep) + (sending + 1) + self BY <1>4, <2>1
    <3>2. QED BY <1>1, <1>3, <1>5, <3>1
  <2>5. QED BY <1>7, <2>1, <2>3, <2>4, SentAtOnceKeeps
<1>8. CASE Model!OtherSends
  <2>1. /\ asleep[0] > 0 /\ asleep' = [asleep EXCEPT ![0] = @ - 1]
        /\ late' = Model!Sent(late) /\ sending' = sending + 1
        /\ UNCHANGED <<profile, ages, request>>
    BY <1>8 DEF Model!OtherSends
  <2>2. asleep[0] \in Nat /\ asleep[0] - 1 \in Nat BY <1>1, <1>2, <2>1
  <2>3. asleep' \in [0..Minute -> Nat] BY <1>2, <2>1, <2>2
  <2>4. late' \in [0..(Minute - 1) -> Nat] /\ sending' \in Nat
    <3>1. late' \in [0..(Minute - 1) -> Nat] BY <1>2, <2>1, WindowFacts
    <3>2. sending' \in Nat BY <1>1, <2>1
    <3>3. QED BY <3>1, <3>2
  <2>5. RateTypes' BY <2>1, <2>3, <2>4 DEF RateKeeps, RateTypes
  <2>6. asleep'[0] = asleep[0] - 1 /\ \A j \in 0..Minute : j # 0 => asleep[j] = asleep'[j]
    BY <1>1, <1>2, <2>1
  <2>7. asleep[0] = asleep'[0] + 1 BY <2>2, <2>6
  <2>8. Model!Total(asleep) = Model!Total(asleep') + 1
    <3> DEFINE g == asleep
    <3>1. g \in [0..Minute -> Nat] /\ g[0] = asleep'[0] + 1
          /\ \A j \in 0..Minute : j # 0 => g[j] = asleep'[j]
      BY <1>2, <2>6, <2>7
    <3> HIDE DEF g
    <3>2. Model!Total(g) = Model!Total(asleep') + 1 BY <1>1, <2>3, <3>1, SleeperMore
    <3>3. QED BY <3>2 DEF g
  <2>9. Model!Total(asleep') \in Nat BY <2>3, SleeperFacts
  <2>10. Model!Inside' = Model!Inside
    <3>1. Model!Inside' = Model!Total(asleep') + (sending + 1) + self BY <1>4, <2>1
    <3>2. Model!Inside = (Model!Total(asleep') + 1) + sending + self BY <1>3, <2>8
    <3>3. QED BY <1>1, <1>5, <2>9, <3>1, <3>2
  <2>11. Sleeps(0)' = Sleeps(0) /\ request'.at = request.at BY <2>1 DEF Sleeps
  <2>12. asleep'[0] + One(Sleeps(0)') + 1 = asleep[0] + One(Sleeps(0))
    <3>1. One(Sleeps(0)) \in Nat /\ One(Sleeps(0)') = One(Sleeps(0)) BY <2>11 DEF One
    <3>2. QED BY <2>2, <2>6, <3>1
  <2>13. Model!Total(asleep') + One(request'.at = "throttled") + 1
             = Model!Total(asleep) + One(request.at = "throttled")
    <3>1. /\ One(request.at = "throttled") \in Nat
          /\ One(request'.at = "throttled") = One(request.at = "throttled")
      BY <2>11 DEF One
    <3>2. QED BY <2>8, <2>9, <3>1
  <2>14. QED BY <2>1, <2>5, <2>10, <2>12, <2>13, SentLateKeeps
<1>9. CASE Model!OtherAnswered
  <2>1. /\ sending > 0 /\ sending' = sending - 1
        /\ UNCHANGED <<profile, ages, late, asleep, request>>
    BY <1>9 DEF Model!OtherAnswered
  <2>2. sending' \in 0..sending /\ sending' \in Nat BY <1>1, <2>1
  <2>3. RateTypes' BY <2>1, <2>2 DEF RateKeeps, RateTypes
  <2>4. QED BY <2>1, <2>2, <2>3, OutsideKeeps
<1>10. QED BY <1>6, <1>7, <1>8, <1>9

(* The call itself.                                                        *)
LEMMA CallKeeps ==
    ASSUME RateKeeps, Model!Enters \/ Model!Sends
    PROVE  RateKeeps'
<1>1. /\ Minute \in Nat /\ Minute # 0 /\ 0 \in 0..(Minute - 1) /\ 0 \in 0..Minute
      /\ Model!Total(ages) \in Nat /\ Model!Total(late) \in Nat /\ Model!Total(asleep) \in Nat
      /\ Model!Inside \in Nat /\ sending \in Nat
  BY RateNumbers
<1>2. /\ ages \in [0..(Minute - 1) -> Nat] /\ late \in [0..(Minute - 1) -> Nat]
      /\ asleep \in [0..Minute -> Nat]
      /\ request \in [at : Model!Places, left : Nat, tries : Nat, heeded : {0, 2},
                      answer : Model!Errors \cup {"none", "ok"}]
  BY DEF RateKeeps, RateTypes
<1>3. request.at \notin {"throttled", "sending"} => Model!Inside = Model!Total(asleep) + sending + 0
  BY DEF Model!Inside
<1>4. request'.at \in {"throttled", "sending"} => Model!Inside' = Model!Total(asleep') + sending' + 1
  BY DEF Model!Inside
<1>5. CASE Model!Enters /\ Model!Full
  <2>1. /\ Model!Admitted /\ request.at = "entering"
        /\ request' = [request EXCEPT !.at = "throttled", !.left = Model!Delay]
        /\ UNCHANGED <<profile, ages, late, asleep, sending>>
    BY <1>5 DEF Model!Enters
  <2>2. Model!Delay \in 1..Minute BY <1>5, DelayFrees
  <2>3. /\ request' \in [at : Model!Places, left : Nat, tries : Nat, heeded : {0, 2},
                         answer : Model!Errors \cup {"none", "ok"}]
        /\ request'.at = "throttled" /\ request'.left = Model!Delay
    <3> DEFINE delay == Model!Delay
    <3>1. delay \in Nat BY <1>1, <2>2
    <3>2. request' = [request EXCEPT !.at = "throttled", !.left = delay] BY <2>1
    <3> HIDE DEF delay
    <3>3. "throttled" \in Model!Places BY DEF Model!Places
    <3>4. request' \in [at : Model!Places, left : Nat, tries : Nat, heeded : {0, 2},
                        answer : Model!Errors \cup {"none", "ok"}]
      BY <1>2, <3>1, <3>2, <3>3
    <3>5. request'.at = "throttled" /\ request'.left = delay BY <1>2, <3>2
    <3>6. QED BY <3>4, <3>5 DEF delay
  <2>4. request'.left <= Minute BY <1>1, <2>2, <2>3
  <2>5. RateTypes' BY <2>1, <2>3, <2>4 DEF RateKeeps, RateTypes
  <2>6. Model!Inside' = Model!Inside + 1
    <3>1. Model!Inside' = Model!Total(asleep) + sending + 1 BY <1>4, <2>1, <2>3
    <3>2. Model!Inside = Model!Total(asleep) + sending + 0 BY <1>3, <2>1
    <3>3. QED BY <1>1, <3>1, <3>2
  <2>7. QED BY <1>5, <2>1, <2>3, <2>5, <2>6, SleepingKeeps
<1>6. CASE Model!Enters /\ ~ Model!Full
  <2>1. /\ Model!Admitted /\ request.at = "entering" /\ ages' = Model!Sent(ages)
        /\ request' = [request EXCEPT !.at = "sending"]
        /\ UNCHANGED <<profile, late, asleep, sending>>
    BY <1>6 DEF Model!Enters
  <2>2. /\ request' \in [at : Model!Places, left : Nat, tries : Nat, heeded : {0, 2},
                         answer : Model!Errors \cup {"none", "ok"}]
        /\ request'.at = "sending"
    BY <1>2, <2>1 DEF Model!Places
  <2>3. ages' \in [0..(Minute - 1) -> Nat] BY <1>2, <2>1, WindowFacts
  <2>4. RateTypes' BY <2>1, <2>2, <2>3 DEF RateKeeps, RateTypes
  <2>5. Model!Inside' = Model!Inside + 1
    <3>1. Model!Inside' = Model!Total(asleep) + sending + 1 BY <1>4, <2>1, <2>2
    <3>2. Model!Inside = Model!Total(asleep) + sending + 0 BY <1>3, <2>1
    <3>3. QED BY <1>1, <3>1, <3>2
  <2>6. QED BY <1>6, <2>1, <2>2, <2>4, <2>5, SentAtOnceKeeps
<1>7. CASE Model!Sends
  <2>1. /\ request.at = "throttled" /\ request.left = 0 /\ late' = Model!Sent(late)
        /\ request' = [request EXCEPT !.at = "sending"]
        /\ UNCHANGED <<profile, ages, asleep, sending>>
    BY <1>7 DEF Model!Sends
  <2>2. /\ request' \in [at : Model!Places, left : Nat, tries : Nat, heeded : {0, 2},
                         answer : Model!Errors \cup {"none", "ok"}]
        /\ request'.at = "sending"
    BY <1>2, <2>1 DEF Model!Places
  <2>3. late' \in [0..(Minute - 1) -> Nat] BY <1>2, <2>1, WindowFacts
  <2>4. RateTypes' BY <2>1, <2>2, <2>3 DEF RateKeeps, RateTypes
  <2>5. Model!Inside' = Model!Inside
    <3>1. Model!Inside' = Model!Total(asleep) + sending + 1 BY <1>4, <2>1, <2>2
    <3>2. Model!Inside = Model!Total(asleep) + sending + 1 BY <2>1 DEF Model!Inside
    <3>3. QED BY <3>1, <3>2
  <2>6. asleep'[0] + One(Sleeps(0)') + 1 = asleep[0] + One(Sleeps(0))
    <3>1. One(Sleeps(0)') = 0 /\ One(Sleeps(0)) = 1 BY <2>1, <2>2 DEF One, Sleeps
    <3>2. asleep'[0] = asleep[0] /\ asleep[0] \in Nat BY <1>1, <1>2, <2>1
    <3>3. QED BY <3>1, <3>2
  <2>7. Model!Total(asleep') + One(request'.at = "throttled") + 1
             = Model!Total(asleep) + One(request.at = "throttled")
    <3>1. One(request'.at = "throttled") = 0 /\ One(request.at = "throttled") = 1
      BY <2>1, <2>2 DEF One
    <3>2. Model!Total(asleep') = Model!Total(asleep) BY <2>1
    <3>3. QED BY <1>1, <3>1, <3>2
  <2>8. QED BY <2>1, <2>4, <2>5, <2>6, <2>7, SentLateKeeps
<1>8. QED BY <1>5, <1>6, <1>7

(* The rest of the call, outside of the semaphore.                          *)
LEMMA AnswerKeeps ==
    ASSUME RateKeeps,
           \/ Model!Starts \/ Model!Retries
           \/ \E got \in {"ok"} \cup Model!Errors :
                 Model!Responds(got) \/ Model!FallsBack(got)
           \/ \E network \in BOOLEAN, after \in {0, 2} : Model!Fails(network, after)
    PROVE  RateKeeps'
<1>1. /\ request \in [at : Model!Places, left : Nat, tries : Nat, heeded : {0, 2},
                      answer : Model!Errors \cup {"none", "ok"}]
      /\ sending \in Nat /\ profile \in Model!ProfileRows
  BY DEF RateKeeps, RateTypes
<1>2. ASSUME UNCHANGED <<profile, ages, late, asleep, sending>>, request'.at # "throttled",
             request'.at # "sending",
             request' \in [at : Model!Places, left : Nat, tries : Nat, heeded : {0, 2},
                           answer : Model!Errors \cup {"none", "ok"}]
      PROVE  RateKeeps'
  <2>1. sending' \in 0..sending BY <1>1, <1>2
  <2>2. RateTypes' BY <1>2 DEF RateKeeps, RateTypes
  <2>3. QED BY <1>2, <2>1, <2>2, OutsideKeeps
<1>3. CASE Model!Starts BY <1>1, <1>2, <1>3 DEF Model!Starts, Model!Places
<1>4. CASE Model!Retries BY <1>1, <1>2, <1>4 DEF Model!Retries, Model!Places
<1>5. ASSUME NEW got \in {"ok"} \cup Model!Errors,
             Model!Responds(got) \/ Model!FallsBack(got)
      PROVE  RateKeeps'
  BY <1>1, <1>2, <1>5
  DEF Model!Responds, Model!FallsBack, Model!Settled, Model!Places, Model!Errors
<1>6. ASSUME NEW network \in BOOLEAN, NEW after \in {0, 2}, Model!Fails(network, after)
      PROVE  RateKeeps'
  <2>1. CASE request.tries >= profile.max_retries
    <3>1. request' = Model!Settled("transient") /\ UNCHANGED <<profile, ages, late, asleep, sending>>
      BY <1>6, <2>1 DEF Model!Fails
    <3>2. QED BY <1>1, <1>2, <3>1 DEF Model!Settled, Model!Places, Model!Errors
  <2>2. CASE ~ (request.tries >= profile.max_retries)
    <3> DEFINE heeded == IF network THEN request.heeded ELSE after
               left == IF heeded > 0 THEN heeded ELSE 1
    <3>1. /\ request' = [request EXCEPT !.at = "waiting", !.tries = @ + 1, !.heeded = heeded,
                                        !.left = left]
          /\ UNCHANGED <<profile, ages, late, asleep, sending>>
      BY <1>6, <2>2 DEF Model!Fails
    <3>2. heeded \in {0, 2} /\ left \in Nat BY <1>1
    <3> HIDE DEF heeded, left
    <3>3. request.tries + 1 \in Nat BY <1>1
    <3>4. /\ request' \in [at : Model!Places, left : Nat, tries : Nat, heeded : {0, 2},
                           answer : Model!Errors \cup {"none", "ok"}]
          /\ request'.at = "waiting"
      BY <1>1, <3>1, <3>2, <3>3 DEF Model!Places
    <3>5. QED BY <1>2, <3>1, <3>4
  <2>3. QED BY <2>1, <2>2
<1>7. QED BY <1>3, <1>4, <1>5, <1>6

(* A client keeps to its rate: with one place for a call, never more than   *)
(* the limit in a minute; with more, what was sent without a sleep is       *)
(* within the limit, and of those who slept no more are sent in an instant  *)
(* than there are places.                                                  *)
THEOREM ClientKeepsRate == Model!Spec => []Model!RateIsBounded
<1>1. Model!Init => RateKeeps BY RateBegins
<1>2. RateKeeps /\ [Model!Next]_Model!vars => RateKeeps'
  <2> SUFFICES ASSUME RateKeeps, [Model!Next]_Model!vars PROVE RateKeeps'
    OBVIOUS
  <2>1. CASE Model!Tick BY <2>1, TickKeeps
  <2>2. CASE Model!OtherEnters \/ Model!OtherSends \/ Model!OtherAnswered BY <2>2, OthersKeep
  <2>3. CASE Model!Enters \/ Model!Sends BY <2>3, CallKeeps
  <2>4. CASE \/ Model!Starts \/ Model!Retries
             \/ \E got \in {"ok"} \cup Model!Errors :
                   Model!Responds(got) \/ Model!FallsBack(got)
             \/ \E network \in BOOLEAN, after \in {0, 2} : Model!Fails(network, after)
    BY <2>4, AnswerKeeps
  <2>5. CASE UNCHANGED Model!vars
    BY <2>5 DEF Model!vars, RateKeeps, RateTypes, Model!Inside, One, Sleeps
  <2>6. QED BY <2>1, <2>2, <2>3, <2>4, <2>5 DEF Model!Next
<1>3. RateKeeps => Model!RateIsBounded
  BY DEF RateKeeps, RateTypes, Model!RateIsBounded
<1>4. QED BY <1>1, <1>2, <1>3, PTL DEF Model!Spec

-----------------------------------------------------------------------------
(* A sequence of sequences is flattened one by one.                         *)
Joined(s, n) == CHOOSE joined : joined = [i \in 1..n |-> IF i = 1 THEN s[i] ELSE joined[i - 1] \o s[i]]

LEMMA FlattenIsJoined ==
    ASSUME NEW s
    PROVE  Talk!FlattenSeq(s) = IF Len(s) = 0 THEN s ELSE Joined(s, Len(s))[Len(s)]
BY DEF Talk!FlattenSeq, Joined

(* The parts can be joined, up to each of them.                             *)
LEMMA JoinedExists ==
    ASSUME NEW s \in Seq(Seq(Nat)), NEW N \in 0..Len(s)
    PROVE  /\ Joined(s, N) = [i \in 1..N |-> IF i = 1 THEN s[i] ELSE Joined(s, N)[i - 1] \o s[i]]
           /\ \A i \in 1..N : Joined(s, N)[i] \in Seq(Nat)
<1> DEFINE Link(f, i) == IF i = 1 THEN s[i] ELSE f[i - 1] \o s[i]
           Is(f, n) == f = [i \in 1..n |-> Link(f, i)] /\ \A i \in 1..n : f[i] \in Seq(Nat)
           Good == {n \in 0..N : \E f : Is(f, n)}
<1>0. Len(s) \in Nat /\ N \in Nat /\ N <= Len(s) /\ N \in 0..N
      /\ \A i \in 1..Len(s) : s[i] \in Seq(Nat)
  BY LenProperties, ElementOfSeq
<1>1. 0 \in Good
  <2> DEFINE f == <<>>
  <2>1. f = [i \in 1..0 |-> Link(f, i)] OBVIOUS
  <2>2. \A i \in 1..0 : f[i] \in Seq(Nat) OBVIOUS
  <2> HIDE DEF f, Link
  <2>3. Is(f, 0) BY <2>1, <2>2
  <2> HIDE DEF Is
  <2>4. 0 \in 0..N BY <1>0
  <2>5. QED BY <2>3, <2>4
<1>2. ASSUME NEW n \in 0..N, n \in Good, n < N PROVE n + 1 \in Good
  <2>0. n \in Nat /\ n + 1 \in 0..N /\ n + 1 \in 1..Len(s) BY <1>0, <1>2
  <2>1. PICK f : Is(f, n) BY <1>2
  <2> DEFINE h == [i \in 1..(n + 1) |-> Link(f, i)]
  <2>2. ASSUME NEW i \in 1..n PROVE h[i] = f[i] /\ f[i] \in Seq(Nat)
    <3>1. i \in 1..(n + 1) BY <2>0
    <3>2. h[i] = Link(f, i) BY <3>1
    <3> HIDE DEF h, Link
    <3>3. QED BY <2>1, <3>2
  <2>3. ASSUME NEW i \in 1..(n + 1) PROVE h[i] = Link(h, i) /\ h[i] \in Seq(Nat)
    <3>1. h[i] = Link(f, i) OBVIOUS
    <3>2. s[i] \in Seq(Nat) /\ i \in Nat /\ i # 0 BY <1>0, <2>0
    <3> HIDE DEF h
    <3>3. CASE i = 1 BY <3>1, <3>2, <3>3
    <3>4. CASE i # 1
      <4>1. i - 1 \in 1..n BY <2>0, <3>2, <3>4
      <4>2. h[i - 1] = f[i - 1] /\ f[i - 1] \in Seq(Nat) BY <2>2, <4>1
      <4>3. Link(f, i) = f[i - 1] \o s[i] /\ Link(h, i) = h[i - 1] \o s[i] BY <3>4
      <4>4. f[i - 1] \o s[i] \in Seq(Nat) BY <3>2, <4>2, ConcatProperties
      <4>5. QED BY <3>1, <4>2, <4>3, <4>4
    <3>5. QED BY <3>3, <3>4
  <2>4. h = [i \in 1..(n + 1) |-> h[i]] OBVIOUS
  <2> HIDE DEF h, Link
  <2>5. h = [i \in 1..(n + 1) |-> Link(h, i)] BY <2>3, <2>4
  <2>6. QED BY <2>0, <2>3, <2>5
<1>3. N \in Good
  <2> HIDE DEF Good
  <2>1. QED BY <1>0, <1>1, <1>2, Upward
<1>4. PICK f : Is(f, N) BY <1>3
<1> DEFINE G == Joined(s, N)
<1>5. G = [i \in 1..N |-> Link(G, i)]
  <2>1. \E joined : joined = [i \in 1..N |-> IF i = 1 THEN s[i] ELSE joined[i - 1] \o s[i]]
    BY <1>4
  <2>2. QED BY <2>1 DEF Joined
<1> HIDE DEF G
<1> DEFINE Sound == {n \in 0..N : n = 0 \/ G[n] \in Seq(Nat)}
<1>6. 0 \in Sound BY <1>0
<1>7. ASSUME NEW n \in 0..N, n \in Sound, n < N PROVE n + 1 \in Sound
  <2>0. n \in Nat /\ n + 1 \in 0..N /\ n + 1 \in 1..Len(s) /\ n + 1 \in 1..N /\ (n + 1) - 1 = n
    BY <1>0, <1>7
  <2>1. s[n + 1] \in Seq(Nat) BY <1>0, <2>0
  <2>2. G[n + 1] = Link(G, n + 1)
    <3> HIDE DEF Link
    <3>1. QED BY <1>5, <2>0
  <2>3. CASE n = 0
    <3>1. n + 1 = 1 BY <2>3
    <3>2. G[n + 1] = s[n + 1] BY <2>2, <3>1
    <3>3. QED BY <2>0, <2>1, <3>2
  <2>4. CASE n # 0
    <3>0. n + 1 # 1 BY <2>0, <2>4
    <3>1. G[n + 1] = G[n] \o s[n + 1]
      <4>1. G[n + 1] = G[(n + 1) - 1] \o s[n + 1] BY <2>2, <3>0, Zenon
      <4>2. QED BY <2>0, <4>1, Zenon
    <3>2. G[n] \in Seq(Nat) BY <1>7, <2>4
    <3>3. G[n] \o s[n + 1] \in Seq(Nat) BY <2>1, <3>2, ConcatProperties
    <3>4. QED BY <2>0, <3>1, <3>3
  <2>5. QED BY <2>3, <2>4
<1>8. \A n \in 0..N : n \in Sound
  <2> HIDE DEF Sound
  <2>1. QED BY <1>0, <1>6, <1>7, Upward
<1>9. \A n \in 1..N : G[n] \in Seq(Nat)
  <2> TAKE n \in 1..N
  <2>1. n \in 0..N /\ n # 0 BY <1>0
  <2>2. QED BY <1>8, <2>1
<1>10. QED BY <1>5, <1>9 DEF G

(* What was joined first does not depend on what follows.                   *)
LEMMA JoinedAgree ==
    ASSUME NEW s \in Seq(Seq(Nat)), NEW t \in Seq(Seq(Nat)), NEW N \in 0..Len(s),
           NEW M \in N..Len(t), \A i \in 1..N : s[i] = t[i]
    PROVE  \A i \in 1..N : Joined(s, N)[i] = Joined(t, M)[i]
<1> DEFINE A == Joined(s, N)
           B == Joined(t, M)
           Same == {n \in 0..N : n = 0 \/ A[n] = B[n]}
<1>0. Len(s) \in Nat /\ Len(t) \in Nat /\ N \in Nat /\ M \in Nat /\ N <= M /\ M \in 0..Len(t)
  BY LenProperties
<1>1. A = [i \in 1..N |-> IF i = 1 THEN s[i] ELSE A[i - 1] \o s[i]] BY JoinedExists
<1>2. B = [i \in 1..M |-> IF i = 1 THEN t[i] ELSE B[i - 1] \o t[i]] BY <1>0, JoinedExists
<1> HIDE DEF A, B
<1>3. 0 \in Same BY <1>0
<1>4. ASSUME NEW n \in 0..N, n \in Same, n < N PROVE n + 1 \in Same
  <2>1. n \in Nat /\ n + 1 \in 1..N /\ n + 1 \in 1..M /\ (n + 1) - 1 = n /\ n + 1 \in 0..N
    BY <1>0, <1>4
  <2>2. A[n + 1] = IF n + 1 = 1 THEN s[n + 1] ELSE A[n] \o s[n + 1] BY <1>1, <2>1
  <2>3. B[n + 1] = IF n + 1 = 1 THEN t[n + 1] ELSE B[n] \o t[n + 1] BY <1>2, <2>1
  <2>4. s[n + 1] = t[n + 1] BY <2>1
  <2>5. n = 0 => n + 1 = 1 OBVIOUS
  <2>6. A[n + 1] = B[n + 1] BY <1>4, <2>2, <2>3, <2>4, <2>5
  <2>7. QED BY <2>1, <2>6
<1>5. \A n \in 0..N : n \in Same
  <2> HIDE DEF Same
  <2>1. QED BY <1>0, <1>3, <1>4, Upward
<1>6. \A n \in 1..N : A[n] = B[n]
  <2> TAKE n \in 1..N
  <2>1. n \in 0..N /\ n # 0 BY <1>0
  <2>2. QED BY <1>5, <2>1
<1>7. QED BY <1>6 DEF A, B

(* The messages of a conversation, and what they hold.                      *)
Roles == {"system", "request", "user", "assistant", "tool", "summary"}
Rows == [role : Roles, n : Nat, holds : Seq(Nat)]
Holdings(c) == [i \in 1..Len(c) |-> c[i].holds]

(* What the messages of a conversation hold, message by message.            *)
LEMMA HoldingsType ==
    ASSUME NEW c \in Seq(Rows)
    PROVE  /\ Holdings(c) \in Seq(Seq(Nat)) /\ Len(Holdings(c)) = Len(c) /\ Len(c) \in Nat
           /\ \A i \in 1..Len(c) : Holdings(c)[i] = c[i].holds /\ c[i] \in Rows
<1>1. Len(c) \in Nat /\ \A i \in 1..Len(c) : c[i] \in Rows BY LenProperties, ElementOfSeq
<1>2. \A i \in 1..Len(c) : c[i].holds \in Seq(Nat) BY <1>1 DEF Rows
<1>3. Holdings(c) \in Seq(Seq(Nat)) /\ Len(Holdings(c)) = Len(c)
  <2> DEFINE h == [i \in 1..Len(c) |-> c[i].holds]
             m == Len(c)
  <2>1. h \in [1..m -> Seq(Nat)] BY <1>2
  <2>2. Holdings(c) = h BY DEF Holdings
  <2>3. m \in Nat BY <1>1
  <2> HIDE DEF h, m
  <2>4. h \in Seq(Seq(Nat)) BY <2>1, <2>3
  <2>5. Len(h) = m BY <2>1, <2>3, <2>4, LenProperties
  <2>6. QED BY <2>2, <2>4, <2>5 DEF m
<1>4. QED BY <1>1, <1>3 DEF Holdings

(* What a conversation holds is that, joined.                               *)
LEMMA HeldIsJoined ==
    ASSUME NEW c \in Seq(Rows)
    PROVE  /\ Len(c) = 0 => Talk!Held(c) = <<>>
           /\ Len(c) # 0 => Talk!Held(c) = Joined(Holdings(c), Len(c))[Len(c)]
           /\ Talk!Held(c) \in Seq(Nat)
<1>1. /\ Holdings(c) \in Seq(Seq(Nat)) /\ Len(Holdings(c)) = Len(c) /\ Len(c) \in Nat
  BY HoldingsType
<1>2. Talk!Held(c) = IF Len(c) = 0 THEN Holdings(c) ELSE Joined(Holdings(c), Len(c))[Len(c)]
  <2>1. Talk!Held(c) = Talk!FlattenSeq(Holdings(c)) BY DEF Talk!Held, Holdings
  <2>2. QED BY <1>1, <2>1, FlattenIsJoined
<1>3. Len(c) = 0 => Holdings(c) = <<>> BY <1>1, EmptySeq
<1>4. Len(c) # 0 => Joined(Holdings(c), Len(c))[Len(c)] \in Seq(Nat)
  <2> DEFINE m == Len(c)
  <2>1. m \in 0..Len(Holdings(c)) /\ (m # 0 => m \in 1..m) BY <1>1
  <2> HIDE DEF m
  <2>2. \A i \in 1..m : Joined(Holdings(c), m)[i] \in Seq(Nat) BY <1>1, <2>1, JoinedExists
  <2>3. QED BY <2>1, <2>2 DEF m
<1>5. <<>> \in Seq(Nat) OBVIOUS
<1>6. QED BY <1>2, <1>3, <1>4, <1>5

(* One message more.                                                        *)
LEMMA HeldAppend ==
    ASSUME NEW c \in Seq(Rows), NEW m \in Rows
    PROVE  Talk!Held(Append(c, m)) = Talk!Held(c) \o m.holds
<1> DEFINE d == Append(c, m)
           n == Len(c)
<1>1. /\ d \in Seq(Rows) /\ Len(d) = n + 1 /\ d[n + 1] = m /\ n \in Nat
      /\ \A i \in 1..n : d[i] = c[i]
  BY AppendProperties, LenProperties
<1> HIDE DEF d
<1>2. /\ Holdings(d) \in Seq(Seq(Nat)) /\ Len(Holdings(d)) = n + 1
      /\ \A i \in 1..(n + 1) : Holdings(d)[i] = d[i].holds
  BY <1>1, HoldingsType
<1>3. /\ Holdings(c) \in Seq(Seq(Nat)) /\ Len(Holdings(c)) = n
      /\ \A i \in 1..n : Holdings(c)[i] = c[i].holds
  BY HoldingsType
<1>4. n + 1 # 0 /\ n + 1 \in 1..(n + 1) /\ n + 1 \in 0..(n + 1) BY <1>1
<1>5. Talk!Held(d) = Joined(Holdings(d), n + 1)[n + 1] BY <1>1, <1>4, HeldIsJoined
<1>6. Joined(Holdings(d), n + 1) =
        [i \in 1..(n + 1) |-> IF i = 1 THEN Holdings(d)[i]
                              ELSE Joined(Holdings(d), n + 1)[i - 1] \o Holdings(d)[i]]
  BY <1>2, <1>4, JoinedExists
<1>7. Holdings(d)[n + 1] = m.holds /\ m.holds \in Seq(Nat) BY <1>1, <1>2, <1>4 DEF Rows
<1>8. CASE n = 0
  <2>1. n + 1 = 1 BY <1>8
  <2>2. Talk!Held(d) = m.holds BY <1>4, <1>5, <1>6, <1>7, <2>1
  <2>3. Talk!Held(c) = <<>> BY <1>8, HeldIsJoined
  <2>4. <<>> \o m.holds = m.holds BY <1>7, ConcatEmptySeq
  <2>5. QED BY <2>2, <2>3, <2>4 DEF d
<1>9. CASE n # 0
  <2>1. n + 1 # 1 /\ (n + 1) - 1 = n /\ n \in 1..n /\ n \in 0..n /\ n + 1 \in n..(n + 1)
    BY <1>1, <1>9
  <2>2. Talk!Held(d) = Joined(Holdings(d), n + 1)[n] \o m.holds
    BY <1>4, <1>5, <1>6, <1>7, <2>1
  <2>3. \A i \in 1..n : Holdings(c)[i] = Holdings(d)[i]
    <3> TAKE i \in 1..n
    <3>1. i \in 1..(n + 1) BY <1>1
    <3>2. QED BY <1>1, <1>2, <1>3, <3>1
  <2>4. \A i \in 1..n : Joined(Holdings(c), n)[i] = Joined(Holdings(d), n + 1)[i]
    <3> DEFINE s == Holdings(c)
               t == Holdings(d)
               k == n + 1
    <3>1. s \in Seq(Seq(Nat)) /\ t \in Seq(Seq(Nat)) /\ n \in 0..Len(s) /\ k \in n..Len(t)
          /\ \A i \in 1..n : s[i] = t[i]
      BY <1>2, <1>3, <2>1, <2>3
    <3> HIDE DEF s, t, k, n
    <3>2. \A i \in 1..n : Joined(s, n)[i] = Joined(t, k)[i] BY <3>1, JoinedAgree
    <3>3. QED BY <3>2 DEF s, t, k
  <2>5. Talk!Held(c) = Joined(Holdings(c), n)[n] BY <1>9, HeldIsJoined
  <2>6. QED BY <2>1, <2>2, <2>4, <2>5 DEF d
<1>10. QED BY <1>8, <1>9

(* Joining is associative.                                                  *)
LEMMA NumbersAssociate ==
    \A x, y, z \in Seq(Nat) : (x \o y) \o z = x \o (y \o z)
<1> SUFFICES ASSUME NEW x \in Seq(Nat), NEW y \in Seq(Nat), NEW z \in Seq(Nat)
             PROVE  (x \o y) \o z = x \o (y \o z)
  OBVIOUS
<1> DEFINE N == Nat
<1>1. x \in Seq(N) /\ y \in Seq(N) /\ z \in Seq(N) OBVIOUS
<1> HIDE DEF N
<1>2. QED BY <1>1, ConcatAssociative

(* A conversation holds what its first part and its second part hold.       *)
LEMMA HeldConcat ==
    ASSUME NEW a \in Seq(Rows), NEW b \in Seq(Rows)
    PROVE  Talk!Held(a \o b) = Talk!Held(a) \o Talk!Held(b)
<1> DEFINE N == Len(b)
           First(n) == SubSeq(b, 1, n)
           Holds == {n \in 0..N : Talk!Held(a \o First(n)) = Talk!Held(a) \o Talk!Held(First(n))}
<1>0. N \in Nat /\ 0 \in 0..N /\ N \in 0..N BY LenProperties
<1>1. Talk!Held(a) \in Seq(Nat) BY HeldIsJoined
<1>2. 0 \in Holds
  <2>1. First(0) = <<>> BY <1>0, SubSeqEmpty
  <2>2. a \o <<>> = a BY ConcatEmptySeq
  <2>3. Talk!Held(<<>>) = <<>>
    <3>1. <<>> \in Seq(Rows) /\ Len(<<>>) = 0 OBVIOUS
    <3>2. QED BY <3>1, HeldIsJoined
  <2>4. Talk!Held(a) \o <<>> = Talk!Held(a) BY <1>1, ConcatEmptySeq
  <2> HIDE DEF First, N
  <2>5. QED BY <1>0, <2>1, <2>2, <2>3, <2>4
<1>3. ASSUME NEW n \in 0..N, n \in Holds, n < N PROVE n + 1 \in Holds
  <2>1. n + 1 \in 1..N /\ n + 1 \in 0..N /\ n \in Nat /\ (n + 1) - 1 = n BY <1>0, <1>3
  <2>2. First(n) \in Seq(Rows)
    <3>1. \A i \in 1..n : b[i] \in Rows BY <1>0, <2>1, ElementOfSeq
    <3>2. QED BY <2>1, <3>1, SubSeqProperties
  <2>3. b[n + 1] \in Rows /\ b[n + 1].holds \in Seq(Nat)
    <3>1. b[n + 1] \in Rows BY <2>1, ElementOfSeq
    <3>2. QED BY <3>1 DEF Rows
  <2>4. First(n + 1) = Append(First(n), b[n + 1])
    <3> DEFINE m == n + 1
    <3>1. 1 \in 1..Len(b) /\ m \in 1..Len(b) BY <1>0, <2>1
    <3> HIDE DEF m
    <3>2. SubSeq(b, 1, m) = SubSeq(b, 1, m - 1) \o <<b[m]>>
      BY <3>1, SubSeqRecursiveSecond
    <3>3. First(m) = First(n) \o <<b[m]>> BY <2>1, <3>2 DEF m
    <3>4. b[m] \in Rows BY <2>3 DEF m
    <3>5. First(n) \o <<b[m]>> = Append(First(n), b[m]) BY <2>2, <3>4, AppendIsConcat
    <3>6. QED BY <3>3, <3>5 DEF m
  <2> HIDE DEF First, N
  <2>5. a \o First(n + 1) = Append(a \o First(n), b[n + 1])
    <3> DEFINE x == First(n)
               y == b[n + 1]
    <3>1. x \in Seq(Rows) /\ y \in Rows /\ <<y>> \in Seq(Rows) BY <2>2, <2>3
    <3>2. First(n + 1) = Append(x, y) BY <2>4
    <3> HIDE DEF x, y
    <3>3. Append(x, y) = x \o <<y>> BY <3>1, AppendIsConcat
    <3>4. a \o (x \o <<y>>) = (a \o x) \o <<y>> BY <3>1, ConcatAssociative
    <3>5. a \o x \in Seq(Rows) BY <3>1, ConcatProperties
    <3>6. (a \o x) \o <<y>> = Append(a \o x, y) BY <3>1, <3>5, AppendIsConcat
    <3>7. QED BY <3>2, <3>3, <3>4, <3>6 DEF x, y
  <2>6. a \o First(n) \in Seq(Rows) BY <2>2, ConcatProperties
  <2>7. Talk!Held(a \o First(n + 1)) = Talk!Held(a \o First(n)) \o b[n + 1].holds
    BY <2>3, <2>5, <2>6, HeldAppend
  <2>8. Talk!Held(First(n + 1)) = Talk!Held(First(n)) \o b[n + 1].holds
    BY <2>2, <2>3, <2>4, HeldAppend
  <2>9. Talk!Held(First(n)) \in Seq(Nat) BY <2>2, HeldIsJoined
  <2>10. (Talk!Held(a) \o Talk!Held(First(n))) \o b[n + 1].holds
           = Talk!Held(a) \o (Talk!Held(First(n)) \o b[n + 1].holds)
    <3> DEFINE x == Talk!Held(a)
               y == Talk!Held(First(n))
               z == b[n + 1].holds
    <3>1. x \in Seq(Nat) /\ y \in Seq(Nat) /\ z \in Seq(Nat) BY <1>1, <2>3, <2>9
    <3> HIDE DEF x, y, z
    <3>2. (x \o y) \o z = x \o (y \o z) BY <3>1, NumbersAssociate, Zenon
    <3>3. QED BY <3>2 DEF x, y, z
  <2>11. Talk!Held(a \o First(n)) = Talk!Held(a) \o Talk!Held(First(n)) BY <1>3
  <2>12. QED BY <2>1, <2>7, <2>8, <2>10, <2>11
<1>4. N \in Holds
  <2> HIDE DEF Holds
  <2>1. QED BY <1>0, <1>2, <1>3, Upward
<1>5. First(N) = b BY SubSeqFull
<1>6. QED BY <1>4, <1>5

(* Messages that hold one thing said each, in their order.                  *)
LEMMA HeldInOrder ==
    ASSUME NEW c \in Seq(Rows), NEW k \in Nat, \A i \in 1..Len(c) : c[i].holds = <<k + i>>
    PROVE  Talk!Held(c) = [i \in 1..Len(c) |-> k + i]
<1> DEFINE N == Len(c)
           First(n) == SubSeq(c, 1, n)
           Told(n) == [i \in 1..n |-> k + i]
           Holds == {n \in 0..N : Talk!Held(First(n)) = Told(n)}
<1>0. N \in Nat /\ 0 \in 0..N /\ N \in 0..N BY LenProperties
<1>1. 0 \in Holds
  <2>1. First(0) = <<>> BY <1>0, SubSeqEmpty
  <2>2. Talk!Held(<<>>) = <<>>
    <3>1. <<>> \in Seq(Rows) /\ Len(<<>>) = 0 OBVIOUS
    <3>2. QED BY <3>1, HeldIsJoined
  <2>3. Told(0) = <<>> OBVIOUS
  <2> HIDE DEF First, N, Told
  <2>4. QED BY <1>0, <2>1, <2>2, <2>3
<1>2. ASSUME NEW n \in 0..N, n \in Holds, n < N PROVE n + 1 \in Holds
  <2>1. n + 1 \in 1..N /\ n + 1 \in 0..N /\ n \in Nat /\ (n + 1) - 1 = n BY <1>0, <1>2
  <2>2. First(n) \in Seq(Rows)
    <3>1. \A i \in 1..n : c[i] \in Rows BY <1>0, <2>1, ElementOfSeq
    <3>2. QED BY <2>1, <3>1, SubSeqProperties
  <2>3. c[n + 1] \in Rows /\ c[n + 1].holds = <<k + (n + 1)>> BY <2>1, ElementOfSeq
  <2>4. First(n + 1) = Append(First(n), c[n + 1])
    <3> DEFINE m == n + 1
    <3>1. 1 \in 1..Len(c) /\ m \in 1..Len(c) BY <1>0, <2>1
    <3> HIDE DEF m
    <3>2. SubSeq(c, 1, m) = SubSeq(c, 1, m - 1) \o <<c[m]>>
      BY <3>1, SubSeqRecursiveSecond
    <3>3. First(m) = First(n) \o <<c[m]>> BY <2>1, <3>2 DEF m
    <3>4. c[m] \in Rows BY <2>3 DEF m
    <3>5. First(n) \o <<c[m]>> = Append(First(n), c[m]) BY <2>2, <3>4, AppendIsConcat
    <3>6. QED BY <3>3, <3>5 DEF m
  <2> HIDE DEF First, N
  <2>5. Talk!Held(First(n + 1)) = Talk!Held(First(n)) \o <<k + (n + 1)>>
    BY <2>2, <2>3, <2>4, HeldAppend
  <2>6. Told(n) \o <<k + (n + 1)>> = Told(n + 1) BY <2>1
  <2>7. Talk!Held(First(n)) = Told(n) BY <1>2
  <2> HIDE DEF Told
  <2>8. QED BY <2>1, <2>5, <2>6, <2>7
<1>3. N \in Holds
  <2> HIDE DEF Holds
  <2>1. QED BY <1>0, <1>1, <1>2, Upward
<1>4. First(N) = c BY SubSeqFull
<1>5. QED BY <1>3, <1>4

(* The parts of a conversation.                                             *)
LEMMA TwoParts ==
    ASSUME NEW a \in Seq(Rows), NEW b \in Seq(Rows)
    PROVE  /\ a \o b \in Seq(Rows) /\ Len(a) \in Nat /\ Len(b) \in Nat
           /\ Len(a \o b) = Len(a) + Len(b)
           /\ \A i \in 1..Len(a) : (a \o b)[i] = a[i] /\ a[i] \in Rows
           /\ \A i \in 1..Len(b) : (a \o b)[Len(a) + i] = b[i] /\ b[i] \in Rows
           /\ \A i \in 1..(Len(a) + Len(b)) : i <= Len(a) \/ i - Len(a) \in 1..Len(b)
<1>1. /\ a \o b \in Seq(Rows) /\ Len(a) \in Nat /\ Len(b) \in Nat
      /\ Len(a \o b) = Len(a) + Len(b)
      /\ \A i \in 1..(Len(a) + Len(b)) :
            (a \o b)[i] = IF i <= Len(a) THEN a[i] ELSE b[i - Len(a)]
  BY ConcatProperties, LenProperties
<1>2. /\ \A i \in 1..Len(a) : a[i] \in Rows
      /\ \A i \in 1..Len(b) : b[i] \in Rows
  BY ElementOfSeq
<1> DEFINE m == Len(a)
           n == Len(b)
           c == a \o b
<1>3. /\ m \in Nat /\ n \in Nat
      /\ \A i \in 1..(m + n) : c[i] = IF i <= m THEN a[i] ELSE b[i - m]
  BY <1>1
<1> HIDE DEF m, n, c
<1>4. \A i \in 1..m : c[i] = a[i]
  <2> TAKE i \in 1..m
  <2>1. i \in 1..(m + n) /\ i <= m BY <1>3
  <2>2. QED BY <1>3, <2>1
<1>5. \A i \in 1..n : c[m + i] = b[i]
  <2> TAKE i \in 1..n
  <2>1. m + i \in 1..(m + n) /\ ~ (m + i <= m) /\ (m + i) - m = i BY <1>3
  <2>2. c[m + i] = b[(m + i) - m] BY <1>3, <2>1
  <2>3. QED BY <2>1, <2>2
<1>6. \A i \in 1..(m + n) : i <= m \/ i - m \in 1..n BY <1>3
<1>7. QED BY <1>1, <1>2, <1>4, <1>5, <1>6 DEF m, n, c

(* A conversation is cut in two at any place.                               *)
LEMMA SplitParts ==
    ASSUME NEW c \in Seq(Rows), NEW k \in 0..Len(c)
    PROVE  /\ Len(c) \in Nat
           /\ SubSeq(c, 1, k) \in Seq(Rows) /\ Len(SubSeq(c, 1, k)) = k
           /\ \A i \in 1..k : SubSeq(c, 1, k)[i] = c[i] /\ c[i] \in Rows
           /\ SubSeq(c, k + 1, Len(c)) \in Seq(Rows)
           /\ Len(SubSeq(c, k + 1, Len(c))) = Len(c) - k
           /\ \A i \in 1..(Len(c) - k) : SubSeq(c, k + 1, Len(c))[i] = c[k + i] /\ c[k + i] \in Rows
           /\ SubSeq(c, 1, k) \o SubSeq(c, k + 1, Len(c)) = c
<1> DEFINE L == Len(c)
<1>1. L \in Nat /\ \A i \in 1..L : c[i] \in Rows BY LenProperties, ElementOfSeq
<1>2. k \in 0..L OBVIOUS
<1>3. SubSeq(c, 1, L) = c BY SubSeqFull
<1>4. 1 \in 1..(Len(c) + 1) /\ k \in (1 - 1)..Len(c) /\ Len(c) \in k..Len(c) BY <1>1, <1>2
<1>5. SubSeq(c, 1, k) \o SubSeq(c, k + 1, Len(c)) = SubSeq(c, 1, Len(c))
  BY <1>4, ConcatAdjacentSubSeq
<1> HIDE DEF L
<1>6. /\ SubSeq(c, 1, k) \in Seq(Rows) /\ Len(SubSeq(c, 1, k)) = k
      /\ \A i \in 1..k : SubSeq(c, 1, k)[i] = c[i]
  <2>1. \A i \in 1..k : c[i] \in Rows BY <1>1, <1>2
  <2>2. k \in Int /\ 1 \in Int /\ (1 <= k => k - 1 + 1 = k) /\ (~ (1 <= k) => k = 0) /\ k - 1 + 1 = k
        /\ \A i \in 1..k : 1 + i - 1 = i
    BY <1>1, <1>2
  <2>3. /\ SubSeq(c, 1, k) \in Seq(Rows)
        /\ Len(SubSeq(c, 1, k)) = IF 1 <= k THEN k - 1 + 1 ELSE 0
        /\ \A i \in 1..(k - 1 + 1) : SubSeq(c, 1, k)[i] = c[1 + i - 1]
    BY <2>1, <2>2, SubSeqProperties
  <2>4. QED BY <2>2, <2>3
<1>7. /\ SubSeq(c, k + 1, L) \in Seq(Rows) /\ Len(SubSeq(c, k + 1, L)) = L - k
      /\ \A i \in 1..(L - k) : SubSeq(c, k + 1, L)[i] = c[k + i]
  <2>1. \A i \in (k + 1)..L : c[i] \in Rows BY <1>1, <1>2
  <2>2. k + 1 \in Int /\ L \in Int /\ L - (k + 1) + 1 = L - k /\ (~ (k + 1 <= L) => L - k = 0)
        /\ \A i \in 1..(L - k) : (k + 1) + i - 1 = k + i
    BY <1>1, <1>2
  <2>3. /\ SubSeq(c, k + 1, L) \in Seq(Rows)
        /\ Len(SubSeq(c, k + 1, L)) = IF k + 1 <= L THEN L - (k + 1) + 1 ELSE 0
        /\ \A i \in 1..(L - (k + 1) + 1) : SubSeq(c, k + 1, L)[i] = c[(k + 1) + i - 1]
    <3> DEFINE m == k + 1
    <3>1. m \in Int /\ L \in Int /\ \A i \in m..L : c[i] \in Rows BY <2>1, <2>2
    <3> HIDE DEF m
    <3>2. /\ SubSeq(c, m, L) \in Seq(Rows)
          /\ Len(SubSeq(c, m, L)) = IF m <= L THEN L - m + 1 ELSE 0
          /\ \A i \in 1..(L - m + 1) : SubSeq(c, m, L)[i] = c[m + i - 1]
      BY <3>1, SubSeqProperties
    <3>3. QED BY <3>2 DEF m
  <2>4. QED BY <2>2, <2>3
<1>8. \A i \in 1..(L - k) : k + i \in 1..L BY <1>1, <1>2
<1>9. \A i \in 1..k : i \in 1..L BY <1>1, <1>2
<1>10. QED BY <1>1, <1>3, <1>5, <1>6, <1>7, <1>8, <1>9 DEF L

-----------------------------------------------------------------------------
(* The turns of a conversation are whole: a tool result has an assistant    *)
(* that called for it, an assistant all its results.                       *)
Asked(c, i) ==
    /\ i - c[i].n > 0
    /\ c[i - c[i].n].role = "assistant"
    /\ c[i].n <= c[i - c[i].n].n
Answered(c, i) ==
    \A j \in 1..c[i].n : i + j <= Len(c) /\ c[i + j].role = "tool" /\ c[i + j].n = j
Whole(c) ==
    \A i \in 1..Len(c) :
        /\ c[i].role = "tool" => Asked(c, i)
        /\ c[i].role = "assistant" => Answered(c, i)

(* Without assistants and results it is.                                    *)
LEMMA WholeWithout ==
    ASSUME NEW c \in Seq(Rows), \A i \in 1..Len(c) : c[i].role \notin {"tool", "assistant"}
    PROVE  Whole(c)
BY DEF Whole

(* One after the other they are.                                           *)
LEMMA WholeTogether ==
    ASSUME NEW a \in Seq(Rows), NEW b \in Seq(Rows), Whole(a), Whole(b)
    PROVE  Whole(a \o b)
<1> DEFINE c == a \o b
           m == Len(a)
           n == Len(b)
<1>1. /\ m \in Nat /\ n \in Nat /\ Len(c) = m + n
      /\ \A i \in 1..m : c[i] = a[i] /\ a[i] \in Rows
      /\ \A i \in 1..n : c[m + i] = b[i] /\ b[i] \in Rows
      /\ \A i \in 1..(m + n) : i <= m \/ i - m \in 1..n
  BY TwoParts
<1> HIDE DEF c
<1>2. /\ \A i \in 1..m : a[i].n \in Nat
      /\ \A i \in 1..n : b[i].n \in Nat
  BY <1>1 DEF Rows
<1>3. ASSUME NEW i \in 1..m, c[i].role = "tool" PROVE Asked(c, i)
  <2>1. Asked(a, i) BY <1>1, <1>3 DEF Whole
  <2>2. i - a[i].n \in 1..m
    <3>1. i - a[i].n > 0 /\ a[i].n \in Nat BY <1>2, <2>1 DEF Asked
    <3>2. QED BY <1>1, <3>1
  <2>3. c[i] = a[i] /\ c[i - a[i].n] = a[i - a[i].n] BY <1>1, <2>2
  <2>4. QED BY <2>1, <2>3 DEF Asked
<1>4. ASSUME NEW i \in 1..m, c[i].role = "assistant" PROVE Answered(c, i)
  <2>1. Answered(a, i) BY <1>1, <1>4 DEF Whole
  <2>2. c[i] = a[i] /\ a[i].n \in Nat BY <1>1, <1>2
  <2>3. ASSUME NEW j \in 1..c[i].n
        PROVE  i + j <= Len(c) /\ c[i + j].role = "tool" /\ c[i + j].n = j
    <3>1. i + j <= m /\ a[i + j].role = "tool" /\ a[i + j].n = j BY <2>1, <2>2 DEF Answered
    <3>2. i + j \in 1..m /\ i + j <= m + n BY <1>1, <2>2, <3>1
    <3>3. c[i + j] = a[i + j] BY <1>1, <3>2
    <3>4. QED BY <1>1, <3>1, <3>2, <3>3
  <2>4. QED BY <2>3 DEF Answered
<1>5. ASSUME NEW k \in 1..n, c[m + k].role = "tool" PROVE Asked(c, m + k)
  <2>1. c[m + k] = b[k] /\ b[k].n \in Nat BY <1>1, <1>2
  <2>2. Asked(b, k) BY <1>5, <2>1 DEF Whole
  <2>3. k - b[k].n \in 1..n /\ (m + k) - b[k].n = m + (k - b[k].n) /\ (m + k) - b[k].n > 0
    <3>1. k - b[k].n > 0 BY <2>2 DEF Asked
    <3> DEFINE x == b[k].n
    <3>2. x \in Nat /\ k - x > 0 BY <2>1, <3>1
    <3> HIDE DEF x
    <3>3. k - x \in 1..n /\ (m + k) - x = m + (k - x) /\ (m + k) - x > 0 BY <1>1, <3>2
    <3>4. QED BY <3>3 DEF x
  <2>4. c[m + (k - b[k].n)] = b[k - b[k].n] BY <1>1, <2>3
  <2>5. QED BY <2>1, <2>2, <2>3, <2>4 DEF Asked
<1>6. ASSUME NEW k \in 1..n, c[m + k].role = "assistant" PROVE Answered(c, m + k)
  <2>1. c[m + k] = b[k] /\ b[k].n \in Nat BY <1>1, <1>2
  <2>2. Answered(b, k) BY <1>6, <2>1 DEF Whole
  <2>3. ASSUME NEW j \in 1..c[m + k].n
        PROVE  /\ (m + k) + j <= Len(c) /\ c[(m + k) + j].role = "tool"
               /\ c[(m + k) + j].n = j
    <3>1. k + j <= n /\ b[k + j].role = "tool" /\ b[k + j].n = j BY <2>1, <2>2, <2>3 DEF Answered
    <3>2. j \in Nat /\ j # 0 BY <2>1
    <3>3. k + j \in 1..n /\ (m + k) + j = m + (k + j) /\ (m + k) + j <= m + n
      BY <1>1, <3>1, <3>2
    <3>4. c[m + (k + j)] = b[k + j] BY <1>1, <3>3
    <3>5. c[(m + k) + j] = b[k + j] BY <3>3, <3>4
    <3>6. QED BY <1>1, <3>1, <3>3, <3>5
  <2>4. QED BY <2>3 DEF Answered
<1>7. ASSUME NEW i \in 1..Len(c)
      PROVE  /\ c[i].role = "tool" => Asked(c, i)
             /\ c[i].role = "assistant" => Answered(c, i)
  <2>1. i \in 1..(m + n) BY <1>1
  <2>2. CASE i <= m
    <3>1. i \in 1..m BY <1>1, <2>2
    <3>2. QED BY <1>3, <1>4, <3>1
  <2>3. CASE i - m \in 1..n
    <3>1. PICK k \in 1..n : i = m + k
      <4>1. i = m + (i - m) BY <1>1, <2>1
      <4>2. QED BY <2>3, <4>1
    <3>2. QED BY <1>5, <1>6, <3>1
  <2>4. QED BY <1>1, <2>1, <2>2, <2>3
<1>8. Whole(c) BY <1>7 DEF Whole
<1>9. QED BY <1>8 DEF c

(* What is left when the cut is not before a tool result.                   *)
LEMMA WholeAfter ==
    ASSUME NEW c \in Seq(Rows), NEW k \in 0..Len(c), Whole(c),
           k < Len(c) => c[k + 1].role # "tool"
    PROVE  Whole(SubSeq(c, k + 1, Len(c)))
<1> DEFINE d == SubSeq(c, k + 1, Len(c))
           L == Len(c)
<1>1. /\ L \in Nat /\ k \in Nat /\ k <= L /\ Len(d) = L - k
      /\ \A i \in 1..(L - k) : d[i] = c[k + i] /\ c[k + i] \in Rows
  BY SplitParts
<1> HIDE DEF d
<1>2. \A i \in 1..(L - k) : k + i \in 1..L /\ c[k + i].n \in Nat BY <1>1 DEF Rows
<1>3. ASSUME NEW i \in 1..(L - k), d[i].role = "tool" PROVE Asked(d, i)
  <2> DEFINE n == c[k + i].n
             asker == (k + i) - n
  <2>1. d[i] = c[k + i] /\ k + i \in 1..L /\ n \in Nat BY <1>1, <1>2
  <2>2. Asked(c, k + i) BY <1>3, <2>1 DEF Whole
  <2>3. asker > 0 /\ c[asker].role = "assistant" /\ n <= c[asker].n BY <2>2 DEF Asked
  <2> HIDE DEF n
  <2>4. asker \in 1..L BY <1>1, <2>1, <2>3
  <2>5. c[asker].n \in Nat
    <3> HIDE DEF asker
    <3>1. c[asker] \in Rows BY <2>4, ElementOfSeq
    <3>2. QED BY <3>1 DEF Rows
  <2>6. Answered(c, asker) BY <2>3, <2>4 DEF Whole
  <2>7. k < asker
    <3> SUFFICES ASSUME asker <= k PROVE FALSE
      BY <1>1, <2>4
    <3>1. (k + 1) - asker \in 1..n /\ asker + ((k + 1) - asker) = k + 1 /\ k < L
      BY <1>1, <2>1, <2>4
    <3>2. (k + 1) - asker \in 1..c[asker].n BY <2>1, <2>3, <2>5, <3>1
    <3>3. c[asker + ((k + 1) - asker)].role = "tool" BY <2>6, <3>2 DEF Answered
    <3>4. QED BY <3>1, <3>3
  <2>8. i - n \in 1..(L - k) /\ k + (i - n) = asker /\ i - n > 0 BY <1>1, <2>1, <2>4, <2>7
  <2>9. d[i - n] = c[asker] BY <1>1, <2>8
  <2>10. d[i].n = n BY <2>1 DEF n
  <2>11. QED BY <2>3, <2>8, <2>9, <2>10 DEF Asked
<1>4. ASSUME NEW i \in 1..(L - k), d[i].role = "assistant" PROVE Answered(d, i)
  <2>1. d[i] = c[k + i] /\ k + i \in 1..L /\ c[k + i].n \in Nat BY <1>1, <1>2
  <2>2. Answered(c, k + i) BY <1>4, <2>1 DEF Whole
  <2>3. ASSUME NEW j \in 1..d[i].n
        PROVE  i + j <= Len(d) /\ d[i + j].role = "tool" /\ d[i + j].n = j
    <3>1. /\ (k + i) + j <= L /\ c[(k + i) + j].role = "tool" /\ c[(k + i) + j].n = j
      BY <2>1, <2>2, <2>3 DEF Answered
    <3>2. j \in Nat /\ j # 0 BY <2>1
    <3>3. i + j \in 1..(L - k) /\ k + (i + j) = (k + i) + j /\ i + j <= L - k
      BY <1>1, <3>1, <3>2
    <3>4. d[i + j] = c[(k + i) + j] BY <1>1, <3>3
    <3>5. QED BY <1>1, <3>1, <3>3, <3>4
  <2>4. QED BY <2>3 DEF Answered
<1>5. Whole(d) BY <1>1, <1>3, <1>4 DEF Whole
<1>6. QED BY <1>5 DEF d

-----------------------------------------------------------------------------
(* A conversation: k messages that stay as they are, then, if ever, one     *)
(* summary, then whole turns.                                              *)
Fit(c, k) ==
    /\ c \in Seq(Rows) /\ k \in 0..Len(c)
    /\ \A i \in 1..k : c[i].role \in Talk!Immutable
    /\ \A i \in (k + 1)..Len(c) : c[i].role \notin Talk!Immutable
    /\ \A i \in 1..Len(c) : c[i].role = "summary" => i = k + 1
    /\ Whole(c)

(* What is said next makes it longer.                                       *)
LEMMA FitGrows ==
    ASSUME NEW k \in Nat, NEW a, Fit(a, k), NEW b \in Seq(Rows), Whole(b),
           \A i \in 1..Len(b) : b[i].role \in {"user", "assistant", "tool"}
    PROVE  Fit(a \o b, k) /\ \A i \in 1..k : (a \o b)[i] = a[i]
<1>0. a \in Seq(Rows) /\ k \in 0..Len(a) BY DEF Fit
<1> DEFINE c == a \o b
           m == Len(a)
           n == Len(b)
<1>1. /\ m \in Nat /\ n \in Nat /\ Len(c) = m + n /\ c \in Seq(Rows)
      /\ \A i \in 1..m : c[i] = a[i]
      /\ \A i \in 1..n : c[m + i] = b[i]
      /\ \A i \in 1..(m + n) : i <= m \/ i - m \in 1..n
  BY <1>0, TwoParts
<1>2. Whole(c) BY <1>0, WholeTogether DEF Fit
<1> HIDE DEF c
<1>3. \A i \in 1..k : c[i] = a[i] BY <1>0, <1>1
<1>4. ASSUME NEW i \in 1..(m + n), ~ (i <= m) PROVE c[i].role \in {"user", "assistant", "tool"}
  <2>1. i - m \in 1..n /\ m + (i - m) = i BY <1>1, <1>4
  <2>2. c[i] = b[i - m] BY <1>1, <2>1
  <2>3. QED BY <2>1, <2>2
<1>5. ASSUME NEW i \in (k + 1)..(m + n) PROVE c[i].role \notin Talk!Immutable
  <2>1. i \in 1..(m + n) BY <1>0, <1>1
  <2>2. CASE i <= m
    <3>1. i \in 1..m /\ i \in (k + 1)..m BY <1>0, <1>1, <2>1, <2>2
    <3>2. QED BY <1>1, <3>1 DEF Fit
  <2>3. CASE ~ (i <= m) BY <1>4, <2>1, <2>3 DEF Talk!Immutable
  <2>4. QED BY <2>2, <2>3
<1>6. ASSUME NEW i \in 1..(m + n), c[i].role = "summary" PROVE i = k + 1
  <2>1. i <= m BY <1>4, <1>6
  <2>2. i \in 1..m BY <1>1, <2>1
  <2>3. QED BY <1>1, <1>6, <2>2 DEF Fit
<1>7. \A i \in 1..k : c[i].role \in Talk!Immutable BY <1>3 DEF Fit
<1>8. k \in 0..Len(c) BY <1>0, <1>1
<1>9. Fit(c, k) BY <1>1, <1>2, <1>5, <1>6, <1>7, <1>8 DEF Fit
<1>10. QED BY <1>3, <1>9 DEF c

(* The leading messages are those that stay.                                *)
LEMMA SplitIs ==
    ASSUME NEW k \in Nat, NEW c, Fit(c, k)
    PROVE  Talk!Split(c) = k
<1>0. c \in Seq(Rows) /\ k \in 0..Len(c) /\ Len(c) \in Nat BY LenProperties DEF Fit
<1> DEFINE P(j) == /\ \A i \in 1..j : c[i].role \in Talk!Immutable
                   /\ j < Len(c) => c[j + 1].role \notin Talk!Immutable
<1>1. P(k)
  <2>1. k < Len(c) => k + 1 \in (k + 1)..Len(c) BY <1>0
  <2>2. QED BY <2>1 DEF Fit
<1>2. ASSUME NEW j \in 0..Len(c), P(j) PROVE j = k
  <2>1. CASE j < k
    <3>1. j + 1 \in 1..k /\ j < Len(c) BY <1>0, <2>1
    <3>2. QED BY <1>2, <3>1 DEF Fit
  <2>2. CASE k < j
    <3>1. k + 1 \in 1..j /\ k + 1 \in (k + 1)..Len(c) BY <1>0, <2>2
    <3>2. QED BY <1>2, <3>1 DEF Fit
  <2>3. QED BY <1>0, <2>1, <2>2
<1>3. Talk!Split(c) = CHOOSE j \in 0..Len(c) : P(j) BY DEF Talk!Split
<1> HIDE DEF P
<1>4. QED BY <1>0, <1>1, <1>2, <1>3

(* Where a long body is cut: not before a tool result.                      *)
LEMMA CutIs ==
    ASSUME NEW b \in Seq(Rows), Len(b) > Keep
    PROVE  /\ Talk!Cut(b) \in 0..(Len(b) - Keep)
           /\ Talk!Cut(b) = 0 \/ b[Talk!Cut(b) + 1].role # "tool"
<1> DEFINE K == Len(b) - Keep
           cuts == {c \in 0..K : c = 0 \/ b[c + 1].role # "tool"}
           back == {K - c : c \in cuts}
<1>1. Len(b) \in Nat /\ Keep \in Nat /\ Keep # 0 /\ K \in Nat
  BY TalkAssumption, LenProperties
<1>2. Talk!Cut(b) = CHOOSE c \in cuts : \A d \in cuts : d <= c BY DEF Talk!Cut
<1> HIDE DEF K
<1>3. 0 \in cuts /\ \A c \in cuts : c \in 0..K BY <1>1
<1>4. \E c \in cuts : \A d \in cuts : d <= c
  <2> HIDE DEF cuts
  <2>1. \A c \in cuts : K - c \in Nat BY <1>1, <1>3
  <2>2. K - 0 \in back /\ back \in SUBSET Nat BY <1>3, <2>1
  <2>3. PICK x \in back : \A y \in back : x <= y
    <3> HIDE DEF back
    <3>1. QED BY <2>2, SmallestNumber
  <2>4. PICK c \in cuts : x = K - c OBVIOUS
  <2>5. \A d \in cuts : K - c <= K - d BY <2>3, <2>4
  <2>6. \A d \in cuts : d <= c
    <3> TAKE d \in cuts
    <3>1. d \in 0..K /\ c \in 0..K /\ K - c <= K - d BY <1>3, <2>5
    <3>2. QED BY <1>1, <3>1
  <2>7. QED BY <2>6
<1>5. Talk!Cut(b) \in cuts
  <2> HIDE DEF cuts
  <2>1. QED BY <1>2, <1>4
<1>6. QED BY <1>5 DEF K

(* What one message holds.                                                  *)
LEMMA HeldOne ==
    ASSUME NEW m \in Rows
    PROVE  <<m>> \in Seq(Rows) /\ Len(<<m>>) = 1 /\ <<m>>[1] = m /\ Talk!Held(<<m>>) = m.holds
<1>1. <<>> \in Seq(Rows) /\ Len(<<>>) = 0 /\ <<m>> \in Seq(Rows) /\ Len(<<m>>) = 1 /\ <<m>>[1] = m
      /\ Append(<<>>, m) = <<m>> /\ m.holds \in Seq(Nat)
  BY DEF Rows
<1>2. Talk!Held(<<>>) = <<>> BY <1>1, HeldIsJoined
<1>3. Talk!Held(Append(<<>>, m)) = Talk!Held(<<>>) \o m.holds BY <1>1, HeldAppend
<1>4. <<>> \o m.holds = m.holds BY <1>1, ConcatEmptySeq
<1>5. QED BY <1>1, <1>2, <1>3, <1>4

(* Compaction loses nothing that was said, leaves the turns whole and what  *)
(* stays as it is.                                                         *)
LEMMA CompactedFits ==
    ASSUME NEW k \in Nat, NEW c, Fit(c, k)
    PROVE  /\ Fit(Talk!Compacted(c), k)
           /\ Talk!Held(Talk!Compacted(c)) = Talk!Held(c)
           /\ \A i \in 1..k : Talk!Compacted(c)[i] = c[i]
<1> DEFINE L == Len(c)
           body == SubSeq(c, k + 1, L)
           lead == SubSeq(c, 1, k)
           B == Len(body)
           cut == IF B <= Keep THEN 0 ELSE Talk!Cut(body)
           older == SubSeq(body, 1, cut)
           rest == SubSeq(body, cut + 1, B)
           summary == [role |-> "summary", n |-> 0, holds |-> Talk!Held(older)]
           new == lead \o <<summary>> \o rest
<1>1. Talk!Compacted(c) = IF cut = 0 THEN c ELSE new
  <2>1. Talk!Split(c) = k BY SplitIs
  <2>2. Talk!Leading(c) = lead /\ Talk!Body(c) = body BY <2>1 DEF Talk!Leading, Talk!Body
  <2> HIDE DEF lead, body, L
  <2>3. QED BY <2>2 DEF Talk!Compacted
<1>2. CASE cut = 0 BY <1>1, <1>2
<1>3. CASE cut # 0
  <2>0. c \in Seq(Rows) /\ k \in 0..L /\ Whole(c) BY DEF Fit
  <2>1. /\ L \in Nat /\ lead \in Seq(Rows) /\ Len(lead) = k
        /\ \A i \in 1..k : lead[i] = c[i] /\ c[i] \in Rows
        /\ body \in Seq(Rows) /\ B = L - k
        /\ \A i \in 1..(L - k) : body[i] = c[k + i] /\ c[k + i] \in Rows
        /\ lead \o body = c
    BY <2>0, SplitParts
  <2>2. Whole(body)
    <3>1. k < L => c[k + 1].role # "tool"
      <4> SUFFICES ASSUME k < L, c[k + 1].role = "tool" PROVE FALSE
        OBVIOUS
      <4>1. k + 1 \in 1..L BY <2>0, <2>1
      <4> DEFINE n == c[k + 1].n
                 a == (k + 1) - n
      <4>2. a > 0 /\ c[a].role = "assistant" BY <2>0, <4>1 DEF Whole, Asked
      <4>3. n \in Nat
        <5>1. c[k + 1] \in Rows BY <2>0, <4>1, ElementOfSeq
        <5>2. QED BY <5>1 DEF Rows
      <4> HIDE DEF n
      <4>4. a \in 1..(k + 1) BY <4>2, <4>3
      <4> HIDE DEF a
      <4>5. a # k + 1 BY <4>2
      <4>6. a \in 1..k BY <4>4, <4>5
      <4>7. c[a].role \in Talk!Immutable BY <4>6 DEF Fit
      <4>8. QED BY <4>2, <4>7 DEF Talk!Immutable
    <3>2. QED BY <2>0, <3>1, WholeAfter
  <2> HIDE DEF body, lead, B, L
  <2>3. ~ (B <= Keep) /\ cut = Talk!Cut(body) BY <1>3
  <2>4. B \in Nat /\ B = Len(body) BY <2>1, LenProperties DEF B
  <2>5. Keep \in Nat /\ Keep # 0 BY TalkAssumption
  <2>6. Len(body) > Keep BY <2>3, <2>4, <2>5
  <2>7. Talk!Cut(body) \in 0..(Len(body) - Keep)
        /\ (Talk!Cut(body) = 0 \/ body[Talk!Cut(body) + 1].role # "tool")
    BY <2>1, <2>6, CutIs
  <2>8. cut \in 1..B /\ cut \in 0..Len(body) /\ cut < B /\ body[cut + 1].role # "tool"
    <3> HIDE DEF cut
    <3>1. cut \in 0..(B - Keep) /\ body[cut + 1].role # "tool" BY <1>3, <2>3, <2>4, <2>7
    <3>2. cut \in 1..B /\ cut < B /\ cut \in 0..B BY <1>3, <2>4, <2>5, <3>1
    <3>3. QED BY <2>4, <3>1, <3>2
  <2> HIDE DEF cut
  <2>9. /\ older \in Seq(Rows) /\ rest \in Seq(Rows) /\ Len(rest) = B - cut
        /\ \A i \in 1..(B - cut) : rest[i] = body[cut + i]
        /\ older \o rest = body
    BY <2>1, <2>4, <2>8, SplitParts
  <2>10. Whole(rest) BY <2>1, <2>2, <2>4, <2>8, WholeAfter
  <2>11. Talk!Held(older) \in Seq(Nat) BY <2>9, HeldIsJoined
  <2>12. summary \in Rows /\ summary.role = "summary" /\ summary.holds = Talk!Held(older)
    BY <2>11 DEF Rows, Roles
  <2> HIDE DEF older, rest, summary
  <2>13. /\ <<summary>> \in Seq(Rows) /\ Len(<<summary>>) = 1 /\ <<summary>>[1] = summary
         /\ Talk!Held(<<summary>>) = Talk!Held(older)
    BY <2>12, HeldOne
  <2> DEFINE top == lead \o <<summary>>
  <2>14. /\ top \in Seq(Rows) /\ Len(top) = k + 1
         /\ \A i \in 1..k : top[i] = c[i]
         /\ top[k + 1] = summary
    <3>1. /\ top \in Seq(Rows) /\ Len(top) = k + 1
          /\ \A i \in 1..k : top[i] = lead[i]
          /\ \A i \in 1..1 : top[k + i] = <<summary>>[i]
      BY <2>1, <2>13, TwoParts
    <3> HIDE DEF top
    <3>2. 1 \in 1..1 OBVIOUS
    <3>3. top[k + 1] = <<summary>>[1] BY <3>1, <3>2
    <3>4. QED BY <2>1, <2>13, <3>1, <3>3
  <2>15. Whole(top)
    <3>1. Whole(lead)
      <4>1. \A i \in 1..Len(lead) : lead[i].role \notin {"tool", "assistant"}
        BY <2>1 DEF Fit, Talk!Immutable
      <4>2. QED BY <2>1, <4>1, WholeWithout
    <3>2. Whole(<<summary>>)
      <4>1. \A i \in 1..Len(<<summary>>) : <<summary>>[i].role \notin {"tool", "assistant"}
        BY <2>12, <2>13
      <4>2. QED BY <2>13, <4>1, WholeWithout
    <3>3. QED BY <2>1, <2>13, <3>1, <3>2, WholeTogether
  <2>16. Talk!Held(new) = Talk!Held(c)
    <3>1. Talk!Held(top) = Talk!Held(lead) \o Talk!Held(older) BY <2>1, <2>13, HeldConcat
    <3>2. Talk!Held(new) = Talk!Held(top) \o Talk!Held(rest) BY <2>9, <2>14, HeldConcat
    <3>3. Talk!Held(c) = Talk!Held(lead) \o Talk!Held(body) BY <2>1, HeldConcat
    <3>4. Talk!Held(body) = Talk!Held(older) \o Talk!Held(rest) BY <2>9, HeldConcat
    <3>5. /\ Talk!Held(lead) \in Seq(Nat) /\ Talk!Held(older) \in Seq(Nat)
          /\ Talk!Held(rest) \in Seq(Nat)
      BY <2>1, <2>9, HeldIsJoined
    <3>6. (Talk!Held(lead) \o Talk!Held(older)) \o Talk!Held(rest)
            = Talk!Held(lead) \o (Talk!Held(older) \o Talk!Held(rest))
      BY <3>5, NumbersAssociate, Zenon
    <3> HIDE DEF new, top
    <3>7. QED BY <3>1, <3>2, <3>3, <3>4, <3>6
  <2>17. new = top \o rest OBVIOUS
  <2> HIDE DEF new, top
  <2>18. Whole(new) BY <2>9, <2>10, <2>14, <2>15, <2>17, WholeTogether
  <2> DEFINE m == B - cut
  <2>19. m \in Nat /\ k \in Nat BY <2>4, <2>8
  <2>20. /\ new \in Seq(Rows) /\ Len(new) = (k + 1) + m
         /\ \A i \in 1..(k + 1) : new[i] = top[i]
         /\ \A i \in 1..m : new[(k + 1) + i] = rest[i]
         /\ \A i \in 1..((k + 1) + m) : i <= k + 1 \/ i - (k + 1) \in 1..m
    <3>1. /\ top \o rest \in Seq(Rows) /\ Len(top \o rest) = Len(top) + Len(rest)
          /\ \A i \in 1..Len(top) : (top \o rest)[i] = top[i]
          /\ \A i \in 1..Len(rest) : (top \o rest)[Len(top) + i] = rest[i]
          /\ \A i \in 1..(Len(top) + Len(rest)) : i <= Len(top) \/ i - Len(top) \in 1..Len(rest)
      BY <2>9, <2>14, TwoParts
    <3>2. Len(top) = k + 1 /\ Len(rest) = m BY <2>9, <2>14
    <3> HIDE DEF m
    <3>3. QED BY <2>17, <3>1, <3>2
  <2>21. ASSUME NEW i \in 1..m
         PROVE  /\ rest[i] = c[k + (cut + i)]
                /\ k + (cut + i) \in (k + 2)..L
    <3>1. rest[i] = body[cut + i] BY <2>9
    <3>2. cut + i \in 2..(L - k) /\ cut + i \in 1..(L - k) BY <2>1, <2>4, <2>8, <2>19
    <3>3. body[cut + i] = c[k + (cut + i)] BY <2>1, <3>2
    <3>4. k + (cut + i) \in (k + 2)..L BY <2>1, <2>0, <3>2
    <3>5. QED BY <3>1, <3>3, <3>4
  <2> HIDE DEF m
  <2>22. \A i \in 1..k : new[i] = c[i]
    <3> TAKE i \in 1..k
    <3>1. i \in 1..(k + 1) OBVIOUS
    <3>2. QED BY <2>14, <2>20, <3>1
  <2>23. new[k + 1] = summary
    <3>1. k + 1 \in 1..(k + 1) OBVIOUS
    <3>2. QED BY <2>14, <2>20, <3>1
  <2>24. ASSUME NEW i \in 1..Len(new), i > k + 1
         PROVE  new[i].role \notin Talk!Immutable /\ new[i].role # "summary"
    <3>1. i \in 1..((k + 1) + m) BY <2>20
    <3> DEFINE j == i - (k + 1)
    <3>2. j \in 1..m /\ (k + 1) + j = i BY <2>20, <2>24, <3>1
    <3> HIDE DEF j
    <3>3. new[i] = c[k + (cut + j)] /\ k + (cut + j) \in (k + 2)..L BY <2>20, <2>21, <3>2
    <3> DEFINE p == k + (cut + j)
    <3>4. new[i] = c[p] /\ p \in (k + 2)..L BY <3>3
    <3> HIDE DEF p
    <3>5. p \in (k + 1)..L /\ p \in 1..L /\ p # k + 1 BY <2>1, <3>4
    <3>6. c[p].role \notin Talk!Immutable /\ c[p].role # "summary" BY <3>5 DEF Fit, L
    <3>7. QED BY <3>4, <3>6
  <2>25. \A i \in (k + 1)..Len(new) : new[i].role \notin Talk!Immutable
    <3> TAKE i \in (k + 1)..Len(new)
    <3>1. CASE i = k + 1 BY <2>12, <2>23, <3>1 DEF Talk!Immutable
    <3>2. CASE i # k + 1
      <4>1. i \in 1..Len(new) /\ i > k + 1 BY <2>19, <2>20, <3>2
      <4>2. QED BY <2>24, <4>1
    <3>3. QED BY <3>1, <3>2
  <2>26. \A i \in 1..Len(new) : new[i].role = "summary" => i = k + 1
    <3> TAKE i \in 1..Len(new)
    <3> HAVE new[i].role = "summary"
    <3>1. ~ (i > k + 1) BY <2>24
    <3>2. CASE i < k + 1
      <4>1. i \in 1..k BY <3>2
      <4>2. new[i] = c[i] /\ c[i].role \in Talk!Immutable BY <2>22, <4>1 DEF Fit
      <4>3. QED BY <4>2 DEF Talk!Immutable
    <3>3. i \in Nat BY <2>20
    <3>4. QED BY <3>1, <3>2, <3>3
  <2>27. \A i \in 1..k : new[i].role \in Talk!Immutable BY <2>22 DEF Fit
  <2>28. k \in 0..Len(new) BY <2>19, <2>20
  <2>29. Fit(new, k) BY <2>18, <2>20, <2>25, <2>26, <2>27, <2>28 DEF Fit
  <2>30. QED BY <1>1, <1>3, <2>16, <2>22, <2>29
<1>4. QED BY <1>2, <1>3

-----------------------------------------------------------------------------
(* A conversation that was held so far: it is fit, its system message and,  *)
(* of a run, its request stay as they are, and it holds all that was said,  *)
(* in order.                                                               *)
Fixed == IF speaker = "graph" THEN 2 ELSE 1
TalkKeeps ==
    /\ speaker \in {"graph", "role", "child"}
    /\ said \in Nat
    /\ Fit(messages, Fixed)
    /\ Talk!Held(messages) = [i \in 1..said |-> i]
    /\ speaker = "graph" => messages[2].role = "request"

(* Numbers that go on from where the first ones end.                        *)
LEMMA CountOn ==
    ASSUME NEW p \in Nat, NEW q \in Nat
    PROVE  [i \in 1..p |-> i] \o [i \in 1..q |-> p + i] = [i \in 1..(p + q) |-> i]
OBVIOUS

(* What may be sent, compacted or not, is as fit as the conversation and    *)
(* holds all that was said.                                                 *)
LEMMA SendableKeeps ==
    ASSUME TalkKeeps, NEW sent \in Talk!Sendable
    PROVE  /\ Fit(sent, Fixed)
           /\ Talk!Held(sent) = [i \in 1..said |-> i]
           /\ speaker = "graph" => sent[2].role = "request"
<1>1. Fixed \in Nat /\ Fit(messages, Fixed) /\ (speaker = "graph" => 2 \in 1..Fixed)
  BY DEF TalkKeeps, Fixed
<1>2. sent = messages \/ sent = Talk!Compacted(messages) BY DEF Talk!Sendable
<1>3. CASE sent = messages BY <1>3 DEF TalkKeeps
<1>4. CASE sent = Talk!Compacted(messages)
  <2>1. /\ Fit(sent, Fixed)
        /\ Talk!Held(sent) = Talk!Held(messages)
        /\ \A i \in 1..Fixed : sent[i] = messages[i]
    BY <1>1, <1>4, CompactedFits
  <2>2. speaker = "graph" => sent[2] = messages[2] BY <1>1, <2>1
  <2>3. QED BY <2>1, <2>2 DEF TalkKeeps
<1>5. QED BY <1>2, <1>3, <1>4

(* What is said next.                                                       *)
Said == [role : {"user", "assistant", "tool"}, n : Nat]
Uttered(roles) == [i \in 1..Len(roles) |-> Talk!Message(roles[i].role, roles[i].n, said + i)]

(* The fields of a message.                                                 *)
LEMMA MessageIs ==
    \A role, n, nth : /\ Talk!Message(role, n, nth).role = role
                      /\ Talk!Message(role, n, nth).n = n
                      /\ Talk!Message(role, n, nth).holds = <<nth>>
BY DEF Talk!Message

(* A whole turn added to what was sent leaves a conversation that fits.     *)
LEMMA SpeakingKeeps ==
    ASSUME TalkKeeps, NEW sent \in Talk!Sendable, NEW roles \in Seq(Said),
           Whole(Uttered(roles)), messages' = Talk!Spoken(sent, roles),
           said' = said + Len(roles), speaker' = speaker
    PROVE  TalkKeeps'
<1> DEFINE t == Uttered(roles)
           m == Len(roles)
<1>1. /\ Fit(sent, Fixed) /\ Talk!Held(sent) = [i \in 1..said |-> i]
      /\ (speaker = "graph" => sent[2].role = "request")
  BY SendableKeeps
<1>2. said \in Nat /\ Fixed \in Nat /\ (speaker = "graph" => 2 \in 1..Fixed)
  BY DEF TalkKeeps, Fixed
<1>3. m \in Nat /\ \A i \in 1..m : roles[i] \in Said BY LenProperties, ElementOfSeq
<1>4. \A i \in 1..m : /\ Talk!Message(roles[i].role, roles[i].n, said + i) \in Rows
                      /\ roles[i].role \in {"user", "assistant", "tool"}
  BY <1>2, <1>3 DEF Talk!Message, Rows, Roles, Said
<1>5. /\ t \in Seq(Rows) /\ Len(t) = m
      /\ \A i \in 1..m : t[i] = Talk!Message(roles[i].role, roles[i].n, said + i)
  <2> DEFINE h == [i \in 1..m |-> Talk!Message(roles[i].role, roles[i].n, said + i)]
  <2>1. h \in [1..m -> Rows] BY <1>4
  <2>2. t = h BY DEF Uttered
  <2> HIDE DEF m
  <2>3. \A i \in 1..m : h[i] = Talk!Message(roles[i].role, roles[i].n, said + i) OBVIOUS
  <2> HIDE DEF h, t
  <2>4. h \in Seq(Rows) /\ Len(h) = m BY <1>3, <2>1
  <2>5. QED BY <2>2, <2>3, <2>4
<1>6. \A i \in 1..m : t[i].role \in {"user", "assistant", "tool"} /\ t[i].holds = <<said + i>>
  <2> HIDE DEF t, m
  <2>1. QED BY <1>4, <1>5, MessageIs
<1>7. messages' = sent \o t BY DEF Talk!Spoken, Uttered
<1>8. Whole(t) OBVIOUS
<1> HIDE DEF t
<1>9. Fit(sent \o t, Fixed) /\ \A i \in 1..Fixed : (sent \o t)[i] = sent[i]
  <2>1. \A i \in 1..Len(t) : t[i].role \in {"user", "assistant", "tool"}
    <3> HIDE DEF m
    <3>1. QED BY <1>5, <1>6
  <2> DEFINE k == Fixed
  <2>2. k \in Nat /\ Fit(sent, k) /\ t \in Seq(Rows) BY <1>1, <1>2, <1>5
  <2> HIDE DEF k, m
  <2>3. Fit(sent \o t, k) /\ \A i \in 1..k : (sent \o t)[i] = sent[i]
    BY <1>8, <2>1, <2>2, FitGrows
  <2>4. QED BY <2>3 DEF k
<1>10. Talk!Held(t) = [i \in 1..m |-> said + i] BY <1>2, <1>5, <1>6, HeldInOrder
<1>11. Talk!Held(sent \o t) = [i \in 1..(said + m) |-> i]
  <2>1. sent \in Seq(Rows) BY <1>1 DEF Fit
  <2>2. Talk!Held(sent \o t) = [i \in 1..said |-> i] \o [i \in 1..m |-> said + i]
    BY <1>1, <1>5, <1>10, <2>1, HeldConcat
  <2>3. QED BY <1>2, <1>3, <2>2, CountOn
<1>12. said' \in Nat /\ said' = said + m BY <1>2, <1>3
<1>13. Fixed' = Fixed BY DEF Fixed
<1>14. speaker = "graph" => messages'[2].role = "request"
  <2>1. speaker = "graph" => (sent \o t)[2] = sent[2] BY <1>2, <1>9
  <2>2. QED BY <1>1, <1>7, <2>1
<1>15. Fit(messages', Fixed') BY <1>7, <1>9, <1>13
<1>16. Talk!Held(messages') = [i \in 1..said' |-> i] BY <1>7, <1>11, <1>12
<1>17. QED BY <1>12, <1>14, <1>15, <1>16 DEF TalkKeeps

(* A turn of a model, with the results of its calls.                        *)
LEMMA TurnKeeps ==
    ASSUME TalkKeeps, NEW calls \in 0..MaxCalls, Talk!Turn(calls)
    PROVE  TalkKeeps'
<1> DEFINE asking == [role |-> "assistant", n |-> calls]
           tools == [i \in 1..calls |-> [role |-> "tool", n |-> i]]
           roles == <<asking>> \o tools
           t == Uttered(roles)
<1>1. calls \in Nat /\ said \in Nat BY TalkAssumption DEF TalkKeeps
<1>2. /\ <<asking>> \in Seq(Said) /\ Len(<<asking>>) = 1 /\ <<asking>>[1] = asking
      /\ tools \in Seq(Said) /\ Len(tools) = calls
      /\ \A i \in 1..calls : tools[i] = [role |-> "tool", n |-> i]
  <2>1. asking \in Said BY <1>1 DEF Said
  <2>2. \A i \in 1..calls : [role |-> "tool", n |-> i] \in Said BY <1>1 DEF Said
  <2>3. tools \in [1..calls -> Said] BY <2>2
  <2>4. \A i \in 1..calls : tools[i] = [role |-> "tool", n |-> i] OBVIOUS
  <2> HIDE DEF asking, tools
  <2>5. tools \in Seq(Said) /\ Len(tools) = calls BY <1>1, <2>3
  <2>6. QED BY <2>1, <2>4, <2>5
<1> HIDE DEF asking, tools
<1>3. /\ roles \in Seq(Said) /\ Len(roles) = calls + 1 /\ roles[1] = asking
      /\ \A i \in 1..calls : roles[i + 1] = [role |-> "tool", n |-> i]
  <2>1. /\ roles \in Seq(Said) /\ Len(roles) = 1 + calls
        /\ \A i \in 1..(1 + calls) : roles[i] = IF i <= 1 THEN <<asking>>[i] ELSE tools[i - 1]
    BY <1>2, ConcatProperties
  <2> HIDE DEF roles
  <2>2. roles[1] = asking
    <3>1. 1 \in 1..(1 + calls) BY <1>1
    <3>2. QED BY <1>2, <2>1, <3>1
  <2>3. \A i \in 1..calls : roles[i + 1] = tools[i]
    <3> TAKE i \in 1..calls
    <3>1. i + 1 \in 1..(1 + calls) /\ ~ (i + 1 <= 1) /\ (i + 1) - 1 = i BY <1>1
    <3>2. roles[i + 1] = tools[(i + 1) - 1] BY <2>1, <3>1
    <3>3. QED BY <3>1, <3>2
  <2>4. 1 + calls = calls + 1 BY <1>1
  <2>5. QED BY <1>2, <2>1, <2>2, <2>3, <2>4
<1> HIDE DEF roles
<1>4. /\ Len(t) = calls + 1
      /\ \A i \in 1..(calls + 1) : t[i].role = roles[i].role /\ t[i].n = roles[i].n
  <2> DEFINE m == Len(roles)
             h == [i \in 1..m |-> Talk!Message(roles[i].role, roles[i].n, said + i)]
  <2>1. t = h BY DEF Uttered
  <2>2. m \in Nat /\ m = calls + 1 BY <1>1, <1>3
  <2> HIDE DEF m
  <2>3. Len(h) = m BY <2>2
  <2>4. \A i \in 1..m : h[i] = Talk!Message(roles[i].role, roles[i].n, said + i) OBVIOUS
  <2> HIDE DEF h, t
  <2>5. \A i \in 1..m : t[i].role = roles[i].role /\ t[i].n = roles[i].n
    BY <2>1, <2>4, MessageIs
  <2>6. QED BY <2>1, <2>2, <2>3, <2>5
<1>5. t[1].role = "assistant" /\ t[1].n = calls BY <1>1, <1>3, <1>4 DEF asking
<1>6. \A i \in 1..calls : t[i + 1].role = "tool" /\ t[i + 1].n = i
  <2> TAKE i \in 1..calls
  <2>1. i + 1 \in 1..(calls + 1) BY <1>1
  <2>2. t[i + 1].role = roles[i + 1].role /\ t[i + 1].n = roles[i + 1].n
    <3> HIDE DEF t
    <3>1. QED BY <1>4, <2>1
  <2>3. roles[i + 1].role = "tool" /\ roles[i + 1].n = i
    <3>1. roles[i + 1] = [role |-> "tool", n |-> i] BY <1>3
    <3>2. QED BY <3>1
  <2>4. QED BY <2>2, <2>3
<1> HIDE DEF t
<1>7. Whole(t)
  <2>1. ASSUME NEW i \in 1..(calls + 1)
        PROVE  /\ t[i].role = "tool" => Asked(t, i)
               /\ t[i].role = "assistant" => Answered(t, i)
    <3>1. CASE i = 1
      <4>1. ASSUME NEW j \in 1..calls
            PROVE  1 + j <= Len(t) /\ t[1 + j].role = "tool" /\ t[1 + j].n = j
        <5>1. 1 + j = j + 1 /\ j + 1 <= calls + 1 BY <1>1
        <5>2. QED BY <1>4, <1>6, <5>1
      <4>2. Answered(t, 1) BY <1>5, <4>1 DEF Answered
      <4>3. QED BY <1>5, <3>1, <4>2
    <3>2. CASE i # 1
      <4>1. PICK j \in 1..calls : i = j + 1
        <5>1. i - 1 \in 1..calls /\ i = (i - 1) + 1 BY <1>1, <3>2
        <5>2. QED BY <5>1
      <4>2. t[i].role = "tool" /\ t[i].n = j BY <1>6, <4>1
      <4>3. i - j = 1 /\ j <= calls BY <1>1, <4>1
      <4>4. Asked(t, i) BY <1>5, <4>2, <4>3 DEF Asked
      <4>5. QED BY <4>2, <4>4
    <3>3. QED BY <3>1, <3>2
  <2>2. QED BY <1>4, <2>1 DEF Whole
<1>8. PICK sent \in Talk!Sendable : messages' = Talk!Spoken(sent, roles)
  BY DEF Talk!Turn, roles, asking, tools
<1>9. said' = said + Len(roles) /\ speaker' = speaker
  <2>1. said' = said + calls + 1 /\ speaker' = speaker BY DEF Talk!Turn
  <2>2. QED BY <1>1, <1>3, <2>1
<1>10. QED BY <1>3, <1>7, <1>8, <1>9, SpeakingKeeps DEF t

(* The outcomes of the test commands.                                      *)
LEMMA VerifyingKeeps ==
    ASSUME TalkKeeps, NEW tests \in 1..MaxCalls, Talk!Verifies(tests)
    PROVE  TalkKeeps'
<1> DEFINE roles == [i \in 1..tests |-> [role |-> "user", n |-> 0]]
           t == Uttered(roles)
<1>1. tests \in Nat /\ said \in Nat BY TalkAssumption DEF TalkKeeps
<1>2. /\ roles \in Seq(Said) /\ Len(roles) = tests
      /\ \A i \in 1..tests : roles[i].role = "user"
  <2>1. [role |-> "user", n |-> 0] \in Said BY DEF Said
  <2>2. roles \in [1..tests -> Said] BY <2>1
  <2>3. \A i \in 1..tests : roles[i].role = "user" OBVIOUS
  <2> HIDE DEF roles
  <2>4. roles \in Seq(Said) /\ Len(roles) = tests BY <1>1, <2>2
  <2>5. QED BY <2>3, <2>4
<1>3. messages' = Talk!Spoken(messages, roles) /\ said' = said + tests /\ speaker' = speaker
  BY DEF Talk!Verifies
<1> HIDE DEF roles
<1>4. /\ Len(t) = tests
      /\ \A i \in 1..tests : t[i].role = "user"
  <2> DEFINE m == Len(roles)
             h == [i \in 1..m |-> Talk!Message(roles[i].role, roles[i].n, said + i)]
  <2>1. t = h BY DEF Uttered
  <2>2. m \in Nat /\ m = tests BY <1>1, <1>2
  <2> HIDE DEF m
  <2>3. Len(h) = m BY <2>2
  <2>4. \A i \in 1..m : h[i] = Talk!Message(roles[i].role, roles[i].n, said + i) OBVIOUS
  <2> HIDE DEF h, t
  <2>5. \A i \in 1..m : t[i].role = roles[i].role BY <2>1, <2>4, MessageIs
  <2>6. QED BY <1>2, <2>1, <2>2, <2>3, <2>5
<1> HIDE DEF t
<1>5. Whole(t) BY <1>4 DEF Whole
<1>6. messages \in Talk!Sendable BY DEF Talk!Sendable
<1>7. QED BY <1>2, <1>3, <1>5, <1>6, SpeakingKeeps DEF t

(* A conversation begins with its leading messages.                         *)
LEMMA TalkBegins == Talk!Init => TalkKeeps
<1> SUFFICES ASSUME Talk!Init PROVE TalkKeeps
  OBVIOUS
<1> DEFINE a == Talk!Message("system", 0, 1)
           b == Talk!Message(IF speaker = "graph" THEN "request" ELSE "user", 0, 2)
<1>1. /\ speaker \in {"graph", "role", "child"} /\ said = 2 /\ messages = <<a, b>>
  BY DEF Talk!Init
<1>2. /\ a \in Rows /\ b \in Rows /\ a.role = "system" /\ a.holds = <<1>> /\ b.holds = <<2>>
      /\ b.role = IF speaker = "graph" THEN "request" ELSE "user"
  BY DEF Talk!Message, Rows, Roles
<1> HIDE DEF a, b
<1>3. messages \in Seq(Rows) /\ Len(messages) = 2 /\ messages[1] = a /\ messages[2] = b
  BY <1>1, <1>2
<1>4. Whole(messages)
  <2>1. \A i \in 1..Len(messages) : messages[i].role \notin {"tool", "assistant"}
    <3> TAKE i \in 1..Len(messages)
    <3>1. i = 1 \/ i = 2 BY <1>3
    <3>2. QED BY <1>2, <1>3, <3>1
  <2>2. QED BY <1>3, <2>1, WholeWithout
<1>5. Fit(messages, Fixed)
  <2>1. CASE speaker = "graph"
    <3>1. Fixed = 2 BY <2>1 DEF Fixed
    <3>2. \A i \in 1..2 : messages[i].role \in {"system", "request"}
      <4> TAKE i \in 1..2
      <4>1. i = 1 \/ i = 2 OBVIOUS
      <4>2. QED BY <1>2, <1>3, <2>1, <4>1
    <3>3. QED BY <1>3, <1>4, <3>1, <3>2 DEF Fit, Talk!Immutable
  <2>2. CASE speaker # "graph"
    <3>1. Fixed = 1 BY <2>2 DEF Fixed
    <3>2. messages[1].role = "system" /\ messages[2].role = "user" BY <1>2, <1>3, <2>2
    <3>3. \A i \in 1..1 : i = 1 OBVIOUS
    <3>4. \A i \in (1 + 1)..2 : i = 2 OBVIOUS
    <3>5. \A i \in 1..2 : messages[i].role # "summary"
      <4> TAKE i \in 1..2
      <4>1. i = 1 \/ i = 2 OBVIOUS
      <4>2. QED BY <3>2, <4>1
    <3>6. QED BY <1>3, <1>4, <3>1, <3>2, <3>3, <3>4, <3>5 DEF Fit, Talk!Immutable
  <2>3. QED BY <2>1, <2>2
<1>6. Talk!Held(messages) = [i \in 1..said |-> i]
  <2>1. \A i \in 1..Len(messages) : messages[i].holds = <<0 + i>>
    <3> TAKE i \in 1..Len(messages)
    <3>1. i = 1 \/ i = 2 BY <1>3
    <3>2. QED BY <1>2, <1>3, <3>1
  <2>2. Talk!Held(messages) = [i \in 1..Len(messages) |-> 0 + i] BY <1>3, <2>1, HeldInOrder
  <2>3. QED BY <1>1, <1>3, <2>2
<1>7. speaker = "graph" => messages[2].role = "request" BY <1>2, <1>3
<1>8. QED BY <1>1, <1>5, <1>6, <1>7 DEF TalkKeeps

(* A conversation is sound: whole turns, all that was said once and in      *)
(* order, at most one summary, and the request of a run as it was.         *)
THEOREM TalkIsSound == Talk!Spec => []Talk!ConversationIsSound
<1>1. Talk!Init => TalkKeeps BY TalkBegins
<1>2. TalkKeeps /\ [Talk!Next]_Talk!vars => TalkKeeps'
  <2> SUFFICES ASSUME TalkKeeps, [Talk!Next]_Talk!vars PROVE TalkKeeps'
    OBVIOUS
  <2>1. CASE \E calls \in 0..MaxCalls : Talk!Turn(calls) BY <2>1, TurnKeeps
  <2>2. CASE \E tests \in 1..MaxCalls : Talk!Verifies(tests) BY <2>2, VerifyingKeeps
  <2>3. CASE Talk!TurnFails
    <3>1. /\ messages' \in Talk!Sendable \cup {messages} /\ said' = said /\ speaker' = speaker
      BY <2>3 DEF Talk!TurnFails
    <3>2. messages' \in Talk!Sendable BY <3>1 DEF Talk!Sendable
    <3>3. /\ Fit(messages', Fixed) /\ Talk!Held(messages') = [i \in 1..said |-> i]
          /\ (speaker = "graph" => messages'[2].role = "request")
      BY <3>2, SendableKeeps
    <3>4. Fixed' = Fixed BY <3>1 DEF Fixed
    <3>5. QED BY <3>1, <3>3, <3>4 DEF TalkKeeps
  <2>4. CASE UNCHANGED Talk!vars BY <2>4 DEF Talk!vars, TalkKeeps, Fixed
  <2>5. QED BY <2>1, <2>2, <2>3, <2>4 DEF Talk!Next
<1>3. TalkKeeps => Talk!ConversationIsSound
  <2> SUFFICES ASSUME TalkKeeps PROVE Talk!ConversationIsSound
    OBVIOUS
  <2>1. /\ Whole(messages)
        /\ \A i \in 1..Len(messages) : messages[i].role = "summary" => i = Fixed + 1
    BY DEF TalkKeeps, Fit
  <2>2. QED BY <2>1 DEF TalkKeeps, Talk!ConversationIsSound, Whole, Asked, Answered
<1>4. QED BY <1>1, <1>2, <1>3, PTL DEF Talk!Spec

-----------------------------------------------------------------------------
(* All of them: a step of the composition is a step of each part, or leaves *)
(* it alone.                                                               *)
LEMMA AgentStepsAreParts ==
    ASSUME [AgentNext]_agentVars
    PROVE  /\ [Team!Next]_Team!vars /\ [Term!Next]_Term!vars /\ [Command!Next]_Command!vars
           /\ [Legacy!Next]_Legacy!vars /\ [Trees!Next]_Trees!vars /\ [Tools!Next]_Tools!vars
           /\ [Model!Next]_Model!vars /\ [Talk!Next]_Talk!vars
<1>1. /\ teamVars = Team!vars /\ terminalVars = Term!vars /\ commandVars = Command!vars
      /\ legacyVars = Legacy!vars /\ treeVars = Trees!vars /\ callVars = Tools!vars
      /\ modelVars = Model!vars /\ talkVars = Talk!vars
  BY DEF teamVars, terminalVars, commandVars, legacyVars, treeVars, callVars, modelVars, talkVars,
         Team!vars, Term!vars, Command!vars, Legacy!vars, Trees!vars, Tools!vars,
         Model!vars, Talk!vars
<1>2. (/\ teamVars = Team!vars /\ terminalVars = Term!vars /\ commandVars = Command!vars
       /\ legacyVars = Legacy!vars /\ treeVars = Trees!vars /\ callVars = Tools!vars
       /\ modelVars = Model!vars /\ talkVars = Talk!vars)'
  BY DEF teamVars, terminalVars, commandVars, legacyVars, treeVars, callVars, modelVars, talkVars,
         Team!vars, Term!vars, Command!vars, Legacy!vars, Trees!vars, Tools!vars,
         Model!vars, Talk!vars
<1>3. CASE UNCHANGED agentVars BY <1>1, <1>2, <1>3 DEF agentVars
<1>4. CASE AgentNext
  <2>1. PICK part \in AgentParts : AgentStep(part) BY <1>4 DEF AgentNext
  <2>2. /\ Team!Next \/ UNCHANGED teamVars
        /\ Term!Next \/ UNCHANGED terminalVars
        /\ Command!Next \/ UNCHANGED commandVars
        /\ Legacy!Next \/ UNCHANGED legacyVars
        /\ Trees!Next \/ UNCHANGED treeVars
        /\ Tools!Next \/ UNCHANGED callVars
        /\ Model!Next \/ UNCHANGED modelVars
        /\ Talk!Next \/ UNCHANGED talkVars
    BY <2>1 DEF AgentStep
  <2>3. QED BY <1>1, <1>2, <2>2
<1>5. QED BY <1>3, <1>4

(* Of a team: success is within the budget and has every role's and every   *)
(* check's success, whatever the other parts do (SuccessIsEarned).         *)
THEOREM AgentsEarnSuccess == AgentSpec => []SuccessIsEarned
<1>1. AgentInit => Team!Init BY DEF AgentInit
<1>2. [AgentNext]_agentVars => [Team!Next]_Team!vars BY AgentStepsAreParts
<1>3. Team!SuccessIsEarned => SuccessIsEarned BY DEF SuccessIsEarned
<1>4. QED BY <1>1, <1>2, <1>3, TeamEarnsSuccess, PTL DEF AgentSpec, Team!Spec

(* Of a terminal: one session at a time, and what is queued is started      *)
(* (TerminalKeepsOrder).                                                   *)
THEOREM TerminalsKeepOrder == AgentSpec => []TerminalKeepsOrder
<1>1. AgentInit => Term!Init BY DEF AgentInit
<1>2. [AgentNext]_agentVars => [Term!Next]_Term!vars BY AgentStepsAreParts
<1>3. Term!TerminalKeepsOrder => TerminalKeepsOrder BY DEF TerminalKeepsOrder
<1>4. QED BY <1>1, <1>2, <1>3, TerminalOrder, PTL DEF AgentSpec, Term!Spec

(* Of what is run for a model: a command with a result is over, with what   *)
(* its kill reached (a container and the group of a leader that ended are   *)
(* not reached), and tool calls take effect in the model's order            *)
(* (ResultIsFinal).                                                        *)
THEOREM ResultsAreFinal == AgentSpec => []ResultIsFinal
<1>1. AgentInit => Command!Init /\ Tools!Init BY DEF AgentInit
<1>2. [AgentNext]_agentVars => [Command!Next]_Command!vars /\ [Tools!Next]_Tools!vars
  BY AgentStepsAreParts
<1>3. Command!ResultIsFinal /\ Tools!CallsTakeEffectInOrder => ResultIsFinal
  BY DEF ResultIsFinal
<1>4. Tools!Spec => []Tools!CallsTakeEffectInOrder
  BY CallsAssumption, ToolCallsTakeEffectInOrder
<1>5. QED BY <1>1, <1>2, <1>3, <1>4, CommandResultIsFinal, PTL
          DEF AgentSpec, Command!Spec, Tools!Spec

(* Of a task and of a run: the places that know of a legacy task agree, and *)
(* a run has its worktree and branch for itself (PlacesAgree).             *)
THEOREM TasksAndTreesAgree == AgentSpec => []PlacesAgree
<1>1. AgentInit => Legacy!Init /\ Trees!Init BY DEF AgentInit
<1>2. [AgentNext]_agentVars => [Legacy!Next]_Legacy!vars /\ [Trees!Next]_Trees!vars
  BY AgentStepsAreParts
<1>3. Legacy!PlacesAgree /\ Trees!WorktreeIsOwn => PlacesAgree BY DEF PlacesAgree
<1>4. Legacy!Spec => []Legacy!PlacesAgree BY TasksAssumption, LegacyPlacesAgree
<1>5. Trees!Spec => []Trees!WorktreeIsOwn BY BranchesAssumption, WorktreesAreOwn
<1>6. QED BY <1>1, <1>2, <1>3, <1>4, <1>5, PTL DEF AgentSpec, Legacy!Spec, Trees!Spec

(* Of a client of a model: its rate, whatever the other parts do            *)
(* (RateIsBounded).                                                        *)
THEOREM ModelsKeepRate == AgentSpec => []RateIsBounded
<1>1. AgentInit => Model!Init BY DEF AgentInit
<1>2. [AgentNext]_agentVars => [Model!Next]_Model!vars BY AgentStepsAreParts
<1>3. Model!RateIsBounded => RateIsBounded BY DEF RateIsBounded
<1>4. QED BY <1>1, <1>2, <1>3, ClientKeepsRate, PTL DEF AgentSpec, Model!Spec

(* Of a conversation: what a model is sent is whole (ConversationIsSound).  *)
THEOREM ConversationsAreSound == AgentSpec => []ConversationIsSound
<1>1. AgentInit => Talk!Init BY DEF AgentInit
<1>2. [AgentNext]_agentVars => [Talk!Next]_Talk!vars BY AgentStepsAreParts
<1>3. Talk!ConversationIsSound => ConversationIsSound BY DEF ConversationIsSound
<1>4. QED BY <1>1, <1>2, <1>3, TalkIsSound, PTL DEF AgentSpec, Talk!Spec
=============================================================================
