------------------------------ MODULE Terminal ------------------------------
(***************************************************************************)
(* The sessions of one TUI.  A session is a worker task of the event loop  *)
(* that executes, resumes or forks a run; the terminal keeps the worker it *)
(* started last, the run ids it believes in, and one queued prompt.        *)
(* A worker that is cancelled goes on until it has handled that.           *)
(***************************************************************************)
EXTENDS Naturals, Sequences

CONSTANT MaxSessions    \* bound on the sessions a terminal starts

VARIABLES
    sessions,   \* the workers started so far, in order
    queued,     \* a prompt waits for the current run to finish
    drains,     \* calls of _drain_queue scheduled after the next refresh
    current,    \* current_run_id: none, or the session it was made for
    pending,    \* pending_run_id: a run whose last known status was awaiting
    held        \* history: a prompt was queued while the worker was being cancelled

vars == <<sessions, queued, drains, current, pending, held>>

Kinds == {"execute", "resume", "fork"}

Init ==
    /\ sessions = <<>> /\ queued = FALSE /\ drains = 0
    /\ current = 0 /\ pending = FALSE /\ held = FALSE

(* active_worker is the last one started.                                   *)
Active == Len(sessions)
Finished(i) == sessions[i].state = "finished"
Cancelled(w) == [w EXCEPT !.state = IF @ = "starting" THEN "unborn" ELSE "cancelled"]
Busy == Active > 0 /\ ~ Finished(Active)

-----------------------------------------------------------------------------
(* run_worker with exclusive=True cancels the workers before it.           *)
Started(kind) ==
    Append([i \in 1..Active |-> IF sessions[i].state \in {"starting", "running"}
                                THEN Cancelled(sessions[i]) ELSE sessions[i]],
           [kind |-> kind, state |-> "starting", run |-> 0])

(* _begin_run, and the same lines of _start_resume and _start_fork.        *)
Begin(kind) ==
    /\ Active < MaxSessions
    /\ sessions' = Started(kind)
    /\ current' = Active + 1

(* A prompt, /review, /steer or a custom command: queued while a run is     *)
(* active; an earlier queued prompt is replaced.                           *)
Submit ==
    /\ IF Busy
       THEN /\ queued' = TRUE
            /\ held' = (sessions[Active].state \in {"unborn", "cancelled"})
            /\ UNCHANGED <<sessions, current>>
       ELSE Begin("execute") /\ UNCHANGED <<queued, held>>
    /\ UNCHANGED <<drains, pending>>

(* /approve and /deny (of the pending run), /resume, /fork: refused while   *)
(* a run is active.                                                        *)
Command(kind) ==
    /\ kind \in {"resume", "fork"}
    /\ ~ Busy
    /\ Begin(kind)
    /\ UNCHANGED <<queued, drains, pending, held>>

(* The worker's coroutine begins: a new run takes the id that is current    *)
(* now; a fork makes an id of its own.                                     *)
Starts(i) ==
    /\ sessions[i].state = "starting"
    /\ sessions' = [sessions EXCEPT ![i].state = "running",
                                    ![i].run = IF sessions[i].kind = "fork" THEN 0 ELSE current]
    /\ UNCHANGED <<queued, drains, current, pending, held>>

\* Mutant: the queue is looked at after a result, not after an error.
EndsUndrained(i, awaits, fails) ==
    /\ sessions[i].state = "running"
    /\ awaits => ~ fails
    /\ sessions' = [sessions EXCEPT ![i].state = "finished"]
    /\ pending' = IF fails THEN pending ELSE awaits
    /\ current' = 0
    /\ drains' = IF fails THEN drains ELSE drains + 1
    /\ UNCHANGED <<queued, held>>

(* _run_session got a result, or an error that the terminal survives.      *)
Ends(i, awaits, fails) ==
    /\ sessions[i].state = "running"
    /\ awaits => ~ fails
    /\ sessions' = [sessions EXCEPT ![i].state = "finished"]
    /\ pending' = IF fails THEN pending ELSE awaits
    /\ current' = 0
    /\ drains' = drains + 1
    /\ UNCHANGED <<queued, held>>

(* The cancellation arrives: nothing is drained.  A task that never began   *)
(* leaves without a trace.                                                 *)
CancelArrives(i) ==
    /\ sessions[i].state \in {"unborn", "cancelled"}
    /\ sessions' = [sessions EXCEPT ![i].state = "finished"]
    /\ current' = IF sessions[i].state = "cancelled" THEN 0 ELSE current
    /\ UNCHANGED <<queued, drains, pending, held>>

(* action_cancel drops the queued prompt, cancels the worker and then       *)
(* interrupts the current run (or the last one) by its stop file.          *)
Cancel ==
    /\ Busy
    /\ queued' = FALSE /\ held' = FALSE
    /\ sessions' = IF sessions[Active].state \in {"starting", "running"}
                   THEN [sessions EXCEPT ![Active] = Cancelled(@)] ELSE sessions
    /\ UNCHANGED <<drains, current, pending>>

(* _drain_queue starts the queued prompt without looking for another run.   *)
Drain ==
    /\ drains > 0
    /\ drains' = drains - 1
    /\ queued' = FALSE /\ held' = FALSE
    /\ IF queued THEN Begin("execute") ELSE UNCHANGED <<sessions, current>>
    /\ UNCHANGED pending

Next ==
    \/ Submit \/ Cancel \/ Drain
    \/ \E kind \in Kinds : Command(kind)
    \/ \E i \in 1..Active :
          \/ Starts(i) \/ CancelArrives(i)
          \/ \E awaits, fails \in BOOLEAN : Ends(i, awaits, fails)

Spec == Init /\ [][Next]_vars

-----------------------------------------------------------------------------
TypeOK ==
    /\ sessions \in Seq([kind : Kinds, run : 0..MaxSessions,
                         state : {"starting", "unborn", "running", "cancelled", "finished"}])
    /\ Active <= MaxSessions
    /\ current \in 0..MaxSessions /\ drains \in 0..MaxSessions
    /\ {queued, pending, held} \subseteq BOOLEAN

(* At most one session is at work and not about to leave: a queued prompt   *)
(* that starts late ends the run that was started before it.               *)
OneSessionAtATime ==
    \A i, j \in 1..Active :
        {sessions[i].state, sessions[j].state} \subseteq {"starting", "running"} => i = j

(* A queued prompt has something that will start it: a session at work or a *)
(* scheduled drain.  Only one that came between a cancellation and its     *)
(* arrival is left lying, until some later session ends.                   *)
QueuedIsDrained ==
    queued /\ ~ held => drains > 0 \/ sessions[Active].state \in {"starting", "running"}

TerminalKeepsOrder == OneSessionAtATime /\ QueuedIsDrained
=============================================================================
