------------------------------ MODULE RunStream ------------------------------
(***************************************************************************)
(* The events of one run: the worker and the API append them to a Redis    *)
(* stream that is trimmed, the API serves the stream to any number of SSE  *)
(* connections, and two kinds of clients read it over connections that     *)
(* break: the page of the web console (useSSE) and the command's follow    *)
(* loop, which waits for the end of the run.                               *)
(***************************************************************************)
EXTENDS Naturals, Sequences, SequencesExt, FiniteSetsExt

CONSTANTS
    MaxEvents,  \* bound on the events of the run
    MaxLen,     \* the entries the stream keeps (10 000 in the code)
    ReadCount,  \* the entries of one read (100 in the code)
    MaxRetries  \* failed connections in a row before a client gives up

VARIABLES
    stage,      \* how far the run is: its worker, the row's status, its last event
    log,        \* the stream: entries [id, ends], ends if the event tells of an end
    lastId,     \* the id of the last entry ever added
    link,       \* per client: off, open, done (it stopped reading)
    cursor,     \* per client: where the server's generator of the link is
    wire,       \* per client: entries on their way over the link
    got,        \* per client: the last id it handled (Last-Event-ID)
    failures,   \* per client: connections that failed in a row
    skipped,    \* history, per client: entries it passed over without handling
    unanswered  \* history: the follower's look after the very last entry failed

vars == <<stage, log, lastId, link, cursor, wire, got, failures, skipped, unanswered>>
clients == <<link, cursor, wire, got, failures, skipped, unanswered>>

Clients == {"console", "follower"}

Init ==
    /\ stage = "queued" /\ log = <<>> /\ lastId = 0
    /\ link = [c \in Clients |-> "off"]
    /\ cursor = [c \in Clients |-> 0]
    /\ wire = [c \in Clients |-> <<>>]
    /\ got = [c \in Clients |-> 0]
    /\ failures = [c \in Clients |-> 0]
    /\ skipped = [c \in Clients |-> {}]
    /\ unanswered = FALSE

-----------------------------------------------------------------------------
Add(ends) ==
    /\ lastId < MaxEvents
    /\ lastId' = lastId + 1
    /\ log' = Append(log, [id |-> lastId + 1, ends |-> ends])

WorkerStarts ==
    /\ stage = "queued"
    /\ stage' = "running"
    /\ Add(FALSE)
    /\ UNCHANGED clients

(* Room is left for the last two events.                                   *)
WorkerEmits ==
    /\ stage = "running" /\ lastId + 2 < MaxEvents
    /\ Add(FALSE)
    /\ UNCHANGED <<stage, clients>>

(* task_end, from run_finished or from publish_result: before the callback. *)
WorkerFinishes ==
    /\ stage = "running"
    /\ stage' = "finished"
    /\ Add(TRUE)
    /\ UNCHANGED clients

(* apply_worker_result commits the final status ...                        *)
ResultCommitted ==
    /\ stage = "finished"
    /\ stage' = "committed"
    /\ UNCHANGED <<log, lastId, clients>>

\* Mutant: the end is not published again once it can be read.
ResultUnpublished ==
    /\ stage = "committed"
    /\ stage' = "persisted"
    /\ UNCHANGED <<log, lastId, clients>>

(* ... and then publishes it (result.persisted).                           *)
ResultPublished ==
    /\ stage = "committed"
    /\ stage' = "persisted"
    /\ Add(TRUE)
    /\ UNCHANGED clients

(* MAXLEN ~: Redis trims when it is convenient, whoever has read what.     *)
Trim ==
    /\ Len(log) > MaxLen
    /\ log' = Tail(log)
    /\ UNCHANGED <<stage, lastId, clients>>

-----------------------------------------------------------------------------
(* A client connects and says where it was; the generator starts there.    *)
Connect(c) ==
    /\ link[c] = "off"
    /\ link' = [link EXCEPT ![c] = "open"]
    /\ cursor' = [cursor EXCEPT ![c] = got[c]]
    /\ failures' = IF c = "console" THEN [failures EXCEPT ![c] = 0] ELSE failures
    /\ UNCHANGED <<stage, log, lastId, wire, got, skipped, unanswered>>

(* XREAD: the next entries after a position, in the order of the stream.    *)
After(id) ==
    LET seen == SelectLastInSeq(log, LAMBDA e : e.id <= id)
    IN  SubSeq(log, seen + 1, Min({seen + ReadCount, Len(log)}))

(* What a generator passes over when it moves: what was trimmed before.     *)
Lost(from, to) == ((from + 1)..to) \ {e.id : e \in ToSet(log)}

\* Mutant: the generator starts with the newest entry ("$").
ServerReadsNewest(c) ==
    /\ link[c] = "open" /\ After(cursor[c]) # <<>>
    /\ wire' = [wire EXCEPT ![c] = Append(@, Last(log))]
    /\ cursor' = [cursor EXCEPT ![c] = Last(log).id]
    /\ skipped' = [skipped EXCEPT ![c] = @ \cup Lost(cursor[c], Last(log).id)]
    /\ UNCHANGED <<stage, log, lastId, link, got, failures, unanswered>>

(* The generator sends what it reads, and when there is nothing a           *)
(* heartbeat: it reads again, so that a read that missed its wakeup is     *)
(* late but not lost.                                                      *)
ServerReads(c) ==
    LET read == After(cursor[c]) IN
    /\ link[c] = "open" /\ read # <<>>
    /\ wire' = [wire EXCEPT ![c] = @ \o read]
    /\ cursor' = [cursor EXCEPT ![c] = Last(read).id]
    /\ skipped' = [skipped EXCEPT ![c] = @ \cup Lost(cursor[c], Last(read).id)]
    /\ UNCHANGED <<stage, log, lastId, link, got, failures, unanswered>>

(* The row is read anew after an event that tells of an end.               *)
Terminal == stage \in {"committed", "persisted"}

(* A whole event arrived: its id is kept for the next connection.  The      *)
(* console shows it; the follower looks whether the run is over (get_run),  *)
(* and if it is told so, returns.                                          *)
Handles(c) ==
    /\ link[c] = "open" /\ wire[c] # <<>>
    /\ got' = [got EXCEPT ![c] = Head(wire[c]).id]
    /\ wire' = [wire EXCEPT ![c] = Tail(@)]
    /\ link' = IF c = "follower" /\ Head(wire[c]).ends /\ Terminal
               THEN [link EXCEPT ![c] = "done"] ELSE link
    /\ UNCHANGED <<stage, log, lastId, cursor, failures, skipped, unanswered>>

(* A connection that failed is tried again, but not more often than retries. *)
TriesAgain(c) ==
    IF failures[c] < MaxRetries
    THEN /\ failures' = [failures EXCEPT ![c] = @ + 1]
         /\ link' = [link EXCEPT ![c] = "off"]
    ELSE /\ link' = [link EXCEPT ![c] = "done"]
         /\ UNCHANGED failures

(* The look fails instead (RemoteError).  The id was kept before it: the    *)
(* follower connects again after this entry and is not sent it again, so   *)
(* that after the last one nothing makes it look again but a link's end.   *)
LookFails ==
    LET c == "follower" IN
    /\ link[c] = "open" /\ wire[c] # <<>> /\ Head(wire[c]).ends
    /\ got' = [got EXCEPT ![c] = Head(wire[c]).id]
    /\ wire' = [wire EXCEPT ![c] = <<>>]
    /\ unanswered' = (unanswered \/ (stage = "persisted" /\ Head(wire[c]).id = lastId))
    /\ TriesAgain(c)
    /\ UNCHANGED <<stage, log, lastId, cursor, skipped>>

(* The link ends without an error: the console connects again, the follower *)
(* looks at the run first and starts counting its failures anew.           *)
LinkEnds(c) ==
    /\ link[c] = "open"
    /\ wire' = [wire EXCEPT ![c] = <<>>]
    /\ link' = [link EXCEPT ![c] = IF c = "follower" /\ Terminal THEN "done" ELSE "off"]
    /\ failures' = [failures EXCEPT ![c] = 0]
    /\ UNCHANGED <<stage, log, lastId, cursor, got, skipped, unanswered>>

(* The link breaks, or cannot be made, or the follower's look at its end    *)
(* fails: what was on its way is lost.                                     *)
LinkFails(c) ==
    /\ link[c] # "done"
    /\ wire' = [wire EXCEPT ![c] = <<>>]
    /\ TriesAgain(c)
    /\ UNCHANGED <<stage, log, lastId, cursor, got, skipped, unanswered>>

(* The API refuses the follower (a 4xx): it does not try again.             *)
Refused ==
    /\ link["follower"] = "off"
    /\ link' = [link EXCEPT !["follower"] = "done"]
    /\ UNCHANGED <<stage, log, lastId, cursor, wire, got, failures, skipped, unanswered>>

(* The page is left and opened again: everything is read from the start.   *)
Reopen ==
    /\ link' = [link EXCEPT !["console"] = "off"]
    /\ got' = [got EXCEPT !["console"] = 0]
    /\ wire' = [wire EXCEPT !["console"] = <<>>]
    /\ failures' = [failures EXCEPT !["console"] = 0]
    /\ skipped' = [skipped EXCEPT !["console"] = {}]
    /\ UNCHANGED <<stage, log, lastId, cursor, unanswered>>

Serve(c) == Connect(c) \/ ServerReads(c) \/ Handles(c)

Finish == ResultCommitted \/ ResultPublished

Next ==
    \/ WorkerStarts \/ WorkerEmits \/ WorkerFinishes \/ Finish \/ Trim
    \/ \E c \in Clients : Serve(c) \/ LinkEnds(c) \/ LinkFails(c)
    \/ LookFails \/ Refused \/ Reopen

Spec == Init /\ [][Next]_vars

(* The API answers callbacks, and serves and delivers over links that work. *)
Fairness ==
    /\ WF_vars(Finish)
    /\ \A c \in Clients : WF_vars(Connect(c) \/ ServerReads(c)) /\ WF_vars(Handles(c))

FairSpec == Spec /\ Fairness

-----------------------------------------------------------------------------
TypeOK ==
    /\ stage \in {"queued", "running", "finished", "committed", "persisted"}
    /\ log \in Seq([id : 1..MaxEvents, ends : BOOLEAN])
    /\ lastId \in 0..MaxEvents
    /\ link \in [Clients -> {"off", "open", "done"}]
    /\ cursor \in [Clients -> 0..MaxEvents] /\ got \in [Clients -> 0..MaxEvents]
    /\ wire \in [Clients -> Seq([id : 1..MaxEvents, ends : BOOLEAN])]
    /\ failures \in [Clients -> 0..MaxRetries]
    /\ skipped \in [Clients -> SUBSET (1..MaxEvents)] /\ unanswered \in BOOLEAN

(* Between what a client has handled and what it will be sent over its      *)
(* connection lies no entry but those the stream lost first: reconnecting  *)
(* neither skips an event nor repeats one.                                 *)
NothingSkipped ==
    \A c \in Clients :
        link[c] = "open" =>
            LET coming == {e.id : e \in ToSet(wire[c])} IN
            /\ \A id \in coming : id > got[c]
            /\ (got[c] + 1)..cursor[c] \subseteq coming \cup skipped[c]

(* Once the result can be read, the follow loop returns or is given up,     *)
(* although the event of the end it first sees comes before the result and *)
(* a look at the run may fail: it goes on until a later event makes it look *)
(* again.  Only when the look after the very last one fails it may go on.   *)
FollowEnds == stage = "committed" ~> link["follower"] = "done" \/ unanswered
=============================================================================
