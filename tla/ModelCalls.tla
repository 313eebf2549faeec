----------------------------- MODULE ModelCalls -----------------------------
(***************************************************************************)
(* The client of a language model that the runs, roles and sub-agents of a *)
(* process share: a semaphore, a limit on the requests of a minute,        *)
(* retries of transient errors, and a fallback to another model.  One call *)
(* is followed to its end, among any number of others.                     *)
(***************************************************************************)
EXTENDS Naturals, FiniteSetsExt

CONSTANTS
    Profiles,       \* the profiles a client may be made with
    Minute          \* ticks of the clock in a minute

ProfileRows == [max_concurrency : Nat, requests_per_minute : Nat \ {0}, max_retries : Nat]

VARIABLES
    profile,    \* ModelProfile
    ages,       \* _request_times: how many requests were sent how long ago, at once
    late,       \* or after a sleep
    asleep,     \* other calls in _throttle, by what is left of their sleep
    sending,    \* other calls whose request is under way
    request     \* the call: where it is, its sleep, attempts, last Retry-After, answer

vars == <<profile, ages, late, asleep, sending, request>>

Errors == {"transient", "authentication", "context", "other", "invalid"}
Places == {"new", "entering", "throttled", "sending", "waiting", "fallback", "over"}
Total(f) == MapThenSumSet(LAMBDA i : f[i], DOMAIN f)

Init ==
    /\ profile \in Profiles
    /\ ages = [a \in 0..(Minute - 1) |-> 0]
    /\ late = ages
    /\ asleep = [d \in 0..Minute |-> 0]
    /\ sending = 0
    /\ request = [at |-> "new", left |-> 0, tries |-> 0, heeded |-> 0, answer |-> "none"]

Inside == Total(asleep) + sending + (IF request.at \in {"throttled", "sending"} THEN 1 ELSE 0)

(* Time passes.  A call whose sleep is over may be late.                    *)
Older(f) == [a \in DOMAIN f |-> IF a = 0 THEN 0 ELSE f[a - 1]]
Less(d) == IF d = 0 THEN 0 ELSE d - 1
Tick ==
    /\ ages' = Older(ages) /\ late' = Older(late)
    /\ asleep' = [d \in DOMAIN asleep |->
                    (IF d = 0 THEN asleep[0] ELSE 0) + (IF d = Minute THEN 0 ELSE asleep[d + 1])]
    /\ request' = [request EXCEPT !.left = Less(@)]
    /\ UNCHANGED <<profile, sending>>

-----------------------------------------------------------------------------
\* Mutant: off by one.
FullLater == Total(ages) + Total(late) > profile.requests_per_minute

(* The limit of _throttle: the oldest request has to leave the window.      *)
Full == Total(ages) + Total(late) >= profile.requests_per_minute
Delay == Minute - Max({a \in DOMAIN ages : ages[a] + late[a] > 0})

\* Mutant: one place too many.
AdmittedOneMore == Inside <= profile.max_concurrency

(* The semaphore, held through the sleep and the request.                  *)
Admitted == Inside < profile.max_concurrency

Sent(window) == [window EXCEPT ![0] = @ + 1]

(* Without a sleep _throttle never yields: the check and the entry in the   *)
(* window are one step.                                                    *)
OtherEnters ==
    /\ Admitted
    /\ IF Full
       THEN asleep' = [asleep EXCEPT ![Delay] = @ + 1] /\ UNCHANGED <<ages, sending>>
       ELSE ages' = Sent(ages) /\ sending' = sending + 1 /\ UNCHANGED asleep
    /\ UNCHANGED <<profile, late, request>>

(* After the sleep the window is not looked at again.                      *)
OtherSends ==
    /\ asleep[0] > 0
    /\ asleep' = [asleep EXCEPT ![0] = @ - 1]
    /\ late' = Sent(late) /\ sending' = sending + 1
    /\ UNCHANGED <<profile, ages, request>>

OtherAnswered ==
    /\ sending > 0
    /\ sending' = sending - 1
    /\ UNCHANGED <<profile, ages, late, asleep, request>>

-----------------------------------------------------------------------------
Starts ==
    /\ request.at = "new"
    /\ request' = [request EXCEPT !.at = "entering"]
    /\ UNCHANGED <<profile, ages, late, asleep, sending>>

Enters ==
    /\ request.at = "entering" /\ Admitted
    /\ IF Full
       THEN request' = [request EXCEPT !.at = "throttled", !.left = Delay] /\ UNCHANGED ages
       ELSE ages' = Sent(ages) /\ request' = [request EXCEPT !.at = "sending"]
    /\ UNCHANGED <<profile, late, asleep, sending>>

Sends ==
    /\ request.at = "throttled" /\ request.left = 0
    /\ late' = Sent(late) /\ request' = [request EXCEPT !.at = "sending"]
    /\ UNCHANGED <<profile, ages, asleep, sending>>

(* FallbackModel: transient errors and invalid responses only.             *)
Settled(result) ==
    [request EXCEPT !.answer = result,
                    !.at = IF result \in {"transient", "invalid"} THEN "fallback" ELSE "over"]

(* The status is looked at, and the body parsed.                           *)
Responds(result) ==
    /\ request.at = "sending" /\ result # "transient"
    /\ request' = Settled(result)
    /\ UNCHANGED <<profile, ages, late, asleep, sending>>

(* A transient error: by status, with or without Retry-After, or of the     *)
(* network, which leaves the response of an earlier attempt in place.      *)
Fails(network, after) ==
    LET heeded == IF network THEN request.heeded ELSE after IN
    /\ request.at = "sending"
    /\ request' = IF request.tries >= profile.max_retries THEN Settled("transient")
                  ELSE [request EXCEPT !.at = "waiting", !.tries = @ + 1, !.heeded = heeded,
                                       !.left = IF heeded > 0 THEN heeded ELSE 1]
    /\ UNCHANGED <<profile, ages, late, asleep, sending>>

Retries ==
    /\ request.at = "waiting" /\ request.left = 0
    /\ request' = [request EXCEPT !.at = "entering"]
    /\ UNCHANGED <<profile, ages, late, asleep, sending>>

(* The other model answers, or its error is the answer.                    *)
FallsBack(result) ==
    /\ request.at = "fallback"
    /\ request' = [request EXCEPT !.answer = result, !.at = "over"]
    /\ UNCHANGED <<profile, ages, late, asleep, sending>>

Next ==
    \/ Tick \/ OtherEnters \/ OtherSends \/ OtherAnswered
    \/ Starts \/ Enters \/ Sends \/ Retries
    \/ \E result \in {"ok"} \cup Errors : Responds(result) \/ FallsBack(result)
    \/ \E network \in BOOLEAN, after \in {0, 2} : Fails(network, after)

Spec == Init /\ [][Next]_vars

-----------------------------------------------------------------------------
TypeOK ==
    /\ profile \in Profiles
    /\ ages \in [0..(Minute - 1) -> Nat] /\ late \in [0..(Minute - 1) -> Nat]
    /\ asleep \in [0..Minute -> 0..profile.max_concurrency]
    /\ sending \in 0..profile.max_concurrency
    /\ request \in [at : Places, left : 0..Minute, tries : 0..profile.max_retries, heeded : {0, 2},
                    answer : Errors \cup {"none", "ok"}]

(* requests_per_minute is exact for one caller at a time, and for those     *)
(* who need not sleep.  Callers who slept for the same request wake         *)
(* together and none looks at the window again: at any instant each place   *)
(* of the semaphore can add a request beyond the limit, but no more.       *)
RateIsBounded ==
    /\ Total(ages) <= profile.requests_per_minute
    /\ \A a \in DOMAIN late : late[a] <= profile.max_concurrency
    /\ profile.max_concurrency = 1 => Total(ages) + Total(late) <= profile.requests_per_minute
=============================================================================
