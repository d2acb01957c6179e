---------------------------- MODULE RetryPolicy ----------------------------
(***************************************************************************)
(* What the retry loop of MusicBrainzClient::get promises each logical     *)
(* request (spec sections 3, 4.2 and 7), without locks, sleeps or status  *)
(* codes: a request starts, sends attempts one at a time, at most          *)
(* MaxRetries + 1 of them, and ends exactly once with one outcome.  It     *)
(* ends RateLimited only after every attempt of its budget was sent, and   *)
(* with any outcome but Cancelled only after at least one attempt.         *)
(***************************************************************************)
EXTENDS Naturals

CONSTANTS Tasks, MaxRetries

VARIABLES
    active,   \* per caller: a logical request is running
    sent,     \* per caller: attempts sent by the current request
    outcome   \* per caller: the outcome of its last request, "none" before

retryVars == <<active, sent, outcome>>

\* The MbResult variants of error.rs, and a request dropped by its caller.
Results == {"Ok", "ParseError", "NotFound", "RateLimited", "ApiError",
            "Request", "Cancelled"}

Init ==
    /\ active = [t \in Tasks |-> FALSE]
    /\ sent = [t \in Tasks |-> 0]
    /\ outcome = [t \in Tasks |-> "none"]

\* A caller starts a logical request.
Start(t) ==
    /\ ~active[t]
    /\ active' = [active EXCEPT ![t] = TRUE]
    /\ sent' = [sent EXCEPT ![t] = 0]
    /\ UNCHANGED outcome

\* The request sends one more attempt, within its budget.
Attempt(t) ==
    /\ active[t]
    /\ sent[t] <= MaxRetries
    /\ sent' = [sent EXCEPT ![t] = sent[t] + 1]
    /\ UNCHANGED <<active, outcome>>

\* The request ends with outcome r.
End(t, r) ==
    /\ active[t]
    /\ r = "RateLimited" => sent[t] = MaxRetries + 1
    /\ r # "Cancelled" => sent[t] >= 1
    /\ active' = [active EXCEPT ![t] = FALSE]
    /\ outcome' = [outcome EXCEPT ![t] = r]
    /\ UNCHANGED sent

Next ==
    \E t \in Tasks :
        \/ Start(t)
        \/ Attempt(t)
        \/ \E r \in Results : End(t, r)

Spec == Init /\ [][Next]_retryVars
=============================================================================
