-------------------------------- MODULE Gate --------------------------------
(***************************************************************************)
(* What the request gate of MusicBrainzClient promises (spec section 4.1  *)
(* and 4.2), without a lock, a queue or a sleep: callers enter the gate,  *)
(* one of them at a time leaves it by sending, and only once the last     *)
(* send is RateLimitInterval ticks old; a caller that has sent or given   *)
(* up is out, and a retried attempt enters the gate again.                *)
(***************************************************************************)
EXTENDS Naturals

CONSTANTS Tasks, RateLimitInterval

VARIABLES
    since,   \* ticks since the last send, capped at RateLimitInterval
    phase    \* per caller: "out", "gate" (waiting to send), "sent"

gateVars == <<since, phase>>

Init ==
    /\ since = RateLimitInterval
    /\ phase = [t \in Tasks |-> "out"]

\* A caller starts an attempt and asks the gate for a slot.
Enter(t) ==
    /\ phase[t] = "out"
    /\ phase' = [phase EXCEPT ![t] = "gate"]
    /\ UNCHANGED since

\* The gate lets a caller send once the interval has passed.
Send(t) ==
    /\ phase[t] = "gate"
    /\ since >= RateLimitInterval
    /\ since' = 0
    /\ phase' = [phase EXCEPT ![t] = "sent"]

\* A caller gives up its slot request, or its attempt ends.
Leave(t) ==
    /\ phase[t] # "out"
    /\ phase' = [phase EXCEPT ![t] = "out"]
    /\ UNCHANGED since

Tick ==
    /\ since' = IF since < RateLimitInterval THEN since + 1 ELSE since
    /\ UNCHANGED phase

Next ==
    \/ \E t \in Tasks : Enter(t) \/ Send(t) \/ Leave(t)
    \/ Tick

Spec == Init /\ [][Next]_gateVars
=============================================================================
