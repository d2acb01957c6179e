------------------------- MODULE MBClientRetryProofs -------------------------
(***************************************************************************)
(* Proofs about the retry loop of MusicBrainzClient::get (client.rs lines  *)
(* 87-131): the backoff schedule, and the refinement of the abstract retry *)
(* policy of RetryPolicy, for every number of callers and every value of   *)
(* INITIAL_BACKOFF and MAX_RETRIES.                                        *)
(***************************************************************************)
EXTENDS MBClientProofs

-----------------------------------------------------------------------------
(* The backoff schedule.                                                  *)

(* The facts of exponentiation the schedule rests on: 2^0 = 1, and        *)
(* 2^(n+1) = 2 * 2^n is a natural number for every natural n.  They are   *)
(* the definition of ^ on Nat, which the SMT backend does not know.       *)
ExpFacts ==
    /\ 2^0 = 1
    /\ \A n \in Nat : 2^n \in Nat /\ 2^(n + 1) = 2 * 2^n

(* After k retries, get()'s `backoff` is INITIAL_BACKOFF * 2^k, and the   *)
(* caller has slept one INITIAL_BACKOFF less than that: the sleeps were   *)
(* INITIAL_BACKOFF * (1 + 2 + ... + 2^(k-1)).                             *)
BackoffOK(t) ==
    /\ backoff[t] = InitialBackoff * 2^retries[t]
    /\ slept[t] + InitialBackoff = backoff[t]

BackoffInv == \A t \in Tasks : BackoffOK(t)

(* A step of caller t that leaves the retry state of every other caller  *)
(* alone keeps BackoffInv once it keeps BackoffOK(t).                     *)
LEMMA BackoffLocal ==
    ASSUME BackoffInv, NEW t \in Tasks, BackoffOK(t)',
           \A u \in Tasks \ {t} :
               /\ retries'[u] = retries[u] /\ backoff'[u] = backoff[u]
               /\ slept'[u] = slept[u]
    PROVE  BackoffInv'
  BY DEF BackoffInv, BackoffOK

(* Every step keeps BackoffInv: a call starts the schedule at             *)
(* INITIAL_BACKOFF (lines 87-88), a retry sleeps `backoff` and doubles it *)
(* (lines 113-119), and nothing else touches the retry state.             *)
LEMMA BackoffStep ==
    ASSUME ExpFacts
    PROVE  TypeOK /\ BackoffInv /\ [Next]_vars => BackoffInv'
  <1> SUFFICES ASSUME TypeOK, BackoffInv, [Next]_vars PROVE BackoffInv'
    OBVIOUS
  <1>0. /\ retries \in [Tasks -> 0..MaxRetries]
        /\ backoff \in [Tasks -> Nat]
        /\ slept \in [Tasks -> Nat]
        /\ InitialBackoff \in Nat
    BY ConstantsAssumption DEF TypeOK
  <1>1. ASSUME NEW t \in Tasks, Call(t) PROVE BackoffInv'
    <2>1. /\ retries' = [retries EXCEPT ![t] = 0]
          /\ backoff' = [backoff EXCEPT ![t] = InitialBackoff]
          /\ slept' = [slept EXCEPT ![t] = 0]
      BY <1>1 DEF Call
    <2>2. BackoffOK(t)'
      BY <1>0, <2>1 DEF ExpFacts, BackoffOK
    <2>3. QED
      BY <1>0, <2>1, <2>2, BackoffLocal
  <1>2. ASSUME NEW t \in Tasks, Backoff(t) PROVE BackoffInv'
    <2>1. /\ retries' = [retries EXCEPT ![t] = retries[t] + 1]
          /\ backoff' = [backoff EXCEPT ![t] = 2 * backoff[t]]
          /\ slept' = [slept EXCEPT ![t] = slept[t] + backoff[t]]
      BY <1>2 DEF Backoff
    <2>2. /\ retries[t] \in Nat
          /\ 2^retries[t] \in Nat
          /\ 2^(retries[t] + 1) = 2 * 2^retries[t]
      BY <1>0 DEF ExpFacts
    <2>3. BackoffOK(t)
      BY DEF BackoffInv
    <2>4. BackoffOK(t)'
      BY <1>0, <2>1, <2>2, <2>3 DEF BackoffOK
    <2>5. QED
      BY <1>0, <2>1, <2>4, BackoffLocal
  <1>3. ASSUME UNCHANGED <<retries, backoff, slept>> PROVE BackoffInv'
    BY <1>3 DEF BackoffInv, BackoffOK
  <1>4. ASSUME NEW t \in Tasks,
               \/ Acquire(t) \/ Pass(t) \/ Complete(t) \/ GiveUp(t)
               \/ Resume(t) \/ Cancel(t)
        PROVE  BackoffInv'
    <2>1. UNCHANGED <<retries, backoff, slept>>
      BY <1>4 DEF Acquire, Pass, Complete, GiveUp, Resume, Cancel, ghostVars
    <2>2. QED
      BY <2>1, <1>3
  <1>5. CASE Tick
    BY <1>5, <1>3 DEF Tick
  <1>6. CASE UNCHANGED vars
    BY <1>6, <1>3 DEF vars, callerVars, ghostVars
  <1>7. QED
    BY <1>1, <1>2, <1>4, <1>5, <1>6 DEF Next, Step

(* BackoffScheduleHolds: BackoffSchedule, for every INITIAL_BACKOFF and   *)
(* every MAX_RETRIES, from the defining facts of ^: after k retries of    *)
(* get() the caller has slept INITIAL_BACKOFF * (2^k - 1) in all, each    *)
(* sleep using `backoff` before it is doubled (lines 118-119), however    *)
(* the callers interleave and whether or not earlier calls were dropped.  *)
THEOREM BackoffScheduleHolds == ExpFacts => (Spec => []BackoffSchedule)
  <1> SUFFICES ASSUME ExpFacts PROVE Spec => []BackoffSchedule
    OBVIOUS
  <1>1. Init => BackoffInv
    <2> SUFFICES ASSUME Init, NEW t \in Tasks PROVE BackoffOK(t)
      BY DEF BackoffInv
    <2>1. retries[t] = 0 /\ backoff[t] = InitialBackoff /\ slept[t] = 0
      BY DEF Init
    <2>2. InitialBackoff * 2^retries[t] = InitialBackoff
      <3>1. 2^retries[t] = 1
        BY <2>1 DEF ExpFacts
      <3>2. QED
        BY <3>1, ConstantsAssumption
    <2>3. QED
      BY <2>1, <2>2, ConstantsAssumption DEF BackoffOK
  <1>2. TypeOK /\ BackoffInv => BackoffSchedule
    <2> SUFFICES ASSUME TypeOK, BackoffInv, NEW t \in Tasks
                 PROVE  slept[t] = InitialBackoff * (2^retries[t] - 1)
      BY DEF BackoffSchedule
    <2>1. /\ retries[t] \in Nat /\ slept[t] \in Nat
          /\ InitialBackoff \in Nat
      BY ConstantsAssumption DEF TypeOK
    <2>2. 2^retries[t] \in Nat
      BY <2>1 DEF ExpFacts
    <2>3. slept[t] + InitialBackoff = InitialBackoff * 2^retries[t]
      BY DEF BackoffInv, BackoffOK
    <2>4. QED
      BY <2>1, <2>2, <2>3
  <1>3. TypeOK /\ BackoffInv /\ [Next]_vars => BackoffInv'
    BY BackoffStep
  <1>4. QED
    BY <1>1, <1>2, <1>3, TypeCorrect, PTL DEF Spec

-----------------------------------------------------------------------------
(* Refinement of the abstract retry policy.                               *)

(* Moving one caller to location l changes only whether that caller has a *)
(* request running.                                                       *)
LEMMA BusyMove ==
    ASSUME NEW t \in Tasks, NEW l, pc \in [Tasks -> Locations],
           pc' = [pc EXCEPT ![t] = l]
    PROVE  /\ Busy[t] = (pc[t] # "idle")
           /\ Busy' = [Busy EXCEPT ![t] = (l # "idle")]
  BY DEF Busy

(* Every step of get(), of a caller or of the clock, is a step of the     *)
(* retry policy or leaves its state unchanged: a call starts a request, a *)
(* send is one attempt, an answer, a give-up or a drop ends the request,  *)
(* and the lock, the sleeps and the clock are invisible to it.            *)
LEMMA RetryRefineStep ==
    TypeOK /\ AttemptInv /\ [Next]_vars => [RetryAbs!Next]_RetryAbs!retryVars
  <1> SUFFICES ASSUME TypeOK, AttemptInv, [Next]_vars
               PROVE  [RetryAbs!Next]_RetryAbs!retryVars
    OBVIOUS
  <1>0. /\ pc \in [Tasks -> Locations]
        /\ attempts \in [Tasks -> Nat]
        /\ retries \in [Tasks -> 0..MaxRetries]
        /\ MaxRetries \in Nat
    BY ConstantsAssumption DEF TypeOK
  <1>1. ASSUME NEW t \in Tasks, Call(t) PROVE RetryAbs!Start(t)
    <2>1. /\ pc[t] = "idle" /\ pc' = [pc EXCEPT ![t] = "lock"]
          /\ attempts' = [attempts EXCEPT ![t] = 0]
          /\ result' = result
      BY <1>1 DEF Call
    <2>2. ~Busy[t] /\ Busy' = [Busy EXCEPT ![t] = TRUE]
      BY <1>0, <2>1 DEF Busy
    <2>3. QED
      BY <2>1, <2>2 DEF RetryAbs!Start
  <1>2. ASSUME NEW t \in Tasks, Pass(t) PROVE RetryAbs!Attempt(t)
    <2>1. /\ pc[t] \in {"lock", "gateSleep"}
          /\ pc' = [pc EXCEPT ![t] = "inflight"]
          /\ attempts' = [attempts EXCEPT ![t] = attempts[t] + 1]
          /\ result' = result
      BY <1>2 DEF Pass
    <2>2. attempts[t] <= MaxRetries
      BY <1>0, <2>1 DEF AttemptInv, AttemptOK
    <2>3. QED
      BY <1>0, <2>1, <2>2, BusyMove DEF RetryAbs!Attempt, Busy
  <1>3. ASSUME NEW t \in Tasks, NEW r \in RetryAbs!Results,
               pc[t] # "idle", pc' = [pc EXCEPT ![t] = "idle"],
               result' = [result EXCEPT ![t] = r], attempts' = attempts,
               r = "RateLimited" => attempts[t] = MaxRetries + 1,
               r # "Cancelled" => attempts[t] >= 1
        PROVE  RetryAbs!Next
    <2>1. RetryAbs!End(t, r)
      BY <1>0, <1>3, BusyMove DEF RetryAbs!End
    <2>2. QED
      BY <2>1 DEF RetryAbs!Next
  <1>4. ASSUME NEW t \in Tasks, Complete(t) PROVE RetryAbs!Next
    <2>1. PICK s \in TerminalStatuses :
               /\ pc[t] = "inflight" /\ pc' = [pc EXCEPT ![t] = "idle"]
               /\ result' = [result EXCEPT ![t] = Classify(s)]
               /\ attempts' = attempts
      BY <1>4 DEF Complete, Finish, ghostVars
    <2>2. Classify(s) \in RetryAbs!Results \ {"RateLimited", "Cancelled"}
      BY DEF TerminalStatuses, Statuses, Classify, RetryAbs!Results
    <2>3. attempts[t] >= 1
      BY <1>0, <2>1 DEF AttemptInv, AttemptOK
    <2>4. QED
      BY <2>1, <2>2, <2>3, <1>3
  <1>5. ASSUME NEW t \in Tasks, GiveUp(t) PROVE RetryAbs!Next
    <2>1. /\ pc[t] = "inflight" /\ pc' = [pc EXCEPT ![t] = "idle"]
          /\ retries[t] >= MaxRetries
          /\ result' = [result EXCEPT ![t] = "RateLimited"]
          /\ attempts' = attempts
      BY <1>5 DEF GiveUp, Finish, ghostVars
    <2>2. attempts[t] = MaxRetries + 1
      BY <1>0, <2>1 DEF AttemptInv, AttemptOK
    <2>3. /\ "RateLimited" \in RetryAbs!Results
          /\ pc[t] # "idle" /\ attempts[t] >= 1
      BY <1>0, <2>1, <2>2 DEF RetryAbs!Results
    <2>4. QED
      BY <2>1, <2>2, <2>3, <1>3
  <1>6. ASSUME NEW t \in Tasks, Cancel(t) PROVE RetryAbs!Next
    <2>1. /\ pc[t] # "idle" /\ pc' = [pc EXCEPT ![t] = "idle"]
          /\ result' = [result EXCEPT ![t] = "Cancelled"]
          /\ attempts' = attempts
      BY <1>6 DEF Cancel, Finish, ghostVars
    <2>2. QED
      BY <2>1, <1>3 DEF RetryAbs!Results
  <1>7. ASSUME NEW t \in Tasks, NEW l \in Locations \ {"idle"},
               pc[t] # "idle", pc' = [pc EXCEPT ![t] = l],
               attempts' = attempts, result' = result
        PROVE  UNCHANGED RetryAbs!retryVars
    BY <1>0, <1>7, BusyMove DEF RetryAbs!retryVars, Busy
  <1>8. ASSUME NEW t \in Tasks, Acquire(t) \/ Backoff(t) \/ Resume(t)
        PROVE  UNCHANGED RetryAbs!retryVars
    <2>1. CASE Acquire(t)
      BY <2>1, <1>7 DEF Acquire, ghostVars, Locations
    <2>2. CASE Backoff(t)
      BY <2>2, <1>7 DEF Backoff, Locations
    <2>3. CASE Resume(t)
      BY <2>3, <1>7 DEF Resume, ghostVars, Locations
    <2>4. QED
      BY <1>8, <2>1, <2>2, <2>3
  <1>9. ASSUME pc' = pc, attempts' = attempts, result' = result
        PROVE  UNCHANGED RetryAbs!retryVars
    BY <1>9 DEF RetryAbs!retryVars, Busy
  <1>10. CASE Tick
    BY <1>10, <1>9 DEF Tick
  <1>11. CASE UNCHANGED vars
    BY <1>11, <1>9 DEF vars, callerVars, ghostVars
  <1>12. QED
    BY <1>1, <1>2, <1>4, <1>5, <1>6, <1>8, <1>10, <1>11
       DEF Next, Step, RetryAbs!Next

(* Every behaviour keeps the types and the attempt invariant.             *)
LEMMA AttemptInvariant == Spec => [](TypeOK /\ AttemptInv)
  BY TypeCorrect, AttemptInit, AttemptStep, PTL DEF Spec

(* RetryRefines: RetryRefinement, for every number of callers and every   *)
(* retry budget: the retry loop of get() (lines 87-131), interleaved with *)
(* other callers and cancelled at any await, implements the retry policy: *)
(* each send is an attempt of a running request within its MAX_RETRIES +  *)
(* 1 budget, each request ends once, RateLimited only with its budget     *)
(* spent and with another answer only after a send.                       *)
THEOREM RetryRefines == Spec => RetryRefinement
  <1>1. Init => RetryAbs!Init
    BY DEF Init, RetryAbs!Init, Busy
  <1>2. QED
    BY <1>1, RetryRefineStep, AttemptInvariant, PTL
       DEF Spec, RetryRefinement, RetryAbs!Spec

=============================================================================
