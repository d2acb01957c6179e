--------------------------- MODULE MBClientProofs ---------------------------
(***************************************************************************)
(* Proofs about MBClient, for every number of callers and every value of   *)
(* RATE_LIMIT_INTERVAL, INITIAL_BACKOFF and MAX_RETRIES.                   *)
(***************************************************************************)
EXTENDS MBClient, TLAPS

(* The inductive invariant behind GateSpacing and LockConsistent.  Only   *)
(* the holder of the Mutex sleeps in acquire, and its sleep ends no       *)
(* earlier than RATE_LIMIT_INTERVAL after last_request; nobody else can   *)
(* move last_request meanwhile, so last_request is the last send.         *)
SpacingClock == elapsed = sinceSend
SleeperHolds ==
    \A t \in Tasks : pc[t] = "gateSleep" =>
        /\ holder = t
        /\ elapsed + timer[t] >= RateLimitInterval
GateInv ==
    /\ TypeOK
    /\ LockConsistent
    /\ SpacingClock
    /\ SleeperHolds

(* What GateInv says besides the types.                                   *)
GateCore == LockConsistent /\ SpacingClock /\ SleeperHolds

(* Updating one entry of a function with a value of its range keeps its  *)
(* type.                                                                  *)
LEMMA ExceptType ==
    ASSUME NEW S, NEW T, NEW f \in [S -> T], NEW x \in S, NEW v \in T
    PROVE  [f EXCEPT ![x] = v] \in [S -> T]
  OBVIOUS

(* An index of a queue one longer than n is an old index or the new last. *)
LEMMA IndexSplit ==
    ASSUME NEW n \in Nat, NEW i \in 1..(n + 1)
    PROVE  i \in 1..n \/ i = n + 1
  OBVIOUS

-----------------------------------------------------------------------------
(* DropAt removes one entry of a sequence and shifts the rest down.       *)
LEMMA DropAtProperties ==
    ASSUME NEW S, NEW s \in Seq(S), NEW i \in 1..Len(s)
    PROVE  /\ DropAt(s, i) \in Seq(S)
           /\ Len(DropAt(s, i)) = Len(s) - 1
           /\ \A j \in 1..(Len(s) - 1) :
                 DropAt(s, i)[j] = IF j < i THEN s[j] ELSE s[j + 1]
  <1>1. Len(s) - 1 \in Nat
    OBVIOUS
  <1>2. DropAt(s, i) \in [1..(Len(s) - 1) -> S]
    BY DEF DropAt
  <1>3. QED
    BY <1>1, <1>2 DEF DropAt

(* Locking keeps the Mutex state in its type.                            *)
LEMMA LockRequestType ==
    ASSUME NEW t \in Tasks, holder \in Tasks \cup {NoTask},
           waiters \in Seq(Tasks), LockRequest(t)
    PROVE  holder' \in Tasks \cup {NoTask} /\ waiters' \in Seq(Tasks)
  BY DEF LockRequest

(* Unlocking keeps the Mutex state in its type.                           *)
LEMMA UnlockType ==
    ASSUME holder \in Tasks \cup {NoTask}, waiters \in Seq(Tasks), Unlock
    PROVE  holder' \in Tasks \cup {NoTask} /\ waiters' \in Seq(Tasks)
  BY DEF Unlock

(* Every step keeps every variable in its type.                           *)
LEMMA TypeStep == TypeOK /\ [Next]_vars => TypeOK'
    <2> SUFFICES ASSUME TypeOK, [Next]_vars PROVE TypeOK'
      OBVIOUS
    <2>0. holder \in Tasks \cup {NoTask} /\ waiters \in Seq(Tasks)
      BY DEF TypeOK
    <2>0b. /\ elapsed \in 0..RateLimitInterval
           /\ sinceSend \in 0..RateLimitInterval
           /\ pc \in [Tasks -> Locations]
           /\ timer \in [Tasks -> Nat]
           /\ retries \in [Tasks -> 0..MaxRetries]
           /\ backoff \in [Tasks -> Nat]
           /\ calls \in [Tasks -> 0..MaxCalls]
           /\ result \in [Tasks -> Outcomes]
           /\ attempts \in [Tasks -> Nat]
           /\ slept \in [Tasks -> Nat]
      BY DEF TypeOK
    <2>1. ASSUME NEW t \in Tasks, Call(t) PROVE TypeOK'
      <3>1. holder' \in Tasks \cup {NoTask} /\ waiters' \in Seq(Tasks)
        BY <2>0, <2>1, LockRequestType DEF Call
      <3>0. /\ calls[t] < MaxCalls
            /\ pc' = [pc EXCEPT ![t] = "lock"]
            /\ calls' = [calls EXCEPT ![t] = calls[t] + 1]
            /\ retries' = [retries EXCEPT ![t] = 0]
            /\ backoff' = [backoff EXCEPT ![t] = InitialBackoff]
            /\ attempts' = [attempts EXCEPT ![t] = 0]
            /\ slept' = [slept EXCEPT ![t] = 0]
        BY <2>1 DEF Call
      <3>a. /\ calls[t] + 1 \in 0..MaxCalls
            /\ 0 \in 0..MaxRetries /\ 0 \in Nat /\ InitialBackoff \in Nat
        BY <2>0b, <3>0, ConstantsAssumption
      <3>2a. pc' \in [Tasks -> Locations]
        BY <2>0b, <3>0, ExceptType DEF Locations
      <3>2b. calls' \in [Tasks -> 0..MaxCalls]
        BY <2>0b, <3>0, <3>a, ExceptType
      <3>2c. retries' \in [Tasks -> 0..MaxRetries]
        BY <2>0b, <3>0, <3>a, ExceptType
      <3>2d. /\ backoff' \in [Tasks -> Nat]
             /\ attempts' \in [Tasks -> Nat]
             /\ slept' \in [Tasks -> Nat]
        BY <2>0b, <3>0, <3>a, ExceptType
      <3>2. /\ pc' \in [Tasks -> Locations]
            /\ calls' \in [Tasks -> 0..MaxCalls]
            /\ retries' \in [Tasks -> 0..MaxRetries]
            /\ backoff' \in [Tasks -> Nat]
            /\ attempts' \in [Tasks -> Nat]
            /\ slept' \in [Tasks -> Nat]
        BY <3>2a, <3>2b, <3>2c, <3>2d
      <3>3. /\ elapsed' = elapsed /\ timer' = timer
            /\ result' = result /\ sinceSend' = sinceSend
        BY <2>1 DEF Call
      <3>4. QED
        BY <3>1, <3>2, <3>3, Zenon DEF TypeOK
    <2>2. ASSUME NEW t \in Tasks, Acquire(t) PROVE TypeOK'
      <3>1. pc' \in [Tasks -> Locations] /\ timer' \in [Tasks -> Nat]
        <4>1. pc' = [pc EXCEPT ![t] = "gateSleep"]
              /\ timer' = [timer EXCEPT ![t] = RateLimitInterval - elapsed]
              /\ elapsed < RateLimitInterval
          BY <2>2 DEF Acquire
        <4>2. RateLimitInterval - elapsed \in Nat
          BY <2>0b, <4>1, ConstantsAssumption
        <4>3. QED
          BY <2>0b, <4>1, <4>2, ExceptType DEF Locations
      <3>2. /\ elapsed' = elapsed /\ holder' = holder /\ waiters' = waiters
            /\ retries' = retries /\ backoff' = backoff /\ calls' = calls
            /\ result' = result /\ sinceSend' = sinceSend
            /\ attempts' = attempts /\ slept' = slept
        BY <2>2 DEF Acquire, limiterVars, ghostVars
      <3>3. QED
        BY <3>1, <3>2, Zenon DEF TypeOK
    <2>3. ASSUME NEW t \in Tasks, Pass(t) PROVE TypeOK'
      <3>1. holder' \in Tasks \cup {NoTask} /\ waiters' \in Seq(Tasks)
        BY <2>0, <2>3, UnlockType DEF Pass
      <3>0. /\ elapsed' = 0 /\ sinceSend' = 0
            /\ pc' = [pc EXCEPT ![t] = "inflight"]
            /\ attempts' = [attempts EXCEPT ![t] = attempts[t] + 1]
        BY <2>3 DEF Pass
      <3>2a. pc' \in [Tasks -> Locations] /\ attempts' \in [Tasks -> Nat]
        BY <2>0b, <3>0, ExceptType DEF Locations
      <3>2b. elapsed' \in 0..RateLimitInterval /\ sinceSend' \in 0..RateLimitInterval
        BY <3>0, ConstantsAssumption
      <3>2. /\ pc' \in [Tasks -> Locations]
            /\ attempts' \in [Tasks -> Nat]
            /\ elapsed' \in 0..RateLimitInterval
            /\ sinceSend' \in 0..RateLimitInterval
        BY <3>2a, <3>2b
      <3>3. /\ timer' = timer /\ retries' = retries /\ backoff' = backoff
            /\ calls' = calls /\ result' = result /\ slept' = slept
        BY <2>3 DEF Pass
      <3>4. QED
        BY <3>1, <3>2, <3>3, Zenon DEF TypeOK
    <2>4. ASSUME NEW t \in Tasks, Complete(t) PROVE TypeOK'
      <3>1. PICK s \in TerminalStatuses : Finish(t, Classify(s))
        BY <2>4 DEF Complete
      <3>2. Classify(s) \in Outcomes
        BY DEF TerminalStatuses, Statuses, Classify, Outcomes
      <3>3. pc' \in [Tasks -> Locations] /\ result' \in [Tasks -> Outcomes]
        <4>1. pc' = [pc EXCEPT ![t] = "idle"]
              /\ result' = [result EXCEPT ![t] = Classify(s)]
          BY <3>1 DEF Finish
        <4>2. QED
          BY <2>0b, <3>2, <4>1, ExceptType DEF Locations
      <3>4. /\ elapsed' = elapsed /\ holder' = holder /\ waiters' = waiters
            /\ timer' = timer /\ retries' = retries /\ backoff' = backoff
            /\ calls' = calls /\ sinceSend' = sinceSend
            /\ attempts' = attempts /\ slept' = slept
        BY <2>4 DEF Complete, limiterVars, ghostVars
      <3>5. QED
        BY <3>3, <3>4, Zenon DEF TypeOK
    <2>5. ASSUME NEW t \in Tasks, Backoff(t) PROVE TypeOK'
      <3>0. /\ retries[t] < MaxRetries
            /\ retries' = [retries EXCEPT ![t] = retries[t] + 1]
            /\ pc' = [pc EXCEPT ![t] = "backoff"]
            /\ timer' = [timer EXCEPT ![t] = backoff[t]]
            /\ slept' = [slept EXCEPT ![t] = slept[t] + backoff[t]]
            /\ backoff' = [backoff EXCEPT ![t] = 2 * backoff[t]]
        BY <2>5 DEF Backoff
      <3>a. /\ retries[t] + 1 \in 0..MaxRetries
            /\ backoff[t] \in Nat /\ slept[t] + backoff[t] \in Nat
            /\ 2 * backoff[t] \in Nat
        BY <2>0b, <3>0, ConstantsAssumption
      <3>1a. pc' \in [Tasks -> Locations]
        BY <2>0b, <3>0, ExceptType DEF Locations
      <3>1b. retries' \in [Tasks -> 0..MaxRetries]
        BY <2>0b, <3>0, <3>a, ExceptType
      <3>1c. timer' \in [Tasks -> Nat] /\ slept' \in [Tasks -> Nat]
        BY <2>0b, <3>0, <3>a, ExceptType
      <3>1d. backoff' \in [Tasks -> Nat]
        BY <2>0b, <3>0, <3>a, ExceptType
      <3>1. /\ pc' \in [Tasks -> Locations]
            /\ retries' \in [Tasks -> 0..MaxRetries]
            /\ timer' \in [Tasks -> Nat]
            /\ slept' \in [Tasks -> Nat]
            /\ backoff' \in [Tasks -> Nat]
        BY <3>1a, <3>1b, <3>1c, <3>1d
      <3>2. /\ elapsed' = elapsed /\ holder' = holder /\ waiters' = waiters
            /\ calls' = calls /\ result' = result
            /\ sinceSend' = sinceSend /\ attempts' = attempts
        BY <2>5 DEF Backoff, limiterVars
      <3>3. QED
        BY <3>1, <3>2, Zenon DEF TypeOK
    <2>6. ASSUME NEW t \in Tasks, GiveUp(t) PROVE TypeOK'
      <3>1. pc' \in [Tasks -> Locations] /\ result' \in [Tasks -> Outcomes]
        <4>1. pc' = [pc EXCEPT ![t] = "idle"]
              /\ result' = [result EXCEPT ![t] = "RateLimited"]
          BY <2>6 DEF GiveUp, Finish
        <4>2. QED
          BY <2>0b, <4>1, ExceptType DEF Locations, Outcomes
      <3>2. /\ elapsed' = elapsed /\ holder' = holder /\ waiters' = waiters
            /\ timer' = timer /\ retries' = retries /\ backoff' = backoff
            /\ calls' = calls /\ sinceSend' = sinceSend
            /\ attempts' = attempts /\ slept' = slept
        BY <2>6 DEF GiveUp, limiterVars, ghostVars
      <3>3. QED
        BY <3>1, <3>2, Zenon DEF TypeOK
    <2>7. ASSUME NEW t \in Tasks, Resume(t) PROVE TypeOK'
      <3>1. holder' \in Tasks \cup {NoTask} /\ waiters' \in Seq(Tasks)
        BY <2>0, <2>7, LockRequestType DEF Resume
      <3>2. pc' \in [Tasks -> Locations]
        <4>1. pc' = [pc EXCEPT ![t] = "lock"]
          BY <2>7 DEF Resume
        <4>2. QED
          BY <2>0b, <4>1, ExceptType DEF Locations
      <3>3. /\ elapsed' = elapsed /\ timer' = timer /\ retries' = retries
            /\ backoff' = backoff /\ calls' = calls /\ result' = result
            /\ sinceSend' = sinceSend /\ attempts' = attempts
            /\ slept' = slept
        BY <2>7 DEF Resume, ghostVars
      <3>4. QED
        BY <3>1, <3>2, <3>3, Zenon DEF TypeOK
    <2>8. ASSUME NEW t \in Tasks, Cancel(t) PROVE TypeOK'
      <3>1. holder' \in Tasks \cup {NoTask} /\ waiters' \in Seq(Tasks)
        <4>1. CASE holder = t
          BY <2>0, <2>8, <4>1, UnlockType DEF Cancel
        <4>2. CASE holder # t
          <5>1. CASE \E i \in 1..Len(waiters) :
                         waiters[i] = t /\ waiters' = DropAt(waiters, i)
            BY <2>0, <2>8, <4>2, <5>1, DropAtProperties DEF Cancel
          <5>2. CASE UNCHANGED waiters
            BY <2>0, <2>8, <4>2, <5>2 DEF Cancel
          <5>3. QED
            BY <2>8, <4>2, <5>1, <5>2 DEF Cancel, LeaveQueue
        <4>3. QED
          BY <4>1, <4>2
      <3>2. /\ pc' \in [Tasks -> Locations]
            /\ result' \in [Tasks -> Outcomes]
            /\ timer' \in [Tasks -> Nat]
        <4>1. pc' = [pc EXCEPT ![t] = "idle"]
              /\ result' = [result EXCEPT ![t] = "Cancelled"]
              /\ timer' = [timer EXCEPT ![t] = 0]
          BY <2>8 DEF Cancel, Finish
        <4>2. QED
          BY <2>0b, <4>1, ExceptType DEF Locations, Outcomes
      <3>3. /\ elapsed' = elapsed /\ retries' = retries
            /\ backoff' = backoff /\ calls' = calls
            /\ sinceSend' = sinceSend /\ attempts' = attempts
            /\ slept' = slept
        BY <2>8 DEF Cancel, ghostVars
      <3>4. QED
        BY <3>1, <3>2, <3>3, Zenon DEF TypeOK
    <2>9. CASE Tick
      <3>1. /\ elapsed' \in 0..RateLimitInterval
            /\ sinceSend' \in 0..RateLimitInterval
            /\ timer' \in [Tasks -> Nat]
        BY <2>9, ConstantsAssumption DEF Tick, Age, TypeOK
      <3>2. /\ holder' = holder /\ waiters' = waiters /\ pc' = pc
            /\ retries' = retries /\ backoff' = backoff /\ calls' = calls
            /\ result' = result /\ attempts' = attempts /\ slept' = slept
        BY <2>9 DEF Tick
      <3>3. QED
        BY <3>1, <3>2, Zenon DEF TypeOK
    <2>10. CASE UNCHANGED vars
      BY <2>10 DEF vars, limiterVars, callerVars, ghostVars, TypeOK
    <2>11. QED
      BY <2>1, <2>2, <2>3, <2>4, <2>5, <2>6, <2>7, <2>8, <2>9, <2>10
         DEF Next, Step

(* TypeCorrect: every variable of the client keeps its type.               *)
THEOREM TypeCorrect == Spec => []TypeOK
  <1>1. Init => TypeOK
    BY ConstantsAssumption DEF Init, TypeOK, Locations, Outcomes
  <1>2. QED
    BY <1>1, TypeStep, PTL DEF Spec

-----------------------------------------------------------------------------
(* The queue holds callers.                                               *)
LEMMA WaitersAreTasks ==
    ASSUME TypeOK PROVE \A i \in 1..Len(waiters) : waiters[i] \in Tasks
  BY DEF TypeOK

(* A caller that neither owns nor waits for the Mutex (it is in flight)   *)
(* moves to a place outside lock() and acquire: GateCore is kept.         *)
LEMMA QuietStep ==
    ASSUME GateInv, NEW t \in Tasks, pc[t] = "inflight",
           NEW X \in {"idle", "inflight", "backoff"},
           pc' = [pc EXCEPT ![t] = X],
           holder' = holder, waiters' = waiters,
           elapsed' = elapsed, sinceSend' = sinceSend,
           \A u \in Tasks \ {t} : timer'[u] = timer[u]
    PROVE  GateCore'
  <1> USE DEF GateInv, TypeOK
  <1>1. t # holder
    BY ConstantsAssumption DEF LockConsistent, HolderInAcquire
  <1>2. \A i \in 1..Len(waiters) : waiters[i] # t
    BY DEF LockConsistent, WaitersQueued
  <1>3. FreeLockNoWaiters'
    BY DEF LockConsistent, FreeLockNoWaiters
  <1>4. HolderInAcquire'
    BY <1>1 DEF LockConsistent, HolderInAcquire
  <1>5. WaitersQueued'
    <2>1. \A i \in 1..Len(waiters) : pc'[waiters[i]] = pc[waiters[i]]
      BY <1>2, WaitersAreTasks
    <2>2. QED
      BY <2>1 DEF LockConsistent, WaitersQueued
  <1>6. WaitersDistinct'
    BY DEF LockConsistent, WaitersDistinct
  <1>7. LockersKnown'
    BY DEF LockConsistent, LockersKnown
  <1>8. SleeperHolds'
    BY DEF SleeperHolds
  <1>9. QED
    BY <1>3, <1>4, <1>5, <1>6, <1>7, <1>8 DEF GateCore, LockConsistent,
                                              SpacingClock

(* A caller outside lock() and acquire calls lock(): it owns the free     *)
(* Mutex or queues at the back.                                           *)
LEMMA EnqueueStep ==
    ASSUME GateInv, NEW t \in Tasks, pc[t] \in {"idle", "backoff"},
           pc' = [pc EXCEPT ![t] = "lock"], LockRequest(t),
           elapsed' = elapsed, sinceSend' = sinceSend, timer' = timer
    PROVE  GateCore'
  <1> USE DEF GateInv, TypeOK
  <1>1. t # holder
    BY ConstantsAssumption DEF LockConsistent, HolderInAcquire
  <1>2. \A i \in 1..Len(waiters) : waiters[i] # t
    BY DEF LockConsistent, WaitersQueued
  <1>3. CASE holder = NoTask
    <2>1. holder' = t /\ waiters' = <<>> /\ waiters = <<>>
      BY <1>3 DEF LockRequest, LockConsistent, FreeLockNoWaiters
    <2>2. \A u \in Tasks \ {t} : pc[u] \notin {"lock", "gateSleep"}
      BY <1>3, ConstantsAssumption, <2>1
         DEF LockConsistent, LockersKnown, SleeperHolds
    <2>3. LockConsistent'
      BY <2>1, <2>2 DEF LockConsistent, FreeLockNoWaiters, HolderInAcquire,
                        WaitersQueued, WaitersDistinct, LockersKnown
    <2>4. SleeperHolds'
      BY <2>2 DEF SleeperHolds
    <2>5. QED
      BY <2>3, <2>4 DEF GateCore, SpacingClock
  <1>4. CASE holder # NoTask
    <2>1. holder' = holder /\ waiters' = Append(waiters, t)
      BY <1>4 DEF LockRequest
    <2>2. FreeLockNoWaiters' /\ HolderInAcquire'
      BY <1>1, <1>4, <2>1 DEF LockConsistent, HolderInAcquire,
                              FreeLockNoWaiters
    <2>2a. /\ Len(waiters') = Len(waiters) + 1
           /\ waiters'[Len(waiters) + 1] = t
           /\ \A i \in 1..Len(waiters) : waiters'[i] = waiters[i]
      BY <2>1
    <2>2b. \A i \in 1..Len(waiters) : pc'[waiters[i]] = pc[waiters[i]]
      BY <1>2, WaitersAreTasks
    <2>3. WaitersQueued'
      <3> SUFFICES ASSUME NEW i \in 1..Len(waiters')
                   PROVE  waiters'[i] # holder' /\ pc'[waiters'[i]] = "lock"
        BY DEF WaitersQueued
      <3>1. CASE i = Len(waiters) + 1
        BY <1>1, <2>1, <2>2a, <3>1
      <3>2. CASE i \in 1..Len(waiters)
        BY <2>1, <2>2a, <2>2b, <3>2 DEF LockConsistent, WaitersQueued
      <3>3. QED
        BY <2>2a, <3>1, <3>2
    <2>4. WaitersDistinct'
      <3> SUFFICES ASSUME NEW i \in 1..Len(waiters'), NEW j \in 1..Len(waiters'),
                          i # j
                   PROVE  waiters'[i] # waiters'[j]
        BY DEF WaitersDistinct
      <3>0. Len(waiters) \in Nat
        OBVIOUS
      <3>1. CASE i \in 1..Len(waiters) /\ j \in 1..Len(waiters)
        BY <2>2a, <3>1 DEF LockConsistent, WaitersDistinct
      <3>2. CASE i = Len(waiters) + 1
        <4>1. j \in 1..Len(waiters)
          BY <3>0, <2>2a, <3>2
        <4>2. QED
          BY <1>2, <2>2a, <3>2, <4>1
      <3>3. CASE j = Len(waiters) + 1
        <4>1. i \in 1..Len(waiters)
          BY <3>0, <2>2a, <3>3
        <4>2. QED
          BY <1>2, <2>2a, <3>3, <4>1
      <3>4a. i \in 1..(Len(waiters) + 1) /\ j \in 1..(Len(waiters) + 1)
        BY <2>2a
      <3>4. /\ i \in 1..Len(waiters) \/ i = Len(waiters) + 1
            /\ j \in 1..Len(waiters) \/ j = Len(waiters) + 1
        BY <3>0, <3>4a, IndexSplit
      <3>5. QED
        BY <3>1, <3>2, <3>3, <3>4
    <2>5. LockersKnown'
      <3>1. waiters'[Len(waiters) + 1] = t /\ Len(waiters') = Len(waiters) + 1
        BY <2>1
      <3>2. \A i \in 1..Len(waiters) : waiters'[i] = waiters[i]
        BY <2>1
      <3>3. QED
        BY <2>1, <3>1, <3>2 DEF LockConsistent, LockersKnown
    <2>6. SleeperHolds'
      BY <1>1, <2>1 DEF SleeperHolds
    <2>7. QED
      BY <2>2, <2>3, <2>4, <2>5, <2>6 DEF GateCore, LockConsistent,
                                          SpacingClock
  <1>5. QED
    BY <1>3, <1>4

(* The owner leaves acquire (it sends, or it is cancelled) and drops the  *)
(* guard: the first queued caller, if any, owns the Mutex next.           *)
LEMMA ReleaseStep ==
    ASSUME GateInv, NEW t \in Tasks, holder = t,
           NEW X \in {"idle", "inflight"},
           pc' = [pc EXCEPT ![t] = X], Unlock,
           \A u \in Tasks \ {t} : timer'[u] = timer[u]
    PROVE  LockConsistent' /\ SleeperHolds'
  <1>0a. TypeOK /\ LockConsistent /\ SleeperHolds
    BY DEF GateInv
  <1>0b. pc \in [Tasks -> Locations]
        /\ waiters \in Seq(Tasks)
    BY <1>0a DEF TypeOK
  <1>0c. \A i \in 1..Len(waiters) : waiters[i] \in Tasks
    BY <1>0a, WaitersAreTasks
  <1>0. /\ pc \in [Tasks -> Locations]
        /\ waiters \in Seq(Tasks)
        /\ \A i \in 1..Len(waiters) : waiters[i] \in Tasks
        /\ LockConsistent
        /\ SleeperHolds
    BY <1>0a, <1>0b, <1>0c
  <1>1. \A i \in 1..Len(waiters) : waiters[i] # t
    BY <1>0 DEF LockConsistent, WaitersQueued
  <1>2. \A u \in Tasks \ {t} : pc[u] # "gateSleep"
    BY <1>0 DEF SleeperHolds
  <1>3. SleeperHolds'
    BY <1>0, <1>2 DEF SleeperHolds
  <1>4. CASE waiters = <<>>
    <2>1. holder' = NoTask /\ waiters' = <<>>
      BY <1>4 DEF Unlock
    <2>2. \A u \in Tasks \ {t} : pc[u] # "lock"
      BY <1>0, <1>4 DEF LockConsistent, LockersKnown
    <2>3. QED
      BY <1>0, <1>3, <2>1, <2>2 DEF LockConsistent, FreeLockNoWaiters,
         HolderInAcquire, WaitersQueued, WaitersDistinct, LockersKnown
  <1>5. CASE waiters # <<>>
    <2>0. Len(waiters) \in Nat \ {0}
      BY <1>0, <1>5
    <2>1a. holder' = waiters[1] /\ waiters' = Tail(waiters)
      BY <1>5 DEF Unlock
    <2>1b. Len(waiters') = Len(waiters) - 1
      BY <1>0, <2>0, <2>1a
    <2>1c. \A i \in 1..Len(waiters') : waiters'[i] = waiters[i + 1]
      BY <1>0, <2>0, <2>1a
    <2>2. \A i \in 1..Len(waiters) : pc'[waiters[i]] = pc[waiters[i]]
      BY <1>0, <1>1
    <2>3. FreeLockNoWaiters'
      <3>1. waiters[1] \in Tasks
        BY <1>0, <2>0
      <3>2. QED
        BY <2>1a, <3>1, ConstantsAssumption DEF FreeLockNoWaiters
    <2>4. HolderInAcquire'
      BY <1>0, <2>0, <2>1a, <2>2 DEF LockConsistent, WaitersQueued,
                                     HolderInAcquire
    <2>5. WaitersQueued'
      <3> SUFFICES ASSUME NEW i \in 1..Len(waiters')
                   PROVE  waiters'[i] # holder' /\ pc'[waiters'[i]] = "lock"
        BY DEF WaitersQueued
      <3>1. i + 1 \in 1..Len(waiters) /\ 1 # i + 1
        BY <2>0, <2>1b
      <3>2. waiters'[i] = waiters[i + 1] /\ holder' = waiters[1]
        BY <2>1a, <2>1c
      <3>3. waiters[i + 1] # waiters[1]
        BY <1>0, <2>0, <3>1 DEF LockConsistent, WaitersDistinct
      <3>4. pc'[waiters[i + 1]] = "lock"
        BY <1>0, <2>2, <3>1 DEF LockConsistent, WaitersQueued
      <3>5. QED
        BY <3>2, <3>3, <3>4
    <2>6. WaitersDistinct'
      <3> SUFFICES ASSUME NEW i \in 1..Len(waiters'),
                          NEW j \in 1..Len(waiters'), i # j
                   PROVE  waiters'[i] # waiters'[j]
        BY DEF WaitersDistinct
      <3>1. i + 1 \in 1..Len(waiters) /\ j + 1 \in 1..Len(waiters)
        BY <2>0, <2>1b
      <3>2. QED
        BY <1>0, <2>1c, <3>1 DEF LockConsistent, WaitersDistinct
    <2>7. LockersKnown'
      <3> SUFFICES ASSUME NEW u \in Tasks, pc'[u] = "lock"
                   PROVE  u = holder' \/ \E i \in 1..Len(waiters') :
                                            waiters'[i] = u
        BY DEF LockersKnown
      <3>1. u # t /\ pc[u] = "lock"
        BY <1>0
      <3>2. PICK k \in 1..Len(waiters) : waiters[k] = u
        BY <1>0, <3>1 DEF LockConsistent, LockersKnown
      <3>3. CASE k = 1
        BY <2>1a, <3>2, <3>3
      <3>4. CASE k # 1
        <4>1. k - 1 \in 1..Len(waiters')
          BY <2>0, <2>1b, <3>4
        <4>2. waiters'[k - 1] = u
          BY <2>1c, <3>2, <4>1
        <4>3. QED
          BY <4>1, <4>2
      <3>5. QED
        BY <3>3, <3>4
    <2>8. QED
      BY <1>3, <2>3, <2>4, <2>5, <2>6, <2>7 DEF LockConsistent
  <1>6. QED
    BY <1>4, <1>5

(* A caller that does not own the Mutex is cancelled: it leaves the queue *)
(* if it is in it.                                                        *)
LEMMA DequeueStep ==
    ASSUME GateInv, NEW t \in Tasks, holder # t,
           pc' = [pc EXCEPT ![t] = "idle"], LeaveQueue(t), holder' = holder,
           elapsed' = elapsed, \A u \in Tasks \ {t} : timer'[u] = timer[u]
    PROVE  LockConsistent' /\ SleeperHolds'
  <1>0a. TypeOK /\ LockConsistent /\ SleeperHolds
    BY DEF GateInv
  <1>0b. pc \in [Tasks -> Locations]
        /\ waiters \in Seq(Tasks)
    BY <1>0a DEF TypeOK
  <1>0c. \A i \in 1..Len(waiters) : waiters[i] \in Tasks
    BY <1>0a, WaitersAreTasks
  <1>0. /\ pc \in [Tasks -> Locations]
        /\ waiters \in Seq(Tasks)
        /\ \A i \in 1..Len(waiters) : waiters[i] \in Tasks
        /\ LockConsistent
        /\ SleeperHolds
    BY <1>0a, <1>0b, <1>0c
  <1>1. SleeperHolds'
    BY <1>0 DEF SleeperHolds
  <1>2. HolderInAcquire'
    BY <1>0 DEF LockConsistent, HolderInAcquire
  <1>3. CASE \E i \in 1..Len(waiters) :
                waiters[i] = t /\ waiters' = DropAt(waiters, i)
    <2>1. PICK i \in 1..Len(waiters) :
                waiters[i] = t /\ waiters' = DropAt(waiters, i)
      BY <1>3
    <2>2. /\ Len(waiters') = Len(waiters) - 1
          /\ \A j \in 1..(Len(waiters) - 1) :
                waiters'[j] = IF j < i THEN waiters[j] ELSE waiters[j + 1]
      BY <1>0, <2>1, DropAtProperties
    <2>3. \A k \in 1..Len(waiters) : k # i => waiters[k] # t
      BY <1>0, <2>1 DEF LockConsistent, WaitersDistinct
    <2>4. FreeLockNoWaiters'
      BY <1>0, <2>1 DEF LockConsistent, FreeLockNoWaiters
    <2>5. WaitersQueued'
      <3> SUFFICES ASSUME NEW j \in 1..Len(waiters')
                   PROVE  waiters'[j] # holder' /\ pc'[waiters'[j]] = "lock"
        BY DEF WaitersQueued
      <3> DEFINE k == IF j < i THEN j ELSE j + 1
      <3>1. k \in 1..Len(waiters) /\ k # i /\ waiters'[j] = waiters[k]
        BY <1>0, <2>2
      <3>2. waiters[k] # t /\ waiters[k] \in Tasks
        BY <1>0, <2>3, <3>1
      <3>3. waiters[k] # holder /\ pc[waiters[k]] = "lock"
        BY <1>0, <3>1 DEF LockConsistent, WaitersQueued
      <3>4. QED
        BY <1>0, <3>1, <3>2, <3>3
    <2>6. WaitersDistinct'
      <3> SUFFICES ASSUME NEW j1 \in 1..Len(waiters'),
                          NEW j2 \in 1..Len(waiters'), j1 # j2
                   PROVE  waiters'[j1] # waiters'[j2]
        BY DEF WaitersDistinct
      <3> DEFINE k1 == IF j1 < i THEN j1 ELSE j1 + 1
                 k2 == IF j2 < i THEN j2 ELSE j2 + 1
      <3>1. /\ k1 \in 1..Len(waiters) /\ waiters'[j1] = waiters[k1]
            /\ k2 \in 1..Len(waiters) /\ waiters'[j2] = waiters[k2]
            /\ k1 # k2
        BY <1>0, <2>2
      <3>2. QED
        BY <1>0, <3>1 DEF LockConsistent, WaitersDistinct
    <2>7. LockersKnown'
      <3> SUFFICES ASSUME NEW u \in Tasks, pc'[u] = "lock", u # holder
                   PROVE  \E j \in 1..Len(waiters') : waiters'[j] = u
        BY DEF LockersKnown
      <3>1. u # t /\ pc[u] = "lock"
        BY <1>0
      <3>2. PICK k \in 1..Len(waiters) : waiters[k] = u
        BY <1>0, <3>1 DEF LockConsistent, LockersKnown
      <3>3. k # i
        BY <2>1, <3>1, <3>2
      <3>4. CASE k < i
        <4>1. k \in 1..Len(waiters') /\ waiters'[k] = waiters[k]
          BY <1>0, <2>2, <3>4
        <4>2. QED
          BY <3>2, <4>1
      <3>5. CASE k > i
        <4>1. k - 1 \in 1..Len(waiters') /\ waiters'[k - 1] = waiters[k]
          BY <1>0, <2>2, <3>5
        <4>2. QED
          BY <3>2, <4>1
      <3>6. QED
        BY <1>0, <3>3, <3>4, <3>5
    <2>8. QED
      BY <1>1, <1>2, <2>4, <2>5, <2>6, <2>7 DEF LockConsistent
  <1>4. CASE /\ \A i \in 1..Len(waiters) : waiters[i] # t
             /\ UNCHANGED waiters
    <2>1. \A i \in 1..Len(waiters) : pc'[waiters[i]] = pc[waiters[i]]
      BY <1>0, <1>4
    <2>2. \A u \in Tasks : pc'[u] = "lock" => u # t /\ pc[u] = "lock"
      BY <1>0
    <2>3. QED
      BY <1>0, <1>1, <1>2, <1>4, <2>1, <2>2
         DEF LockConsistent, FreeLockNoWaiters, WaitersQueued,
             WaitersDistinct, LockersKnown
  <1>5. QED
    BY <1>3, <1>4 DEF LeaveQueue

(* The owner of the Mutex finds elapsed < RATE_LIMIT_INTERVAL and sleeps  *)
(* for the difference, keeping the guard.                                 *)
LEMMA AcquireStep ==
    ASSUME GateInv, NEW t \in Tasks, Acquire(t) PROVE GateCore'
  <1>0a. TypeOK /\ LockConsistent /\ SleeperHolds /\ SpacingClock
    BY DEF GateInv
  <1>0b. pc \in [Tasks -> Locations]
        /\ timer \in [Tasks -> Nat]
        /\ elapsed \in 0..RateLimitInterval
    BY <1>0a DEF TypeOK
  <1>0c. \A i \in 1..Len(waiters) : waiters[i] \in Tasks
    BY <1>0a, WaitersAreTasks
  <1>0. /\ pc \in [Tasks -> Locations]
        /\ timer \in [Tasks -> Nat]
        /\ elapsed \in 0..RateLimitInterval
        /\ \A i \in 1..Len(waiters) : waiters[i] \in Tasks
        /\ LockConsistent
        /\ SleeperHolds
        /\ SpacingClock
    BY <1>0a, <1>0b, <1>0c
  <1>1. /\ holder = t /\ pc[t] = "lock"
        /\ pc' = [pc EXCEPT ![t] = "gateSleep"]
        /\ timer' = [timer EXCEPT ![t] = RateLimitInterval - elapsed]
        /\ holder' = holder /\ waiters' = waiters
        /\ elapsed' = elapsed /\ sinceSend' = sinceSend
    BY DEF Acquire, limiterVars, ghostVars
  <1>2. \A i \in 1..Len(waiters) : pc'[waiters[i]] = pc[waiters[i]]
    BY <1>0, <1>1 DEF LockConsistent, WaitersQueued
  <1>3. LockConsistent'
    BY <1>0, <1>1, <1>2 DEF LockConsistent, FreeLockNoWaiters,
       HolderInAcquire, WaitersQueued, WaitersDistinct, LockersKnown
  <1>4. SleeperHolds'
    BY <1>0, <1>1, ConstantsAssumption DEF SleeperHolds
  <1>5. QED
    BY <1>0, <1>1, <1>3, <1>4 DEF GateCore, SpacingClock

(* A tick ages last_request and the last send alike and brings every      *)
(* sleep one tick nearer its end.                                         *)
LEMMA TickStep ==
    ASSUME GateInv, Tick PROVE GateCore'
  <1>0. /\ timer \in [Tasks -> Nat]
        /\ elapsed \in 0..RateLimitInterval
        /\ LockConsistent
        /\ SleeperHolds
        /\ SpacingClock
    BY DEF GateInv, TypeOK
  <1>1. /\ holder' = holder /\ waiters' = waiters /\ pc' = pc
        /\ elapsed' = Age(elapsed) /\ sinceSend' = Age(sinceSend)
        /\ timer' = [u \in Tasks |-> IF timer[u] > 0 THEN timer[u] - 1 ELSE 0]
    BY DEF Tick
  <1>2. LockConsistent'
    BY <1>0, <1>1 DEF LockConsistent, FreeLockNoWaiters, HolderInAcquire,
                      WaitersQueued, WaitersDistinct, LockersKnown
  <1>3. SpacingClock'
    BY <1>0, <1>1 DEF SpacingClock
  <1>4. SleeperHolds'
    BY <1>0, <1>1, ConstantsAssumption DEF SleeperHolds, Age
  <1>5. QED
    BY <1>2, <1>3, <1>4 DEF GateCore

(* Every step keeps GateInv.                                              *)
LEMMA GateStep == GateInv /\ [Next]_vars => GateInv'
  <1> SUFFICES ASSUME GateInv, [Next]_vars PROVE GateInv'
    OBVIOUS
  <1>0. TypeOK'
    BY TypeStep DEF GateInv
  <1> SUFFICES GateCore'
    BY <1>0 DEF GateInv, GateCore
  <1>1. ASSUME NEW t \in Tasks, Call(t) PROVE GateCore'
    BY <1>1, EnqueueStep DEF Call
  <1>2. ASSUME NEW t \in Tasks, Acquire(t) PROVE GateCore'
    BY <1>2, AcquireStep
  <1>3. ASSUME NEW t \in Tasks, Pass(t) PROVE GateCore'
    <2>1. /\ holder = t /\ pc' = [pc EXCEPT ![t] = "inflight"] /\ Unlock
          /\ timer' = timer /\ elapsed' = 0 /\ sinceSend' = 0
      BY <1>3 DEF Pass
    <2>2. LockConsistent' /\ SleeperHolds'
      BY <2>1, ReleaseStep
    <2>3. QED
      BY <2>1, <2>2 DEF GateCore, SpacingClock
  <1>4. ASSUME NEW t \in Tasks, Complete(t) PROVE GateCore'
    <2>1. /\ pc[t] = "inflight" /\ pc' = [pc EXCEPT ![t] = "idle"]
          /\ holder' = holder /\ waiters' = waiters /\ timer' = timer
          /\ elapsed' = elapsed /\ sinceSend' = sinceSend
      BY <1>4 DEF Complete, Finish, limiterVars, ghostVars
    <2>2. QED
      BY <2>1, QuietStep
  <1>5. ASSUME NEW t \in Tasks, Backoff(t) PROVE GateCore'
    <2>1. /\ pc[t] = "inflight" /\ pc' = [pc EXCEPT ![t] = "backoff"]
          /\ holder' = holder /\ waiters' = waiters
          /\ timer' = [timer EXCEPT ![t] = backoff[t]]
          /\ elapsed' = elapsed /\ sinceSend' = sinceSend
      BY <1>5 DEF Backoff, limiterVars
    <2>2. \A u \in Tasks \ {t} : timer'[u] = timer[u]
      BY <2>1
    <2>3. QED
      BY <2>1, <2>2, QuietStep
  <1>6. ASSUME NEW t \in Tasks, GiveUp(t) PROVE GateCore'
    <2>1. /\ pc[t] = "inflight" /\ pc' = [pc EXCEPT ![t] = "idle"]
          /\ holder' = holder /\ waiters' = waiters /\ timer' = timer
          /\ elapsed' = elapsed /\ sinceSend' = sinceSend
      BY <1>6 DEF GiveUp, Finish, limiterVars, ghostVars
    <2>2. QED
      BY <2>1, QuietStep
  <1>7. ASSUME NEW t \in Tasks, Resume(t) PROVE GateCore'
    BY <1>7, EnqueueStep DEF Resume, ghostVars
  <1>8. ASSUME NEW t \in Tasks, Cancel(t) PROVE GateCore'
    <2>1. /\ pc' = [pc EXCEPT ![t] = "idle"]
          /\ timer' = [timer EXCEPT ![t] = 0]
          /\ elapsed' = elapsed /\ sinceSend' = sinceSend
      BY <1>8 DEF Cancel, Finish, ghostVars
    <2>2. \A u \in Tasks \ {t} : timer'[u] = timer[u]
      BY <2>1
    <2>3. SpacingClock'
      BY <2>1 DEF GateInv, SpacingClock
    <2>4. CASE holder = t
      <3>1. Unlock
        BY <1>8, <2>4 DEF Cancel
      <3>2. QED
        BY <2>1, <2>2, <2>3, <2>4, <3>1, ReleaseStep DEF GateCore
    <2>5. CASE holder # t
      <3>1. LeaveQueue(t) /\ holder' = holder
        BY <1>8, <2>5 DEF Cancel
      <3>2. QED
        BY <2>1, <2>2, <2>3, <2>5, <3>1, DequeueStep DEF GateCore
    <2>6. QED
      BY <2>4, <2>5
  <1>9. CASE Tick
    BY <1>9, TickStep
  <1>10. CASE UNCHANGED vars
    BY <1>10 DEF GateInv, GateCore, vars, limiterVars, callerVars, ghostVars,
       LockConsistent, FreeLockNoWaiters, HolderInAcquire, WaitersQueued,
       WaitersDistinct, LockersKnown, SpacingClock, SleeperHolds
  <1>11. QED
    BY <1>1, <1>2, <1>3, <1>4, <1>5, <1>6, <1>7, <1>8, <1>9, <1>10
       DEF Next, Step

(* GateInvariant: in every reachable state the Mutex is consistent, the   *)
(* limiter's last_request is the time of the last send, and a caller     *)
(* sleeping in RateLimiter::acquire owns the Mutex and wakes no earlier   *)
(* than RATE_LIMIT_INTERVAL after that send.                              *)
THEOREM GateInvariant == Spec => []GateInv
  <1>1. Init => GateInv
    BY ConstantsAssumption
       DEF Init, GateInv, TypeOK, Locations, Outcomes, LockConsistent,
           FreeLockNoWaiters, HolderInAcquire, WaitersQueued,
           WaitersDistinct, LockersKnown, SpacingClock, SleeperHolds
  <1>2. QED
    BY <1>1, GateStep, PTL DEF Spec

(* LockConsistentHolds: the Mutex around the RateLimiter is never left    *)
(* free while callers queue, never owned by a caller outside acquire, and *)
(* loses no queued caller, whatever the callers do and when they cancel.  *)
THEOREM LockConsistentHolds == Spec => []LockConsistent
  <1>1. GateInv => LockConsistent
    BY DEF GateInv
  <1>2. QED
    BY <1>1, GateInvariant, PTL

(* A caller passes the gate only when the last send is an interval old:  *)
(* at once when acquire finds elapsed >= RATE_LIMIT_INTERVAL, or after a  *)
(* sleep that ends no earlier than that.                                  *)
LEMMA PassSpaced ==
    ASSUME GateInv, NEW t \in Tasks, Pass(t)
    PROVE  sinceSend >= RateLimitInterval
  <1>1. elapsed = sinceSend /\ elapsed \in Nat
    BY ConstantsAssumption DEF GateInv, SpacingClock, TypeOK
  <1>2. CASE pc[t] = "lock"
    BY <1>1, <1>2 DEF Pass
  <1>3. CASE pc[t] = "gateSleep"
    BY <1>1, <1>3 DEF Pass, GateInv, SleeperHolds
  <1>4. QED
    BY <1>2, <1>3 DEF Pass

(* GateSpacingHolds: GateSpacing, for every number of callers and every   *)
(* interval: RateLimiter::acquire under the Mutex never lets a request be *)
(* sent sooner than RATE_LIMIT_INTERVAL after the previous one.           *)
THEOREM GateSpacingHolds == Spec => GateSpacing
  <1>1. GateInv => \A t \in Tasks : Pass(t) => sinceSend >= RateLimitInterval
    BY PassSpaced
  <1>2. QED
    BY <1>1, GateInvariant, PTL DEF GateSpacing

-----------------------------------------------------------------------------
(* Refinement of the abstract gate.                                       *)

(* The gate phase of a caller at location l.                              *)
PhaseOf(l) ==
    IF l \in {"lock", "gateSleep"} THEN "gate"
    ELSE IF l = "inflight" THEN "sent"
    ELSE "out"

(* Moving one caller to location l moves only its gate phase.             *)
LEMMA PhaseStep ==
    ASSUME NEW t \in Tasks, NEW l, pc \in [Tasks -> Locations],
           pc' = [pc EXCEPT ![t] = l]
    PROVE  /\ GatePhase = [u \in Tasks |-> PhaseOf(pc[u])]
           /\ GatePhase' = [GatePhase EXCEPT ![t] = PhaseOf(l)]
  BY DEF GatePhase, PhaseOf

(* A caller that moves between two locations of the same phase leaves the *)
(* gate state as it is.                                                   *)
LEMMA PhaseSame ==
    ASSUME NEW t \in Tasks, NEW l, pc \in [Tasks -> Locations],
           pc' = [pc EXCEPT ![t] = l], PhaseOf(l) = PhaseOf(pc[t])
    PROVE  GatePhase' = GatePhase
  BY DEF GatePhase, PhaseOf

(* A caller that moves to location l, whose phase before was `from`, takes *)
(* the abstract step that moves it to PhaseOf(l).                          *)
LEMMA PhaseMove ==
    ASSUME NEW t \in Tasks, NEW l, pc \in [Tasks -> Locations],
           pc' = [pc EXCEPT ![t] = l]
    PROVE  /\ GatePhase[t] = PhaseOf(pc[t])
           /\ GatePhase' = [GatePhase EXCEPT ![t] = PhaseOf(l)]
  BY PhaseStep

(* Every step of get(), of a caller or of the clock, is a step of the     *)
(* abstract gate or leaves the gate state unchanged.                      *)
LEMMA GateRefineStep ==
    GateInv /\ [Next]_vars => [GateAbs!Next]_GateAbs!gateVars
  <1> SUFFICES ASSUME GateInv, [Next]_vars
               PROVE  [GateAbs!Next]_GateAbs!gateVars
    OBVIOUS
  <1>0. pc \in [Tasks -> Locations]
    BY DEF GateInv, TypeOK
  <1>1. ASSUME NEW t \in Tasks, Call(t) PROVE GateAbs!Enter(t)
    <2>1. pc[t] = "idle" /\ pc' = [pc EXCEPT ![t] = "lock"]
          /\ sinceSend' = sinceSend
      BY <1>1 DEF Call
    <2>2. QED
      BY <1>0, <2>1, PhaseMove DEF GateAbs!Enter, PhaseOf
  <1>2. ASSUME NEW t \in Tasks, Acquire(t) PROVE UNCHANGED GateAbs!gateVars
    <2>1. pc[t] = "lock" /\ pc' = [pc EXCEPT ![t] = "gateSleep"]
          /\ sinceSend' = sinceSend
      BY <1>2 DEF Acquire, ghostVars
    <2>2. QED
      BY <1>0, <2>1, PhaseSame DEF GateAbs!gateVars, PhaseOf
  <1>3. ASSUME NEW t \in Tasks, Pass(t) PROVE GateAbs!Send(t)
    <2>1. sinceSend >= RateLimitInterval
      BY <1>3, PassSpaced
    <2>2. pc[t] \in {"lock", "gateSleep"} /\ sinceSend' = 0
          /\ pc' = [pc EXCEPT ![t] = "inflight"]
      BY <1>3 DEF Pass
    <2>3. QED
      BY <1>0, <2>1, <2>2, PhaseMove DEF GateAbs!Send, PhaseOf
  <1>4. ASSUME NEW t \in Tasks, NEW l \in {"idle", "backoff"},
               pc[t] = "inflight", pc' = [pc EXCEPT ![t] = l],
               sinceSend' = sinceSend
        PROVE  GateAbs!Leave(t)
    BY <1>0, <1>4, PhaseMove DEF GateAbs!Leave, PhaseOf
  <1>5. ASSUME NEW t \in Tasks, Complete(t) \/ GiveUp(t) \/ Backoff(t)
        PROVE  GateAbs!Leave(t)
    <2>1. CASE Complete(t)
      BY <2>1, <1>4 DEF Complete, Finish, ghostVars
    <2>2. CASE GiveUp(t)
      BY <2>2, <1>4 DEF GiveUp, Finish, ghostVars
    <2>3. CASE Backoff(t)
      BY <2>3, <1>4 DEF Backoff
    <2>4. QED
      BY <1>5, <2>1, <2>2, <2>3
  <1>6. ASSUME NEW t \in Tasks, Resume(t) PROVE GateAbs!Enter(t)
    <2>1. pc[t] = "backoff" /\ pc' = [pc EXCEPT ![t] = "lock"]
          /\ sinceSend' = sinceSend
      BY <1>6 DEF Resume, ghostVars
    <2>2. QED
      BY <1>0, <2>1, PhaseMove DEF GateAbs!Enter, PhaseOf
  <1>7. ASSUME NEW t \in Tasks, Cancel(t)
        PROVE  GateAbs!Leave(t) \/ UNCHANGED GateAbs!gateVars
    <2>1. pc[t] # "idle" /\ pc' = [pc EXCEPT ![t] = "idle"]
          /\ sinceSend' = sinceSend
      BY <1>7 DEF Cancel, Finish, ghostVars
    <2>2. CASE pc[t] = "backoff"
      BY <1>0, <2>1, <2>2, PhaseSame DEF GateAbs!gateVars, PhaseOf
    <2>3. CASE pc[t] # "backoff"
      <3>1. PhaseOf(pc[t]) # "out"
        BY <1>0, <2>1, <2>3 DEF Locations, PhaseOf
      <3>2. QED
        BY <1>0, <2>1, <3>1, PhaseMove DEF GateAbs!Leave, PhaseOf
    <2>4. QED
      BY <2>2, <2>3
  <1>8. CASE Tick
    <2>1. pc' = pc /\ sinceSend' = Age(sinceSend)
      BY <1>8 DEF Tick
    <2>2. QED
      BY <2>1 DEF GateAbs!Tick, Age, GatePhase, GateAbs!Next
  <1>9. CASE UNCHANGED vars
    <2>1. pc' = pc /\ sinceSend' = sinceSend
      BY <1>9 DEF vars, limiterVars, callerVars, ghostVars
    <2>2. QED
      BY <2>1 DEF GateAbs!gateVars, GatePhase
  <1>10. QED
    BY <1>1, <1>2, <1>3, <1>5, <1>6, <1>7, <1>8, <1>9
       DEF Next, Step, GateAbs!Next

(* GateRefines: GateRefinement, for every number of callers and every     *)
(* interval: get(), with its Mutex hand-over, sleeps, 503 retries and     *)
(* cancellation, implements the abstract gate, whose sends are spaced by  *)
(* RATE_LIMIT_INTERVAL and are made only by callers that entered it.      *)
THEOREM GateRefines == Spec => GateRefinement
  <1>1. Init => GateAbs!Init
    BY DEF Init, GateAbs!Init, GatePhase
  <1>2. QED
    BY <1>1, GateRefineStep, GateInvariant, PTL
       DEF Spec, GateRefinement, GateAbs!Spec

-----------------------------------------------------------------------------
(* The attempt budget of get().  A caller that has not yet sent its       *)
(* current attempt (in lock(), acquire or the backoff sleep) has sent one *)
(* request per retry; one in flight has sent one more; one that returned  *)
(* sent at most one more, and exactly MAX_RETRIES + 1 when it returned    *)
(* RateLimited.                                                           *)
AttemptOK(t) ==
    /\ pc[t] \in {"lock", "gateSleep", "backoff"} => attempts[t] = retries[t]
    /\ pc[t] = "inflight" => attempts[t] = retries[t] + 1
    /\ pc[t] = "idle" => attempts[t] <= retries[t] + 1
    /\ result[t] = "RateLimited" /\ pc[t] = "idle"
          => attempts[t] = MaxRetries + 1
AttemptInv == \A t \in Tasks : AttemptOK(t)

(* A step of caller t that leaves the counters of every other caller     *)
(* alone keeps AttemptInv once it keeps AttemptOK(t).                     *)
LEMMA AttemptLocal ==
    ASSUME AttemptInv, NEW t \in Tasks, AttemptOK(t)',
           \A u \in Tasks \ {t} :
               /\ pc'[u] = pc[u] /\ attempts'[u] = attempts[u]
               /\ retries'[u] = retries[u] /\ result'[u] = result[u]
    PROVE  AttemptInv'
  BY DEF AttemptInv, AttemptOK

LEMMA AttemptStep == TypeOK /\ AttemptInv /\ [Next]_vars => AttemptInv'
  <1> SUFFICES ASSUME TypeOK, AttemptInv, [Next]_vars PROVE AttemptInv'
    OBVIOUS
  <1>0. /\ pc \in [Tasks -> Locations]
        /\ attempts \in [Tasks -> Nat]
        /\ retries \in [Tasks -> 0..MaxRetries]
        /\ result \in [Tasks -> Outcomes]
        /\ MaxRetries \in Nat
    BY ConstantsAssumption DEF TypeOK
  <1>1. ASSUME NEW t \in Tasks, Call(t) PROVE AttemptInv'
    <2>1. /\ pc' = [pc EXCEPT ![t] = "lock"]
          /\ attempts' = [attempts EXCEPT ![t] = 0]
          /\ retries' = [retries EXCEPT ![t] = 0]
          /\ result' = result
      BY <1>1 DEF Call
    <2>2. QED
      BY <1>0, <2>1, AttemptLocal DEF AttemptOK
  <1>2. ASSUME NEW t \in Tasks, Acquire(t) PROVE AttemptInv'
    <2>1. /\ pc[t] = "lock" /\ pc' = [pc EXCEPT ![t] = "gateSleep"]
          /\ attempts' = attempts /\ retries' = retries /\ result' = result
      BY <1>2 DEF Acquire, ghostVars
    <2>2. QED
      BY <1>0, <2>1, AttemptLocal DEF AttemptInv, AttemptOK
  <1>3. ASSUME NEW t \in Tasks, Pass(t) PROVE AttemptInv'
    <2>1. /\ pc[t] \in {"lock", "gateSleep"}
          /\ pc' = [pc EXCEPT ![t] = "inflight"]
          /\ attempts' = [attempts EXCEPT ![t] = attempts[t] + 1]
          /\ retries' = retries /\ result' = result
      BY <1>3 DEF Pass
    <2>2. QED
      BY <1>0, <2>1, AttemptLocal DEF AttemptInv, AttemptOK
  <1>4. ASSUME NEW t \in Tasks, Complete(t) PROVE AttemptInv'
    <2>1. PICK s \in TerminalStatuses :
               /\ pc[t] = "inflight" /\ pc' = [pc EXCEPT ![t] = "idle"]
               /\ result' = [result EXCEPT ![t] = Classify(s)]
               /\ attempts' = attempts /\ retries' = retries
      BY <1>4 DEF Complete, Finish, ghostVars
    <2>2. Classify(s) # "RateLimited"
      BY DEF TerminalStatuses, Statuses, Classify
    <2>3. QED
      BY <1>0, <2>1, <2>2, AttemptLocal DEF AttemptInv, AttemptOK
  <1>5. ASSUME NEW t \in Tasks, Backoff(t) PROVE AttemptInv'
    <2>1. /\ pc[t] = "inflight" /\ pc' = [pc EXCEPT ![t] = "backoff"]
          /\ retries' = [retries EXCEPT ![t] = retries[t] + 1]
          /\ attempts' = attempts /\ result' = result
      BY <1>5 DEF Backoff
    <2>2. QED
      BY <1>0, <2>1, AttemptLocal DEF AttemptInv, AttemptOK
  <1>6. ASSUME NEW t \in Tasks, GiveUp(t) PROVE AttemptInv'
    <2>1. /\ pc[t] = "inflight" /\ pc' = [pc EXCEPT ![t] = "idle"]
          /\ retries[t] >= MaxRetries
          /\ result' = [result EXCEPT ![t] = "RateLimited"]
          /\ attempts' = attempts /\ retries' = retries
      BY <1>6 DEF GiveUp, Finish, ghostVars
    <2>2. retries[t] = MaxRetries
      BY <1>0, <2>1
    <2>3. QED
      BY <1>0, <2>1, <2>2, AttemptLocal DEF AttemptInv, AttemptOK
  <1>7. ASSUME NEW t \in Tasks, Resume(t) PROVE AttemptInv'
    <2>1. /\ pc[t] = "backoff" /\ pc' = [pc EXCEPT ![t] = "lock"]
          /\ attempts' = attempts /\ retries' = retries /\ result' = result
      BY <1>7 DEF Resume, ghostVars
    <2>2. QED
      BY <1>0, <2>1, AttemptLocal DEF AttemptInv, AttemptOK
  <1>8. ASSUME NEW t \in Tasks, Cancel(t) PROVE AttemptInv'
    <2>1. /\ pc' = [pc EXCEPT ![t] = "idle"]
          /\ result' = [result EXCEPT ![t] = "Cancelled"]
          /\ attempts' = attempts /\ retries' = retries
      BY <1>8 DEF Cancel, Finish, ghostVars
    <2>2. attempts[t] <= retries[t] + 1
      BY <1>0 DEF AttemptInv, AttemptOK, Locations
    <2>3. QED
      BY <1>0, <2>1, <2>2, AttemptLocal DEF AttemptOK
  <1>9. CASE Tick
    <2>1. pc' = pc /\ attempts' = attempts /\ retries' = retries
          /\ result' = result
      BY <1>9 DEF Tick
    <2>2. QED
      BY <2>1 DEF AttemptInv, AttemptOK
  <1>10. CASE UNCHANGED vars
    <2>1. pc' = pc /\ attempts' = attempts /\ retries' = retries
          /\ result' = result
      BY <1>10 DEF vars, limiterVars, callerVars, ghostVars
    <2>2. QED
      BY <2>1 DEF AttemptInv, AttemptOK
  <1>11. QED
    BY <1>1, <1>2, <1>3, <1>4, <1>5, <1>6, <1>7, <1>8, <1>9, <1>10
       DEF Next, Step

(* A client no caller has used yet satisfies AttemptInv.                 *)
LEMMA AttemptInit == Init => AttemptInv
  <1> SUFFICES ASSUME Init, NEW t \in Tasks PROVE AttemptOK(t)
    BY DEF AttemptInv
  <1>1. pc[t] = "idle" /\ attempts[t] = 0 /\ retries[t] = 0
        /\ result[t] = "none"
    BY DEF Init
  <1>2. QED
    BY <1>1 DEF AttemptOK

(* AttemptBudgetHolds: AttemptBudget, for every retry budget and every   *)
(* number of callers: get() sends at most MAX_RETRIES + 1 requests per    *)
(* logical request, and returns RateLimited only after exactly that many. *)
THEOREM AttemptBudgetHolds == Spec => []AttemptBudget
  <1>1. Init => AttemptInv
    BY AttemptInit
  <1>2. TypeOK /\ AttemptInv => AttemptBudget
    <2> SUFFICES ASSUME TypeOK, AttemptInv, NEW t \in Tasks
                 PROVE  /\ attempts[t] <= MaxRetries + 1
                        /\ result[t] = "RateLimited" /\ pc[t] = "idle"
                              => attempts[t] = MaxRetries + 1
      BY DEF AttemptBudget
    <2>1. pc[t] \in Locations /\ retries[t] \in 0..MaxRetries
          /\ attempts[t] \in Nat /\ MaxRetries \in Nat
      BY ConstantsAssumption DEF TypeOK
    <2>2. QED
      BY <2>1 DEF AttemptInv, AttemptOK, Locations
  <1>3. QED
    BY <1>1, <1>2, AttemptStep, TypeCorrect, PTL DEF Spec

=============================================================================
