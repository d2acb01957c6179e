------------------------------ MODULE MBClient ------------------------------
(***************************************************************************)
(* The rate-limited, retrying GET of MusicBrainzClient                     *)
(* (src/src/musicbrainz/client.rs), shared by concurrent tokio tasks.      *)
(*                                                                         *)
(* Every public operation (search_... and lookup_...) builds a URL and    *)
(* get(), which loops: lock the shared tokio Mutex<RateLimiter>, run       *)
(* RateLimiter::acquire (sleep until RATE_LIMIT_INTERVAL has passed since  *)
(* last_request, then record last_request), drop the guard, send the      *)
(* request and classify its status; a 503 is retried after an exponential *)
(* backoff sleep taken outside the lock, up to MAX_RETRIES times.          *)
(*                                                                         *)
(* Time is discrete: one Tick is one unit of the monotonic clock.  The     *)
(* limiter's timestamp last_request is kept as elapsed = now -             *)
(* last_request, capped at RateLimitInterval (the code only ever compares  *)
(* it with that interval), and each tokio sleep as the ticks it has left.  *)
(* A caller may drop (cancel) its call at any await point.                 *)
(***************************************************************************)
EXTENDS Naturals, Sequences

CONSTANTS
    Tasks,              \* the concurrent callers sharing one client
    NoTask,             \* "nobody holds the mutex"
    RateLimitInterval,  \* RATE_LIMIT_INTERVAL, in ticks
    InitialBackoff,     \* INITIAL_BACKOFF, in ticks
    MaxRetries,         \* MAX_RETRIES
    MaxCalls            \* bound: logical requests each caller starts

ASSUME ConstantsAssumption ==
    /\ NoTask \notin Tasks
    /\ RateLimitInterval \in Nat \ {0}
    /\ InitialBackoff \in Nat \ {0}
    /\ MaxRetries \in Nat
    /\ MaxCalls \in Nat

VARIABLES
    elapsed,    \* RateLimiter.last_request, as ticks since it (capped)
    holder,     \* the task owning the Mutex<RateLimiter>, or NoTask
    waiters,    \* tasks queued in lock().await, in FIFO order
    pc,         \* where each caller is in get()
    timer,      \* ticks left of the caller's current tokio::time::sleep
    retries,    \* get()'s `retries`
    backoff,    \* get()'s `backoff`, in ticks
    calls,      \* logical requests the caller has started
    result,     \* outcome of the caller's last finished logical request
    \* history variables, read only by the properties
    sinceSend,  \* ticks since any request was sent (capped)
    attempts,   \* requests sent in the current logical request
    slept       \* total backoff slept in the current logical request

limiterVars == <<elapsed, holder, waiters>>
callerVars  == <<pc, timer, retries, backoff, calls, result>>
ghostVars   == <<sinceSend, attempts, slept>>
vars == <<limiterVars, callerVars, ghostVars>>

(* Where a caller is: "idle" outside any call, "lock" in lock().await      *)
(* (granted once holder = t), "gateSleep" in acquire's sleep, "inflight"   *)
(* between send() and the classification, "backoff" in the retry sleep.   *)
Locations == {"idle", "lock", "gateSleep", "inflight", "backoff"}

(* What one attempt brings back (the transport and the status line).      *)
Statuses == {"ok", "badBody", "notFound", "unavailable", "otherStatus",
             "requestError"}

(* The MbResult a logical request ends with; "none" before the first one. *)
Outcomes == {"none", "Ok", "ParseError", "NotFound", "RateLimited",
             "ApiError", "Request", "Cancelled"}

(* The classification of a terminal (non-503) status, lines 95-130.       *)
Classify(s) ==
    CASE s = "ok"           -> "Ok"
      [] s = "badBody"      -> "ParseError"
      [] s = "notFound"     -> "NotFound"
      [] s = "otherStatus"  -> "ApiError"
      [] s = "requestError" -> "Request"

TerminalStatuses == Statuses \ {"unavailable"}

(* One more tick of a duration that only matters up to the interval.      *)
Age(x) == IF x < RateLimitInterval THEN x + 1 ELSE x

(* TypeOK: every variable stays in its range; in particular the retry     *)
(* counter of get() never passes MAX_RETRIES (line 109).                  *)
TypeOK ==
    /\ elapsed \in 0..RateLimitInterval
    /\ holder \in Tasks \cup {NoTask}
    /\ waiters \in Seq(Tasks)
    /\ pc \in [Tasks -> Locations]
    /\ timer \in [Tasks -> Nat]
    /\ retries \in [Tasks -> 0..MaxRetries]
    /\ backoff \in [Tasks -> Nat]
    /\ calls \in [Tasks -> 0..MaxCalls]
    /\ result \in [Tasks -> Outcomes]
    /\ sinceSend \in 0..RateLimitInterval
    /\ attempts \in [Tasks -> Nat]
    /\ slept \in [Tasks -> Nat]

-----------------------------------------------------------------------------
(* MusicBrainzClient::with_user_agent: a fresh RateLimiter whose           *)
(* last_request is now - RATE_LIMIT_INTERVAL, behind an unlocked Mutex.    *)
Init ==
    /\ elapsed = RateLimitInterval
    /\ holder = NoTask
    /\ waiters = <<>>
    /\ pc = [t \in Tasks |-> "idle"]
    /\ timer = [t \in Tasks |-> 0]
    /\ retries = [t \in Tasks |-> 0]
    /\ backoff = [t \in Tasks |-> InitialBackoff]
    /\ calls = [t \in Tasks |-> 0]
    /\ result = [t \in Tasks |-> "none"]
    /\ sinceSend = RateLimitInterval
    /\ attempts = [t \in Tasks |-> 0]
    /\ slept = [t \in Tasks |-> 0]

(* self.rate_limiter.lock().await by t: the tokio Mutex is granted at once *)
(* when free, otherwise t joins the back of its FIFO wait queue.           *)
LockRequest(t) ==
    IF holder = NoTask
    THEN /\ holder' = t
         /\ UNCHANGED waiters
    ELSE /\ waiters' = Append(waiters, t)
         /\ UNCHANGED holder

(* Mutant: the guard is dropped without waking the first waiter.          *)
UnlockNoHandoff ==
    /\ holder' = NoTask
    /\ UNCHANGED waiters

(* Dropping the MutexGuard: the permit passes to the first waiter.        *)
Unlock ==
    IF waiters = <<>>
    THEN /\ holder' = NoTask
         /\ UNCHANGED waiters
    ELSE /\ holder' = Head(waiters)
         /\ waiters' = Tail(waiters)

(* A public operation (a search or a lookup) builds its URL and enters    *)
(* get() with retries = 0 and backoff = INITIAL_BACKOFF.                  *)
Call(t) ==
    /\ pc[t] = "idle"
    /\ calls[t] < MaxCalls
    /\ LockRequest(t)
    /\ pc' = [pc EXCEPT ![t] = "lock"]
    /\ calls' = [calls EXCEPT ![t] = @ + 1]
    /\ retries' = [retries EXCEPT ![t] = 0]
    /\ backoff' = [backoff EXCEPT ![t] = InitialBackoff]
    /\ attempts' = [attempts EXCEPT ![t] = 0]
    /\ slept' = [slept EXCEPT ![t] = 0]
    /\ UNCHANGED <<elapsed, timer, result, sinceSend>>

(* Mutant: the wait is one tick short of RATE_LIMIT_INTERVAL - elapsed.  *)
AcquireShortWait(t) ==
    /\ pc[t] = "lock"
    /\ holder = t
    /\ elapsed < RateLimitInterval
    /\ pc' = [pc EXCEPT ![t] = "gateSleep"]
    /\ timer' = [timer EXCEPT ![t] = RateLimitInterval - elapsed - 1]
    /\ UNCHANGED <<limiterVars, retries, backoff, calls, result, ghostVars>>

(* The guard is held and elapsed < RATE_LIMIT_INTERVAL: acquire sleeps    *)
(* for the difference, still holding the guard.                           *)
Acquire(t) ==
    /\ pc[t] = "lock"
    /\ holder = t
    /\ elapsed < RateLimitInterval
    /\ pc' = [pc EXCEPT ![t] = "gateSleep"]
    /\ timer' = [timer EXCEPT ![t] = RateLimitInterval - elapsed]
    /\ UNCHANGED <<limiterVars, retries, backoff, calls, result, ghostVars>>

(* Mutant: last_request is not recorded (line 36 left out).              *)
PassNoRecord(t) ==
    /\ holder = t
    /\ \/ pc[t] = "lock" /\ elapsed >= RateLimitInterval
       \/ pc[t] = "gateSleep" /\ timer[t] = 0
    /\ UNCHANGED elapsed
    /\ Unlock
    /\ pc' = [pc EXCEPT ![t] = "inflight"]
    /\ sinceSend' = 0
    /\ attempts' = [attempts EXCEPT ![t] = @ + 1]
    /\ UNCHANGED <<timer, retries, backoff, calls, result, slept>>

(* acquire returns, either at once (elapsed >= RATE_LIMIT_INTERVAL) or    *)
(* when its sleep is over: last_request := now, the guard is dropped and  *)
(* send() is entered, all without an await in between.                    *)
Pass(t) ==
    /\ holder = t
    /\ \/ pc[t] = "lock" /\ elapsed >= RateLimitInterval
       \/ pc[t] = "gateSleep" /\ timer[t] = 0
    /\ elapsed' = 0
    /\ Unlock
    /\ pc' = [pc EXCEPT ![t] = "inflight"]
    /\ sinceSend' = 0
    /\ attempts' = [attempts EXCEPT ![t] = @ + 1]
    /\ UNCHANGED <<timer, retries, backoff, calls, result, slept>>

(* The logical request ends with outcome r and the caller returns.        *)
Finish(t, r) ==
    /\ pc' = [pc EXCEPT ![t] = "idle"]
    /\ result' = [result EXCEPT ![t] = r]

(* A status other than 503 (or a transport error) ends the request.       *)
Complete(t) ==
    /\ pc[t] = "inflight"
    /\ \E s \in TerminalStatuses : Finish(t, Classify(s))
    /\ UNCHANGED <<limiterVars, timer, retries, backoff, calls, ghostVars>>

(* Mutant: `backoff *= 2` moved before the sleep.                         *)
BackoffDoubledFirst(t) ==
    /\ pc[t] = "inflight"
    /\ retries[t] < MaxRetries
    /\ retries' = [retries EXCEPT ![t] = @ + 1]
    /\ pc' = [pc EXCEPT ![t] = "backoff"]
    /\ timer' = [timer EXCEPT ![t] = 2 * backoff[t]]
    /\ slept' = [slept EXCEPT ![t] = @ + 2 * backoff[t]]
    /\ backoff' = [backoff EXCEPT ![t] = 2 * @]
    /\ UNCHANGED <<limiterVars, calls, result, sinceSend, attempts>>

(* Mutant: the budget check of line 109 written with > for >=.            *)
BackoffOffByOne(t) ==
    /\ pc[t] = "inflight"
    /\ retries[t] <= MaxRetries
    /\ retries' = [retries EXCEPT ![t] = @ + 1]
    /\ pc' = [pc EXCEPT ![t] = "backoff"]
    /\ timer' = [timer EXCEPT ![t] = backoff[t]]
    /\ slept' = [slept EXCEPT ![t] = @ + backoff[t]]
    /\ backoff' = [backoff EXCEPT ![t] = 2 * @]
    /\ UNCHANGED <<limiterVars, calls, result, sinceSend, attempts>>

(* A 503 with retries < MAX_RETRIES: count it, sleep `backoff` outside    *)
(* the lock, and double `backoff`.                                        *)
Backoff(t) ==
    /\ pc[t] = "inflight"
    /\ retries[t] < MaxRetries
    /\ retries' = [retries EXCEPT ![t] = @ + 1]
    /\ pc' = [pc EXCEPT ![t] = "backoff"]
    /\ timer' = [timer EXCEPT ![t] = backoff[t]]
    /\ slept' = [slept EXCEPT ![t] = @ + backoff[t]]
    /\ backoff' = [backoff EXCEPT ![t] = 2 * @]
    /\ UNCHANGED <<limiterVars, calls, result, sinceSend, attempts>>

(* Mutant: the retry is counted before the budget check.                 *)
GiveUpCountedFirst(t) ==
    /\ pc[t] = "inflight"
    /\ retries[t] + 1 >= MaxRetries
    /\ Finish(t, "RateLimited")
    /\ UNCHANGED <<limiterVars, timer, retries, backoff, calls, ghostVars>>

(* A 503 with retries >= MAX_RETRIES: Err(MbError::RateLimited).          *)
GiveUp(t) ==
    /\ pc[t] = "inflight"
    /\ retries[t] >= MaxRetries
    /\ Finish(t, "RateLimited")
    /\ UNCHANGED <<limiterVars, timer, retries, backoff, calls, ghostVars>>

(* The backoff sleep is over: `continue` to the top of the loop, which    *)
(* locks the rate limiter again.                                          *)
Resume(t) ==
    /\ pc[t] = "backoff"
    /\ timer[t] = 0
    /\ LockRequest(t)
    /\ pc' = [pc EXCEPT ![t] = "lock"]
    /\ UNCHANGED <<elapsed, timer, retries, backoff, calls, result, ghostVars>>

(* The queue without its i-th entry.                                     *)
DropAt(s, i) == [j \in 1..(Len(s) - 1) |-> IF j < i THEN s[j] ELSE s[j + 1]]

(* Dropping a queued lock() future unlinks it from the wait queue.        *)
LeaveQueue(t) ==
    \/ \E i \in 1..Len(waiters) :
          /\ waiters[i] = t
          /\ waiters' = DropAt(waiters, i)
    \/ /\ \A i \in 1..Len(waiters) : waiters[i] # t
       /\ UNCHANGED waiters

(* Mutant: a cancelled holder keeps the lock.                             *)
CancelKeepLock(t) ==
    /\ pc[t] # "idle"
    /\ LeaveQueue(t)
    /\ UNCHANGED holder
    /\ Finish(t, "Cancelled")
    /\ timer' = [timer EXCEPT ![t] = 0]
    /\ UNCHANGED <<elapsed, retries, backoff, calls, ghostVars>>

(* The caller drops the get() future at an await point.  Dropping the     *)
(* guard (or a granted lock() future) passes the lock on; dropping a      *)
(* queued lock() future leaves the queue.  last_request is not touched.   *)
Cancel(t) ==
    /\ pc[t] # "idle"
    /\ IF holder = t
       THEN Unlock
       ELSE /\ LeaveQueue(t)
            /\ UNCHANGED holder
    /\ Finish(t, "Cancelled")
    /\ timer' = [timer EXCEPT ![t] = 0]
    /\ UNCHANGED <<elapsed, retries, backoff, calls, ghostVars>>

(* One tick of the monotonic clock: last_request and the last send grow   *)
(* older and every running sleep comes one tick closer to its deadline.   *)
(* A tick that changes none of these is a stutter.                        *)
Tick ==
    /\ \/ elapsed < RateLimitInterval
       \/ sinceSend < RateLimitInterval
       \/ \E t \in Tasks : timer[t] > 0
    /\ elapsed' = Age(elapsed)
    /\ sinceSend' = Age(sinceSend)
    /\ timer' = [t \in Tasks |-> IF timer[t] > 0 THEN timer[t] - 1 ELSE 0]
    /\ UNCHANGED <<holder, waiters, pc, retries, backoff, calls, result,
                   attempts, slept>>

Step(t) ==
    \/ Acquire(t) \/ Pass(t) \/ Complete(t) \/ Backoff(t) \/ GiveUp(t)
    \/ Resume(t)

Next ==
    \/ \E t \in Tasks : Call(t) \/ Step(t) \/ Cancel(t)
    \/ Tick

Spec == Init /\ [][Next]_vars

(* The tokio runtime polls every woken task, the server answers or the    *)
(* 30 s reqwest timeout fires, and the clock advances.  Callers need not  *)
(* call, and need not cancel.                                             *)
FairSpec == Spec /\ WF_vars(Tick) /\ \A t \in Tasks : WF_vars(Step(t))

-----------------------------------------------------------------------------
(* Properties                                                             *)

(* GateSpacing: no request is sent sooner than RATE_LIMIT_INTERVAL after  *)
(* the previous one, however many callers race for the limiter (the      *)
(* check-sleep-record of RateLimiter::acquire under the Mutex, lines      *)
(* 29-37 and 89-92, retried attempts included).                           *)
GateSpacing ==
    [][\A t \in Tasks : Pass(t) => sinceSend >= RateLimitInterval]_vars

(* The parts of LockConsistent.  A free Mutex has no queue; its owner is  *)
(* inside lock() or acquire; every queued caller is in lock(), is not the *)
(* owner and is queued once; every caller in lock() owns the Mutex or is  *)
(* queued for it.                                                         *)
FreeLockNoWaiters == holder = NoTask => waiters = <<>>
HolderInAcquire == holder # NoTask => pc[holder] \in {"lock", "gateSleep"}
WaitersQueued ==
    \A i \in 1..Len(waiters) : waiters[i] # holder /\ pc[waiters[i]] = "lock"
WaitersDistinct ==
    \A i, j \in 1..Len(waiters) : i # j => waiters[i] # waiters[j]
LockersKnown ==
    \A t \in Tasks : pc[t] = "lock" =>
        t = holder \/ \E i \in 1..Len(waiters) : waiters[i] = t

(* LockConsistent: the tokio Mutex around the RateLimiter (lines 45, 89-92) *)
(* stays well formed when callers lock it, pass it on and cancel while     *)
(* they hold it or wait for it: it is never left free while callers queue, *)
(* never owned by a caller that has left acquire, and no queued caller is  *)
(* lost or queued twice.                                                   *)
LockConsistent ==
    /\ FreeLockNoWaiters
    /\ HolderInAcquire
    /\ WaitersQueued
    /\ WaitersDistinct
    /\ LockersKnown

(* AttemptBudget: a logical request sends at most MAX_RETRIES + 1        *)
(* requests, and ends in RateLimited only after exactly that many (the    *)
(* budget check of line 109 comes before `retries += 1`, line 113).       *)
AttemptBudget ==
    \A t \in Tasks :
        /\ attempts[t] <= MaxRetries + 1
        /\ result[t] = "RateLimited" /\ pc[t] = "idle"
              => attempts[t] = MaxRetries + 1

(* BackoffSchedule: after k retries a request has slept INITIAL_BACKOFF * *)
(* (2^0 + ... + 2^(k-1)): each sleep uses `backoff` before it is doubled  *)
(* (lines 118-119).                                                       *)
BackoffSchedule ==
    \A t \in Tasks : slept[t] = InitialBackoff * (2^retries[t] - 1)

(* RequestCompletes: every logical request a caller starts eventually     *)
(* returns a result, whatever the other callers do (tokio's fair Mutex    *)
(* and the bounded sleeps, lines 87-131).                                 *)
RequestCompletes ==
    \A t \in Tasks : pc[t] # "idle" ~> pc[t] = "idle"
-----------------------------------------------------------------------------
(* The abstract gate: a caller is in the gate from lock() until it sends  *)
(* or is cancelled, has sent while its request is in flight, and is out   *)
(* when idle or in its backoff sleep.                                     *)
GatePhase ==
    [t \in Tasks |-> IF pc[t] \in {"lock", "gateSleep"} THEN "gate"
                    ELSE IF pc[t] = "inflight" THEN "sent"
                    ELSE "out"]

GateAbs == INSTANCE Gate WITH since <- sinceSend, phase <- GatePhase

(* GateRefinement: get() with its Mutex, sleeps, retries and cancellation *)
(* implements the abstract gate: every send (line 95) is made by a caller *)
(* that entered the gate for this attempt, only when the previous send is *)
(* an interval old, and a retried attempt (line 120) enters the gate      *)
(* again before it sends.                                                 *)
GateRefinement == GateAbs!Spec
-----------------------------------------------------------------------------
(* The abstract retry policy: a caller has a logical request running from *)
(* the call of get() until it returns or is dropped.                      *)
Busy == [t \in Tasks |-> pc[t] # "idle"]

RetryAbs == INSTANCE RetryPolicy WITH active <- Busy, sent <- attempts,
                                      outcome <- result

(* RetryRefinement: the retry loop of get() (lines 87-131) implements the *)
(* retry policy: each request it sends is one attempt of the running      *)
(* logical request and within its MAX_RETRIES + 1 budget, the request     *)
(* ends exactly once, RateLimited only once the budget is spent, and with *)
(* an answer other than Cancelled only after a request was sent.          *)
RetryRefinement == RetryAbs!Spec
=============================================================================
