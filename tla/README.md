# TLA+ models of open-music-player's MusicBrainz client

This directory holds TLA+ specifications of the parts of
`src/src` that have behaviour worth checking. It also holds TLC
configurations that model-check them, and TLAPS proofs of the most
important properties for every value of the constants.

## The system

The repository has two halves:

* **The MusicBrainz client** (`src/src/musicbrainz/client.rs`,
  `error.rs`). This is the only part with concurrency and control logic.
  Every public operation (`search_recordings/artists/releases`,
  `lookup_recording/artist/release`) builds a URL and calls
  `MusicBrainzClient::get`. `get` runs a loop:
  1. It locks the client's shared `Arc<tokio::sync::Mutex<RateLimiter>>`
     and runs `RateLimiter::acquire`. That measures the time since
     `last_request` and, if it is under `RATE_LIMIT_INTERVAL`, sleeps for
     the difference while still holding the guard. Then it records
     `last_request = now`.
  2. It drops the guard and sends the request.
  3. It classifies the status: 2xx gives the decoded body or
     `ParseError`; 404 gives `NotFound`; any other status gives
     `ApiError`; a transport error gives `Request`. A 503 sleeps
     `backoff` (outside the lock), doubles it and loops, at most
     `MAX_RETRIES` times, and then returns `RateLimited`.

  Many tokio tasks may call one client at once. The gate's timestamp is
  the only state they share. Any caller's future may be dropped
  (cancelled) at an await point.
* **Storage and startup** (`src/src/db`, `main.rs`). These are sqlx pool
  wrappers, plain record structs, and the `DownloadStatus` enum with its
  string conversions.

## Inventory

| Component | Source | State | Operations | Module | Status |
|---|---|---|---|---|---|
| Request gate | client.rs 17-38, 40-80, 89-92 | `last_request`, the Mutex owner and its FIFO queue | `new`, `lock().await`, `acquire` (check, sleep, record), guard drop | MBClient | modelled |
| Retry policy | client.rs 83-121 | per call: `retries`, `backoff` | 503 check, budget check, backoff sleep, doubling, `continue` | MBClient, RetryPolicy | modelled |
| Response classifier | client.rs 95-130, error.rs | none | status to `MbError` | MBClient (`Classify`) | modelled |
| Transport | client.rs 56-59, 95 | none (library) | one `send()` | MBClient (`Complete`) | partly: the outcome is any status class |
| Catalog operations | client.rs 134-213 | none | URL building: limit default and clamp, offset default, `urlencoding::encode` | CatalogRequest | modelled |
| DownloadStatus | db/models.rs 74-109 | none | `From<String>`, `From<DownloadStatus>` | DownloadStatus | modelled |
| Serde models | musicbrainz/models.rs, client.rs 98-101 | none | `response.json::<T>()`: derived `Deserialize` with renames, `Option` and `#[serde(default)]` | CatalogDecode | modelled |
| Database | db/mod.rs | connection pool | connect, migrate, health check | none | not modelled: pure I/O |
| Record types | db/models.rs | none | none | none | not modelled |
| Startup | main.rs | none | sequential I/O | none | not modelled |

The hazards of each component are listed in `PROJECT.json`, each at the
line where it bites. They are:

* callers racing for the gate;
* the order of check, sleep and record inside `acquire`;
* the wait computation;
* a caller cancelled while it holds the guard or waits for it;
* the retry budget and the backoff doubling;
* backoff sleeps running beside other callers' sends;
* splicing a user's query into a URL;
* the silent `Pending` fallback;
* a serde rename that does not match the wire, and a missing required key failing a whole response.

## Modules

### MBClient.tla: the client under concurrency

Constants:

* `Tasks`: the concurrent callers.
* `NoTask`: the value "nobody owns the Mutex".
* `RateLimitInterval`, `InitialBackoff`: in clock ticks.
* `MaxRetries`.
* `MaxCalls`: a bound on the logical requests each caller starts.

Time is discrete, and `Tick` advances the monotonic clock by one unit.

State:

| Variable | Code | Meaning |
|---|---|---|
| `elapsed` | `last_request.elapsed()` | Ticks since `last_request`, capped at the interval. The code only compares it with the interval or subtracts it when it is smaller. |
| `holder`, `waiters` | the tokio Mutex | The owner and the FIFO wait queue. tokio's Mutex hands the permit to the first waiter when the guard drops. This order is tokio's, taken as given: no property checks it, and the spec promises no order among callers. |
| `pc[t]` | where caller `t` is in `get` | `idle`; `lock` (in `lock().await`, or owning the guard before the check); `gateSleep` (sleeping in `acquire`); `inflight` (sending); `backoff` (sleeping after a 503). |
| `timer[t]` | `tokio::time::sleep` | Ticks left of the current sleep. |
| `retries`, `backoff` | the locals of `get` | |
| `result` | the returned `MbResult` | Its variant only, or `Cancelled`. |
| `sinceSend`, `attempts`, `slept` | none (ghost) | Ticks since the last send, sends in this call, and total backoff slept. Used only by properties. |

Actions (one per step of `get` between two await points):

* `Call`: lines 83-90; enters `get` and locks.
* `Acquire`: lines 29-34; the check finds too little time and the sleep starts.
* `Pass`: lines 29-37 and 89-95; the check passes or the sleep ends, `last_request` is recorded, the guard drops (handing the lock on), and `send` starts.
* `Complete`: lines 95-130; any terminal status class.
* `Backoff`: lines 108-120.
* `GiveUp`: lines 108-112.
* `Resume`: lines 118-120; `continue` locks again.
* `Cancel`: the future is dropped at any await point. The guard, or a lock already granted, is passed on; a queued lock future leaves the queue.
* `Tick`.

`Cancel` leaves `last_request` untouched. A caller cancelled in its gate
sleep therefore does not use up a slot.

### CatalogRequest.tla: the URLs of the public operations

`SearchUrl` and `LookupUrl` translate the `format!` strings of lines
134-213. A URL is a sequence of tokens: characters of the query,
separators, and atomic tokens for the base URL, endpoint names, MBIDs and
decimal numbers. The model includes:

* `EffectiveLimit`: `limit.unwrap_or(25).min(100)`.
* `EffectiveOffset`: the offset default.
* `Encode`: `urlencoding::encode`. Unreserved characters stay; every
  other character becomes `%` and two hex digits.

A reference server-side parser (`ParseUrl`: split on `/`, `?`, `&` and the
first `=`; decode `+` and `%XX`) and the endpoint table of spec section 6
(`Intended`) give what each call should ask for. The state is just the
call's arguments and its URL; `Build` runs the operation once.

### Gate.tla: what the request gate promises

This is an abstract specification of the gate, with no Mutex, queue or
sleep. Each caller is `out`, in the `gate` (waiting for a slot) or has
`sent`. `since` counts ticks since the last send. `Send` is allowed only
to a caller in the gate, and only once `since >= RateLimitInterval`.

MBClient maps onto it (`GatePhase`, `GateAbs`). A caller in `lock` or
`gateSleep` is in the gate, an `inflight` caller has sent, and an idle or
backing-off caller is out. `since` is the ghost `sinceSend`. Under this
mapping:

* `Call` and `Resume` are `Enter`.
* `Pass` is `Send`.
* `Complete`, `GiveUp`, `Backoff` and `Cancel` are `Leave`. A `Cancel`
  during the backoff sleep is a stutter.
* `Acquire` is a stutter.
* `Tick` is `Tick`.

### RetryPolicy.tla: what the retry loop promises

This is an abstract specification of the retry loop of `get()`, with no
lock, sleep or status code. Per caller it has `active` (a logical request
is running), `sent` (its attempts so far) and `outcome` (the result of the
last request). `Start` begins a request. `Attempt` sends one more, only
while `sent <= MaxRetries`. `End(t, r)` ends it with result `r`, which
may be `RateLimited` only when `sent = MaxRetries + 1` and anything but
`Cancelled` only when `sent >= 1`.

MBClient maps onto it (`Busy`, `RetryAbs`): a caller is active when its
`pc` is not `idle`, `sent` is the ghost `attempts` and `outcome` is
`result`. Under this mapping:

* `Call` is `Start`.
* `Pass` is `Attempt`.
* `Complete`, `GiveUp` and `Cancel` are `End`.
* `Acquire`, `Backoff`, `Resume` and `Tick` are stutters.

### CatalogDecode.tla: decoding catalog entities

Each struct of `musicbrainz/models.rs` is translated into a schema. A
schema maps every Rust field to three things:

* the JSON key serde reads it from: its name, or its `#[serde(rename)]`;
* its type: `Uuid`, `String`, `u8`/`u32`/`u64`, `bool`, `Option<T>`,
  `Vec<T>` or another struct;
* whether it has `#[serde(default)]`.

`DecodeTy` is serde_json's derived `Deserialize` as `response.json::<T>()`
runs it (client.rs 98-101). It follows these rules:

* A `null` is `None` for an `Option`.
* An absent key gives the default of a `#[serde(default)]` field and
  `None` for an `Option`. Any other absent key is "missing field".
* Unknown keys are ignored.
* A value of the wrong type fails.
* `u8` accepts 0..255.

A failed decode is `ParseError`.

JSON values and decoded values are tagged records, so an empty object and
an empty array stay distinct. Strings, identifiers and numbers are single
representative tokens.

The server side is independent of the renames. `ApiKey` gives the
catalog's own key for each Rust field: hyphenated as spec section 6
lists, and `type` for `artist_type`. The decoder never sees `ApiKey`.
There are two sets of bodies:

* `CompleteBodies` sends every key, with each optional value null or set
  and each list empty or of one full element.
* `PartialBodies` leaves out one key of a full body.

### DownloadStatus.tla: the job status conversions

`StatusToString` and `StatusFromString` translate the two `From` impls of
`db/models.rs` 86-109. The file has four theorems, proved for every
string.

### MBClientProofs.tla and MBClientRetryProofs.tla

These hold the TLAPS proofs about MBClient (see "Proved" below).
`MBClientProofs` has those about the gate, the lock and the attempt
budget. `MBClientRetryProofs` has those about the backoff schedule and
the retry policy.

## Runs

| Run | Config | Properties | Bounds | States |
|---|---|---|---|---|
| mbclient_safety | MCMBClient.cfg | TypeOK, LockConsistent, AttemptBudget, BackoffSchedule, GateSpacing | 3 tasks (symmetric), interval 2, initial backoff 2, 2 retries, 1 call each | 33k distinct |
| mbclient_liveness | MCMBClientLive.cfg | RequestCompletes | 2 tasks, 2 calls each, the rest as above | 86k distinct |
| mbclient_gate_refinement | MCMBClientGate.cfg | GateRefinement | 2 tasks, 2 calls each, interval 2, backoff 1, 2 retries, no symmetry | 70k distinct |
| mbclient_retry_refinement | MCMBClientRetry.cfg | RetryRefinement | as mbclient_gate_refinement | 70k distinct |
| catalog_decode | MCCatalogDecode.cfg | WireFieldsCarried | all 15 entities, every complete body as above | 804 distinct |
| catalog_decode_absent (violation) | MCCatalogDecodeAbsent.cfg | AbsentFieldsDefault | every body with one key left out | violated |
| catalog_urls | MCCatalogRequest.cfg | RequestFaithful | all queries of up to 3 characters over `a & = + % space`; limits None, 0, 1, 99, 100, 101, 500; offsets None, 0, 7; 2 MBIDs | 33k distinct |

What each property says:

* **GateSpacing** (an action property): no `Pass` step happens while the
  last send is younger than the interval. Retried attempts and cancelled
  sleepers are included.
* **LockConsistent**: the Mutex is never free while callers queue. Its
  owner is inside `lock`/`acquire`. Every caller in `lock` owns it or is
  queued exactly once.
* **AttemptBudget**: at most `MAX_RETRIES + 1` sends per logical
  request, and `RateLimited` only after exactly that many. The budget
  check of line 109 comes before `retries += 1`.
* **BackoffSchedule**: the total backoff after k retries is
  `INITIAL_BACKOFF * (2^k - 1)` (spec section 8). The sleep uses
  `backoff` before it is doubled.
* **GateRefinement**: the client implements `Gate`. Every send is made
  by a caller that entered the gate for this attempt (a retry enters
  again), and only an interval after the previous send. The refinement
  run has no symmetry set, because `GatePhase` is a property of the tasks
  and the run is small.
* **RetryRefinement**: the client implements `RetryPolicy`. Every send
  is an attempt of a running request within its `MAX_RETRIES + 1`
  budget. Each request ends once, `RateLimited` only with its budget
  spent, and with an answer other than `Cancelled` only after a send. Two
  calls per task let a task give up and then start again with a fresh
  budget.
* **WireFieldsCarried**: every complete body decodes. Every field holds
  the value sent under the catalog's key for it, nested entities
  included. A rename that does not match the wire would silently leave an
  `Option` field `None`.
* **RequestCompletes**: every started request returns.
* **RequestFaithful**: the URL of every operation parses back to exactly
  its endpoint and parameters. In particular, no character of the query
  can add, split or change a parameter, and the limit is clamped.

Why these bounds are enough:

* Three tasks give a holder, a queued waiter and a third caller arriving
  while both exist. This is the smallest case where hand-off order and
  cancellation of a middle queue entry matter.
* An interval of 2 makes a partial wait possible: `elapsed` is 1 when the
  next caller checks.
* A backoff of 2 and two retries make the doubling observable (2, then 4
  ticks) and reach the budget check on both sides.
* The liveness run uses two calls per task, so a task re-enters the queue
  after finishing.
* The URL bounds cover every pair of metacharacters and every limit
  around the clamp.

Every action and disjunct of the next-state relations fires in these runs.

Each property has a mutant in `PROJECT.json` that TLC kills. These are
plausible slips in the code:

| Mutant | Plausible slip | Property it breaks |
|---|---|---|
| `AcquireShortWait` | wait one tick short | GateSpacing |
| `CancelKeepLock` | cancelled holder keeps the lock | LockConsistent |
| `BackoffDoubledFirst` | doubling before the sleep | BackoffSchedule |
| `GiveUpCountedFirst` | retry counted before the budget check | AttemptBudget |
| `PassNoRecord` | `last_request` not recorded (line 36) | GateRefinement |
| `RecordingNoRename` | `#[serde(rename = "first-release-date")]` left out | WireFieldsCarried |
| `BackoffOffByOne` | `>` for `>=` at line 109 | TypeOK, RetryRefinement |
| `UnlockNoHandoff` | guard drop without waking the next waiter | RequestCompletes |
| `EncodeIdentity` | query not encoded | RequestFaithful |

### Fairness

`FairSpec` assumes weak fairness of `Tick` and of each caller's `Step`
(all actions except `Call` and `Cancel`). The justification:

* The monotonic clock advances.
* tokio polls every woken task: a task granted the lock, or whose sleep
  has ended, is woken.
* reqwest's 30 s timeout bounds every send, so a send ends in some status
  class.

Nothing obliges a caller to start a call or to cancel one, so `Call` and
`Cancel` get no fairness.

### Deadlock

The safety and liveness runs set `CHECK_DEADLOCK FALSE`. Once every
caller has used its `MaxCalls` and all timers are at 0, the system is
quiescent, which is a correct final state. The catalog run stops after
building its one URL, and the decoding runs after decoding their one
body.

## Findings

`catalog_decode_absent` checks `AbsentFieldsDefault`, the rule of spec
section 6 that "fields absent from a response default to empty/absent
rather than erroring". TLC finds it violated. The first counterexample is
an `ArtistCredit` body without `artist`. The structs require:

* every `id`, `name` and `title`;
* `ArtistCredit.artist`;
* `score`;
* `count`, `offset` and the result lists of the search wrappers.

Without any of these, the whole 2xx response is `ParseError`. Only the
`Option` fields and the `#[serde(default)]` lists and `joinphrase` follow
the spec's rule. This is recorded as a spec/code divergence in
`PROJECT.json`.

## Proved (TLAPS)

`MBClientProofs.tla` proves the following for all values of the constants
that satisfy `ConstantsAssumption` (any number of tasks, positive interval
and backoff, any retry budget):

* `TypeCorrect`: `Spec => []TypeOK`. Its induction step is the lemma
  `TypeStep`, with typing lemmas for the lock helpers.
* `GateInvariant`: `Spec => []GateInv`. The inductive invariant
  `GateInv` is `TypeOK /\ LockConsistent /\ SpacingClock /\ SleeperHolds`:
  * `SpacingClock`: `elapsed = sinceSend`. The gate's clock is the time
    since the last send, because `last_request` is written only
    immediately before a send.
  * `SleeperHolds`: a caller in its gate sleep owns the Mutex, and
    `elapsed + timer >= interval`.

  `GateSpacing` alone is not inductive. A sleeper's wake-up must be known
  to come late enough, and nobody else may change `last_request` during
  the sleep; `SleeperHolds` and `LockConsistent` supply exactly these.
  The step proof `GateStep` has one case per action. It rests on the
  lemmas `QuietStep` (steps that touch no lock or clock), `EnqueueStep`
  (`Call`, `Resume`), `ReleaseStep` (a guard dropped and handed on),
  `DequeueStep` (a queued caller cancelled), `AcquireStep` and
  `TickStep`, and on `DropAtProperties` for the queue removal.
* `LockConsistentHolds`: `Spec => []LockConsistent`.
* `GateSpacingHolds`: `Spec => GateSpacing`. From `GateInv`, a `Pass`
  from `lock` has `elapsed >= interval`, and one from `gateSleep` has
  `timer = 0`, hence `elapsed >= interval`. `SpacingClock` turns this
  into `sinceSend`.

`DownloadStatus.tla` proves four facts about the two `From` impls:

* `StatusRoundTrip`: store then load is the identity.
* `StatusStringsDistinct`.
* `StatusFallback`: the conversion is total, and unknown strings read as
  `Pending`.
* `StatusLoadStore`: load then store keeps exactly the five storage
  strings.

* `GateRefines`: `Spec => GateRefinement`. This follows the usual
  refinement argument:
  * `Init` maps to `Gate`'s `Init`.
  * Under `GateInv`, every step maps to a `Gate` step or a stutter
    (`GateRefineStep`). There is one case per action. The lemmas
    `PhaseMove` and `PhaseSame` say how moving one caller changes
    `GatePhase`. `PassSpaced` is the spacing argument of
    `GateSpacingHolds` made a lemma: `Pass` happens only when
    `sinceSend >= interval`, which is `Send`'s guard.
  * PTL combines the two with `GateInvariant`.
* `AttemptBudgetHolds`: `Spec => []AttemptBudget`. The inductive
  invariant `AttemptInv` relates `attempts`, `retries` and `pc` per
  caller:
  * `attempts = retries` in `lock`, `gateSleep` or `backoff`;
  * `attempts = retries + 1` while in flight;
  * `attempts <= retries + 1` when idle;
  * `MAX_RETRIES + 1` when the caller returned `RateLimited`.

  With `TypeOK` (`retries <= MAX_RETRIES`) this gives the budget. The
  step lemma `AttemptStep` has one case per action, and `AttemptLocal`
  lifts a step of one caller to all callers.

`MBClientRetryProofs.tla` proves, under the same assumptions:

* `BackoffScheduleHolds`: `ExpFacts => (Spec => []BackoffSchedule)`.
  `ExpFacts` is the definition of `^` on `Nat`: `2^0 = 1`, and `2^(n+1) =
  2 * 2^n` is a natural number. These are true facts of arithmetic. The
  SMT backend has no axioms for `^`, and none of the installed provers
  can derive them. So the theorem takes them as its hypothesis instead of
  making them an assumption on the model. The inductive invariant
  `BackoffInv` says, per caller:
  * `backoff = INITIAL_BACKOFF * 2^retries`;
  * `slept + INITIAL_BACKOFF = backoff`.

  `BackoffSchedule` alone is not inductive. A retry adds the current
  `backoff` to `slept`, so the proof must also know `backoff`. The step
  lemma `BackoffStep` has three cases:
  * `Call` resets all three variables.
  * `Backoff` adds `backoff` to `slept` and doubles `backoff` while
    `retries` grows by one.
  * Every other step leaves them alone.
* `RetryRefines`: `Spec => RetryRefinement`. The argument has three
  parts:
  * `Init` maps to `RetryPolicy`'s `Init`.
  * Under `TypeOK /\ AttemptInv` (the lemma `AttemptInvariant`, from
    `AttemptStep` above), every step maps to a `RetryPolicy` step or a
    stutter (`RetryRefineStep`, one case per action).
  * The abstract guards follow from `AttemptInv`. `Pass`, from `lock` or
    `gateSleep`, has `attempts = retries <= MAX_RETRIES`, which is the
    guard of `Attempt`. `GiveUp` ends with `attempts = retries + 1 =
    MAX_RETRIES + 1`. `Complete` ends with `attempts = retries + 1 >= 1`.

## Only model-checked

* `RequestCompletes` is a liveness property; TLAPS does not reason about
  fairness or `ENABLED` here.
* `BackoffSchedule` is proved only from `ExpFacts` (see above). TLC
  checks it without that hypothesis, using TLC's own `^`.
* `WireFieldsCarried` and `AbsentFieldsDefault` are stated over a
  recursive decoder. They are checked over the bounded bodies only.
* `RequestFaithful` is stated over a recursive parser. Proofs about
  recursive operators are out of reach, so the URL module is checked over
  bounded inputs only.

## Not modelled, and why

* JSON syntax and the content of strings and numbers. Decoding starts
  from a JSON value, and MBClient abstracts a 2xx body to "decodes or
  not". CatalogDecode says which bodies decode.
* `Serialize` of the catalog structs. The client never serializes them.
* The message texts of `ApiError` and `NotFound`.
* Network timing: spacing is stated at `send()` entry.
* The panic of `Instant::now() - RATE_LIMIT_INTERVAL` on a young
  monotonic clock.
* Several clients in one process. Each has its own limiter, so the
  per-process rate is not bounded. No code of the repository builds a
  second client (only the tests do), and spec section 5 has every caller
  share one.
* The database layer and `main.rs`. These are pure I/O with no logic.

## Plan for later work

1. `Request` errors (a transport failure) ending the loop before any
   retry, as a separate check of the classifier order.
