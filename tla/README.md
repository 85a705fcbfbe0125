# Verification of the Hostaway integration

TLA+ models, TLC runs and TLAPS proofs about `custom_components/hostaway`, the
Home Assistant integration that reads and writes one Hostaway account.  Paths
below are relative to `custom_components/hostaway` unless they start with
`specs/`.

The integration runs on one asyncio event loop.  Everything hard about it
follows from that: a handler is atomic up to its next `await`, and between two
awaits any other handler, timer or cancellation may run.  An action of these
models is therefore a stretch of code from one await to the next.

## 1. Inventory

| Component | Code | State it keeps | Operations | What is hard | What makes it correct |
|---|---|---|---|---|---|
| Proactive rate limiter | `api/rate_limit/` | per gate: admissions in the window, budgets, suppression, startup hold; per limiter: heap of waiters, one timer, aging counter; shared: IP gate, provider suppression | `acquire`, pump, timer, `note_rate_limited`, `configure`, `close` | cancellation after admission, wake-ups through shared gates, deadlines against admission, aging, budgets changed under traffic | the server's window is never overrun, 429s are obeyed, the queue is fair, nobody waits for ever |
| Process restart | `api/rate_limit/gates.py` | nothing survives | stop, crash, start | the server remembers what the process forgot; a budget may be raised on top of the start-up hold | a restart overshoots by half a budget, or by what is not held of a raised one |
| Registry and entry lifecycle | `rate_limit_registry.py`, `__init__.py`, `config_flow.py` | limiter per account, claim per entry, grace deadlines and timers | set up, fail, unload, reload, remove, change options, validate | a reload is an unload and a set-up; late timers; concurrent flows | running entries keep their limiter, no reload raises a budget, departed claims lapse |
| API client and token manager | `api/client.py`, `api/auth.py`, `api/retry.py`, `api/models.py` | cached token, refresh lock; per operation: attempt, token, deadline | `_request`, `get_token`, retries, 403 re-entry | double-checked locking, stale answers, lost answers, one deadline for everything | usable tokens, no needless refresh, no replayed mutation, bounded waits |
| Coordinators | `coordinator.py` | published data, shed counters, definition retries, write generations | refresh, shed, retry, shutdown | a refresh in flight while a write is patched in | verified writes are not undone, definitions are retried while they are missing |
| Custom-field writes | `services/custom_fields.py` | a lock and a generation per target | check consent, read, merge, write, read back, patch | ambiguous outcomes, registries replaced by a reload | no false verdict, no lost update, only what the user agreed to |
| Custom-field data | `api/custom_fields.py` | evidence per account | parse, merge, compare, page through definitions | malformed entries, unverified accounts | the merge changes one field only |
| Reads and pagination | `api/reservations.py`, `api/responses.py` | none | offset and cursor loops | pages that repeat or end malformed | termination, nothing skipped |
| Sensors and entity keys | `sensor/`, `entity.py` | key allocation per listing, the entity registry | discover, allocate, recover, preview | collisions, renames, reloads, deleted entities | keys stay unique and stable |
| Other services | `services/` | a log throttle | tasks, look-ups, door codes | little | schemas |
| Diagnostics, redaction | `diagnostics.py`, `api/redaction.py` | none | reports | none that is stateful | no secrets in output |

How they interact: Home Assistant calls the entry lifecycle, which registers a
limiter and builds a token manager and a client around it.  Coordinators (on
timers) and services (on calls) install a request context, priority plus
deadline, and call the client.  The client asks the token manager for a token,
the limiter for admission, and then the server.  A 429 flows back into the
limiter.  Gates tell every limiter that listens when they change.  Write
services patch the coordinators' data.

The hazards of this code, each at its line and with the properties that watch
it, are the `hazards` of `PROJECT.json`.

## 2. Modules

| Module | Models | Depends on |
|---|---|---|
| `SlidingWindowGate` | a gate, as operators on a record | |
| `AccountRateLimiter` | all limiters of one process, their shared gates, callers, the pump | `SlidingWindowGate` |
| `AdmissionControl` | abstract: what `acquire` promises | |
| `ProcessRestart` | restarts of the process | `AccountRateLimiter` |
| `RateLimitRegistry` | registry and entry lifecycle | |
| `ApiRequest` | one client, its token manager, concurrent operations | |
| `CustomFieldPayload` | the array of custom-field values: merge, look-up, comparison | |
| `CustomFieldWrite` | `set_custom_field` calls, the two coordinators they patch, reloads, other editors | `CustomFieldPayload` |
| `DefinitionRefresh` | the definitions coordinator and its retries | |
| `ListingKeys` | the keys of one listing's custom fields, as operators on an allocation | |
| `CustomFieldDiscovery` | definitions, sensors, entity registry and key preview together | `DefinitionRefresh`, `ListingKeys` |
| `PagedReads` | cursor pagination of reservations, with its theorem | |
| `WriteConsent` | options form, gates derived from it, checks of a write, with its theorems | |
| `MC...` | instances for TLC | the module they name |
| `SlidingWindowGateProofs`, `AccountRateLimiterProofs` | theorems about the limiter, within a process and across restarts | `ProcessRestart`, `AdmissionControl`, `TLAPS` |
| `ApiRequestProofs` | theorems about `ApiRequest` | `TLAPS` |
| `RateLimitRegistryProofs` | theorems about `RateLimitRegistry` | `TLAPS` |
| `CustomFieldWriteProofs` | theorems about `CustomFieldWrite` | `TLAPS` |
| `CustomFieldDiscoveryProofs` | theorems about `ListingKeys`, `DefinitionRefresh` and `CustomFieldDiscovery` | `TLAPS` |

Definitions marked "A bug" are not part of any specification.  Each is a
plausible mistake in the definition that follows it, used to confirm that the
properties notice it (`mutants` in `PROJECT.json`).

### SlidingWindowGate and AccountRateLimiter

The gate's timestamps are not stored twice: `gate[g].admissions` is the set of
requests a gate has counted and `admittedAt` says when each was admitted, so a
property can compare what the gate believes (after pruning, reconfiguration and
reconciliation) with what happened.  Synthetic entries, the startup hold and
reconciliation's shortfall, are separate.

| Model | Code |
|---|---|
| `Acquire` (`AcquireClosed`, `AcquireAtOnce`, `AcquireExpired`, `Enqueue`) | the four ways through `acquire` to its first await |
| `Resume`, `ResumeCancelled` | the rest of `acquire` once its future is resolved or its task cancelled |
| `Pump` (`PumpBegin`, `PumpAdmit`, `PumpArm`) | `_pump`: expire, admit in order, arm the timer |
| `FireTimer` | `_on_timer` |
| `NoteRateLimited`, `NoteProviderLimited` | `note_rate_limited` for a counter that is ours, and for any other |
| `Configure`, `Close`, `Open` | `configure`, `close`, `__init__` |
| `Tick`, `Cancel` | the loop's clock, and `Task.cancel` |

A pump is several steps, which keeps its loop readable.  `agenda` holds the
pumps the running handler still has to make and disables every other action
while it is not empty, so no interleaving is added that the loop cannot
produce.

### AdmissionControl

Callers, counters and orders of silence, with no queue, timer or gate.
`AccountRateLimiter` implements it under the mapping at `Promise`: admitted is
granted, failed or resolved with an error or cancelled is denied, a pending
future is asked.

### RateLimitRegistry

Every registry function is synchronous and starts by retiring lapsed claims, so
each is an operator on the registry record, and each Home Assistant callback
one action.  Home Assistant serialises operations on one entry and interleaves
those on different entries.  `pacer` says whether the limiter an entry's
clients hold is open.  A disabled entry is one that stays unloaded.

### ApiRequest

`job[t]` is one operation: where it awaits (`pc`), the token it carries, the
next timer that is due for it (`alarm`), its deadline and its attempt.
`GetToken` is `get_token` up to its first await; `Inside` is the second check
under the lock.  The limiter appears as what `AdmissionControl` promises:
`Acquired` admits at once, queues, or refuses a caller out of time.  The server
is external; it may revoke a token at any time, and an answer may be lost
(`Unclear`) after the request was applied or before.

### CustomFieldPayload and CustomFieldWrite

The second subsystem that several actors share.  Writers are calls of
`set_custom_field` whose request is valid; the server holds the objects, other
people edit them, two coordinators poll them, and the entry is reloaded under
all of them.

| Model | Code |
|---|---|
| `Start` | `async_handle_set_custom_field` up to the per-target lock |
| `ReadBefore`, `ReadFails` | the read, `ensure_writable_collection`, `preflight_addressed_entry`, `build_custom_field_values_payload` |
| `Applied`, `Vanished`, `Delayed`, `Limited`, `Rejected`, `Again` | one turn of the loop of `_write_custom_field` by what becomes of the request |
| `Arrives` | a request that nobody waits for any more is stored |
| `ReadBack`, `ReadBackFails`, `Verify` | the mandatory read-back, `_verify_post_write_readback`, `_patch_local_state`, `_advance_generation` |
| `Cancel` | the call's task is cancelled at an await |
| `Begin`, `Serve`, `Land`, `Dropped` | `_async_fetch_data` up to its request, at the server, after it, or its failure |
| `Reload` | `async_unload_entry` and the begin of `async_setup_entry` |
| `EditField` | somebody edits the object in Hostaway's dashboard |

A stored value is the name of whoever wrote it, so that properties can ask whose
value was lost (`AuthorAssumption`).  `version` stands for the keys a server
maintains itself, which `SERVER_MANAGED_VOLATILE_FIELDS` leaves out of the
comparison; `floor` remembers the version of the last verified write.

### DefinitionRefresh, ListingKeys and CustomFieldDiscovery

`DefinitionRefresh` has one fetch per refresher: the timer at set-up, each
retry, the scan interval.  `Answered` is one page, as long as the server makes
it: `paging` is how many definitions it returns at most and which limit it
reports, and both enter into `Page` and `LastPage` while the offset advances by
the limit requested.  `ListingKeys` writes a key
as the sequence of its words, which is how the fallback key of one field can
meet the key another one gets from its name.  `CustomFieldDiscovery` adds what
the sensor platform does when listings are published (`ListingRefreshed`), when
it registers entities (`Registers`), when the user deletes one (`Deletes`), and
when everything but the entity registry is forgotten (`Unload`, `SetUp`).
`AllocateAll` is the loop over the fields of a listing, as a recursive function
of how many have been passed.

### ProcessRestart

A step of the running process, or its end: `Restart` replaces the state of
`AccountRateLimiter` by that of a new process, and remembers in `formerly` what
the old one had admitted, which is what the server goes on counting.  `raised`
remembers whether a gate has been given a higher budget after it admitted
something.

### PagedReads and WriteConsent

Two small modules whose interesting inputs are unbounded: any page the server
may answer with, and any sequence of options.  They carry their theorems, and
no run: the proofs cover every instance.

## 3. Runs

| Run | Shows |
|---|---|
| `queue` | four callers, two classes, two admissions per window of which the startup hold takes one at first, late timers, callers cancelled at every await, a limiter that closes: `FairOrder`, `OvertakingBounded`, `QueuedDeadlineKept`, `ChargedExactly`, `NobodyStranded` |
| `refusals` | 429s with usable and unusable headers: `OccupancyWithinCeiling`, `SilenceKept`, `TypeOK` |
| `budgets` | two limiters behind one IP gate, budgets raised and lowered under traffic: `WindowBound`, `AdmittedWithinBudget`, `NoLostWakeup`, `NoZeroDelayTimer` |
| `promise` | `KeepsPromise`: refinement of `AdmissionControl`, safety and liveness; `EveryAcquireReturns` |
| `restart` | a process with a budget that may be changed at any time is stopped or crashes inside an open window, wherever its handlers are: `RestartBound` |
| `registry_lifecycle` | two entries of one account and one of another, cancelled set-ups (whose claim stays), late release timers: `RunningEntriesPaced`, `OneAccount`, `NoWindfall`, `NoHigherThanNeeded`, `ClaimsLapse`, `TypeOK` |
| `request_operations` | an ordinary operation and a mutation share a token that is restored, granted, expired, revoked and rejected, and meet every answer in every order: `SentWithGoodToken`, `NoneBoughtTwice`, `RejectedTokenNotReused`, `MutationOnce`, `DeadlineKept`, `AttemptsBounded`, `LockReleased`, `TypeOK` |
| `custom_field_write` | two writers and another editor on one object, with answers lost, late and refused, and cancellation: `VerdictsTrue`, `OthersPassThrough`, `SuccessesKept`, `OnlyRacedEditsLost`, `EveryCallEnds` |
| `custom_field_refresh` | the same writers with both coordinators polling and a reload: `VerifiedNotUndone` |
| `discovery` | a catalog that changes while it is read, definitions that load late, again or never, listings whose fields come and go, entities registered, deleted and recovered over reloads: `RetriedWhileNeeded`, `FetchedWhole`, `OneKeyPerField`, `PreviewAgrees`, `TypeOK` |

Two more runs, `request_stale_rejection` and `write_across_reload`, end in a
counterexample, each to a sentence of the repository: see section 6.

A run need not reach every hazard its properties are about, where a theorem
does: `refusals` has one limiter, and that a 429 of one account silences the
other at the shared counter is `SilenceObeyed`; `budgets` has no 429s, and that
an unusable retry time arms no timer in the past is `TimersAhead`.

**Bounds.**  Time is a small number of ticks.  The window is two ticks, which
tells apart "inside", "at the edge" and "outside", and `MaxTime` is at least a
window and a deadline, so that entries are pruned and re-used; actions at the last tick
still run and only time stops (`Horizon`).  Budgets of 1 to 3 against 2 to 5
callers make the gate full, over-full after a budget is lowered, and half-held
by the startup hold (a ceiling of 3 is the smallest that rounds). In `queue` a
scheduled caller ages after two ticks or one interactive admission, so that two
callers of a class that queue at tick 0 or 1 see either decide alone; elsewhere
both thresholds are 1. `Lag` is how late the loop runs a due timer: 0 where it
only multiplies states, 1 in `queue`, `registry_lifecycle` and
`request_operations`, whose hazards need it. In the registry, option values on
both sides of `1..MaxBudget` make
`EntryBudget` matter, and three entries are two of one account and one of
another, the smallest where minima and the single-account rule are both at
stake.  In `ApiRequest`, `MaxRetries` is 1 instead of 3, tokens live 5 to 8 ticks
with a buffer no shorter than the longest deadline (the code's 300 s against
30 s), and `MaxTokens` is a bound on what the server grants, after which the
token endpoint only refuses.  Callers of one class and account, entries of one
account, and writers are interchanged by `SYMMETRY` in safety runs only.

In `custom_field_write` two writers choose among two fields of one listing,
next to one edit; `MaxAttempts` is 2, which is the code's `range(2)`.  The
listing starts with an array that holds an entry without an id next to a value,
with a malformed entry, or without an array.  Two writers are enough for a lock
to be waited for and handed over.  It takes three, or a second edit, until a
payload that nobody waits for brings back an older array inside the section of
another call; the exception that `SuccessesKept` and `OnlyRacedEditsLost` make
for it (`Intruded`) is needed only then, and both are proved for any number.
In `custom_field_refresh` there is a selected listing and a reservation, one
field, one attempt and two lives (`MaxLives`), hence one reload; both kinds of
refresh may be at any stage when a write is verified, and when the entry is
reloaded.  In `discovery` the page limit is 2 against a catalog of one, two or
three definitions, so that a catalog fits a page, fills it, or needs a second;
two definitions are named alike, and one is named so that its key is the
fallback key of another.  The server pages as requested, without reporting a
limit, or returns one definition at a time; what other limits do is left to the
theorem, which holds for all of them.  A listing has both fields or none; that
one has its key before the other comes from unloads that register a part of the
pending entities, from deletions, and from recovery after either.  `MaxRetries` is 1 instead of 5 (`_DEFINITION_RETRY_DELAYS`):
the first refresh, one retry and the scheduled one overlap in every order.

**Fairness.**  `AccountRateLimiter` assumes strong fairness of the clock, of a
timer that is due and of a task whose future is resolved: asyncio runs its
ready queue first in, first out, so what is ready again and again runs,
although other handlers may make the action intermittently unavailable (a pump
in progress disables it, a re-armed timer moves it).  Weak fairness suffices
for the pump, which nothing can disable.  In `ApiRequest` weak fairness of the
clock, of due timers, of a lock hand-over and of the token endpoint's answer is
enough; the last is justified by the HTTP client's own timeout, which turns
silence into an error.  In `custom_field_write`, `FairSpec` has weak fairness
of each call's own steps: an awaited request or sleep ends, since both have
timeouts, and a call with the lock is never blocked by another.  Waiting for
the lock is not among these steps, so that `EveryCallEnds` rests on its being
handed over.  Nothing is assumed of users, of the server's other
answers or of admission before the deadline.

## 4. What is proved

For every value of the constants that satisfies the named assumptions:

| Theorem | Property | Assumptions |
|---|---|---|
| `TypeCorrect` | `TypeOK` of the limiter | `WindowAssumption`, `LimiterAssumption` |
| `WindowBounded` | `WindowBound`: no window of a gate holds more admissions than the ceiling | the same |
| `BudgetRespected` | `AdmittedWithinBudget` | the same |
| `SilenceObeyed` | `SilenceKept` | the same |
| `NoneStranded` | `NobodyStranded` | the same |
| `ChargesCorrect` | `ChargedExactly` | the same |
| `TimersAhead` | `NoZeroDelayTimer` | the same |
| `DeadlinesKept` | `QueuedDeadlineKept` | the same |
| `OccupancyBounded` | `OccupancyWithinCeiling` | the same |
| `OrderKept` | `FairOrder` | the same |
| `OvertakingIsBounded` | `OvertakingBounded`: how many interactive callers, and for how long, pass a scheduled one that queues | the same |
| `NoWakeupLost` | `NoLostWakeup` | the same |
| `PromiseKept` | every step is one of `AdmissionControl` or none: the safety half of `KeepsPromise` | the same |
| `RestartsBounded` | `RestartBound` of `ProcessRestart`: what all processes of a window send together | the same |
| `WindowBoundedAcrossRestarts` | `WindowBound` of each process of `ProcessRestart` | the same |
| `EntriesPaced` | `RunningEntriesPaced` of `RateLimitRegistry` | `RegistryAssumption` |
| `AccountAlone` | `OneAccount` | the same |
| `ReloadNoWindfall` | `NoWindfall` | the same |
| `MinimaRuling` | `NoHigherThanNeeded` | the same |
| `ClaimsEnd` | `ClaimsLapse` | the same |
| `TypeCorrect` | `TypeOK` of `RateLimitRegistry` | the same |
| `ApiTypeCorrect` | `TypeOK` of `ApiRequest` | `RequestAssumption`, `TaskAssumption` |
| `MutationSentOnce` | `MutationOnce` | the same |
| `DeadlinesObeyed` | `DeadlineKept` | the same |
| `AttemptsCounted` | `AttemptsBounded` | the same |
| `TokensGood` | `SentWithGoodToken` | the same |
| `RejectedStayAway` | `RejectedTokenNotReused` | the same |
| `BoughtOnce` | `NoneBoughtTwice` | the same |
| `VerdictsCorrect` | `VerdictsTrue` of `CustomFieldWrite` | `AuthorAssumption`, `WriteAssumption` |
| `VerifiedStays` | `VerifiedNotUndone` | the same |
| `SuccessesStay` | `SuccessesKept` | the same |
| `EditsStay` | `OnlyRacedEditsLost` | the same |
| `OthersPass` | `OthersPassThrough` | the same |
| `TypeCorrect` | `TypeOK` of `CustomFieldWrite`, which no run needs to check | the same |
| `CursorReadCorrect` | of `PagedReads`: nothing skipped, nothing doubled, an end | none |
| `ConsentRespected` | of `WriteConsent`: every write is one the user agreed to | none |
| `WithdrawalObeyed` | and still agrees to, but for the time a reload takes | none |
| `AllocateKeepsKeys` | of `ListingKeys`: a new key differs from all others and changes none | stated in the theorem |
| `KeysStay` | `OneKeyPerField` of `CustomFieldDiscovery` | `RefreshAssumption`, `DiscoveryAssumption` |
| `PreviewsAgree` | `PreviewAgrees` | the same |
| `Retried` | `RetriedWhileNeeded` | the same |
| `FetchesWhole` | `FetchedWhole` | the same |
| `TypeCorrect` | `TypeOK` of `CustomFieldDiscovery` | the same |

Every invariant and every action property of a passing run is among them.

The limiter.  `SlidingWindowGateProofs` shows that every gate operation keeps
a gate a gate, that none counts more than the ceiling, and that a gate which
refuses has no room before `NextAvailable`, however long it is left alone.
`AccountRateLimiterProofs` lifts this to the state, one lemma per action.  The
safety properties are not inductive, so it proves `Inv`, the conjunction of

- `Typed`: `TypeOK` and what types alone need (admissions are in the past);
- `Charged`: what happened in the last window is still counted by the gate.
  `WindowBound` speaks of the history and a guard of the code of the gate's
  records; this is the bridge, and it survives lowering and reconciling;
- `WindowBound` itself;
- `Silenced`: every order in force is remembered by a suppression at least as
  long, which later orders can only extend;
- `Callers`: how a caller's progress, its future, the heap and its admission
  go together, also half-way through a cancellation;
- `Pumping`: once a pump has failed the expired, those left are pending and
  have time, and the pump knows their deadlines;
- `Timed`: a pending caller either has its limiter on the agenda or a timer
  armed no later than its deadline;
- `Listening`: open limiters are attached;
- `Occupancy`: what a gate counts, if its start-up hold were of any size up to
  half of a budget, stays within the ceiling.  The hold is resized at every
  reconfiguration, so the bound on what is counted now is not inductive;
- `Ordered`: of two queued callers of a limiter, the one with the later number
  has neither waited longer nor been overtaken more often.  So the first to age
  is the first of the queue, which `FairOrder` needs;
- `Woken`: a limiter with a pending caller is on the agenda, or its timer is
  armed no later than the first instant at which the gates, left alone, let
  that caller go.  Whatever only takes room away keeps this (`NoSooner`), and
  whatever gives room puts the limiters that listen on the agenda.

`Aging` is carried along separately, for `OvertakingIsBounded`: the limiter's
count of interactive admissions is the number of those made, and
`OvertakingBounded` itself.  All requests of a limiter pass the same gates, so
an interactive caller is admitted past a scheduled one only when that has not
aged (`NoneOvertaken`, which is also `OrderKept`); the count it ages by was then
below the threshold and rises by one.  A caller admitted at once passes nobody.

`InitInv` and `StepInv` give `Spec => []Inv`; each theorem follows from it,
those about steps by looking at the only two actions that admit.  For
`PromiseKept`, `StepPromise` maps each action: the two that admit to `Grant`,
whose guards are `WindowBound`'s room and `Silenced`'s silence
(`AdmissionGrants`); failing the expired, cancelling and closing to `Deny`; a
429 to `Silence`; all else to nothing or the clock.

The restarts.  `Inv` of a new process follows from `Fresh`, which says what one
finds: no call that waits, no queue, no timer (`FreshInv`).  What is left to
carry along is `Restarted`.  `HeldBack` is about the process that runs: while
its gate is younger than a window, what it has admitted and the hold it keeps
(`HoldNow`) fit the ceiling, so that it adds no more than `Overshoot` to a
window of which it does not know the rest.  `SentBefore` is about those before
it: what they admitted is older than the gate, and is bounded by the ceiling
and one overshoot for each restart but the last.  Once the gate is a window old
nothing of them counts any more.

`Overshoot` is not the half budget one would expect of a start-up hold of half
a budget.  The hold follows the budget until the first admission
(`_resize_startup_hold` returns when it finds any) and then stays as it is, so
a budget raised under traffic leaves room that the hold was not made for.  The
bound with half a budget for every sequence of reconfigurations, which used to
stand here, is false: the case in which the proof of `HeldBackStays` would not
go through is a counterexample to it.  With `raised` the theorem says
both: half a budget unless that happened, else the ceiling less half the least
budget.

The registry.  Its operations are functions of the registry, so what each does
is shown once (`DropRule`, `MinimaRule`, `ExpireRule`, `ScheduleRule`,
`ReclaimRule`, `ClaimRule`) and every action is put together from them.  `Inv`
of `RateLimitRegistryProofs` is the conjunction of

- `Typed`, what types the proof needs;
- `Sound`: the claims are of one account; a limiter is registered for exactly
  the accounts with a claim; the timer is set for the end of the grace, and
  only a claim has a grace.  This is `OneAccount` and what keeps it;
- `Ruled`: the budgets in force are the minima of the claims, which is
  `NoHigherThanNeeded`;
- `Placed` of each entry: one that runs has no grace and an open pacer; one that
  runs, or left less than a window ago, still has the claim it registered
  (`Entitled`); and a grace ends no earlier than a window after its entry left,
  and by its timer (`Departed`).

`NoWindfall` follows from `Ruled` and `Entitled`: a budget in force is at most
each claim, and the claims of those that left are still there.

What any operation may do to an entry that is not its own is that entry's
claim left as it was, or dropped once its grace is over; `SparedPlaced` shows
that this keeps it `Placed`, and is the only interference argument.  A release
timer that comes late does what an `_expire_pending` of another operation may
have done before it.

`TypeOK` needs one thing more, that the configured entries are listed once each
(`Listed`): a new entry comes from a flow, whose entry was absent, and removal
takes out the only place an entry has (`Removed`).  That there are finitely many
entries is assumed since `SetToSeqs` lists those stored at start.

The requests.  The invariant of `ApiRequestProofs` says of each operation
(`Fine`): until when it waits and that its deadline is at most a refresh buffer
away (`Paced`); that the token it carries was issued, outlives the deadline and
is ready when its wait is over (`Carried`), which is why a token that was usable
when it was taken is still good when the request leaves; that the token it
carries after a 403, and the one in the cache, is none it was rejected with
(`Anew`); how often it may have been sent, by the round and the attempt it is in
(`Counted`), and for a mutation that it has not been sent before it leaves
(`Once`); and that whoever fetches a token holds the lock while the newest one
is of no use (`Refreshing`), which no other operation can change without the
lock.  Of the tokens it says that the cache holds the newest or nothing, and
nothing only if the newest was invalidated (`CacheIsNewest`).  `OthersFine` is
the interference argument, once for all actions; `GetTokenLeads` says where
asking for a token can lead, which `HandledFine` and `UnservedFine` take to the
invariant for the first attempt, each later one, the wait for the lock and the
repetition after a 403.

The writes.  `VerdictsTrue` speaks of finished calls and of what the server may
still do, so `VerdictInv` follows a call from its first step.  Nothing is stored
before a call has sent, its one request is either stored or in `limbo` and
never both (`SentOnce`), and whoever's value is found anywhere has written it
(`Honest`, the type of all objects, names only those in `Written`; lemma
`StoredByWriters`).  Hence a writer who reads its own value back was stored.
That it changed nothing else needs `ChangeShows`: a change beside the requested
one leaves a trace that no other step takes away again, so the comparison with
the snapshot from before fails.  There is one lemma per action; `CallKept` says
once and for all what a step leaves alone.

The refreshes.  `RefreshInv` adds to that: the versions of the server never
fall (`ServerGrows`), nor below `floor`; a call belongs to this set-up only
once it is loaded (`CallPlaced`), and a refresh that is under way then has the
registry of generations and has noted no generation later than the current one
(`RefreshPlaced`).  So a write that is verified while it is under way changes
the generation it noted, which `ServedOK` turns into: what has been served and
will be published is not too old, or will not be published.

The lost updates.  `LockInv` says that whoever waits for a lock or holds it is
in its queue, and whoever is in the section is the first there, so that two
calls of one set-up are never in the section of one target together
(`Exclusive`), however calls fail, are cancelled or outlive a reload.
`BaseKept` is the heart: what the server has of others in the other fields is
in the array that a call is about to send back, unless an intruder stored
something since its attempt began.  A payload that is stored meanwhile makes
its sender an intruder, since `Exclusive` leaves only a call of another set-up
or one that has ended without an answer (`StoreHist`); an edit made meanwhile
is not among what had to be carried along (`EditHist`).  `MergedKeeps` and
`StoresKept` take this from the array to what is stored.  For `OthersPass` the
invariant is only that what a call is about to send was mergeable when it read
it (`BaseMergeable`); `MergedOwn` does the rest.  `TypeOK` follows from all of
these with `TypeInv`: who pauses between two attempts has one left (`Tries`),
and what has been served or patched in is an object (`Shown`).

The definitions and keys.  `Promised` is `Refreshing`, about the definitions,
and `Kept`, about the sensors.  `Refreshing` has beside `RetriedWhileNeeded`
itself that a retry which runs has been counted and that a fetch goes on at a
whole number of pages (`Counted`), and that what a fetch has got, as long as no
definition before its offset was inserted or removed and the pages are as
requested (`AsRequested`), is the beginning of the catalog (`Undisturbed`); its
last page then completes it.  Both conditions are needed, the latter down to the
limit reported: with full pages and a smaller limit the fetch asks for one more
page than there is, and passes over a definition that is appended before it.  `Kept` says that the
allocation gives every entity, pending or registered, the key it has, unless
everything was forgotten and the entity registry is all there is to recover
from (`FromEntityRegistry`).  The loop over the fields of a listing is followed
by `LoopKeeps`, to which a first turn after which it fails would be a
contradiction: it keeps all keys, adds those of the fields it passes, and keeps
them apart and reserved.  `ExtendingKeeps` applies it to a refresh of the
listing, `PreviewsAgree` to the copy on which the preview allocates; that
`Ascending` lists each field once is the pigeonhole principle
(`AscendingType`).  `FieldWord \in Nat` and the types of `Catalogs` and
`Collections` are all that is assumed.

The rest.  Of a cursor read, `UpToCursor` says that it has got what comes up
to the cursor.  `ConsentInv` ties the gates an entry was set up with to some
submission of the form, and to the stored options unless a reload is due.
`SomeSuffixFree` counts the reserved keys, which is why the search for a free
suffix ends.

## 5. What is only model-checked

Liveness.  `EveryAcquireReturns`, `LockReleased`, `EveryCallEnds` and the
liveness half of `KeepsPromise` need fairness and ENABLED, which the prover
does not handle, and stay with TLC.  So do the two counterexamples of section
6.  Every other property of a run is proved as well.

## 6. Findings

| Run | What the code does | What is written |
|---|---|---|
| `request_stale_rejection` | a 403 for an old token discards the token another caller has just fetched | `invalidate`: "when a 401/403 response indicates the token is invalid" |
| `write_across_reload` | a reload replaces the lock registry; a call of before and one of after it both write the array they read, and both report success, the one's value lost | FR-033: "one successful call cannot overwrite another successful call's custom-variable changes".  `SuccessesKept` shows that it holds within one set-up, but for payloads that nobody waits for any more |

Seven more disagreements are visible in the models without a run of their own.
`acquire` admits a caller whose deadline has passed if nobody queues and the
gates have room (`AcquireAtOnce`), where FR-020 of `specs/008-proactive-rate-limiting`
has it raise.  A cancelled set-up keeps its claim on the budget, since
`schedule_release` is called on `except Exception` only, where the docstring of
`async_setup_entry` says that a failure "starts the same grace period an unload
does"; `ClaimsLapse` and its theorem except that claim, which stays until the
entry is set up again or removed.  An operation that was sent, perhaps applied, may end in
`HostawayRateLimitWaitTimeout` when its backoff does not fit, where that class
says "the request never left the process"; `MutationOnce` shows that
custom-field mutations, whose handler relies on it, are spared.

A budget stored while its entry is being set up reloads nothing, because the
update listener is registered last (`ChangeOptions`), where
`specs/008-proactive-rate-limiting/research.md` has any option change reload.
The repetition after a 403 starts a new retry loop (`Reentered`), so an
operation is sent up to `2 * (MAX_RETRIES + 1)` times, which `AttemptsBounded`
shows to be the limit, where `specs/001-hostaway-ha-integration/contracts/services.md`
speaks of three retries after a 429 and one after a 403.

The end of the definitions is decided by the limit an answer reports, if it has
one and no `totalPages` (`Reported`, `LastPage`), while the next page is always
requested `CUSTOM_FIELD_PAGE_LIMIT` further on (`Answered`).  If Hostaway returns
fewer definitions than requested, those between a short page and the next offset
are skipped, or, if it reports no limit, all that follow; if it reports a larger
limit, the first full page is taken for the last.
`specs/007-custom-field-support/contracts/hostaway-custom-fields-api.md:70` says
"stop when a page returns fewer entries than the requested limit", and FR-002
wants all definitions.  `FetchedWhole` therefore speaks of pages as requested
only; without `AsRequested` the run `discovery` refutes it.

FR-038 has a gate behave, "for the first full window after creation", as though
half of its effective budget were consumed.  The hold is not resized once the
gate has admitted something ("once traffic has flowed the hold is history",
`_resize_startup_hold`), so a budget raised within that window is held back by
less than half; `RestartBound` says what that costs.

Behaviour worth knowing, which contradicts nothing that is written:

- A payload whose caller saw a connection error may be stored later
  (`Arrives`), on top of what others wrote in between.  No verdict about it is
  wrong (`VerdictsTrue`), but it can take back a value that was verified, also
  inside the section of another call (`Intruded`), which then sends an array
  read before it arrived.
- The definitions and the safety gates are checked before the wait for the
  lock, not after it: a write that queues goes ahead although the options were
  changed or the definitions failed meanwhile.  `WithdrawalHeeded` is about the
  checks.
- A reservation that was not published when it was written may be published
  later from an answer older than the write; `Patch` raises `floor` only for
  what is shown.
- Two fetches of the definitions may overlap, and the slower one publishes the
  older list, or turns `last_refresh_succeeded` off after the faster one
  succeeded.
- Offset paging skips or doubles a definition if one before the offset is
  removed or inserted between two pages; `FetchedWhole` excludes that too.
- Entities of the first set-up get fallback keys, since listings are there
  before the definitions are asked for; `OneKeyPerField` has them keep these.
- A cursor read ends early, without an error, when a full page has no usable
  id or does not bring the cursor forward (`"cut"`).

## 7. Abstractions, and what is not modelled

- The integration registers no endpoint bucket, so endpoint gates are left out
  of the limiter.  Counters that only diagnostics read, and logging, are left
  out everywhere.
- The monotonic clock and the wall clock are one clock.  Readiness and expiry
  of tokens read the wall clock, and a jump of it is not modelled.
- How Hostaway pages definitions (`paging`) does not change while the
  integration runs, and `page` and `totalPages`, where it reports them, are
  right: the last page is the one after which nothing is left.
- `Previewed` takes the values published and the definitions of the moment,
  where the service reads the listing itself and took its definitions before
  that read; the allocation gives the same promises for either.
- `sorted()` is `Ascending`, which says which field has which rank, and the
  removal of an entry from a list is `RemoveAt` of its place.
- Delays with jitter are any member of a set.
- Errors are grouped by what callers distinguish.  A shed refresh and a wait
  timeout are the same outcome of the same condition.
- One operation is one `_request`.  A paginated operation is several under one
  deadline, each of which behaves as modelled from its start.
- The composition of client and limiter is by contract: `AccountRateLimiter`
  implements `AdmissionControl`, and `ApiRequest` uses no more than that,
  together with the caller that is admitted although its deadline has passed.
- The composition of writes and client is by contract as well: a mutation is
  stored at most once, and never when the call ends in
  `HostawayRateLimitWaitTimeout` (`MutationOnce`).
- In `CustomFieldWrite` a reload is one step up to the first refresh of the new
  set-up, a refresh has one answer for all its targets, and its beginning does
  not wait for the interval, which adds overlaps and hides none.  Objects other
  than their custom fields are one value, `rest`.  Every value written is
  different from all others.
- Keys of listing sensors that are not custom fields never start with
  `custom_`, and are left out of `ListingKeys`.  A unique id is the pair of
  field and key; the registry's own handling of entity ids is Home Assistant's.
- In `WriteConsent` an unload that fails leaves the old gates in force, and the
  reload stays due.
- Not modelled: the reservation coordinator's fallback when the reads of some
  listings fail and its filter of what it publishes (transformations of one
  answer, without state of their own); the validation of a value against its
  definition's type and all response texts; forms, schemas, entity attributes,
  diagnostics and redaction, and the handlers of the other services, which make
  one request each and keep no state.  The scripts of the repository are not
  part of the integration.

## 8. What is left

1. Proofs: nothing that a run checks, but the liveness properties.  Of
   `ApiRequest`, that its use of admission is that of `AdmissionControl`.
2. An abstract register with verified writes that `CustomFieldWrite`
   implements; its linearization point is in the server, before the verdict,
   which takes a prophecy.
3. The reservation coordinator's partial results per listing, once a decision
   depends on them.
