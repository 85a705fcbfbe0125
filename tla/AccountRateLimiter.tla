------------------------- MODULE AccountRateLimiter -------------------------
(***************************************************************************)
(* The proactive limiter of api/rate_limit/limiter.py: every limiter of    *)
(* one process, each with the gate of its own account, sharing the IP gate *)
(* and the provider suppression, and the callers that acquire() admission. *)
(*                                                                         *)
(* The code runs on one asyncio loop, so a handler is atomic up to its     *)
(* next await.  Every handler changes its own state in one action and then *)
(* leaves in `agenda` the limiters whose pump it runs, directly or through *)
(* the gate listeners, in the order it runs them.  While the agenda is not *)
(* empty no other action is enabled: the pump's loop is a sequence of      *)
(* steps that nothing interleaves with, exactly as in the code.            *)
(*                                                                         *)
(* No endpoint bucket is registered by the integration, so every request   *)
(* is charged to its account's gate and to the IP gate.                    *)
(***************************************************************************)
EXTENDS SlidingWindowGate, Sequences, SequencesExt

CONSTANTS
    Limiter,             \* limiter objects, each of one account
    Request,             \* calls of acquire()
    Owner,               \* the limiter a request acquires from
    Interactive,         \* the requests of priority INTERACTIVE
    Budgets,             \* budgets an operator may choose
    DefaultBudget,       \* DEFAULT_RATE_LIMIT_BUDGET
    Patience,            \* ticks left to the operation's deadline at acquire()
    Cancellable,         \* the requests whose task may be cancelled
    RetryOffsets,        \* X-RateLimit-Retry-After, less the wall clock
    DefaultSuppression,  \* DEFAULT_SUPPRESSION_SECONDS
    MaxSuppression,      \* MAX_SUPPRESSION_SECONDS
    Limits, Remainings,  \* X-RateLimit-Limit and -Remaining of a 429
    AgingTime,           \* AGING_SECONDS
    AgingAdmissions,     \* AGING_ADMISSIONS
    Lag,                 \* how late the event loop may run a due callback
    MaxTime              \* bound: the model's last tick

ASSUME LimiterAssumption ==
    /\ Owner \in [Request -> Limiter]
    /\ Interactive \subseteq Request /\ Cancellable \subseteq Request
    /\ Budgets \subseteq 1..MaxBudget
    /\ DefaultBudget \in 1..MaxBudget
    /\ Patience \subseteq Nat
    /\ RetryOffsets \subseteq Int
    /\ DefaultSuppression \in Nat \ {0} /\ MaxSuppression \in Nat \ {0}
    /\ Limits \subseteq Int /\ Remainings \subseteq Int
    /\ AgingTime \in Nat /\ AgingAdmissions \in Nat
    /\ Lag \in Nat /\ MaxTime \in Nat

VARIABLES
    now,            \* the monotonic clock
    gate,           \* every SlidingWindowGate
    providerUntil,  \* ProviderSuppression.until, 0 when inactive
    phase,          \* limiter -> whether it was created, and closed since
    attached,       \* the limiters listening to the shared state, in order
    waiters,        \* the requests in the limiters' _waiters heaps
    ticket,         \* request -> its Waiter's fields
    future,         \* request -> its Waiter's future
    call,           \* request -> how far its caller has got
    admittedAt,     \* request -> when it was admitted, Never if it was not
    sequence,       \* limiter -> _sequence
    interactiveAdmissions,  \* limiter -> _interactive_admissions
    timer,          \* limiter -> when its timer is due, 0 if none is armed
    agenda,         \* the pumps the running handler still has to make
    deadlines,      \* deadlines the running pump noted before admitting anyone
    told            \* history: what the server's 429s still forbid

clockVars == <<now, told>>
queueVars == <<waiters, ticket, future, call, sequence>>
gateVars == <<gate, admittedAt, interactiveAdmissions>>
sharedVars == <<providerUntil, phase, attached>>
pumpVars == <<timer, agenda, deadlines>>
vars == <<clockVars, queueVars, gateVars, sharedVars, pumpVars>>

Never == -1
NoTicket == [sequence |-> 0, queuedAt |-> 0, deadline |-> 0, overtakenBase |-> 0]

IpGate == <<"ip", "process">>
AccountGate(l) == <<"account", l>>
Gate == {IpGate} \cup {AccountGate(l) : l \in Limiter}

(* classify_request and _gates_for, with no endpoint bucket registered. *)
GatesFor(r) == {AccountGate(Owner[r]), IpGate}

(* A bug: the shared gate wakes nobody. *)
ListenersOfOwnGate(g) == IF g = IpGate THEN <<>> ELSE <<g[2]>>

(* The limiters whose pump listens to a gate, in order. *)
Listeners(g) == IF g = IpGate THEN attached
                ELSE IF phase[g[2]] = "open" THEN <<g[2]>> ELSE <<>>

Waiting(l) == {r \in waiters : Owner[r] = l}
Idle == agenda = <<>>
-----------------------------------------------------------------------------
(* Whether the gates and the provider let a request go at this instant. *)
Clear(r) ==
    /\ now >= providerUntil
    /\ \A g \in GatesFor(r) : /\ ~IsSuppressed(gate[g], now)
                              /\ CapacityAvailable(gate[g], admittedAt, now)

CanAdmitNow(r) == Waiting(Owner[r]) = {} /\ Clear(r)

(* _admit: the one admission is charged to every selected gate. *)
Admit(r) ==
    /\ gate' = [g \in Gate |-> IF g \in GatesFor(r)
                               THEN Record(gate[g], r, admittedAt, now)
                               ELSE gate[g]]
    /\ admittedAt' = [admittedAt EXCEPT ![r] = now]
    /\ interactiveAdmissions' =
           [interactiveAdmissions EXCEPT ![Owner[r]] =
               IF r \in Interactive THEN @ + 1 ELSE @]

-----------------------------------------------------------------------------
(* The order in which one pump considers waiters. *)
SortedBefore(a, b) ==
    \/ a \in Interactive /\ b \notin Interactive
    \/ /\ a \in Interactive <=> b \in Interactive
       /\ ticket[a].sequence < ticket[b].sequence

(* A bug: one admission too many before a scheduled caller has aged. *)
HasAgedLate(w) ==
    \/ now - ticket[w].queuedAt >= AgingTime
    \/ interactiveAdmissions[Owner[w]] - ticket[w].overtakenBase > AgingAdmissions

HasAged(w) ==
    \/ now - ticket[w].queuedAt >= AgingTime
    \/ interactiveAdmissions[Owner[w]] - ticket[w].overtakenBase >= AgingAdmissions

(* The one scheduled waiter that may jump ahead of interactive traffic. *)
Promoted(w) ==
    LET l == Owner[w]
        aged == {v \in Waiting(l) \ Interactive : HasAged(v)}
    IN  /\ Waiting(l) \cap Interactive # {}
        /\ w \in aged
        /\ \A v \in aged \ {w} : SortedBefore(w, v)

ConsideredBefore(a, b) == \/ Promoted(a)
                          \/ ~Promoted(b) /\ SortedBefore(a, b)

(* What the pump arms its timer for on behalf of a waiter it must leave. *)
BlockedUntil(r) ==
    LET suppressed == {g \in GatesFor(r) : IsSuppressed(gate[g], now)}
        full == {g \in GatesFor(r) : ~CapacityAvailable(gate[g], admittedAt, now)}
    IN  IF now < providerUntil THEN providerUntil
        ELSE IF suppressed # {} THEN Max({gate[g].suppressedUntil : g \in suppressed})
        ELSE Max({NextAvailable(gate[g], admittedAt, now) : g \in full})

(* A bug: the timer is set for gates only. *)
WakeupsAtGates(l) == {BlockedUntil(r) : r \in Waiting(l)}

(* The instants the pump chooses its timer from. *)
Wakeups(l) == deadlines \cup {BlockedUntil(r) : r \in Waiting(l)}
-----------------------------------------------------------------------------
Init ==
    /\ now = 0
    /\ gate = [g \in Gate |-> NewGate(DefaultBudget, 0)]
    /\ providerUntil = 0
    /\ phase = [l \in Limiter |-> "new"]
    /\ attached = <<>>
    /\ waiters = {}
    /\ ticket = [r \in Request |-> NoTicket]
    /\ future = [r \in Request |-> "none"]
    /\ call = [r \in Request |-> "idle"]
    /\ admittedAt = [r \in Request |-> Never]
    /\ sequence = [l \in Limiter |-> 0]
    /\ interactiveAdmissions = [l \in Limiter |-> 0]
    /\ timer = [l \in Limiter |-> 0]
    /\ agenda = <<>>
    /\ deadlines = {}
    /\ told = {}

(* Time passes between handlers.  A callback that is due runs at most Lag  *)
(* ticks late.                                                             *)
Tick ==
    /\ Idle
    /\ now < MaxTime
    /\ \A l \in Limiter : timer[l] # 0 => now < timer[l] + Lag
    /\ now' = now + 1
    /\ told' = {order \in told : now + 1 < order.until}
    /\ UNCHANGED <<queueVars, gateVars, sharedVars, pumpVars>>

(* __init__: a limiter is created with its account's gate, at the default  *)
(* budget, and attaches to the shared state, which the first limiter of    *)
(* the process creates.                                                    *)
Open(l) ==
    /\ Idle
    /\ phase[l] = "new"
    /\ phase' = [phase EXCEPT ![l] = "open"]
    /\ gate' = [gate EXCEPT
                   ![AccountGate(l)] = NewGate(DefaultBudget, now),
                   ![IpGate] = IF \A k \in Limiter : phase[k] = "new"
                               THEN NewGate(DefaultBudget, now) ELSE @]
    /\ attached' = Append(attached, l)
    /\ UNCHANGED <<clockVars, queueVars, admittedAt, interactiveAdmissions,
                   providerUntil, pumpVars>>

(* acquire() on a closed limiter fails with the caller's timeout policy. *)
AcquireClosed(r) ==
    /\ Idle
    /\ call[r] = "idle"
    /\ phase[Owner[r]] = "closed"
    /\ call' = [call EXCEPT ![r] = "failed"]
    /\ UNCHANGED <<clockVars, gateVars, sharedVars, pumpVars,
                   waiters, ticket, future, sequence>>

(* acquire() when nothing is ahead and every gate has room. *)
AcquireAtOnce(r, left) ==
    /\ Idle
    /\ call[r] = "idle"
    /\ phase[Owner[r]] = "open"
    /\ CanAdmitNow(r)
    /\ Admit(r)
    /\ call' = [call EXCEPT ![r] = "sent"]
    /\ ticket' = [ticket EXCEPT ![r].deadline = now + left]
    /\ UNCHANGED <<clockVars, sharedVars, pumpVars, waiters, future, sequence>>

(* acquire() that would have to wait although no time is left to wait. *)
AcquireExpired(r) ==
    /\ Idle
    /\ call[r] = "idle"
    /\ phase[Owner[r]] = "open"
    /\ ~CanAdmitNow(r)
    /\ call' = [call EXCEPT ![r] = "failed"]
    /\ UNCHANGED <<clockVars, gateVars, sharedVars, pumpVars,
                   waiters, ticket, future, sequence>>

(* acquire() that queues a waiter, pumps, and awaits the waiter's future.  *)
(* Its deadline lies within the model's time, so that it can be met.       *)
Enqueue(r, left) ==
    LET l == Owner[r] IN
    /\ Idle
    /\ call[r] = "idle"
    /\ phase[l] = "open"
    /\ ~CanAdmitNow(r)
    /\ left > 0
    /\ now + left <= MaxTime
    /\ sequence' = [sequence EXCEPT ![l] = @ + 1]
    /\ ticket' = [ticket EXCEPT ![r] =
                     [sequence |-> sequence[l] + 1,
                      queuedAt |-> now,
                      deadline |-> now + left,
                      overtakenBase |-> interactiveAdmissions[l]]]
    /\ future' = [future EXCEPT ![r] = "pending"]
    /\ call' = [call EXCEPT ![r] = "waiting"]
    /\ waiters' = waiters \cup {r}
    /\ agenda' = <<l>>
    /\ UNCHANGED <<clockVars, gateVars, sharedVars, timer, deadlines>>

Acquire(r) == \/ AcquireClosed(r)
              \/ \E left \in Patience : AcquireAtOnce(r, left)
              \/ 0 \in Patience /\ AcquireExpired(r)
              \/ \E left \in Patience : Enqueue(r, left)
-----------------------------------------------------------------------------
(* A bug: a deadline that is reached has not passed. *)
OutOfTimeLate(r) == now > ticket[r].deadline

OutOfTime(r) == now >= ticket[r].deadline

(* _pump cancels the timer and resolves the waiters whose deadline passed; *)
(* a waiter whose future is already done is only dropped.  The deadlines   *)
(* of those that are left are noted as wake-ups before any is admitted.    *)
PumpBegin ==
    /\ ~Idle
    /\ deadlines = {}
    /\ LET l == Head(agenda)
           done == {r \in Waiting(l) : future[r] # "pending"}
           expired == {r \in Waiting(l) \ done : OutOfTime(r)}
           left == Waiting(l) \ (done \cup expired)
       IN  /\ waiters' = waiters \ (done \cup expired)
           /\ future' = [r \in Request |-> IF r \in expired THEN "error" ELSE future[r]]
           /\ timer' = [timer EXCEPT ![l] = 0]
           /\ deadlines' = {ticket[r].deadline : r \in left}
           /\ agenda' = IF left = {} THEN Tail(agenda) ELSE agenda
    /\ UNCHANGED <<clockVars, gateVars, sharedVars, ticket, call, sequence>>

(* One turn of the pump's loop that admits: the first waiter, in an order  *)
(* derived anew for every admission, that its gates let go.                *)
PumpAdmit ==
    /\ ~Idle
    /\ deadlines # {}
    /\ \E r \in Waiting(Head(agenda)) :
           /\ Clear(r)
           /\ \A v \in Waiting(Head(agenda)) \ {r} :
                  Clear(v) => ConsideredBefore(r, v)
           /\ waiters' = waiters \ {r}
           /\ future' = [future EXCEPT ![r] = "result"]
           /\ Admit(r)
    /\ UNCHANGED <<clockVars, sharedVars, pumpVars, ticket, call, sequence>>

(* The pump has admitted all it can; it arms the timer for those it leaves. *)
PumpArm ==
    /\ ~Idle
    /\ deadlines # {}
    /\ \A r \in Waiting(Head(agenda)) : ~Clear(r)
    /\ LET l == Head(agenda)
       IN  timer' = [timer EXCEPT ![l] = IF Waiting(l) = {} THEN 0 ELSE Min(Wakeups(l))]
    /\ agenda' = Tail(agenda)
    /\ deadlines' = {}
    /\ UNCHANGED <<clockVars, queueVars, gateVars, sharedVars>>

Pump == PumpBegin \/ PumpAdmit \/ PumpArm

(* _on_timer *)
FireTimer(l) ==
    /\ Idle
    /\ timer[l] # 0
    /\ now >= timer[l]
    /\ timer' = [timer EXCEPT ![l] = 0]
    /\ agenda' = <<l>>
    /\ UNCHANGED <<clockVars, queueVars, gateVars, sharedVars, deadlines>>
-----------------------------------------------------------------------------
(* The awaiting task resumes once its future is done; its Waiter is garbage. *)
Resume(r) ==
    /\ Idle
    /\ call[r] = "waiting"
    /\ future[r] \in {"result", "error"}
    /\ call' = [call EXCEPT ![r] = IF future[r] = "result" THEN "sent" ELSE "failed"]
    /\ ticket' = [ticket EXCEPT ![r] = NoTicket]
    /\ UNCHANGED <<clockVars, gateVars, sharedVars, pumpVars, waiters, future, sequence>>

(* The task is cancelled while it awaits: a pending future is cancelled at *)
(* once, a future already done leaves only the task marked.  The waiter    *)
(* stays in the heap until the task runs or a pump drops it.               *)
Cancel(r) ==
    /\ Idle
    /\ r \in Cancellable
    /\ call[r] = "waiting"
    /\ call' = [call EXCEPT ![r] = "cancelling"]
    /\ future' = [future EXCEPT ![r] = IF @ = "pending" THEN "cancelled" ELSE @]
    /\ UNCHANGED <<clockVars, gateVars, sharedVars, pumpVars, waiters, ticket, sequence>>

(* A bug: a cancelled caller takes back the admission it was granted. *)
ResumeCancelledTakingBack(r) ==
    /\ Idle
    /\ call[r] = "cancelling"
    /\ call' = [call EXCEPT ![r] = "cancelled"]
    /\ waiters' = waiters \ {r}
    /\ gate' = [g \in Gate |-> [gate[g] EXCEPT !.admissions = @ \ {r}]]
    /\ agenda' = <<Owner[r]>>
    /\ UNCHANGED <<clockVars, admittedAt, interactiveAdmissions, sharedVars, ticket,
                   future, sequence, timer, deadlines>>

(* acquire() receives the CancelledError: it leaves the queue and pumps. *)
ResumeCancelled(r) ==
    /\ Idle
    /\ call[r] = "cancelling"
    /\ call' = [call EXCEPT ![r] = "cancelled"]
    /\ waiters' = waiters \ {r}
    /\ ticket' = [ticket EXCEPT ![r] = NoTicket]
    /\ agenda' = <<Owner[r]>>
    /\ UNCHANGED <<clockVars, gateVars, sharedVars, future, sequence, timer, deadlines>>
-----------------------------------------------------------------------------
(* _suppression_delay: a timestamp that is missing or not in the future    *)
(* (an offset of 0 or less) means the default, a distant one the maximum.  *)
SuppressionDelay(offset) ==
    IF offset <= 0 THEN DefaultSuppression ELSE Min({offset, MaxSuppression})

(* The gates a 429 suppresses; "other" stands for an absent or unknown     *)
(* counter and for "endpoint", which no gate of a general request answers. *)
Targets(r, counter) ==
    CASE counter = "account" -> {AccountGate(Owner[r])}
      [] counter = "ip" -> {IpGate}
      [] OTHER -> GatesFor(r)

(* note_rate_limited for a 429 on a request that was sent: each target is  *)
(* suppressed and reconciled, every gate that changed pumps its listeners, *)
(* and the limiter pumps once more itself.  The pumps the code runs        *)
(* between two targets find the account gate suppressed already.           *)
NoteRateLimited(r, counter, offset, limit, remaining) ==
    LET l == Owner[r]
        until == now + SuppressionDelay(offset)
        targets == Targets(r, counter)
        noted(g) == Reconcile(SuppressUntil(gate[g], until),
                              admittedAt, now, limit, remaining)
        woken(g) == IF noted(g) = gate[g] \/ g \notin targets THEN <<>>
                    ELSE Listeners(g)
    IN
    /\ Idle
    /\ call[r] = "sent"
    /\ call' = [call EXCEPT ![r] = "refused"]
    /\ gate' = [g \in Gate |-> IF g \in targets THEN noted(g) ELSE gate[g]]
    /\ told' = told \cup {[gates |-> targets, until |-> until]}
    /\ agenda' = woken(AccountGate(l)) \o woken(IpGate) \o <<l>>
    /\ UNCHANGED <<now, admittedAt, interactiveAdmissions, sharedVars,
                   waiters, ticket, future, sequence, timer, deadlines>>

(* note_rate_limited for a "provider" 429: ProviderSuppression only grows, *)
(* and pumps every limiter attached to it when it does.                    *)
NoteProviderLimited(r, offset) ==
    LET until == now + SuppressionDelay(offset) IN
    /\ Idle
    /\ call[r] = "sent"
    /\ call' = [call EXCEPT ![r] = "refused"]
    /\ providerUntil' = IF until <= providerUntil THEN providerUntil ELSE until
    /\ told' = told \cup {[gates |-> Gate, until |-> until]}
    /\ agenda' = IF until <= providerUntil THEN <<>> ELSE attached
    /\ UNCHANGED <<now, gateVars, phase, attached, waiters, ticket, future, sequence,
                   timer, deadlines>>

Refused(r) ==
    \E offset \in RetryOffsets :
        \/ NoteProviderLimited(r, offset)
        \/ \E counter \in {"account", "ip", "other"}, limit \in Limits,
              remaining \in Remainings :
               NoteRateLimited(r, counter, offset, limit, remaining)

(* configure: both budgets are applied before anything is woken.  The IP   *)
(* budget is a minimum over all entries, the account's over its own.       *)
Configure(l, accountBudget, ipBudget) ==
    /\ Idle
    /\ phase[l] = "open"
    /\ ipBudget <= accountBudget
    /\ gate' = [gate EXCEPT ![AccountGate(l)] = Reconfigure(@, accountBudget),
                            ![IpGate] = Reconfigure(@, ipBudget)]
    /\ agenda' = Listeners(AccountGate(l)) \o Listeners(IpGate) \o <<l>>
    /\ UNCHANGED <<clockVars, queueVars, admittedAt, interactiveAdmissions,
                   sharedVars, timer, deadlines>>

(* A bug: closing only detaches the limiter. *)
CloseOnly(l) ==
    /\ Idle
    /\ phase[l] = "open"
    /\ phase' = [phase EXCEPT ![l] = "closed"]
    /\ timer' = [timer EXCEPT ![l] = 0]
    /\ attached' = Remove(attached, l)
    /\ UNCHANGED <<clockVars, gateVars, queueVars, providerUntil, agenda, deadlines>>

(* close: the limiter stops its timer, detaches, and fails whoever queues. *)
Close(l) ==
    /\ Idle
    /\ phase[l] = "open"
    /\ phase' = [phase EXCEPT ![l] = "closed"]
    /\ timer' = [timer EXCEPT ![l] = 0]
    /\ \E i \in DOMAIN attached : attached[i] = l /\ attached' = RemoveAt(attached, i)
    /\ waiters' = waiters \ Waiting(l)
    /\ future' = [r \in Request |-> IF r \in Waiting(l) /\ future[r] = "pending"
                                    THEN "error" ELSE future[r]]
    /\ UNCHANGED <<clockVars, gateVars, providerUntil, ticket, call, sequence,
                   agenda, deadlines>>

(* At the model's last tick the clock stops. *)
Horizon == Idle /\ now = MaxTime /\ UNCHANGED vars
-----------------------------------------------------------------------------
Next ==
    \/ Tick
    \/ Pump
    \/ \E r \in Request : Acquire(r) \/ Resume(r) \/ Cancel(r)
                          \/ ResumeCancelled(r) \/ Refused(r)
    \/ \E l \in Limiter :
           \/ Open(l)
           \/ \E accountBudget \in Budgets, ipBudget \in Budgets :
                  Configure(l, accountBudget, ipBudget)
           \/ FireTimer(l)
           \/ Close(l)
    \/ Horizon

Spec == Init /\ [][Next]_vars

(* asyncio runs its ready queue first-in first-out and its timers when due, *)
(* so a callback that is ready again and again is not put off for ever,     *)
(* whatever operators and callers do meanwhile; and time passes.            *)
Fairness ==
    /\ SF_vars(Tick)
    /\ WF_vars(Pump)
    /\ \A l \in Limiter : SF_vars(FireTimer(l))
    /\ \A r \in Request : SF_vars(Resume(r)) /\ SF_vars(ResumeCancelled(r))

FairSpec == Spec /\ Fairness
-----------------------------------------------------------------------------
(* Every variable has its type; a gate counts finitely many admissions and *)
(* its effective budget stays within 1 and the operator's (gates.py).      *)
TypeOK ==
    /\ now \in Nat
    /\ DOMAIN gate = Gate
    /\ \A g \in Gate : IsGate(gate[g], Request)
    /\ providerUntil \in Nat
    /\ phase \in [Limiter -> {"new", "open", "closed"}]
    /\ attached \in Seq(Limiter)
    /\ waiters \subseteq Request
    /\ ticket \in [Request -> [sequence : Nat, queuedAt : Nat, deadline : Nat,
                              overtakenBase : Nat]]
    /\ future \in [Request -> {"none", "pending", "result", "error", "cancelled"}]
    /\ call \in [Request -> {"idle", "waiting", "cancelling", "sent", "refused",
                             "failed", "cancelled"}]
    /\ admittedAt \in [Request -> Nat \cup {Never}]
    /\ sequence \in [Limiter -> Nat]
    /\ interactiveAdmissions \in [Limiter -> Nat]
    /\ timer \in [Limiter -> Nat]
    /\ agenda \in Seq(Limiter)
    /\ deadlines \subseteq Nat
    /\ told \subseteq [gates : SUBSET Gate, until : Nat]

(* The requests that were really admitted through a gate and are no older  *)
(* than its window: a history that no budget change, reconciliation,       *)
(* cancellation or pruning can rewrite.                                    *)
InLastWindow(g) ==
    {r \in Request : /\ g \in GatesFor(r)
                     /\ admittedAt[r] # Never
                     /\ admittedAt[r] > now - Window}

JustAdmitted == {r \in Request : admittedAt'[r] # admittedAt[r]}

(* No window of any length-`Window` stretch of time holds more admissions  *)
(* of one gate than the documented ceiling, whatever budgets are           *)
(* configured, reconciled or resized while they happen (gates.py).         *)
WindowBound == \A g \in Gate : Cardinality(InLastWindow(g)) <= MaxBudget

(* An admission always finds fewer real admissions in its window than the  *)
(* operator's budget of that moment, also after the budget was lowered     *)
(* below what is in flight (reconfigure, capacity_available).              *)
AdmittedWithinBudget ==
    [][\A r \in JustAdmitted : \A g \in GatesFor(r) :
           Cardinality(InLastWindow(g)) < gate[g].configured]_vars

(* What a gate counts, real and synthetic, never exceeds the documented    *)
(* ceiling, so reconciling with the server always terminates within it     *)
(* (the `room` of reconcile).                                              *)
OccupancyWithinCeiling ==
    \A g \in Gate : InWindow(gate[g], admittedAt, now) <= MaxBudget

(* An admission is charged to every gate of its request and to no other,   *)
(* it stays charged for its window whatever becomes of its caller, and a   *)
(* caller that was never admitted has been charged nothing (_admit, and    *)
(* the CancelledError branch of acquire).                                  *)
ChargedExactly ==
    /\ \A g \in Gate : InLastWindow(g) \subseteq gate[g].admissions
    /\ \A g \in Gate : \A r \in gate[g].admissions :
           g \in GatesFor(r) /\ admittedAt[r] # Never
    /\ \A r \in Request : call[r] \in {"sent", "refused"} => admittedAt[r] # Never
    /\ \A r \in Request : call[r] = "failed" \/ future[r] = "cancelled"
                            => admittedAt[r] = Never

(* No request is admitted through a gate that some 429 still forbids,      *)
(* whichever limiter heard it and whatever later 429s said (the growth of  *)
(* suppress_until, provider suppression, FR-014 and FR-016).               *)
SilenceKept ==
    [][\A r \in JustAdmitted : \A order \in told : GatesFor(r) \cap order.gates = {}]_vars

(* Whenever the loop is idle and a queued caller could go, or is out of    *)
(* time, its limiter's timer is already due: no change of the gates, of    *)
(* the provider or of the queue loses a wake-up (_pump, notify).           *)
NoLostWakeup ==
    Idle => \A r \in waiters :
                future[r] = "pending" /\ (Clear(r) \/ now >= ticket[r].deadline)
                => timer[Owner[r]] # 0 /\ timer[Owner[r]] <= now

(* A timer is never armed for an instant that has passed, which would spin *)
(* the loop in zero-delay callbacks (the comment at _pump).                *)
NoZeroDelayTimer ==
    [][\A l \in Limiter : timer'[l] \notin {0, timer[l]} => timer'[l] > now]_vars

(* A queued caller is never admitted once its deadline has passed, and is  *)
(* told so no later than the loop lets its timer run (FR-020, FR-021).     *)
QueuedDeadlineKept ==
    [][/\ \A r \in JustAdmitted \cap waiters : now < ticket[r].deadline
       /\ \A r \in waiters' : future'[r] = "pending" => now' <= ticket'[r].deadline + Lag]_vars

(* v must not still be queued when r is admitted: v is of the same class   *)
(* and queued earlier, or interactive while r has not aged, or scheduled   *)
(* and aged while r is interactive.                                        *)
MustPrecede(v, r) ==
    \/ (v \in Interactive <=> r \in Interactive) /\ ticket[v].sequence < ticket[r].sequence
    \/ v \in Interactive /\ r \notin Interactive /\ ~HasAged(r)
    \/ v \notin Interactive /\ r \in Interactive /\ HasAged(v)

(* First in, first out inside a class; interactive before scheduled, until *)
(* a scheduled caller has aged, after which no interactive one passes it   *)
(* (_ordered_candidates, FR-019).                                          *)
FairOrder ==
    [][\A r \in JustAdmitted : \A v \in Waiting(Owner[r]) \ {r} :
           future[v] = "pending" => ~MustPrecede(v, r)]_vars

(* The interactive requests that a limiter has admitted. *)
InteractiveAdmitted(l) == {v \in Interactive : Owner[v] = l /\ admittedAt[v] # Never}

(* However many interactive callers queue ahead of a scheduled one or come *)
(* after it, those that its limiter admits while it is queued are at most  *)
(* AGING_ADMISSIONS, all within AGING_SECONDS of the instant it queued;    *)
(* and the count that this is decided by misses none, whether it was       *)
(* admitted at once or by a pump (_has_aged, _admit, FR-019).              *)
OvertakingBounded ==
    /\ \A l \in Limiter : interactiveAdmissions[l] = Cardinality(InteractiveAdmitted(l))
    /\ \A w \in waiters \ Interactive :
           /\ interactiveAdmissions[Owner[w]] - ticket[w].overtakenBase <= AgingAdmissions
           /\ \A v \in InteractiveAdmitted(Owner[w]) :
                  \/ admittedAt[v] <= ticket[w].queuedAt
                  \/ admittedAt[v] < ticket[w].queuedAt + AgingTime

(* A caller that awaits a pending future is in the queue of a limiter that *)
(* is open and still hears the shared gates: cancelling, closing and the   *)
(* pump never leave a future behind that nobody will resolve (close).      *)
NobodyStranded ==
    \A r \in Request :
        call[r] = "waiting" /\ future[r] = "pending"
        => /\ r \in waiters
           /\ \E i \in DOMAIN attached : attached[i] = Owner[r]

(* Every call of acquire() returns: admitted, failed or cancelled.         *)
EveryAcquireReturns ==
    \A r \in Request :
        call[r] \in {"waiting", "cancelling"} ~> call[r] \notin {"waiting", "cancelling"}

(* How a request stands in the eyes of its caller. *)
Standing ==
    [r \in Request |->
        CASE admittedAt[r] # Never -> "granted"
          [] call[r] = "failed" \/ future[r] \in {"error", "cancelled"} -> "denied"
          [] future[r] = "pending" -> "asked"
          [] OTHER -> "new"]

(* What all this is for, with queue, timers and gates abstracted away. *)
Promise == INSTANCE AdmissionControl WITH
    Caller <- Request, Counter <- Gate, CountersOf <- GatesFor, Ceiling <- MaxBudget,
    clock <- now, orders <- told, grantedAt <- admittedAt, state <- Standing

(* The limiter implements the abstract admission control: every handler is *)
(* a grant, a refusal, an order of silence or nothing the outside can see, *)
(* and whoever queues is answered.                                         *)
KeepsPromise == Promise!Spec
=============================================================================
