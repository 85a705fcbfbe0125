----------------------------- MODULE ApiRequest -----------------------------
(***************************************************************************)
(* One API client and its token manager (api/client.py, api/auth.py): the  *)
(* operations that call _request() concurrently, the token they share, the *)
(* lock that serialises its refresh, and the retries, each under the       *)
(* deadline of its operation (sleep_within_deadline of                     *)
(* api/rate_limit/queueing.py).                                            *)
(*                                                                         *)
(* A step of an operation runs from the end of one await to its next one,  *)
(* so it is one action.  The limiter is what AdmissionControl promises and *)
(* AccountRateLimiter keeps: acquire() admits at once, or queues a caller  *)
(* that has time left, or raises.  The server is external: it accepts a    *)
(* token or rejects it, and an answer that is lost, or is a 5xx, does not  *)
(* say whether the request was applied.                                    *)
(***************************************************************************)
EXTENDS Integers, Sequences, SequencesExt

CONSTANTS
    Task,        \* operations, each of one call of _request()
    Strict,      \* the custom-field mutations: retry_ambiguous=False
    Patience,    \* ticks from an operation's start to its deadline
    MaxRetries,  \* MAX_RETRIES
    Delays,      \* what _calculate_backoff and _jittered_delay may return
    ReadyDelay,  \* TOKEN_READY_DELAY
    Buffer,      \* _REFRESH_BUFFER
    Lifetime,    \* expires_in of a token
    SeedAges,    \* how old a token restored at set-up may be
    Lag,         \* how late the event loop may run a due timer
    MaxTokens,   \* bound: tokens the server grants
    MaxTime      \* bound: the model's last tick

ASSUME RequestAssumption ==
    /\ Strict \subseteq Task
    /\ MaxRetries \in Nat /\ Lag \in Nat /\ MaxTokens \in Nat /\ MaxTime \in Nat
    /\ Delays \subseteq Nat \ {0} /\ ReadyDelay \in Nat \ {0}
    /\ Buffer \in Nat /\ Lifetime \in Nat /\ Buffer < Lifetime
    /\ Patience \subseteq 1..Buffer /\ SeedAges \subseteq Nat

VARIABLES
    now,        \* the clock
    job,        \* task -> where its _request() is
    cached,     \* _cached_token, the number of a token or NoToken
    lock,       \* who holds _lock
    lockQueue,  \* who awaits it, first come first
    issued,     \* token -> its issued_at
    revoked,    \* the tokens the server no longer accepts
    sends,      \* history: task -> how often its request went out
    applied,    \* history: task -> how often the server applied it
    rejected,   \* history: <<task, token>> answered with an authentication 403
    dropped     \* history: the tokens that invalidate() took out of the cache

lockVars == <<lock, lockQueue>>
serverVars == <<issued, revoked, applied>>
historyVars == <<rejected, dropped>>
vars == <<now, job, cached, lockVars, serverVars, sends, historyVars>>

NoToken == 0
Nobody == "nobody"

ASSUME TaskAssumption == Nobody \notin Task

Holding == {"readying", "token_queued", "token_sent"}
Waiting == {"locking", "queued", "backoff"} \cup (Holding \ {"token_sent"})
Ended == {"done", "failed"}

(* not is_expired(_REFRESH_BUFFER), for a token that exists. *)
Usable(k) == k # NoToken /\ now < issued[k] + Lifetime - Buffer
ReadyAt(k) == issued[k] + ReadyDelay
Accepted(k) == k \notin revoked /\ ReadyAt(k) <= now /\ now < issued[k] + Lifetime
-----------------------------------------------------------------------------
(* An error: of the operation's own deadline, of a request that may have   *)
(* been applied (HostawayConnectionError), or of one that was refused.     *)
Failed(j, e) == [j EXCEPT !.pc = "failed", !.alarm = 0, !.error = e]

(* A bug: sleep first, look at the deadline later. *)
SleptRegardless(j, pc, due) == [j EXCEPT !.pc = pc, !.alarm = due]

(* sleep_within_deadline *)
Slept(j, pc, due) == IF due >= j.deadline THEN Failed(j, "out_of_time")
                     ELSE [j EXCEPT !.pc = pc, !.alarm = due]

(* acquire() of the limiter, up to its first await or its return. *)
Acquired(j, waiting, sent) ==
    {[j EXCEPT !.pc = sent, !.alarm = 0],
     IF now < j.deadline THEN [j EXCEPT !.pc = waiting, !.alarm = j.deadline]
     ELSE Failed(j, "out_of_time")}

(* A bug: a cached token is taken for a usable one. *)
HandedUnready(j, k) == Acquired([j EXCEPT !.token = k], "queued", "sent")

(* _ready_token, the end of get_token and the request's own _acquire. *)
Handed(j, k) ==
    IF ReadyAt(k) <= now THEN Acquired([j EXCEPT !.token = k], "queued", "sent")
    ELSE {Slept([j EXCEPT !.token = k], "readying", ReadyAt(k))}

(* A bug: whoever gets the lock refreshes the token. *)
InsideUnchecked(j) == Acquired(j, "token_queued", "token_sent")

(* get_token once it has the lock: the second check, then _request_token. *)
Inside(j) == IF Usable(cached) THEN Handed(j, cached)
             ELSE Acquired(j, "token_queued", "token_sent")

Becomes(t, j) == /\ job' = [job EXCEPT ![t] = j]
                 /\ sends' = [sends EXCEPT ![t] = IF j.pc = "sent" THEN @ + 1 ELSE @]

(* A bug: a refresh that is cancelled keeps the lock. *)
UnlockedUnlessCancelled(t, j) ==
    lock' = IF lock = t /\ j.pc \notin Holding /\ j.error # "cancelled" THEN Nobody ELSE lock

(* The finally clause of get_token. *)
Unlocked(t, j) == lock' = IF lock = t /\ j.pc \notin Holding THEN Nobody ELSE lock

(* _acquire_lock: behind whoever holds or awaits the lock, until the       *)
(* deadline.  Only the limited client is modelled, so there is always one. *)
Locking(t, j) ==
    \/ /\ now >= j.deadline
       /\ Becomes(t, Failed(j, "out_of_time"))
       /\ UNCHANGED lockVars
    \/ /\ now < j.deadline
       /\ lock = Nobody /\ lockQueue = <<>>
       /\ \E n \in Acquired(j, "token_queued", "token_sent") : Becomes(t, n)
       /\ lock' = t
       /\ UNCHANGED lockQueue
    \/ /\ now < j.deadline
       /\ lock # Nobody \/ lockQueue # <<>>
       /\ Becomes(t, [j EXCEPT !.pc = "locking", !.alarm = j.deadline])
       /\ lockQueue' = Append(lockQueue, t)
       /\ UNCHANGED lock

(* Whoever gives up waiting for the lock leaves its queue. *)
Unqueued(t) ==
    \/ /\ \A i \in DOMAIN lockQueue : lockQueue[i] # t
       /\ UNCHANGED lockQueue
    \/ \E i \in DOMAIN lockQueue : lockQueue[i] = t /\ lockQueue' = RemoveAt(lockQueue, i)

(* get_token with c in the cache, and the first check. *)
GetToken(t, j, c) ==
    IF Usable(c) THEN (\E n \in Handed(j, c) : Becomes(t, n)) /\ UNCHANGED lockVars
    ELSE Locking(t, j)
-----------------------------------------------------------------------------
(* A client starts without a token, or with one restored by seed_token. *)
Init ==
    /\ now = 0
    /\ job = [t \in Task |-> [pc |-> "new", token |-> NoToken, alarm |-> 0, deadline |-> 0,
                              attempt |-> 0, retriedAuth |-> FALSE, error |-> "none"]]
    /\ \/ issued = <<>> /\ cached = NoToken
       \/ \E age \in SeedAges : issued = <<-age>> /\ cached = 1
    /\ lock = Nobody /\ lockQueue = <<>>
    /\ revoked = {}
    /\ sends = [t \in Task |-> 0] /\ applied = [t \in Task |-> 0]
    /\ rejected = {} /\ dropped = {}

Tick ==
    /\ now < MaxTime
    /\ \A t \in Task : job[t].alarm # 0 => now < job[t].alarm + Lag
    /\ now' = now + 1
    /\ UNCHANGED <<job, cached, lockVars, serverVars, sends, historyVars>>

(* The server stops accepting a token before it expires. *)
Revoke(k) ==
    /\ k \in DOMAIN issued \ revoked
    /\ revoked' = revoked \cup {k}
    /\ UNCHANGED <<now, job, cached, lockVars, issued, applied, sends, historyVars>>

(* _request installs or finds the operation's one context. *)
Start(t) ==
    /\ job[t].pc = "new"
    /\ \E p \in Patience : /\ now + p <= MaxTime
                           /\ GetToken(t, [job[t] EXCEPT !.deadline = now + p], cached)
    /\ UNCHANGED <<now, cached, serverVars, historyVars>>

(* The lock is free and its first waiter runs. *)
LockTaken(t) ==
    /\ lock = Nobody /\ lockQueue # <<>> /\ Head(lockQueue) = t
    /\ lockQueue' = Tail(lockQueue)
    /\ \E n \in Inside(job[t]) : /\ Becomes(t, n)
                                 /\ lock' = IF n.pc \in Holding THEN t ELSE Nobody
    /\ UNCHANGED <<now, cached, serverVars, historyVars>>

(* The limiter admits a queued token request, or a queued request. *)
Admit(t) ==
    /\ now < job[t].deadline
    /\ \/ job[t].pc = "token_queued" /\ Becomes(t, [job[t] EXCEPT !.pc = "token_sent", !.alarm = 0])
       \/ job[t].pc = "queued" /\ Becomes(t, [job[t] EXCEPT !.pc = "sent", !.alarm = 0])
    /\ UNCHANGED <<now, cached, lockVars, serverVars, historyVars>>

(* _request_token returns: the token is cached, then waited for. *)
TokenGranted(t) ==
    LET k == Len(issued) + 1 IN
    /\ job[t].pc = "token_sent" /\ k <= MaxTokens
    /\ issued' = Append(issued, now)
    /\ cached' = k
    /\ LET n == Slept([job[t] EXCEPT !.token = k], "readying", now + ReadyDelay)
       IN  Becomes(t, n) /\ Unlocked(t, n)
    /\ UNCHANGED <<now, lockQueue, revoked, applied, historyVars>>

(* _request_token raises. *)
TokenRefused(t) ==
    /\ job[t].pc = "token_sent"
    /\ \E e \in {"unclear", "refused"} : Becomes(t, Failed(job[t], e)) /\ Unlocked(t, Failed(job[t], e))
    /\ UNCHANGED <<now, cached, lockQueue, serverVars, historyVars>>

(* The readiness delay is over, or the loop was too busy to notice in time. *)
Readied(t) ==
    /\ job[t].pc = "readying" /\ job[t].alarm <= now
    /\ \E n \in IF now < job[t].deadline THEN Acquired(job[t], "queued", "sent")
                ELSE {Failed(job[t], "out_of_time")} : Becomes(t, n) /\ Unlocked(t, n)
    /\ UNCHANGED <<now, cached, lockQueue, serverVars, historyVars>>

(* The backoff is over: the next attempt asks for the token again. *)
Retry(t) ==
    /\ job[t].pc = "backoff" /\ job[t].alarm <= now
    /\ \/ /\ now < job[t].deadline
          /\ GetToken(t, [job[t] EXCEPT !.attempt = @ + 1], cached)
       \/ /\ now >= job[t].deadline
          /\ Becomes(t, Failed(job[t], "out_of_time"))
          /\ UNCHANGED lockVars
    /\ UNCHANGED <<now, cached, serverVars, historyVars>>

(* The deadline passes while waiting for the lock or in the limiter. *)
OutOfTime(t) ==
    /\ job[t].pc \in {"locking", "token_queued", "queued"} /\ job[t].alarm <= now
    /\ Becomes(t, Failed(job[t], "out_of_time")) /\ Unlocked(t, Failed(job[t], "out_of_time"))
    /\ Unqueued(t)
    /\ UNCHANGED <<now, cached, serverVars, historyVars>>

(* The task is cancelled where it awaits; what it has sent may be applied. *)
Cancel(t) ==
    /\ job[t].pc \notin Ended \cup {"new"}
    /\ Becomes(t, Failed(job[t], "cancelled")) /\ Unlocked(t, Failed(job[t], "cancelled"))
    /\ Unqueued(t)
    /\ \/ UNCHANGED applied
       \/ /\ job[t].pc = "sent" /\ Accepted(job[t].token)
          /\ applied' = [applied EXCEPT ![t] = @ + 1]
    /\ UNCHANGED <<now, cached, issued, revoked, historyVars>>
-----------------------------------------------------------------------------
(* A bug: custom-field mutations are retried like anything else. *)
MostRetriesOfAll(t) == MaxRetries

MostRetries(t) == IF t \in Strict THEN 0 ELSE MaxRetries

(* A bug: the last attempt is followed by another one. *)
RetriedOnceMore(t, error) ==
    IF job[t].attempt > MostRetries(t) THEN {Failed(job[t], error)}
    ELSE {Slept(job[t], "backoff", now + d) : d \in Delays}

(* Another attempt after a backoff, if the policy and the deadline allow. *)
Retried(t, error) ==
    IF job[t].attempt >= MostRetries(t) THEN {Failed(job[t], error)}
    ELSE {Slept(job[t], "backoff", now + d) : d \in Delays}

Succeeded(t) ==
    /\ job[t].pc = "sent" /\ Accepted(job[t].token)
    /\ Becomes(t, [job[t] EXCEPT !.pc = "done"])
    /\ applied' = [applied EXCEPT ![t] = @ + 1]
    /\ UNCHANGED <<now, cached, lockVars, issued, revoked, historyVars>>

(* A network error or a 5xx. *)
Unclear(t) ==
    /\ job[t].pc = "sent"
    /\ \E n \in Retried(t, "unclear") : Becomes(t, n)
    /\ \/ UNCHANGED applied
       \/ Accepted(job[t].token) /\ applied' = [applied EXCEPT ![t] = @ + 1]
    /\ UNCHANGED <<now, cached, lockVars, issued, revoked, historyVars>>

(* A 429, which the limiter is told of. *)
RateLimited(t) ==
    /\ job[t].pc = "sent"
    /\ \E n \in Retried(t, "refused") : Becomes(t, n)
    /\ UNCHANGED <<now, cached, lockVars, serverVars, historyVars>>

(* A 404, a locked reservation or any other status. *)
Refused(t) ==
    /\ job[t].pc = "sent"
    /\ Becomes(t, Failed(job[t], "refused"))
    /\ UNCHANGED <<now, cached, lockVars, serverVars, historyVars>>

(* A bug: the rejected token stays cached. *)
InvalidateNothing == cached

(* invalidate() *)
Invalidate == NoToken

(* A bug: the second 403 is treated like the first. *)
ReenteredAfresh(j) == [j EXCEPT !.attempt = 0]

(* The recursive _request after a 403: a new loop, once. *)
Reentered(j) == [j EXCEPT !.attempt = 0, !.retriedAuth = TRUE]

(* A 403 that speaks of authentication. *)
Forbidden(t) ==
    /\ job[t].pc = "sent"
    /\ rejected' = rejected \cup {<<t, job[t].token>>}
    /\ \/ /\ job[t].retriedAuth
          /\ Becomes(t, Failed(job[t], "refused"))
          /\ UNCHANGED <<cached, dropped, lockVars>>
       \/ /\ ~job[t].retriedAuth
          /\ cached' = Invalidate
          /\ dropped' = dropped \cup ({cached} \ {NoToken})
          /\ IF t \in Strict THEN Becomes(t, Failed(job[t], "refused")) /\ UNCHANGED lockVars
             ELSE GetToken(t, Reentered(job[t]), cached')
    /\ UNCHANGED <<now, serverVars>>

Horizon == now = MaxTime /\ UNCHANGED vars
-----------------------------------------------------------------------------
Next ==
    \/ Tick
    \/ \E k \in 1..MaxTokens : Revoke(k)
    \/ \E t \in Task :
           \/ Start(t) \/ LockTaken(t) \/ Admit(t) \/ TokenGranted(t) \/ TokenRefused(t)
           \/ Readied(t) \/ Retry(t) \/ OutOfTime(t) \/ Cancel(t)
           \/ Succeeded(t) \/ Unclear(t) \/ RateLimited(t) \/ Refused(t) \/ Forbidden(t)
    \/ Horizon

Spec == Init /\ [][Next]_vars

(* Time passes, the loop runs what is due, and the token endpoint answers  *)
(* or the HTTP client's own timeout makes it an error.                     *)
Fairness ==
    /\ WF_vars(Tick)
    /\ \A t \in Task : /\ WF_vars(OutOfTime(t)) /\ WF_vars(Readied(t)) /\ WF_vars(Retry(t))
                       /\ WF_vars(LockTaken(t))
                       /\ WF_vars(TokenGranted(t) \/ TokenRefused(t))

FairSpec == Spec /\ Fairness
-----------------------------------------------------------------------------
(* Every variable has its type. *)
TypeOK ==
    /\ now \in Nat
    /\ job \in [Task -> [pc : {"new"} \cup Waiting \cup {"token_sent", "sent"} \cup Ended,
                         token : Nat, alarm : Nat, deadline : Nat,
                         attempt : 0..MaxRetries, retriedAuth : BOOLEAN,
                         error : {"none", "out_of_time", "unclear", "refused", "cancelled"}]]
    /\ issued \in Seq(Int)
    /\ cached \in {NoToken} \cup DOMAIN issued
    /\ lock \in Task \cup {Nobody}
    /\ lockQueue \in Seq(Task) /\ IsInjective(lockQueue)
    /\ revoked \subseteq DOMAIN issued /\ dropped \subseteq DOMAIN issued
    /\ sends \in [Task -> Nat] /\ applied \in [Task -> Nat]
    /\ rejected \subseteq Task \X DOMAIN issued

GoesOut(t) == sends'[t] # sends[t]
Newest == Len(issued)

(* A request leaves with a token that Hostaway has had time to activate    *)
(* and that has not expired, however long it queued after taking it        *)
(* (_ready_token, _REFRESH_BUFFER).                                        *)
SentWithGoodToken ==
    [][\A t \in Task : GoesOut(t) =>
           LET k == job'[t].token IN ReadyAt(k) <= now /\ now < issued[k] + Lifetime]_vars

(* A token is asked for only when the last one received is about to expire *)
(* or was invalidated, however many callers find the cache empty at once   *)
(* and whatever becomes of the caller that fetched it ("second check       *)
(* inside lock prevents redundant requests", get_token).                   *)
NoneBoughtTwice ==
    [][\A t \in Task : job[t].pc # "token_sent" /\ job'[t].pc = "token_sent"
                       => ~Usable(Newest) \/ Newest \in dropped']_vars

(* The request repeated after a 403 carries another token than the one     *)
(* that was rejected (_handle_forbidden_response).                         *)
RejectedTokenNotReused ==
    [][\A t \in Task : GoesOut(t) /\ job'[t].retriedAuth
                       => <<t, job'[t].token>> \notin rejected]_vars

(* A custom-field mutation reaches the server at most once, and an error   *)
(* that its handler takes to mean "not applied" means it: only             *)
(* HostawayConnectionError is answered with a read-back                    *)
(* (services/custom_fields.py, _write_custom_field).                       *)
MutationOnce ==
    \A t \in Strict : /\ applied[t] <= sends[t] /\ sends[t] <= 1
                      /\ job[t].error \in {"out_of_time", "refused"} => applied[t] = 0

(* Nobody waits for the lock, a token, the limiter or a backoff beyond the *)
(* deadline of the operation, retries and the repetition after a 403       *)
(* included (_acquire_lock, sleep_within_deadline).                        *)
DeadlineKept ==
    \A t \in Task : job[t].pc \in Waiting => now <= job[t].deadline + Lag

(* One operation sends at most two rounds of MAX_RETRIES + 1 requests.     *)
AttemptsBounded == \A t \in Task : sends[t] <= 2 * (MaxRetries + 1)

(* A refresh never keeps the lock for good, also when its caller is        *)
(* cancelled, refused or out of time (the finally of get_token).           *)
LockReleased == lock # Nobody ~> lock = Nobody

(* A token leaves the cache only if a response rejected it: "Used when a   *)
(* 401/403 response indicates the token is invalid" (invalidate).          *)
OnlyRejectedDropped == \A k \in dropped : \E t \in Task : <<t, k>> \in rejected
=============================================================================
