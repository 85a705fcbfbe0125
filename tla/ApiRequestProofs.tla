-------------------------- MODULE ApiRequestProofs --------------------------
(***************************************************************************)
(* The safety of ApiRequest, for every number of operations, every retry   *)
(* policy, delay and token lifetime, and however long the clock runs.      *)
(*                                                                         *)
(* What an operation may do next depends on few facts about it, which the  *)
(* invariant collects: how often it has been sent (Counted, Once), until   *)
(* when it waits (Paced), whether the token it carries will be good when   *)
(* it leaves (Carried) and is none that it was refused with (Anew), and    *)
(* that whoever refreshes the token holds the lock (Refreshing).           *)
(***************************************************************************)
EXTENDS ApiRequest, SequenceTheorems, TLAPS

Pc == {"new"} \cup Waiting \cup {"token_sent", "sent"} \cup Ended
Error == {"none", "out_of_time", "unclear", "refused", "cancelled"}
Job == [pc : Pc, token : Nat, alarm : Nat, deadline : Nat, attempt : 0..MaxRetries,
        retriedAuth : BOOLEAN, error : Error]

(* Where an operation has a token to send. *)
Carrying == {"readying", "queued", "sent"}

(* Where the request of this attempt has not left yet. *)
Before == {"new", "locking", "token_queued", "token_sent", "readying", "queued"}

(* Nobody may want another token unless the newest is of no more use. *)
Spent == ~Usable(Newest) \/ Newest \in dropped

Paced(t) ==
    /\ job[t].pc \in Waiting => /\ job[t].alarm <= job[t].deadline
                                /\ now <= job[t].alarm + Lag
                                /\ job[t].alarm # 0
    /\ job[t].pc \notin {"new"} \cup Ended => job[t].deadline <= now + Buffer

Carried(t) ==
    job[t].pc \in Carrying =>
        LET k == job[t].token
        IN  /\ k \in DOMAIN issued
            /\ job[t].deadline < issued[k] + Lifetime
            /\ job[t].pc = "readying" => ReadyAt(k) <= job[t].alarm
            /\ job[t].pc = "queued" => ReadyAt(k) <= now

Anew(t) ==
    job[t].retriedAuth /\ job[t].pc \notin Ended =>
        /\ <<t, cached>> \notin rejected
        /\ job[t].pc \in Carrying => <<t, job[t].token>> \notin rejected

Refreshing(t) ==
    /\ job[t].pc \in {"token_queued", "token_sent"} => lock = t
    /\ job[t].pc \in {"token_queued", "token_sent"} => Spent

(* The rounds an operation has used up. *)
Rounds(j) == IF j.retriedAuth THEN MaxRetries + 1 ELSE 0

Counted(t) ==
    /\ job[t].attempt <= MostRetries(t)
    /\ job[t].pc \in Before => sends[t] <= Rounds(job[t]) + job[t].attempt
    /\ job[t].pc \in {"sent", "backoff"} => sends[t] <= Rounds(job[t]) + job[t].attempt + 1
    /\ job[t].pc = "backoff" => job[t].attempt < MostRetries(t)
    /\ job[t].pc = "new" => job[t].attempt = 0 /\ ~job[t].retriedAuth
    /\ sends[t] <= 2 * (MaxRetries + 1)

Once(t) ==
    t \in Strict =>
        /\ ~job[t].retriedAuth
        /\ applied[t] <= sends[t] /\ sends[t] <= 1
        /\ job[t].pc \in Before => sends[t] = 0
        /\ job[t].pc = "sent" => applied[t] = 0 /\ sends[t] = 1
        /\ job[t].pc \notin Ended => job[t].error = "none"
        /\ job[t].error \in {"out_of_time", "refused"} => applied[t] = 0

Fine(t) == Paced(t) /\ Carried(t) /\ Anew(t) /\ Refreshing(t) /\ Counted(t) /\ Once(t)

(* What is cached is the newest token, unless that was invalidated. *)
CacheIsNewest ==
    /\ cached \in {NoToken, Newest}
    /\ cached = NoToken => Newest = 0 \/ Newest \in dropped

QueueWaits == \A i \in DOMAIN lockQueue : job[lockQueue[i]].pc = "locking"

Inv == /\ TypeOK /\ QueueWaits /\ CacheIsNewest
       /\ \A t \in Task : Fine(t)

(* What is true of a request that goes out in a step. *)
SentWell(t) ==
    GoesOut(t) => LET k == job'[t].token
                  IN  /\ ReadyAt(k) <= now /\ now < issued[k] + Lifetime
                      /\ job'[t].retriedAuth => <<t, k>> \notin rejected
-----------------------------------------------------------------------------
(* A queue that one element leaves. *)
LEMMA RemovedOne ==
    ASSUME NEW S, NEW s \in Seq(S), NEW i \in 1..Len(s)
    PROVE  /\ RemoveAt(s, i) \in Seq(S)
           /\ Len(RemoveAt(s, i)) = Len(s) - 1
           /\ \A m \in 1..(Len(s) - 1) :
                  RemoveAt(s, i)[m] = IF m < i THEN s[m] ELSE s[m + 1]
<1> DEFINE left == SubSeq(s, 1, i - 1)
           right == SubSeq(s, i + 1, Len(s))
<1>1. Len(s) \in Nat /\ i \in Int /\ \A m \in 1..Len(s) : s[m] \in S
  BY LenProperties, ElementOfSeq
<1>2. /\ left \in Seq(S) /\ Len(left) = i - 1
      /\ \A m \in 1..(i - 1) : left[m] = s[m]
  <2>1. 1 \in Int /\ i - 1 \in Int /\ \A m \in 1..(i - 1) : s[m] \in S
    BY <1>1
  <2>2. /\ left \in Seq(S)
        /\ Len(left) = IF 1 <= i - 1 THEN (i - 1) - 1 + 1 ELSE 0
        /\ \A m \in 1..((i - 1) - 1 + 1) : left[m] = s[1 + m - 1]
    BY <2>1, SubSeqProperties
  <2> HIDE DEF left
  <2>3. (i - 1) - 1 + 1 = i - 1 /\ (1 <= i - 1 \/ i - 1 = 0)
        /\ \A m \in 1..(i - 1) : 1 + m - 1 = m
    BY <1>1
  <2> QED
    BY <2>2, <2>3
<1>3. /\ right \in Seq(S) /\ Len(right) = Len(s) - i
      /\ \A m \in 1..(Len(s) - i) : right[m] = s[m + i]
  <2>1. PICK from \in Int : from = i + 1
    BY <1>1
  <2>2. PICK to \in Int : to = Len(s)
    <3>1. Len(s) \in Int
      BY <1>1
    <3> QED
      BY <3>1, Zenon
  <2>3. \A m \in from..to : s[m] \in S
    BY <1>1, <2>1, <2>2
  <2>4. /\ SubSeq(s, from, to) \in Seq(S)
        /\ Len(SubSeq(s, from, to)) = IF from <= to THEN to - from + 1 ELSE 0
        /\ \A m \in 1..(to - from + 1) : SubSeq(s, from, to)[m] = s[from + m - 1]
    BY <2>3, SubSeqProperties
  <2>5. right = SubSeq(s, from, to)
    BY <2>1, <2>2
  <2> HIDE DEF right
  <2>6. /\ to - from + 1 = Len(s) - i
        /\ from <= to \/ Len(s) - i = 0
        /\ ~ (from <= to) => Len(s) - i = 0
        /\ \A m \in 1..(Len(s) - i) : from + m - 1 = m + i
    BY <1>1, <2>1, <2>2
  <2> QED
    BY <2>4, <2>5, <2>6
<1>4. RemoveAt(s, i) = left \o right
  BY DEF RemoveAt
<1> HIDE DEF left, right
<1>5. /\ RemoveAt(s, i) \in Seq(S)
      /\ Len(RemoveAt(s, i)) = (i - 1) + (Len(s) - i)
      /\ \A m \in 1..((i - 1) + (Len(s) - i)) :
             RemoveAt(s, i)[m] = IF m <= i - 1 THEN left[m] ELSE right[m - (i - 1)]
  <2>1. /\ left \o right \in Seq(S)
        /\ Len(left \o right) = Len(left) + Len(right)
        /\ \A m \in 1..(Len(left) + Len(right)) :
               (left \o right)[m] = IF m <= Len(left) THEN left[m] ELSE right[m - Len(left)]
    BY <1>2, <1>3, ConcatProperties
  <2> QED
    BY <1>2, <1>3, <1>4, <2>1
<1>6. (i - 1) + (Len(s) - i) = Len(s) - 1
  BY <1>1
<1>7. ASSUME NEW m \in 1..(Len(s) - 1)
      PROVE  RemoveAt(s, i)[m] = IF m < i THEN s[m] ELSE s[m + 1]
  <2>1. CASE m < i
    <3>1. m \in 1..(i - 1) /\ m <= i - 1 /\ m \in 1..((i - 1) + (Len(s) - i))
      BY <1>1, <2>1
    <3> QED
      BY <1>2, <1>5, <2>1, <3>1
  <2>2. CASE ~(m < i)
    <3>1. /\ m - (i - 1) \in 1..(Len(s) - i) /\ ~(m <= i - 1) /\ (m - (i - 1)) + i = m + 1
          /\ m \in 1..((i - 1) + (Len(s) - i))
      BY <1>1, <2>2
    <3> QED
      BY <1>3, <1>5, <2>2, <3>1
  <2> QED
    BY <2>1, <2>2
<1> QED
  BY <1>5, <1>6, <1>7

LEMMA JobTypes == Inv => /\ job \in [Task -> Job]
                         /\ \A t \in Task : job[t] \in Job
BY DEF Inv, TypeOK, Job, Pc, Error, Waiting, Holding, Ended
-----------------------------------------------------------------------------
(* The queue of the lock, in the four ways a step treats it. *)
QueueOK == lockQueue \in Seq(Task) /\ IsInjective(lockQueue) /\ QueueWaits

LEMMA QueueFacts ==
    ASSUME Inv
    PROVE  /\ QueueOK /\ Len(lockQueue) \in Nat /\ DOMAIN lockQueue = 1..Len(lockQueue)
           /\ \A i \in 1..Len(lockQueue) : lockQueue[i] \in Task
BY LenProperties, ElementOfSeq DEF Inv, QueueOK, TypeOK

LEMMA QueueSame ==
    ASSUME Inv, NEW t \in Task, NEW n, Becomes(t, n), job[t].pc # "locking",
           UNCHANGED lockQueue
    PROVE  QueueOK'
<1>1. \A u \in Task \ {t} : job'[u] = job[u]
  BY DEF Becomes
<1>2. \A i \in DOMAIN lockQueue : lockQueue[i] # t /\ lockQueue[i] \in Task
  BY QueueFacts DEF QueueOK, QueueWaits
<1> QED
  BY <1>1, <1>2, QueueFacts DEF QueueOK, QueueWaits

LEMMA QueueAppend ==
    ASSUME Inv, NEW t \in Task, NEW n, Becomes(t, n), job[t].pc # "locking",
           n.pc = "locking", lockQueue' = Append(lockQueue, t)
    PROVE  QueueOK'
<1>1. job'[t] = n /\ \A u \in Task \ {t} : job'[u] = job[u]
  BY JobTypes DEF Becomes
<1>2. \A i \in 1..Len(lockQueue) : lockQueue[i] # t /\ lockQueue[i] \in Task
  BY QueueFacts DEF QueueOK, QueueWaits
<1>3. /\ lockQueue' \in Seq(Task) /\ Len(lockQueue') = Len(lockQueue) + 1
      /\ \A i \in 1..Len(lockQueue) : lockQueue'[i] = lockQueue[i]
      /\ lockQueue'[Len(lockQueue) + 1] = t
  BY QueueFacts, AppendProperties DEF QueueOK
<1>4. DOMAIN lockQueue' = 1..(Len(lockQueue) + 1)
  BY <1>3, LenProperties
<1>5. \A i \in DOMAIN lockQueue' : i \in 1..Len(lockQueue) \/ i = Len(lockQueue) + 1
  BY <1>4, QueueFacts
<1>6. IsInjective(lockQueue')
  BY <1>2, <1>3, <1>5, QueueFacts DEF IsInjective, QueueOK
<1>7. QueueWaits'
  BY <1>1, <1>2, <1>3, <1>5, QueueFacts DEF QueueOK, QueueWaits
<1> QED
  BY <1>3, <1>6, <1>7 DEF QueueOK

LEMMA QueueTail ==
    ASSUME Inv, NEW t \in Task, NEW n, Becomes(t, n), lockQueue # <<>>,
           Head(lockQueue) = t, lockQueue' = Tail(lockQueue)
    PROVE  QueueOK' /\ job[t].pc = "locking"
<1>1. \A u \in Task \ {t} : job'[u] = job[u]
  BY DEF Becomes
<1>2. /\ Len(lockQueue) >= 1 /\ lockQueue[1] = t
      /\ lockQueue' \in Seq(Task) /\ Len(lockQueue') = Len(lockQueue) - 1
      /\ \A i \in 1..(Len(lockQueue) - 1) : lockQueue'[i] = lockQueue[i + 1]
  BY QueueFacts, HeadTailProperties, EmptySeq DEF QueueOK
<1>3. DOMAIN lockQueue' = 1..(Len(lockQueue) - 1)
  BY <1>2, LenProperties
<1>4. \A i \in DOMAIN lockQueue' : /\ i + 1 \in DOMAIN lockQueue /\ i + 1 # 1
                                   /\ lockQueue'[i] = lockQueue[i + 1]
                                   /\ lockQueue[i + 1] \in Task
  BY <1>2, <1>3, QueueFacts
<1>5. 1 \in DOMAIN lockQueue
  BY <1>2, QueueFacts
<1>6. \A i \in DOMAIN lockQueue' : lockQueue'[i] # t
  BY <1>2, <1>4, <1>5, QueueFacts DEF IsInjective, QueueOK
<1>7. IsInjective(lockQueue')
  BY <1>3, <1>4, QueueFacts DEF IsInjective, QueueOK
<1>8. QueueWaits'
  BY <1>1, <1>4, <1>6, QueueFacts DEF QueueOK, QueueWaits
<1> QED
  BY <1>2, <1>5, <1>7, <1>8, QueueFacts DEF QueueOK, QueueWaits

LEMMA QueueLeft ==
    ASSUME Inv, NEW t \in Task, NEW n, Becomes(t, n), Unqueued(t)
    PROVE  QueueOK'
<1>1. \A u \in Task \ {t} : job'[u] = job[u]
  BY DEF Becomes
<1>2. CASE /\ \A i \in DOMAIN lockQueue : lockQueue[i] # t
           /\ UNCHANGED lockQueue
  BY <1>1, <1>2, QueueFacts DEF QueueOK, QueueWaits
<1>3. ASSUME NEW i \in DOMAIN lockQueue, lockQueue[i] = t, lockQueue' = RemoveAt(lockQueue, i)
      PROVE  QueueOK'
  <2>1. i \in 1..Len(lockQueue) /\ Len(lockQueue) \in Nat
    BY <1>3, QueueFacts
  <2>2. /\ lockQueue' \in Seq(Task) /\ Len(lockQueue') = Len(lockQueue) - 1
        /\ \A m \in 1..(Len(lockQueue) - 1) :
               lockQueue'[m] = IF m < i THEN lockQueue[m] ELSE lockQueue[m + 1]
    BY <1>3, <2>1, QueueFacts, RemovedOne DEF QueueOK
  <2>3. DOMAIN lockQueue' = 1..(Len(lockQueue) - 1)
    BY <2>2, LenProperties
  <2> DEFINE from(m) == IF m < i THEN m ELSE m + 1
  <2>4. \A m \in DOMAIN lockQueue' : /\ from(m) \in DOMAIN lockQueue /\ from(m) # i
                                     /\ lockQueue'[m] = lockQueue[from(m)]
    BY <2>1, <2>2, <2>3, QueueFacts
  <2>5. \A m, k \in DOMAIN lockQueue' : from(m) = from(k) => m = k
    BY <2>1, <2>3
  <2> HIDE DEF from
  <2>6. \A m \in DOMAIN lockQueue' : lockQueue'[m] # t /\ lockQueue'[m] \in Task
    BY <1>3, <2>4, QueueFacts DEF IsInjective, QueueOK
  <2>7. IsInjective(lockQueue')
    BY <2>4, <2>5, QueueFacts DEF IsInjective, QueueOK
  <2>8. QueueWaits'
    BY <1>1, <2>4, <2>6, QueueFacts DEF QueueOK, QueueWaits
  <2> QED
    BY <2>2, <2>7, <2>8 DEF QueueOK
<1> QED
  BY <1>2, <1>3 DEF Unqueued
-----------------------------------------------------------------------------
(* What asking for a token may lead to: what stays, and where it ends. *)
Frame(n, j) == /\ n \in Job /\ n.deadline = j.deadline
               /\ n.attempt = j.attempt /\ n.retriedAuth = j.retriedAuth

GaveUp(n) == n.pc = "failed" /\ n.error = "out_of_time"

Handled(n, j, k) ==
    /\ Frame(n, j)
    /\ \/ GaveUp(n)
       \/ /\ n.error = j.error /\ n.token = k
          /\ \/ n.pc = "sent" /\ ReadyAt(k) <= now
             \/ /\ n.pc = "queued" /\ ReadyAt(k) <= now
                /\ n.alarm = n.deadline /\ now < n.deadline
             \/ /\ n.pc = "readying" /\ n.alarm = ReadyAt(k)
                /\ now < n.alarm /\ n.alarm < n.deadline

Fetches(n, j) ==
    /\ Frame(n, j) /\ n.error = j.error
    /\ \/ n.pc = "token_sent"
       \/ n.pc = "token_queued" /\ n.alarm = n.deadline /\ now < n.deadline

Locks(n, j) ==
    /\ Frame(n, j) /\ n.error = j.error
    /\ n.pc = "locking" /\ n.alarm = n.deadline /\ now < n.deadline

LEMMA PcNames == {"new", "locking", "queued", "backoff", "readying", "token_queued",
                  "token_sent", "sent", "done", "failed"} = Pc
BY DEF Pc, Waiting, Holding, Ended

(* An operation that waits at p until some instant. *)
Until(j, p, due) == [j EXCEPT !.pc = p, !.alarm = due]

LEMMA WaitsUntil ==
    ASSUME NEW j \in Job, NEW p \in Pc, NEW due \in Nat
    PROVE  /\ Frame(Until(j, p, due), j)
           /\ Until(j, p, due).pc = p /\ Until(j, p, due).alarm = due
           /\ Until(j, p, due).error = j.error /\ Until(j, p, due).token = j.token
BY DEF Until, Frame, Job

LEMMA FailedFails ==
    ASSUME NEW j \in Job, NEW e \in Error
    PROVE  Frame(Failed(j, e), j) /\ Failed(j, e).pc = "failed" /\ Failed(j, e).error = e
<1>1. PICK stopped : stopped = Until(j, "failed", 0)
  OBVIOUS
<1>2. Frame(stopped, j) /\ stopped.pc = "failed"
  <2>1. "failed" \in Pc /\ 0 \in Nat
    BY PcNames
  <2> QED
    BY <1>1, <2>1, WaitsUntil
<1>3. Failed(j, e) = [stopped EXCEPT !.error = e]
  BY <1>1, Zenon DEF Failed, Until
<1> QED
  BY <1>2, <1>3 DEF Frame, Job

(* acquire() of the limiter. *)
LEMMA AcquiredWaits ==
    ASSUME Inv, NEW j \in Job, NEW waiting \in Pc, NEW sent \in Pc,
           NEW n \in Acquired(j, waiting, sent)
    PROVE  /\ Frame(n, j)
           /\ \/ GaveUp(n) /\ now >= j.deadline
              \/ n.error = j.error /\ n.token = j.token /\ n.pc = sent
              \/ /\ n.error = j.error /\ n.token = j.token /\ n.pc = waiting
                 /\ n.alarm = n.deadline /\ now < n.deadline
<1>0. now \in Nat /\ j.deadline \in Nat /\ "out_of_time" \in Error /\ 0 \in Nat
  BY DEF Inv, TypeOK, Job, Error
<1>1. CASE n = Until(j, sent, 0)
  BY <1>0, <1>1, WaitsUntil
<1>2. CASE now < j.deadline /\ n = Until(j, waiting, j.deadline)
  <2>1. /\ Frame(n, j) /\ n.pc = waiting /\ n.alarm = j.deadline
        /\ n.error = j.error /\ n.token = j.token
    BY <1>0, <1>2, WaitsUntil
  <2>2. n.deadline = j.deadline
    BY <2>1 DEF Frame
  <2> QED
    BY <1>2, <2>1, <2>2
<1>3. CASE ~(now < j.deadline) /\ n = Failed(j, "out_of_time")
  BY <1>0, <1>3, FailedFails DEF GaveUp
<1> DEFINE failed == Failed(j, "out_of_time")
<1>4. n \in {Until(j, sent, 0), IF now < j.deadline THEN Until(j, waiting, j.deadline)
                                ELSE failed}
  BY DEF Acquired, Until
<1> HIDE DEF failed
<1>5. \/ n = Until(j, sent, 0)
      \/ now < j.deadline /\ n = Until(j, waiting, j.deadline)
      \/ ~(now < j.deadline) /\ n = failed
  BY <1>4
<1> QED
  BY <1>1, <1>2, <1>3, <1>5 DEF failed

(* sleep_within_deadline *)
LEMMA SleptWaits ==
    ASSUME NEW j \in Job, NEW p \in Pc, NEW due \in Nat, NEW n, n = Slept(j, p, due)
    PROVE  /\ Frame(n, j)
           /\ \/ GaveUp(n)
              \/ /\ n.error = j.error /\ n.token = j.token /\ n.pc = p
                 /\ n.alarm = due /\ due < n.deadline
<1>0. j.deadline \in Nat /\ "out_of_time" \in Error
  BY DEF Job, Error
<1>1. CASE due >= j.deadline
  BY <1>0, <1>1, FailedFails DEF GaveUp, Slept
<1>2. CASE ~(due >= j.deadline)
  <2>1. n = Until(j, p, due)
    BY <1>2, Zenon DEF Slept, Until
  <2>2. /\ Frame(n, j) /\ n.pc = p /\ n.alarm = due
        /\ n.error = j.error /\ n.token = j.token
    BY <2>1, WaitsUntil
  <2>3. due < j.deadline
    BY <1>0, <1>2
  <2> QED
    BY <2>2, <2>3 DEF Frame
<1> QED
  BY <1>1, <1>2

LEMMA HandedHandles ==
    ASSUME Inv, NEW j \in Job, NEW k \in DOMAIN issued, NEW n \in Handed(j, k)
    PROVE  Handled(n, j, k)
<1>1. /\ now \in Nat /\ issued[k] \in Int /\ k \in Nat
      /\ ReadyDelay \in Nat
  BY RequestAssumption, LenProperties, ElementOfSeq DEF Inv, TypeOK
<1>2. ReadyAt(k) \in Int
  BY <1>1 DEF ReadyAt
<1> DEFINE i == [j EXCEPT !.token = k]
<1>3. /\ i \in Job /\ i.token = k /\ i.error = j.error
      /\ \A m : Frame(m, i) => Frame(m, j)
  BY <1>1 DEF Job, Frame
<1> HIDE DEF i
<1>4. CASE ReadyAt(k) <= now
  <2>1. n \in Acquired(i, "queued", "sent")
    BY <1>4 DEF Handed, i
  <2> QED
    BY <1>3, <1>4, <2>1, PcNames, AcquiredWaits DEF Handled
<1>5. CASE ~(ReadyAt(k) <= now)
  <2>1. n = Slept(i, "readying", ReadyAt(k))
    BY <1>5 DEF Handed, i
  <2>2. ReadyAt(k) \in Nat /\ now < ReadyAt(k)
    BY <1>1, <1>2, <1>5
  <2> QED
    BY <1>3, <2>1, <2>2, PcNames, SleptWaits DEF Handled
<1> QED
  BY <1>4, <1>5

LEMMA UsableExists ==
    ASSUME Inv, NEW c \in {NoToken} \cup DOMAIN issued, Usable(c)
    PROVE  c \in DOMAIN issued
BY DEF Usable

LEMMA GetTokenLeads ==
    ASSUME Inv, NEW t \in Task, NEW j \in Job, NEW c \in {NoToken} \cup DOMAIN issued,
           GetToken(t, j, c)
    PROVE  \E n \in Job :
               /\ Becomes(t, n)
               /\ \/ Usable(c) /\ Handled(n, j, c) /\ UNCHANGED lockVars
                  \/ ~Usable(c) /\ Frame(n, j) /\ GaveUp(n) /\ UNCHANGED lockVars
                  \/ ~Usable(c) /\ Fetches(n, j) /\ lock = Nobody /\ lock' = t
                     /\ UNCHANGED lockQueue
                  \/ ~Usable(c) /\ Locks(n, j) /\ UNCHANGED lock
                     /\ lockQueue' = Append(lockQueue, t)
<1>0. now \in Nat
  BY DEF Inv, TypeOK
<1>1. CASE Usable(c)
  <2>1. PICK n \in Handed(j, c) : Becomes(t, n)
    BY <1>1 DEF GetToken
  <2>2. UNCHANGED lockVars
    BY <1>1 DEF GetToken
  <2>3. Handled(n, j, c)
    BY <1>1, UsableExists, HandedHandles
  <2>4. n \in Job
    BY <2>3 DEF Handled, Frame
  <2> QED
    BY <1>1, <2>1, <2>2, <2>3, <2>4
<1>2. CASE ~Usable(c)
  <2>0. Locking(t, j)
    BY <1>2 DEF GetToken
  <2>1. CASE now >= j.deadline /\ Becomes(t, Failed(j, "out_of_time")) /\ UNCHANGED lockVars
    <3> DEFINE n == Failed(j, "out_of_time")
    <3>1. n \in Job /\ Frame(n, j) /\ GaveUp(n)
      BY DEF Failed, Frame, GaveUp, Job, Pc, Error, Ended
    <3> HIDE DEF n
    <3> QED
      BY <1>2, <2>1, <3>1 DEF n
  <2>2. CASE /\ now < j.deadline /\ lock = Nobody /\ lockQueue = <<>>
             /\ \E n \in Acquired(j, "token_queued", "token_sent") : Becomes(t, n)
             /\ lock' = t /\ UNCHANGED lockQueue
    <3>1. PICK n \in Acquired(j, "token_queued", "token_sent") : Becomes(t, n)
      BY <2>2
    <3>2. "token_queued" \in Pc /\ "token_sent" \in Pc /\ j.deadline \in Nat
      BY PcNames DEF Job
    <3>3. Frame(n, j) /\ ~(now >= j.deadline)
      BY <1>0, <2>2, <3>2, AcquiredWaits
    <3>4. Fetches(n, j) /\ n \in Job
      BY <3>2, <3>3, AcquiredWaits DEF Fetches, Frame
    <3> QED
      BY <1>2, <2>2, <3>1, <3>4
  <2>3. CASE /\ now < j.deadline
             /\ Becomes(t, [j EXCEPT !.pc = "locking", !.alarm = j.deadline])
             /\ lockQueue' = Append(lockQueue, t) /\ UNCHANGED lock
    <3> DEFINE n == [j EXCEPT !.pc = "locking", !.alarm = j.deadline]
    <3>1. n \in Job /\ Locks(n, j)
      BY <1>0, <2>3 DEF Locks, Frame, Job, Pc, Error, Waiting, Holding, Ended
    <3> HIDE DEF n
    <3> QED
      BY <1>2, <2>3, <3>1 DEF n
  <2> QED
    BY <2>0, <2>1, <2>2, <2>3 DEF Locking
<1> QED
  BY <1>1, <1>2
-----------------------------------------------------------------------------
LEMMA Numbers ==
    ASSUME Inv
    PROVE  /\ now \in Nat /\ Newest \in Nat /\ DOMAIN issued = 1..Newest
           /\ \A k \in DOMAIN issued : issued[k] \in Int /\ k \in Nat /\ k # NoToken
           /\ Lag \in Nat /\ MaxRetries \in Nat /\ Buffer \in Nat /\ Lifetime \in Nat
           /\ ReadyDelay \in Nat
           /\ \A t \in Task : /\ sends[t] \in Nat /\ applied[t] \in Nat
                              /\ MostRetries(t) \in 0..MaxRetries /\ job[t] \in Job
<1>1. /\ now \in Nat /\ issued \in Seq(Int)
      /\ sends \in [Task -> Nat] /\ applied \in [Task -> Nat]
  BY DEF Inv, TypeOK
<1>2. /\ Newest \in Nat /\ DOMAIN issued = 1..Newest
      /\ \A k \in DOMAIN issued : issued[k] \in Int
  BY <1>1, LenProperties, ElementOfSeq DEF Newest
<1>3. \A k \in DOMAIN issued : k \in Nat /\ k # NoToken
  BY <1>2 DEF NoToken
<1>4. \A t \in Task : MostRetries(t) \in 0..MaxRetries
  BY RequestAssumption DEF MostRetries
<1> QED
  BY <1>1, <1>2, <1>3, <1>4, JobTypes, RequestAssumption

LEMMA Effect ==
    ASSUME Inv, NEW t \in Task, NEW n, Becomes(t, n)
    PROVE  /\ job'[t] = n /\ \A u \in Task \ {t} : job'[u] = job[u] /\ sends'[u] = sends[u]
           /\ sends'[t] = IF n.pc = "sent" THEN sends[t] + 1 ELSE sends[t]
           /\ n \in Job => job' \in [Task -> Job]
           /\ sends' \in [Task -> Nat]
<1>1. job \in [Task -> Job] /\ sends \in [Task -> Nat]
  BY JobTypes DEF Inv, TypeOK
<1> HIDE DEF Job
<1> QED
  BY <1>1 DEF Becomes

(* The operations that a step does not touch. *)
LEMMA OthersFine ==
    ASSUME Inv, NEW t \in Task, NEW n, Becomes(t, n), now' = now,
           \/ issued' = issued
           \/ lock = t /\ issued' = Append(issued, now),
           cached' \in {cached, NoToken, Newest'}, dropped \subseteq dropped',
           \A u \in Task \ {t} : applied'[u] = applied[u],
           \A u \in Task \ {t} : \A k : <<u, k>> \in rejected' => <<u, k>> \in rejected,
           cached' # cached => cached' \notin DOMAIN issued,
           lock' = lock \/ lock \in {Nobody, t}
    PROVE  \A u \in Task \ {t} : Fine(u)'
<1> SUFFICES ASSUME NEW u \in Task, u # t PROVE Fine(u)'
  BY Zenon
<1>1. job'[u] = job[u] /\ sends'[u] = sends[u] /\ applied'[u] = applied[u] /\ Fine(u)
  BY Effect DEF Inv
<1>2. \A k \in DOMAIN issued : k \in DOMAIN issued' /\ issued'[k] = issued[k]
  <2>1. CASE issued' = issued
    BY <2>1
  <2>2. CASE issued' = Append(issued, now)
    <3>1. issued \in Seq(Int) /\ now \in Int
      BY Numbers DEF Inv, TypeOK
    <3>2. /\ issued' \in Seq(Int) /\ Len(issued') = Len(issued) + 1
          /\ \A k \in 1..Len(issued) : issued'[k] = issued[k]
      BY <2>2, <3>1, AppendProperties
    <3>3. DOMAIN issued' = 1..(Len(issued) + 1)
      BY <3>2, LenProperties
    <3> QED
      BY <3>2, <3>3, Numbers DEF Newest
  <2> QED
    BY <2>1, <2>2
<1>3. Paced(u)' /\ Counted(u)' /\ Once(u)'
  BY <1>1 DEF Fine, Paced, Counted, Once
<1>4. Carried(u)'
  BY <1>1, <1>2 DEF Fine, Carried, ReadyAt
<1>5. Anew(u)'
  <2>1. ASSUME job[u].retriedAuth, job[u].pc \notin Ended
        PROVE  <<u, cached'>> \notin rejected
    <3>1. rejected \subseteq Task \X DOMAIN issued
      BY DEF Inv, TypeOK
    <3> QED
      BY <1>1, <2>1, <3>1 DEF Fine, Anew
  <2> QED
    BY <1>1, <2>1 DEF Fine, Anew
<1>6. Refreshing(u)'
  <2>1. ASSUME job[u].pc \in {"token_queued", "token_sent"}
        PROVE  lock' = u /\ Spent'
    <3>1. lock = u /\ Spent /\ u # Nobody
      BY <1>1, <2>1, TaskAssumption DEF Fine, Refreshing
    <3>2. lock' = u /\ issued' = issued
      BY <3>1
    <3> QED
      BY <3>1, <3>2 DEF Spent, Usable, Newest
  <2> QED
    BY <1>1, <2>1 DEF Refreshing
<1> QED
  BY <1>3, <1>4, <1>5, <1>6 DEF Fine

(* An operation that is about to ask for a token. *)
Asking(t, j) ==
    /\ j \in Job /\ j.deadline <= now + Buffer
    /\ j.attempt <= MostRetries(t) /\ sends[t] <= Rounds(j) + j.attempt
    /\ t \in Strict => /\ ~j.retriedAuth /\ j.error = "none"
                       /\ sends[t] = 0 /\ applied[t] = 0

LEMMA HandledFine ==
    ASSUME Inv, NEW t \in Task, NEW j, Asking(t, j), cached \in DOMAIN issued,
           Usable(cached), NEW n, Handled(n, j, cached), Becomes(t, n),
           UNCHANGED <<now, issued, cached, rejected, applied>>,
           j.retriedAuth => <<t, cached>> \notin rejected
    PROVE  Fine(t)' /\ SentWell(t)
<1>1. /\ n \in Job /\ n.deadline = j.deadline /\ n.attempt = j.attempt
      /\ n.retriedAuth = j.retriedAuth /\ n.pc \in {"failed", "sent", "queued", "readying"}
      /\ n.pc = "failed" => n.error = "out_of_time"
      /\ n.pc # "failed" => n.error = j.error /\ n.token = cached
      /\ n.pc \in {"sent", "queued"} => ReadyAt(cached) <= now
      /\ n.pc = "queued" => n.alarm = n.deadline /\ now < n.deadline
      /\ n.pc = "readying" => /\ n.alarm = ReadyAt(cached)
                              /\ now < n.alarm /\ n.alarm < n.deadline
  BY DEF Handled, Frame, GaveUp
<1>2. /\ job'[t] = n
      /\ sends'[t] = IF n.pc = "sent" THEN sends[t] + 1 ELSE sends[t]
  BY Effect
<1>3. /\ n.deadline \in Nat /\ n.alarm \in Nat /\ n.attempt \in 0..MaxRetries
      /\ n.retriedAuth \in BOOLEAN
  BY <1>1 DEF Job
<1>4. issued[cached] + Lifetime - Buffer > now /\ issued[cached] \in Int
  BY Numbers DEF Usable
<1>5. Paced(t)'
  <2>1. /\ now \in Nat /\ Lag \in Nat /\ Buffer \in Nat /\ n.deadline <= now + Buffer
        /\ now' = now
    BY <1>1, Numbers DEF Asking
  <2>2. n.pc \in Waiting => n.pc \in {"queued", "readying"}
    BY <1>1 DEF Waiting, Holding
  <2>3. n.pc \in Waiting => /\ n.alarm <= n.deadline /\ now <= n.alarm + Lag
                            /\ n.alarm # 0
    BY <1>1, <1>3, <2>1, <2>2
  <2> QED
    BY <1>2, <2>1, <2>3 DEF Paced
<1>6. Carried(t)'
  <2>1. n.deadline < issued[cached] + Lifetime
    BY <1>1, <1>3, <1>4, Numbers DEF Asking
  <2>2. ReadyAt(cached)' = ReadyAt(cached)
    BY DEF ReadyAt
  <2> HIDE DEF ReadyAt
  <2>3. ReadyAt(cached) <= ReadyAt(cached)
    <3>1. ReadyAt(cached) \in Int
      BY Numbers DEF ReadyAt
    <3> QED
      BY <3>1
  <2> QED
    BY <1>1, <1>2, <2>1, <2>2, <2>3 DEF Carried, Carrying
<1>7. Anew(t)'
  BY <1>1, <1>2 DEF Anew, Carrying, Ended
<1>8. Refreshing(t)'
  BY <1>1, <1>2 DEF Refreshing
<1>9. Counted(t)'
  <2>0. MaxRetries \in Nat /\ sends[t] \in Nat /\ sends[t] <= Rounds(n) + n.attempt
    BY <1>1, Numbers DEF Asking, Rounds
  <2>1. Rounds(n) \in 0..(MaxRetries + 1)
    BY <2>0 DEF Rounds
  <2>2. /\ sends'[t] <= Rounds(n) + n.attempt + 1
        /\ n.pc # "sent" => sends'[t] <= Rounds(n) + n.attempt
    BY <1>2, <1>3, <2>0, <2>1
  <2>3. sends'[t] <= 2 * (MaxRetries + 1)
    BY <1>2, <1>3, <2>0, <2>1
  <2>4. n.attempt <= MostRetries(t) /\ MostRetries(t)' = MostRetries(t)
    BY <1>1 DEF Asking, MostRetries
  <2>5. /\ n.pc \in Before => n.pc # "sent"
        /\ n.pc # "backoff" /\ n.pc # "new"
    BY <1>1 DEF Before
  <2>6. Rounds(n) = Rounds(job[t])'
    BY <1>2 DEF Rounds
  <2> HIDE DEF Rounds
  <2> QED
    BY <1>2, <2>2, <2>3, <2>4, <2>5, <2>6 DEF Counted
<1>10. Once(t)'
  <2>1. t \in Strict => /\ sends[t] = 0 /\ applied'[t] = 0 /\ ~n.retriedAuth
                        /\ n.pc # "failed" => n.error = "none"
    BY <1>1 DEF Asking
  <2>2. t \in Strict => sends'[t] = IF n.pc = "sent" THEN 1 ELSE 0
    BY <1>2, <2>1
  <2>3. n.pc \in Before => n.pc # "sent"
    BY DEF Before
  <2> QED
    BY <1>1, <1>2, <2>1, <2>2, <2>3 DEF Once, Ended
<1>11. SentWell(t)
  <2>1. now < issued[cached] + Lifetime
    BY <1>4, Numbers
  <2> QED
    BY <1>1, <1>2, <2>1 DEF SentWell, GoesOut
<1> QED
  BY <1>5, <1>6, <1>7, <1>8, <1>9, <1>10, <1>11 DEF Fine

LEMMA UnservedFine ==
    ASSUME Inv, NEW t \in Task, NEW j, Asking(t, j), NEW n, Becomes(t, n),
           \/ Frame(n, j) /\ GaveUp(n)
           \/ Fetches(n, j) /\ lock' = t
           \/ Locks(n, j),
           UNCHANGED <<now, issued, applied>>, Spent',
           j.retriedAuth => <<t, cached'>> \notin rejected'
    PROVE  Fine(t)' /\ SentWell(t)
<1>1. /\ n \in Job /\ n.deadline = j.deadline /\ n.attempt = j.attempt
      /\ n.retriedAuth = j.retriedAuth
      /\ n.pc \in {"failed", "token_sent", "token_queued", "locking"}
      /\ n.pc = "failed" => n.error = "out_of_time"
      /\ n.pc # "failed" => n.error = j.error
      /\ n.pc \in {"token_sent", "token_queued"} => lock' = t
      /\ n.pc \in {"locking", "token_queued"} => n.alarm = n.deadline /\ now < n.deadline
  BY DEF Fetches, Locks, Frame, GaveUp
<1>2. job'[t] = n /\ sends'[t] = sends[t]
  BY <1>1, Effect
<1>3. /\ n.deadline \in Nat /\ n.alarm \in Nat /\ n.attempt \in 0..MaxRetries
      /\ n.retriedAuth \in BOOLEAN
  BY <1>1 DEF Job
<1>4. Paced(t)'
  <2>1. /\ now \in Nat /\ Lag \in Nat /\ Buffer \in Nat /\ n.deadline <= now + Buffer
        /\ now' = now
    BY <1>1, Numbers DEF Asking
  <2>2. n.pc \in Waiting => n.pc \in {"locking", "token_queued"}
    BY <1>1 DEF Waiting, Holding
  <2>3. n.pc \in Waiting => /\ n.alarm <= n.deadline /\ now <= n.alarm + Lag
                            /\ n.alarm # 0
    BY <1>1, <1>3, <2>1, <2>2
  <2> QED
    BY <1>2, <2>1, <2>3 DEF Paced
<1>5. Carried(t)' /\ Anew(t)'
  BY <1>1, <1>2 DEF Carried, Anew, Carrying, Ended
<1>6. Refreshing(t)'
  BY <1>1, <1>2 DEF Refreshing
<1>7. Counted(t)'
  <2>1. sends[t] <= Rounds(n) + n.attempt /\ sends[t] \in Nat
    BY <1>1, <1>3, Numbers DEF Asking, Rounds
  <2>2. sends[t] <= 2 * (MaxRetries + 1)
    BY <1>3, <2>1, Numbers DEF Rounds
  <2> QED
    BY <1>1, <1>2, <2>1, <2>2, Numbers DEF Counted, Asking, Before, MostRetries
<1>8. Once(t)'
  BY <1>1, <1>2, Numbers DEF Once, Asking, Before, Ended
<1>9. SentWell(t)
  BY <1>2 DEF SentWell, GoesOut
<1> QED
  BY <1>4, <1>5, <1>6, <1>7, <1>8, <1>9 DEF Fine
-----------------------------------------------------------------------------
(* A step of one operation that changes neither tokens nor what the server *)
(* has rejected.                                                           *)
Quiet == UNCHANGED <<now, cached, issued, revoked, rejected, dropped>>

LEMMA QuietStep ==
    ASSUME Inv, NEW t \in Task, NEW n \in Job, Becomes(t, n), Quiet,
           applied' \in [Task -> Nat], \A u \in Task \ {t} : applied'[u] = applied[u],
           \/ lock' = lock
           \/ lock \in {Nobody, t} /\ lock' \in {Nobody, t},
           QueueOK', Fine(t)', SentWell(t)
    PROVE  Inv' /\ \A u \in Task : SentWell(u)
<1>1. \A u \in Task \ {t} : Fine(u)'
  BY OthersFine DEF Quiet
<1>2. \A u \in Task \ {t} : SentWell(u)
  BY Effect DEF SentWell, GoesOut
<1>3. job' \in [Task -> Job] /\ sends' \in [Task -> Nat]
  BY Effect
<1>4. TypeOK'
  <2>1. lock' \in Task \cup {Nobody}
    BY DEF Inv, TypeOK
  <2> QED
    BY <1>3, <2>1 DEF Quiet, Inv, QueueOK, TypeOK, Job, Pc, Error
<1>5. CacheIsNewest'
  BY DEF Quiet, Inv, CacheIsNewest, Newest
<1> QED
  BY <1>1, <1>2, <1>4, <1>5 DEF Inv, QueueOK

(* The operation is over. *)
LEMMA EndsFine ==
    ASSUME Inv, NEW t \in Task, NEW n \in Job, Becomes(t, n), now' = now,
           n.pc \in Ended, n.attempt = job[t].attempt,
           t \in Strict => /\ n.retriedAuth = job[t].retriedAuth
                           /\ applied'[t] <= sends[t]
                           /\ n.error \in {"out_of_time", "refused"} => applied'[t] = 0
    PROVE  Fine(t)' /\ SentWell(t)
<1>1. job'[t] = n /\ sends'[t] = sends[t] /\ n.pc \in {"done", "failed"}
  BY Effect DEF Ended
<1>2. Paced(t)' /\ Carried(t)' /\ Anew(t)' /\ Refreshing(t)'
  BY <1>1 DEF Paced, Carried, Anew, Refreshing, Waiting, Holding, Carrying, Ended
<1>3. Counted(t)'
  <2>1. n.attempt <= MostRetries(t) /\ sends[t] <= 2 * (MaxRetries + 1)
    BY DEF Inv, Fine, Counted
  <2>2. MostRetries(t)' = MostRetries(t)
    BY DEF MostRetries
  <2> QED
    BY <1>1, <2>1, <2>2 DEF Counted, Before
<1>4. Once(t)'
  <2>1. t \in Strict => ~job[t].retriedAuth /\ sends[t] <= 1
    BY DEF Inv, Fine, Once
  <2>2. t \in Strict => ~n.retriedAuth
    BY <2>1
  <2>3. n.pc \notin Before /\ n.pc # "sent" /\ n.pc \in Ended
    BY <1>1 DEF Before
  <2> QED
    BY <1>1, <2>1, <2>2, <2>3 DEF Once
<1>5. SentWell(t)
  BY <1>1 DEF SentWell, GoesOut
<1> QED
  BY <1>2, <1>3, <1>4, <1>5 DEF Fine

(* A mutation that has not been sent has not been applied. *)
LEMMA NotYetApplied ==
    ASSUME Inv, NEW t \in Strict, job[t].pc \notin Ended
    PROVE  /\ applied[t] = 0 /\ sends[t] \in Nat /\ job[t].pc # "backoff"
           /\ job[t].pc # "sent" => sends[t] = 0
           /\ job[t].pc = "sent" => sends[t] = 1
<1>1. t \in Task /\ Fine(t) /\ MostRetries(t) = 0
  BY RequestAssumption DEF Inv, MostRetries
<1>2. /\ sends[t] \in Nat /\ applied[t] \in Nat /\ job[t].attempt \in Nat
      /\ job[t].pc \in Pc
  BY <1>1, Numbers, RequestAssumption DEF Job
<1>3. job[t].pc # "backoff"
  BY <1>1, <1>2 DEF Fine, Counted
<1>4. job[t].pc \in Before \cup {"sent"}
  BY <1>2, <1>3, PcNames DEF Before, Ended
<1> QED
  BY <1>1, <1>2, <1>3, <1>4 DEF Fine, Once

LEMMA FailsFine ==
    ASSUME Inv, NEW t \in Task, job[t].pc \notin Ended, NEW e \in Error,
           Becomes(t, Failed(job[t], e)), now' = now, applied'[t] = applied[t]
    PROVE  Failed(job[t], e) \in Job /\ Fine(t)' /\ SentWell(t)
<1> DEFINE n == Failed(job[t], e)
<1>1. n \in Job /\ n.pc \in Ended /\ n.attempt = job[t].attempt
      /\ n.retriedAuth = job[t].retriedAuth
  BY JobTypes, FailedFails DEF Frame, Ended
<1>2. Becomes(t, n)
  OBVIOUS
<1> HIDE DEF n
<1>3. t \in Strict => applied'[t] = 0 /\ applied'[t] <= sends[t]
  BY NotYetApplied
<1>4. Fine(t)' /\ SentWell(t)
  BY <1>1, <1>2, <1>3, EndsFine
<1> QED
  BY <1>1, <1>4 DEF n

(* The request leaves, or waits for the limiter, with the token it has. *)
LEMMA CarriesOn ==
    ASSUME Inv, NEW t \in Task, job[t].pc \in {"readying", "queued"},
           ReadyAt(job[t].token) <= now, now < job[t].deadline,
           NEW n, Becomes(t, n), Frame(n, job[t]), n.error = job[t].error,
           n.token = job[t].token,
           \/ n.pc = "sent"
           \/ n.pc = "queued" /\ n.alarm = n.deadline,
           UNCHANGED <<now, cached, issued, rejected, applied>>
    PROVE  n \in Job /\ Fine(t)' /\ SentWell(t)
<1>0. /\ n \in Job /\ n.deadline = job[t].deadline /\ n.attempt = job[t].attempt
      /\ n.retriedAuth = job[t].retriedAuth /\ Fine(t)
  BY DEF Frame, Inv
<1>1. job'[t] = n /\ sends'[t] = IF n.pc = "sent" THEN sends[t] + 1 ELSE sends[t]
  BY Effect
<1>2. /\ now \in Nat /\ Lag \in Nat /\ Buffer \in Nat /\ MaxRetries \in Nat
      /\ sends[t] \in Nat /\ n.deadline \in Nat /\ n.attempt \in 0..MaxRetries
  BY <1>0, Numbers DEF Job
<1>3. Paced(t)'
  <2>1. n.pc \in Waiting => n.alarm = n.deadline
    BY DEF Waiting, Holding
  <2>2. n.deadline <= now + Buffer
    BY <1>0 DEF Fine, Paced, Ended
  <2>3. n.pc \in Waiting => /\ n.alarm <= n.deadline /\ now <= n.alarm + Lag
                            /\ n.alarm # 0
    BY <1>0, <1>2, <2>1
  <2> QED
    BY <1>1, <2>2, <2>3 DEF Paced
<1>4. /\ n.token \in DOMAIN issued
      /\ n.deadline < issued[n.token] + Lifetime
  BY <1>0 DEF Fine, Carried, Carrying
<1>5. Carried(t)'
  BY <1>1, <1>4 DEF Carried, ReadyAt, Carrying
<1>6. Anew(t)'
  BY <1>0, <1>1 DEF Fine, Anew, Carrying, Ended
<1>7. Refreshing(t)'
  BY <1>1 DEF Refreshing
<1>8. Counted(t)'
  <2>1. sends[t] <= Rounds(n) + n.attempt
    BY <1>0 DEF Fine, Counted, Rounds, Before
  <2>2. Rounds(n) \in 0..(MaxRetries + 1)
    BY <1>2 DEF Rounds
  <2>3. /\ sends'[t] <= Rounds(n) + n.attempt + 1
        /\ n.pc # "sent" => sends'[t] <= Rounds(n) + n.attempt
        /\ sends'[t] <= 2 * (MaxRetries + 1)
    BY <1>1, <1>2, <2>1, <2>2
  <2>4. n.attempt <= MostRetries(t) /\ MostRetries(t)' = MostRetries(t)
    BY <1>0 DEF Fine, Counted, MostRetries
  <2>5. Rounds(n) = Rounds(job[t])' /\ (n.pc \in Before => n.pc # "sent")
    BY <1>1 DEF Rounds, Before
  <2> HIDE DEF Rounds
  <2> QED
    BY <1>1, <2>3, <2>4, <2>5 DEF Counted
<1>9. Once(t)'
  <2>1. t \in Strict => /\ sends[t] = 0 /\ applied'[t] = 0 /\ ~n.retriedAuth
                        /\ n.error = "none"
    <3>1. t \in Strict => applied[t] = 0 /\ sends[t] = 0
      BY NotYetApplied DEF Ended
    <3> QED
      BY <1>0, <3>1 DEF Fine, Once, Ended
  <2>2. t \in Strict => sends'[t] = IF n.pc = "sent" THEN 1 ELSE 0
    BY <1>1, <2>1
  <2>3. n.pc \in Before => n.pc # "sent"
    BY DEF Before
  <2> QED
    BY <1>1, <2>1, <2>2, <2>3 DEF Once, Ended
<1>10. SentWell(t)
  <2>1. issued[n.token] \in Int /\ Lifetime \in Nat
    BY <1>4, Numbers
  <2>2. now < issued[n.token] + Lifetime
    BY <1>0, <1>2, <1>4, <2>1
  <2>3. n.retriedAuth => <<t, n.token>> \notin rejected
    BY <1>0 DEF Fine, Anew, Carrying, Ended
  <2> QED
    BY <1>1, <2>2, <2>3 DEF SentWell, GoesOut
<1> QED
  BY <1>0, <1>3, <1>5, <1>6, <1>7, <1>8, <1>9, <1>10 DEF Fine

(* The attempt failed and another may follow. *)
LEMMA RetriedFine ==
    ASSUME Inv, NEW t \in Task, job[t].pc = "sent", NEW e \in {"unclear", "refused"},
           NEW n \in Retried(t, e), Becomes(t, n),
           UNCHANGED <<now, cached, issued, rejected>>, applied' \in [Task -> Nat],
           \/ applied'[t] = applied[t]
           \/ e = "unclear" /\ applied'[t] = applied[t] + 1
    PROVE  n \in Job /\ Fine(t)' /\ SentWell(t)
<1>0. /\ job[t] \in Job /\ Fine(t) /\ e \in Error /\ sends[t] \in Nat /\ now \in Nat
      /\ "sent" \notin Ended /\ "backoff" \in Pc /\ Buffer \in Nat
  BY JobTypes, Numbers, PcNames DEF Inv, Error, Ended
<1>1. CASE job[t].attempt >= MostRetries(t)
  <2>1. n = Failed(job[t], e)
    BY <1>1 DEF Retried
  <2>2. /\ n \in Job /\ n.pc = "failed" /\ n.error = e /\ n.attempt = job[t].attempt
        /\ n.retriedAuth = job[t].retriedAuth
    BY <1>0, <2>1, FailedFails DEF Frame
  <2>3. t \in Strict => /\ applied'[t] <= sends[t]
                        /\ n.error \in {"out_of_time", "refused"} => applied'[t] = 0
    BY <1>0, <2>2, NotYetApplied
  <2> QED
    BY <2>2, <2>3, EndsFine DEF Ended
<1>2. CASE ~(job[t].attempt >= MostRetries(t))
  <2>1. PICK d \in Delays : n = Slept(job[t], "backoff", now + d)
    BY <1>2 DEF Retried
  <2>2. now + d \in Nat /\ now < now + d
    BY <1>0, RequestAssumption
  <2>3. /\ Frame(n, job[t])
        /\ \/ GaveUp(n)
           \/ n.error = job[t].error /\ n.pc = "backoff" /\ n.alarm = now + d
              /\ now + d < n.deadline
    BY <1>0, <2>1, <2>2, SleptWaits
  <2>4. /\ n \in Job /\ n.attempt = job[t].attempt /\ n.deadline = job[t].deadline
        /\ n.retriedAuth = job[t].retriedAuth /\ job'[t] = n
    BY <2>3, Effect DEF Frame
  <2>5. t \notin Strict
    <3>1. job[t].attempt \in Nat
      BY <1>0 DEF Job
    <3> QED
      BY <1>2, <3>1 DEF MostRetries
  <2>6. CASE GaveUp(n)
    BY <2>4, <2>5, <2>6, EndsFine DEF GaveUp, Ended
  <2>7. CASE n.pc = "backoff" /\ n.alarm = now + d /\ now + d < n.deadline
    <3>1. sends'[t] = sends[t]
      BY <2>7, Effect
    <3>2. Paced(t)'
      <4>1. n.deadline <= now + Buffer
        BY <1>0, <2>4 DEF Fine, Paced, Ended
      <4>2. n.alarm <= n.deadline /\ now <= n.alarm + Lag /\ n.alarm # 0
        <5>1. n.deadline \in Nat /\ n.alarm \in Nat /\ Lag \in Nat
          BY <2>4, Numbers DEF Job
        <5> QED
          BY <1>0, <2>2, <2>7, <5>1
      <4> QED
        BY <2>4, <4>1, <4>2 DEF Paced
    <3>3. Carried(t)' /\ Refreshing(t)' /\ SentWell(t)
      BY <2>4, <2>7, <3>1 DEF Carried, Refreshing, Carrying, SentWell, GoesOut
    <3>4. Anew(t)'
      BY <1>0, <2>4, <2>7 DEF Fine, Anew, Carrying, Ended
    <3>5. Counted(t)'
      <4>1. /\ sends[t] <= Rounds(n) + n.attempt + 1 /\ sends[t] <= 2 * (MaxRetries + 1)
            /\ Rounds(job[t])' = Rounds(n)
        BY <1>0, <2>4 DEF Fine, Counted, Rounds
      <4>2. n.attempt < MostRetries(t) /\ n.attempt <= MostRetries(t)
        <5>1. n.attempt \in Nat /\ MostRetries(t) \in Nat
          BY <2>4, Numbers DEF Job
        <5> QED
          BY <1>2, <2>4, <5>1
      <4>3. MostRetries(t)' = MostRetries(t)
        BY DEF MostRetries
      <4> QED
        BY <2>4, <2>7, <3>1, <4>1, <4>2, <4>3 DEF Counted, Before
    <3>6. Once(t)'
      BY <2>5 DEF Once
    <3> QED
      BY <2>4, <3>2, <3>3, <3>4, <3>5, <3>6 DEF Fine
  <2> QED
    BY <2>3, <2>6, <2>7
<1> QED
  BY <1>1, <1>2
-----------------------------------------------------------------------------
StepFine == Inv' /\ \A u \in Task : SentWell(u)

(* Whoever finds no usable token may fetch one. *)
LEMMA MayFetch ==
    ASSUME Inv, ~Usable(cached), now' = now, issued' = issued, dropped \subseteq dropped'
    PROVE  Spent'
<1>1. Newest' = Newest /\ Usable(Newest)' = Usable(Newest)
  BY DEF Newest, Usable
<1>2. CASE cached = Newest
  BY <1>1, <1>2 DEF Spent
<1>3. CASE cached = NoToken
  BY <1>1, <1>3 DEF Spent, Usable, Inv, CacheIsNewest, NoToken
<1> QED
  BY <1>2, <1>3 DEF Inv, CacheIsNewest

(* With a usable token in the cache or without: the first attempt and each *)
(* later one.                                                              *)
LEMMA TokenAsked ==
    ASSUME Inv, NEW t \in Task, NEW j, Asking(t, j), GetToken(t, j, cached),
           job[t].pc # "locking", UNCHANGED <<now, cached, serverVars, historyVars>>,
           j.retriedAuth => <<t, cached>> \notin rejected
    PROVE  StepFine
<1>0. /\ j \in Job /\ cached \in {NoToken} \cup DOMAIN issued
      /\ applied \in [Task -> Nat] /\ UNCHANGED <<now, cached, issued, applied, rejected>>
      /\ Quiet
  BY DEF Asking, Inv, TypeOK, serverVars, historyVars, Quiet
<1>1. PICK n \in Job :
          /\ Becomes(t, n)
          /\ \/ Usable(cached) /\ Handled(n, j, cached) /\ UNCHANGED lockVars
             \/ ~Usable(cached) /\ Frame(n, j) /\ GaveUp(n) /\ UNCHANGED lockVars
             \/ ~Usable(cached) /\ Fetches(n, j) /\ lock = Nobody /\ lock' = t
                /\ UNCHANGED lockQueue
             \/ ~Usable(cached) /\ Locks(n, j) /\ UNCHANGED lock
                /\ lockQueue' = Append(lockQueue, t)
  BY <1>0, GetTokenLeads
<1>2. /\ QueueOK'
      /\ \/ lock' = lock
         \/ lock \in {Nobody, t} /\ lock' \in {Nobody, t}
  <2>1. CASE UNCHANGED lockVars
    BY <1>1, <2>1, QueueSame DEF lockVars
  <2>2. CASE lock = Nobody /\ lock' = t /\ UNCHANGED lockQueue
    BY <1>1, <2>2, QueueSame
  <2>3. CASE Locks(n, j) /\ UNCHANGED lock /\ lockQueue' = Append(lockQueue, t)
    BY <1>1, <2>3, QueueAppend DEF Locks
  <2> QED
    BY <1>1, <2>1, <2>2, <2>3
<1>3. ~Usable(cached) => Spent'
  BY <1>0, MayFetch DEF Quiet
<1>4. Fine(t)' /\ SentWell(t)
  <2>1. CASE Usable(cached) /\ Handled(n, j, cached)
    BY <1>0, <1>1, <2>1, UsableExists, HandledFine
  <2>2. CASE ~Usable(cached)
    <3>1. \/ Frame(n, j) /\ GaveUp(n)
          \/ Fetches(n, j) /\ lock' = t
          \/ Locks(n, j)
      BY <1>1, <2>2
    <3> QED
      BY <1>0, <1>1, <1>3, <2>2, <3>1, UnservedFine
  <2> QED
    BY <1>1, <2>1, <2>2
<1> QED
  BY <1>0, <1>1, <1>2, <1>4, QuietStep DEF StepFine

LEMMA StartFine ==
    ASSUME Inv, NEW t \in Task, Start(t)
    PROVE  StepFine
<1>1. PICK p \in Patience : GetToken(t, [job[t] EXCEPT !.deadline = now + p], cached)
  BY DEF Start
<1> DEFINE j == [job[t] EXCEPT !.deadline = now + p]
<1>2. /\ job[t] \in Job /\ Fine(t) /\ now \in Nat /\ Buffer \in Nat /\ p \in 1..Buffer
      /\ job[t].pc = "new" /\ sends[t] \in Nat
  BY Numbers, RequestAssumption DEF Inv, Start
<1>3. /\ j \in Job /\ j.deadline = now + p /\ j.attempt = job[t].attempt
      /\ j.retriedAuth = job[t].retriedAuth /\ j.error = job[t].error
  BY <1>2 DEF Job
<1> HIDE DEF j
<1>4. Asking(t, j)
  <2>1. ~j.retriedAuth /\ sends[t] <= Rounds(job[t]) + job[t].attempt
        /\ j.attempt <= MostRetries(t)
    BY <1>2, <1>3 DEF Fine, Counted, Before
  <2>2. Rounds(j) = Rounds(job[t])
    BY <1>3 DEF Rounds
  <2>3. t \in Strict => sends[t] = 0 /\ applied[t] = 0 /\ j.error = "none"
    BY <1>2, <1>3, NotYetApplied DEF Fine, Once, Ended
  <2>4. j.deadline <= now + Buffer
    BY <1>2, <1>3
  <2> QED
    BY <1>3, <2>1, <2>2, <2>3, <2>4 DEF Asking
<1>5. GetToken(t, j, cached)
  BY <1>1 DEF j
<1>6. ~j.retriedAuth /\ UNCHANGED <<now, cached, serverVars, historyVars>>
  BY <1>2, <1>3 DEF Fine, Counted, Start
<1> QED
  BY <1>2, <1>4, <1>5, <1>6, TokenAsked

LEMMA RetryFine ==
    ASSUME Inv, NEW t \in Task, Retry(t)
    PROVE  StepFine
<1>0. /\ job[t] \in Job /\ Fine(t) /\ now \in Nat /\ sends[t] \in Nat
      /\ MostRetries(t) \in 0..MaxRetries /\ MaxRetries \in Nat
      /\ job[t].pc = "backoff" /\ UNCHANGED <<now, cached, serverVars, historyVars>>
      /\ applied \in [Task -> Nat]
  BY Numbers DEF Inv, Retry, TypeOK
<1>1. CASE Becomes(t, Failed(job[t], "out_of_time")) /\ UNCHANGED lockVars
  <2>1. "out_of_time" \in Error /\ job[t].pc \notin Ended
    BY <1>0 DEF Error, Ended
  <2>2. Quiet /\ UNCHANGED <<lock, lockQueue, applied, now>>
    BY <1>0, <1>1 DEF Quiet, serverVars, historyVars, lockVars
  <2>3. Failed(job[t], "out_of_time") \in Job /\ Fine(t)' /\ SentWell(t)
    BY <1>1, <2>1, <2>2, FailsFine
  <2>4. QueueOK'
    BY <1>0, <1>1, <2>2, QueueSame
  <2>5. /\ lock' = lock /\ applied' \in [Task -> Nat]
        /\ \A u \in Task \ {t} : applied'[u] = applied[u]
    BY <1>0, <2>2
  <2> QED
    BY <1>1, <2>2, <2>3, <2>4, <2>5, QuietStep DEF StepFine
<1>2. CASE GetToken(t, [job[t] EXCEPT !.attempt = @ + 1], cached)
  <2> DEFINE j == [job[t] EXCEPT !.attempt = @ + 1]
  <2>1. job[t].attempt < MostRetries(t)
    BY <1>0 DEF Fine, Counted
  <2>2. job[t].attempt + 1 \in 0..MaxRetries /\ job[t].attempt \in Nat
    BY <1>0, <2>1 DEF Job
  <2>3. /\ j \in Job /\ j.deadline = job[t].deadline /\ j.attempt = job[t].attempt + 1
        /\ j.retriedAuth = job[t].retriedAuth
    BY <1>0, <2>2 DEF Job
  <2>4. GetToken(t, j, cached)
    BY <1>2
  <2> HIDE DEF j
  <2>5. Asking(t, j)
    <3>1. j.deadline <= now + Buffer
      BY <1>0, <2>3 DEF Fine, Paced, Ended
    <3>2. /\ sends[t] <= Rounds(job[t]) + job[t].attempt + 1 /\ Rounds(j) = Rounds(job[t])
          /\ Rounds(j) \in Nat
      BY <1>0, <2>3 DEF Fine, Counted, Rounds
    <3>3. sends[t] <= Rounds(j) + j.attempt /\ j.attempt <= MostRetries(t)
      BY <1>0, <2>1, <2>2, <2>3, <3>2
    <3>4. t \notin Strict
      BY <1>0, NotYetApplied DEF Ended
    <3> QED
      BY <2>3, <3>1, <3>3, <3>4 DEF Asking
  <2>6. j.retriedAuth => <<t, cached>> \notin rejected
    BY <1>0, <2>3 DEF Fine, Anew, Ended
  <2> QED
    BY <1>0, <2>4, <2>5, <2>6, TokenAsked
<1> QED
  BY <1>1, <1>2 DEF Retry

LEMMA LockTakenFine ==
    ASSUME Inv, NEW t \in Task, LockTaken(t)
    PROVE  StepFine
<1>0. /\ job[t] \in Job /\ Fine(t) /\ now \in Nat /\ sends[t] \in Nat
      /\ applied \in [Task -> Nat] /\ cached \in {NoToken} \cup DOMAIN issued
  BY Numbers DEF Inv, TypeOK
<1>1. PICK n \in Inside(job[t]) : /\ Becomes(t, n)
                                 /\ lock' = IF n.pc \in Holding THEN t ELSE Nobody
  BY DEF LockTaken
<1>2. /\ lock = Nobody /\ Quiet
      /\ UNCHANGED <<now, cached, issued, rejected, applied, dropped>>
  BY DEF LockTaken, Quiet, serverVars, historyVars
<1>3. QueueOK' /\ job[t].pc = "locking"
  BY <1>1, QueueTail DEF LockTaken
<1>4. Asking(t, job[t])
  <2>1. /\ job[t].attempt <= MostRetries(t) /\ sends[t] <= Rounds(job[t]) + job[t].attempt
        /\ job[t].deadline <= now + Buffer
    BY <1>0, <1>3 DEF Fine, Counted, Paced, Before, Ended
  <2>2. t \in Strict => /\ sends[t] = 0 /\ applied[t] = 0 /\ job[t].error = "none"
                        /\ ~job[t].retriedAuth
    BY <1>0, <1>3, NotYetApplied DEF Fine, Once, Ended
  <2> QED
    BY <1>0, <2>1, <2>2 DEF Asking
<1>5. job[t].retriedAuth => <<t, cached>> \notin rejected
  BY <1>0, <1>3 DEF Fine, Anew, Ended
<1>6. n \in Job /\ Fine(t)' /\ SentWell(t)
  <2>1. CASE Usable(cached)
    <3>1. n \in Handed(job[t], cached) /\ cached \in DOMAIN issued
      BY <1>0, <1>1, <2>1, UsableExists DEF Inside
    <3>2. Handled(n, job[t], cached)
      BY <1>0, <3>1, HandedHandles
    <3>3. n \in Job
      BY <3>2 DEF Handled, Frame
    <3> QED
      BY <1>1, <1>2, <1>4, <1>5, <2>1, <3>1, <3>2, <3>3, HandledFine
  <2>2. CASE ~Usable(cached)
    <3>1. n \in Acquired(job[t], "token_queued", "token_sent")
      BY <1>1, <2>2 DEF Inside
    <3>2. /\ "token_queued" \in Pc /\ "token_sent" \in Pc
          /\ {"token_queued", "token_sent"} \subseteq Holding
      BY PcNames DEF Holding
    <3>3. \/ Frame(n, job[t]) /\ GaveUp(n)
          \/ Fetches(n, job[t]) /\ lock' = t
      <4>1. /\ Frame(n, job[t])
            /\ \/ GaveUp(n)
               \/ n.error = job[t].error /\ n.pc = "token_sent"
               \/ /\ n.error = job[t].error /\ n.pc = "token_queued"
                  /\ n.alarm = n.deadline /\ now < n.deadline
        BY <1>0, <3>1, <3>2, AcquiredWaits
      <4>2. n.pc \in {"token_sent", "token_queued"} => lock' = t
        BY <1>1, <3>2
      <4> QED
        BY <4>1, <4>2 DEF Fetches
    <3>4. n \in Job
      BY <3>3 DEF Fetches, Frame
    <3>5. Spent'
      BY <1>2, <2>2, MayFetch
    <3> QED
      BY <1>1, <1>2, <1>4, <1>5, <3>3, <3>4, <3>5, UnservedFine
  <2> QED
    BY <2>1, <2>2
<1> QED
  BY <1>0, <1>1, <1>2, <1>3, <1>6, QuietStep DEF StepFine

LEMMA UnlockedKeeps ==
    ASSUME NEW t, NEW n, Unlocked(t, n)
    PROVE  lock' = lock \/ (lock = t /\ lock' = Nobody /\ n.pc \notin Holding)
BY DEF Unlocked

(* A step that only ends the operation, in error. *)
LEMMA FailsQuietly ==
    ASSUME Inv, NEW t \in Task, job[t].pc \notin Ended, NEW e \in Error,
           Becomes(t, Failed(job[t], e)), Quiet, UNCHANGED applied, QueueOK',
           lock' = lock \/ Unlocked(t, Failed(job[t], e))
    PROVE  StepFine
<1>1. now' = now /\ applied'[t] = applied[t]
  BY DEF Quiet
<1>2. Failed(job[t], e) \in Job /\ Fine(t)' /\ SentWell(t)
  BY <1>1, FailsFine
<1>3. \/ lock' = lock
      \/ lock \in {Nobody, t} /\ lock' \in {Nobody, t}
  BY UnlockedKeeps
<1>4. /\ applied' \in [Task -> Nat]
      /\ \A u \in Task \ {t} : applied'[u] = applied[u]
  BY DEF Inv, TypeOK
<1> QED
  BY <1>2, <1>3, <1>4, QuietStep DEF StepFine

LEMMA QuietFacts ==
    ASSUME UNCHANGED <<now, cached, serverVars, historyVars>>
    PROVE  Quiet /\ UNCHANGED <<now, cached, issued, rejected, dropped, applied>>
BY DEF Quiet, serverVars, historyVars

LEMMA TokenRefusedFine ==
    ASSUME Inv, NEW t \in Task, TokenRefused(t)
    PROVE  StepFine
<1>1. PICK e \in {"unclear", "refused"} :
          Becomes(t, Failed(job[t], e)) /\ Unlocked(t, Failed(job[t], e))
  BY DEF TokenRefused
<1>2. /\ Quiet /\ UNCHANGED <<applied, lockQueue>> /\ e \in Error
      /\ job[t].pc \notin Ended /\ job[t].pc # "locking"
  BY QuietFacts DEF TokenRefused, Ended, Error
<1>3. QueueOK'
  BY <1>1, <1>2, QueueSame
<1> QED
  BY <1>1, <1>2, <1>3, FailsQuietly

LEMMA OutOfTimeFine ==
    ASSUME Inv, NEW t \in Task, OutOfTime(t)
    PROVE  StepFine
<1> DEFINE e == "out_of_time"
<1>1. /\ Becomes(t, Failed(job[t], e)) /\ Unlocked(t, Failed(job[t], e)) /\ Unqueued(t)
      /\ Quiet /\ UNCHANGED applied /\ e \in Error /\ job[t].pc \notin Ended
  BY QuietFacts DEF OutOfTime, Ended, Error
<1> HIDE DEF e
<1>2. QueueOK'
  BY <1>1, QueueLeft
<1> QED
  BY <1>1, <1>2, FailsQuietly

LEMMA RefusedFine ==
    ASSUME Inv, NEW t \in Task, Refused(t)
    PROVE  StepFine
<1> DEFINE e == "refused"
<1>1. /\ Becomes(t, Failed(job[t], e)) /\ Quiet /\ UNCHANGED <<applied, lock, lockQueue>>
      /\ e \in Error /\ job[t].pc \notin Ended /\ job[t].pc # "locking"
  BY QuietFacts DEF Refused, Ended, Error, lockVars
<1> HIDE DEF e
<1>2. QueueOK'
  BY <1>1, QueueSame
<1> QED
  BY <1>1, <1>2, FailsQuietly

(* A request that was under way may be applied. *)
LEMMA AppliedOnce ==
    ASSUME Inv, NEW t \in Task, job[t].pc = "sent",
           applied' = [applied EXCEPT ![t] = @ + 1]
    PROVE  /\ applied' \in [Task -> Nat] /\ applied'[t] = applied[t] + 1
           /\ \A u \in Task \ {t} : applied'[u] = applied[u]
           /\ t \in Strict => applied'[t] <= sends[t]
<1>1. applied \in [Task -> Nat] /\ job[t].pc \notin Ended
  BY DEF Inv, TypeOK, Ended
<1>2. t \in Strict => applied[t] = 0 /\ sends[t] = 1
  BY <1>1, NotYetApplied
<1> QED
  BY <1>1, <1>2

LEMMA CancelFine ==
    ASSUME Inv, NEW t \in Task, Cancel(t)
    PROVE  StepFine
<1> DEFINE e == "cancelled"
<1>1. /\ Becomes(t, Failed(job[t], e)) /\ Unlocked(t, Failed(job[t], e)) /\ Unqueued(t)
      /\ Quiet /\ job[t].pc \notin Ended /\ e \in Error /\ now' = now
  BY DEF Cancel, Quiet, historyVars, Ended, Error
<1>2. QueueOK'
  BY <1>1, QueueLeft
<1>3. CASE UNCHANGED applied
  <2> HIDE DEF e
  <2> QED
    BY <1>1, <1>2, <1>3, FailsQuietly
<1>4. CASE job[t].pc = "sent" /\ applied' = [applied EXCEPT ![t] = @ + 1]
  <2>1. /\ applied' \in [Task -> Nat] /\ \A u \in Task \ {t} : applied'[u] = applied[u]
        /\ t \in Strict => applied'[t] <= sends[t]
    BY <1>4, AppliedOnce
  <2> DEFINE n == Failed(job[t], e)
  <2>2. /\ n \in Job /\ n.pc = "failed" /\ n.error = "cancelled"
        /\ n.attempt = job[t].attempt /\ n.retriedAuth = job[t].retriedAuth
    BY <1>1, JobTypes, FailedFails DEF Frame
  <2>3. Becomes(t, n) /\ Unlocked(t, n)
    BY <1>1
  <2> HIDE DEF n
  <2>4. Fine(t)' /\ SentWell(t)
    BY <1>1, <2>1, <2>2, <2>3, EndsFine DEF Ended
  <2>5. \/ lock' = lock
        \/ lock \in {Nobody, t} /\ lock' \in {Nobody, t}
    BY <2>3, UnlockedKeeps
  <2> QED
    BY <1>1, <1>2, <2>1, <2>2, <2>3, <2>4, <2>5, QuietStep DEF StepFine
<1> QED
  BY <1>3, <1>4 DEF Cancel

LEMMA SucceededFine ==
    ASSUME Inv, NEW t \in Task, Succeeded(t)
    PROVE  StepFine
<1>1. PICK n : n = [job[t] EXCEPT !.pc = "done"]
  OBVIOUS
<1>2. /\ job[t].pc = "sent" /\ Becomes(t, n) /\ Quiet /\ UNCHANGED <<lock, lockQueue>>
      /\ applied' = [applied EXCEPT ![t] = @ + 1] /\ now' = now
  BY <1>1 DEF Succeeded, Quiet, historyVars, lockVars
<1>3. /\ job[t] \in Job /\ "done" \in Pc /\ Fine(t)
  BY JobTypes, PcNames DEF Inv
<1>4. /\ n \in Job /\ n.pc = "done" /\ n.attempt = job[t].attempt
      /\ n.retriedAuth = job[t].retriedAuth /\ n.error = job[t].error
  BY <1>1, <1>3 DEF Job
<1>5. t \in Strict => n.error = "none"
  BY <1>2, <1>3, <1>4 DEF Fine, Once, Ended
<1>6. /\ applied' \in [Task -> Nat] /\ \A u \in Task \ {t} : applied'[u] = applied[u]
      /\ t \in Strict => applied'[t] <= sends[t]
  BY <1>2, AppliedOnce
<1>7. Fine(t)' /\ SentWell(t)
  BY <1>2, <1>4, <1>5, <1>6, EndsFine DEF Ended
<1>8. QueueOK'
  BY <1>2, QueueSame
<1> QED
  BY <1>2, <1>4, <1>6, <1>7, <1>8, QuietStep DEF StepFine

LEMMA RetriedStep ==
    ASSUME Inv, NEW t \in Task, job[t].pc = "sent", NEW e \in {"unclear", "refused"},
           \E n \in Retried(t, e) : Becomes(t, n),
           Quiet, UNCHANGED lockVars,
           \/ UNCHANGED applied
           \/ e = "unclear" /\ applied' = [applied EXCEPT ![t] = @ + 1]
    PROVE  StepFine
<1>1. PICK n \in Retried(t, e) : Becomes(t, n)
  OBVIOUS
<1>2. /\ applied' \in [Task -> Nat] /\ \A u \in Task \ {t} : applied'[u] = applied[u]
      /\ \/ applied'[t] = applied[t]
         \/ e = "unclear" /\ applied'[t] = applied[t] + 1
  BY AppliedOnce DEF Inv, TypeOK
<1>3. UNCHANGED <<now, cached, issued, rejected, lock, lockQueue>>
  BY DEF Quiet, lockVars
<1>4. n \in Job /\ Fine(t)' /\ SentWell(t)
  BY <1>1, <1>2, <1>3, RetriedFine
<1>5. QueueOK'
  BY <1>1, <1>3, QueueSame
<1> QED
  BY <1>1, <1>2, <1>3, <1>4, <1>5, QuietStep DEF StepFine

LEMMA UnclearFine ==
    ASSUME Inv, NEW t \in Task, Unclear(t)
    PROVE  StepFine
<1>1. /\ job[t].pc = "sent" /\ Quiet /\ UNCHANGED lockVars
      /\ UNCHANGED applied \/ applied' = [applied EXCEPT ![t] = @ + 1]
      /\ \E n \in Retried(t, "unclear") : Becomes(t, n)
  BY DEF Unclear, Quiet, historyVars
<1> QED
  BY <1>1, RetriedStep

LEMMA RateLimitedFine ==
    ASSUME Inv, NEW t \in Task, RateLimited(t)
    PROVE  StepFine
<1>1. /\ job[t].pc = "sent" /\ Quiet /\ UNCHANGED lockVars /\ UNCHANGED applied
      /\ \E n \in Retried(t, "refused") : Becomes(t, n)
  BY QuietFacts DEF RateLimited
<1> QED
  BY <1>1, RetriedStep

LEMMA AdmitFine ==
    ASSUME Inv, NEW t \in Task, Admit(t)
    PROVE  StepFine
<1>0. /\ job[t] \in Job /\ Fine(t) /\ now \in Nat /\ Quiet /\ UNCHANGED <<lock, lockQueue>>
      /\ UNCHANGED <<now, cached, issued, rejected, dropped, applied>>
      /\ applied \in [Task -> Nat] /\ now < job[t].deadline
      /\ "token_sent" \in Pc /\ "sent" \in Pc /\ 0 \in Nat
  BY JobTypes, Numbers, PcNames, QuietFacts DEF Inv, TypeOK, Admit, lockVars
<1>1. CASE job[t].pc = "queued" /\ Becomes(t, Until(job[t], "sent", 0))
  <2> DEFINE n == Until(job[t], "sent", 0)
  <2>1. /\ Frame(n, job[t]) /\ n.pc = "sent" /\ n.error = job[t].error
        /\ n.token = job[t].token
    BY <1>0, WaitsUntil
  <2>2. Becomes(t, n)
    BY <1>1
  <2> HIDE DEF n
  <2>3. ReadyAt(job[t].token) <= now
    BY <1>0, <1>1 DEF Fine, Carried, Carrying
  <2>4. n \in Job /\ Fine(t)' /\ SentWell(t)
    BY <1>0, <1>1, <2>1, <2>2, <2>3, CarriesOn
  <2>5. QueueOK'
    BY <1>0, <1>1, <2>2, QueueSame
  <2> QED
    BY <1>0, <2>2, <2>4, <2>5, QuietStep DEF StepFine
<1>2. CASE job[t].pc = "token_queued" /\ Becomes(t, Until(job[t], "token_sent", 0))
  <2> DEFINE n == Until(job[t], "token_sent", 0)
  <2>1. /\ Frame(n, job[t]) /\ n.pc = "token_sent" /\ n.error = job[t].error
    BY <1>0, WaitsUntil
  <2>2. Becomes(t, n)
    BY <1>2
  <2> HIDE DEF n
  <2>3. /\ n \in Job /\ n.deadline = job[t].deadline /\ n.attempt = job[t].attempt
        /\ n.retriedAuth = job[t].retriedAuth /\ job'[t] = n /\ sends'[t] = sends[t]
    BY <2>1, <2>2, Effect DEF Frame
  <2>4. Paced(t)' /\ Carried(t)' /\ Anew(t)'
    BY <1>0, <1>2, <2>1, <2>3
       DEF Fine, Paced, Carried, Anew, Carrying, Waiting, Holding, Ended
  <2>5. Refreshing(t)'
    <3>1. lock = t /\ Spent
      BY <1>0, <1>2 DEF Fine, Refreshing
    <3>2. Spent'
      BY <1>0, <3>1 DEF Spent, Usable, Newest
    <3> QED
      BY <1>0, <3>1, <3>2 DEF Refreshing
  <2>6. Counted(t)'
    BY <1>0, <1>2, <2>1, <2>3 DEF Fine, Counted, Rounds, Before, MostRetries
  <2>7. Once(t)'
    BY <1>0, <1>2, <2>1, <2>3 DEF Fine, Once, Before, Ended
  <2>8. SentWell(t)
    BY <2>3 DEF SentWell, GoesOut
  <2>9. QueueOK'
    BY <1>0, <1>2, <2>2, QueueSame
  <2>10. Fine(t)'
    BY <2>4, <2>5, <2>6, <2>7 DEF Fine
  <2> QED
    BY <1>0, <2>2, <2>3, <2>8, <2>9, <2>10, QuietStep DEF StepFine
<1> QED
  BY <1>1, <1>2, Zenon DEF Admit, Until

LEMMA ReadiedFine ==
    ASSUME Inv, NEW t \in Task, Readied(t)
    PROVE  StepFine
<1>0. /\ job[t] \in Job /\ Fine(t) /\ now \in Nat /\ Quiet /\ UNCHANGED lockQueue
      /\ UNCHANGED <<now, cached, issued, rejected, dropped, applied>>
      /\ applied \in [Task -> Nat] /\ job[t].pc = "readying" /\ job[t].alarm <= now
      /\ job[t].pc \notin Ended /\ job[t].pc # "locking"
  BY JobTypes, Numbers, QuietFacts DEF Inv, TypeOK, Readied, Ended
<1>1. PICK n \in IF now < job[t].deadline THEN Acquired(job[t], "queued", "sent")
                ELSE {Failed(job[t], "out_of_time")} : Becomes(t, n) /\ Unlocked(t, n)
  BY DEF Readied
<1>2. QueueOK'
  BY <1>0, <1>1, QueueSame
<1>3. CASE ~(now < job[t].deadline)
  <2> DEFINE e == "out_of_time"
  <2>1. n = Failed(job[t], e) /\ e \in Error
    BY <1>1, <1>3 DEF Error
  <2> HIDE DEF e
  <2> QED
    BY <1>0, <1>1, <1>2, <2>1, FailsQuietly
<1>4. CASE now < job[t].deadline
  <2>1. n \in Acquired(job[t], "queued", "sent") /\ "queued" \in Pc /\ "sent" \in Pc
    BY <1>1, <1>4, PcNames
  <2>2. ~(now >= job[t].deadline)
    BY <1>0, <1>4 DEF Job
  <2>3. /\ Frame(n, job[t]) /\ n.error = job[t].error /\ n.token = job[t].token
        /\ \/ n.pc = "sent"
           \/ n.pc = "queued" /\ n.alarm = n.deadline
    BY <1>0, <2>1, <2>2, AcquiredWaits
  <2>4. ReadyAt(job[t].token) <= now
    <3>1. job[t].token \in DOMAIN issued /\ ReadyAt(job[t].token) <= job[t].alarm
      BY <1>0 DEF Fine, Carried, Carrying
    <3>2. ReadyAt(job[t].token) \in Int /\ job[t].alarm \in Int
      BY <1>0, <3>1, Numbers DEF Job, ReadyAt
    <3> HIDE DEF ReadyAt
    <3> QED
      BY <1>0, <3>1, <3>2
  <2>5. n \in Job /\ Fine(t)' /\ SentWell(t)
    BY <1>0, <1>1, <1>4, <2>3, <2>4, CarriesOn
  <2>6. \/ lock' = lock
        \/ lock \in {Nobody, t} /\ lock' \in {Nobody, t}
    BY <1>1, UnlockedKeeps
  <2> QED
    BY <1>0, <1>1, <1>2, <2>5, <2>6, QuietStep DEF StepFine
<1> QED
  BY <1>3, <1>4

LEMMA TokenGrantedFine ==
    ASSUME Inv, NEW t \in Task, TokenGranted(t)
    PROVE  StepFine
<1> DEFINE k == Len(issued) + 1
           j == [job[t] EXCEPT !.token = k]
<1>a. /\ job[t] \in Job /\ Fine(t) /\ now \in Nat /\ Newest \in Nat /\ sends[t] \in Nat
      /\ Lag \in Nat /\ Buffer \in Nat /\ Lifetime \in Nat /\ Buffer < Lifetime
      /\ ReadyDelay \in Nat \ {0}
  BY Numbers, RequestAssumption DEF Inv
<1>b. applied \in [Task -> Nat] /\ issued \in Seq(Int) /\ now \in Int
  BY <1>a DEF Inv, TypeOK
<1>c. /\ UNCHANGED <<now, lockQueue, revoked, applied, rejected, dropped>>
      /\ job[t].pc = "token_sent" /\ issued' = Append(issued, now)
  BY DEF TokenGranted, historyVars
<1>d. cached' = k
  BY DEF TokenGranted
<1>0. /\ job[t] \in Job /\ Fine(t) /\ now \in Nat /\ Newest \in Nat /\ sends[t] \in Nat
      /\ UNCHANGED <<now, lockQueue, revoked, applied, rejected, dropped>>
      /\ applied \in [Task -> Nat] /\ job[t].pc = "token_sent"
      /\ issued' = Append(issued, now) /\ cached' = k
      /\ Lag \in Nat /\ Buffer \in Nat /\ Lifetime \in Nat /\ Buffer < Lifetime
      /\ ReadyDelay \in Nat \ {0} /\ issued \in Seq(Int) /\ now \in Int
  BY <1>a, <1>b, <1>c, <1>d
<1>1. /\ issued' \in Seq(Int) /\ Len(issued') = k /\ issued'[k] = now
      /\ \A i \in 1..Len(issued) : issued'[i] = issued[i]
  BY <1>0, AppendProperties
<1>2. /\ DOMAIN issued' = 1..k /\ DOMAIN issued = 1..Len(issued) /\ Len(issued) \in Nat
      /\ k \in Nat /\ k \in DOMAIN issued' /\ k \notin DOMAIN issued
      /\ DOMAIN issued \subseteq DOMAIN issued'
  BY <1>0, <1>1, LenProperties DEF Newest
<1>3. PICK n : /\ n = Slept(j, "readying", now + ReadyDelay)
               /\ Becomes(t, n) /\ Unlocked(t, n)
  BY DEF TokenGranted
<1>4. /\ j \in Job /\ j.token = k /\ j.error = job[t].error
      /\ \A m : Frame(m, j) => Frame(m, job[t])
  BY <1>0, <1>2 DEF Job, Frame
<1> HIDE DEF j, k
<1>5. /\ Frame(n, job[t])
      /\ \/ GaveUp(n)
         \/ /\ n.pc = "readying" /\ n.error = job[t].error /\ n.token = k
            /\ n.alarm = now + ReadyDelay /\ now + ReadyDelay < n.deadline
  <2>1. now + ReadyDelay \in Nat /\ "readying" \in Pc
    BY <1>0, PcNames
  <2> QED
    BY <1>3, <1>4, <2>1, SleptWaits
<1>6. /\ n \in Job /\ n.attempt = job[t].attempt /\ n.deadline = job[t].deadline
      /\ n.retriedAuth = job[t].retriedAuth
  BY <1>5 DEF Frame
<1>7. lock = t
  BY <1>0 DEF Fine, Refreshing
<1>8. \A u \in Task \ {t} : Fine(u)' /\ SentWell(u)
  <2>1. Newest' = k /\ cached' # NoToken
    BY <1>0, <1>1, <1>2 DEF Newest, NoToken, k
  <2>2. cached' \notin DOMAIN issued
    BY <1>0, <1>2
  <2>3. \A u \in Task \ {t} : applied'[u] = applied[u]
    BY <1>0
  <2>4. lock' = lock \/ lock \in {Nobody, t}
    BY <1>7
  <2>5. \A u \in Task \ {t} : Fine(u)'
    BY <1>0, <1>3, <1>7, <2>1, <2>2, <2>3, <2>4, OthersFine
  <2>6. \A u \in Task \ {t} : SentWell(u)
    BY <1>3, Effect DEF SentWell, GoesOut
  <2> QED
    BY <2>5, <2>6
<1>9. Fine(t)' /\ SentWell(t)
  <2>1. CASE GaveUp(n)
    <3>1. t \in Strict => applied'[t] = 0 /\ applied'[t] <= sends[t]
      BY <1>0, NotYetApplied DEF Ended
    <3> QED
      BY <1>0, <1>3, <1>6, <2>1, <3>1, EndsFine DEF GaveUp, Ended
  <2>2. CASE /\ n.pc = "readying" /\ n.error = job[t].error /\ n.token = k
             /\ n.alarm = now + ReadyDelay /\ now + ReadyDelay < n.deadline
    <3>1. job'[t] = n /\ sends'[t] = sends[t]
      BY <1>3, <2>2, Effect
    <3>2. n.deadline <= now + Buffer /\ n.deadline \in Nat
      BY <1>0, <1>6 DEF Fine, Paced, Ended, Job
    <3>3. Paced(t)'
      <4>1. /\ n.alarm <= n.deadline /\ now <= n.alarm + Lag /\ n.alarm # 0
        BY <1>0, <2>2, <3>2
      <4> QED
        BY <1>0, <3>1, <3>2, <4>1 DEF Paced
    <3>4. Carried(t)'
      <4>1. n.deadline < now + Lifetime
        <5>1. /\ n.deadline \in Nat /\ now \in Nat /\ Buffer \in Nat /\ Lifetime \in Nat
              /\ Buffer < Lifetime /\ n.deadline <= now + Buffer
          BY <1>0, <3>2
        <5> QED
          BY <5>1
      <4>2. /\ n.token \in DOMAIN issued' /\ issued'[n.token] = now
            /\ issued'[n.token] + ReadyDelay <= now + ReadyDelay
        BY <1>0, <1>1, <1>2, <2>2
      <4>3. /\ job'[t].pc = "readying" /\ job'[t].token = n.token
            /\ job'[t].deadline = n.deadline /\ job'[t].alarm = now + ReadyDelay
        BY <2>2, <3>1
      <4> QED
        BY <4>1, <4>2, <4>3 DEF Carried, ReadyAt
    <3>5. Anew(t)'
      <4>1. <<t, k>> \notin rejected'
        BY <1>0, <1>2 DEF Inv, TypeOK
      <4> QED
        BY <1>0, <2>2, <3>1, <4>1 DEF Anew
    <3>6. Refreshing(t)' /\ SentWell(t)
      BY <2>2, <3>1 DEF Refreshing, SentWell, GoesOut
    <3>7. Counted(t)'
      BY <1>0, <1>6, <2>2, <3>1 DEF Fine, Counted, Rounds, Before, MostRetries
    <3>8. Once(t)'
      BY <1>0, <1>6, <2>2, <3>1 DEF Fine, Once, Before, Ended
    <3> QED
      BY <3>3, <3>4, <3>5, <3>6, <3>7, <3>8 DEF Fine
  <2> QED
    BY <1>5, <2>1, <2>2
<1>10. QueueOK'
  BY <1>0, <1>3, QueueSame
<1>11. CacheIsNewest'
  BY <1>0, <1>1, <1>2 DEF CacheIsNewest, Newest, NoToken
<1>12. TypeOK'
  <2>1. job' \in [Task -> Job] /\ sends' \in [Task -> Nat]
    BY <1>3, <1>6, Effect
  <2>2. lock' \in Task \cup {Nobody}
    BY <1>3, <1>7, UnlockedKeeps
  <2>3. /\ revoked' \subseteq DOMAIN issued' /\ dropped' \subseteq DOMAIN issued'
        /\ rejected' \subseteq Task \X DOMAIN issued'
    BY <1>0, <1>2 DEF Inv, TypeOK
  <2> QED
    BY <1>0, <1>1, <1>2, <1>10, <2>1, <2>2, <2>3 DEF TypeOK, QueueOK, Job, Pc, Error
<1> QED
  BY <1>8, <1>9, <1>10, <1>11, <1>12 DEF StepFine, Inv, QueueOK

(* A step that records a rejected token, and may drop what is cached.      *)
LEMMA RejectedStep ==
    ASSUME Inv, NEW t \in Task, NEW n \in Job, Becomes(t, n), job[t].pc = "sent",
           UNCHANGED <<now, issued, revoked, applied>>,
           rejected' = rejected \cup {<<t, job[t].token>>},
           \/ UNCHANGED <<cached, dropped>>
           \/ cached' = NoToken /\ dropped' = dropped \cup ({cached} \ {NoToken}),
           \/ lock' = lock
           \/ lock = Nobody /\ lock' = t,
           QueueOK', Fine(t)', SentWell(t)
    PROVE  StepFine
<1>0. /\ Fine(t) /\ TypeOK /\ CacheIsNewest /\ NoToken \notin DOMAIN issued
      /\ dropped \subseteq dropped' /\ cached' \in {cached, NoToken}
  BY Numbers DEF Inv
<1>1. \A u \in Task \ {t} : \A k : <<u, k>> \in rejected' => <<u, k>> \in rejected
  OBVIOUS
<1>2. \A u \in Task \ {t} : Fine(u)'
  <2>1. /\ cached' \in {cached, NoToken, Newest'} /\ (cached' # cached => cached' \notin DOMAIN issued)
        /\ lock' = lock \/ lock \in {Nobody, t}
    BY <1>0
  <2>2. /\ now' = now /\ issued' = issued /\ dropped \subseteq dropped'
        /\ \A u \in Task \ {t} : applied'[u] = applied[u]
    BY <1>0
  <2> QED
    BY <1>1, <2>1, <2>2, OthersFine
<1>3. \A u \in Task \ {t} : SentWell(u)
  BY Effect DEF SentWell, GoesOut
<1>4. CacheIsNewest'
  <2>1. Newest' = Newest
    BY DEF Newest
  <2> QED
    BY <1>0, <2>1 DEF CacheIsNewest, NoToken
<1>5. TypeOK'
  <2>1. job' \in [Task -> Job] /\ sends' \in [Task -> Nat]
    BY Effect
  <2>2. lock' \in Task \cup {Nobody}
    BY <1>0 DEF TypeOK
  <2>3. /\ cached' \in {NoToken} \cup DOMAIN issued' /\ revoked' \subseteq DOMAIN issued'
        /\ dropped' \subseteq DOMAIN issued'
    BY <1>0 DEF TypeOK
  <2>4. rejected' \subseteq Task \X DOMAIN issued'
    <3>1. job[t].token \in DOMAIN issued
      BY <1>0 DEF Fine, Carried, Carrying
    <3> QED
      BY <1>0, <3>1 DEF TypeOK
  <2> QED
    BY <1>0, <2>1, <2>2, <2>3, <2>4 DEF TypeOK, QueueOK, Job, Pc, Error
<1> QED
  BY <1>2, <1>3, <1>4, <1>5 DEF StepFine, Inv, QueueOK

LEMMA ForbiddenFine ==
    ASSUME Inv, NEW t \in Task, Forbidden(t)
    PROVE  StepFine
<1>0. /\ job[t] \in Job /\ Fine(t) /\ now \in Nat /\ sends[t] \in Nat
      /\ MostRetries(t) \in 0..MaxRetries /\ MaxRetries \in Nat /\ Newest \in Nat
      /\ NoToken \notin DOMAIN issued /\ CacheIsNewest
      /\ rejected \subseteq Task \X DOMAIN issued
  BY Numbers DEF Inv, TypeOK
<1>1. /\ job[t].pc = "sent" /\ job[t].pc \notin Ended /\ job[t].pc # "locking"
      /\ UNCHANGED <<now, issued, revoked, applied>>
      /\ rejected' = rejected \cup {<<t, job[t].token>>}
  BY DEF Forbidden, serverVars, Ended
<1> DEFINE e == "refused"
<1>2. ASSUME Becomes(t, Failed(job[t], e)), UNCHANGED lockVars,
             \/ UNCHANGED <<cached, dropped>>
             \/ cached' = NoToken /\ dropped' = dropped \cup ({cached} \ {NoToken})
      PROVE  StepFine
  <2>1. e \in Error /\ now' = now /\ applied'[t] = applied[t]
    BY <1>1 DEF Error
  <2> HIDE DEF e
  <2>2. Failed(job[t], e) \in Job /\ Fine(t)' /\ SentWell(t)
    BY <1>1, <1>2, <2>1, FailsFine
  <2>3. lock' = lock /\ lockQueue' = lockQueue
    BY <1>2 DEF lockVars
  <2>4. QueueOK'
    BY <1>1, <1>2, <2>3, QueueSame
  <2> QED
    BY <1>1, <1>2, <2>2, <2>3, <2>4, RejectedStep
<1>3. ASSUME ~job[t].retriedAuth, t \notin Strict, cached' = NoToken,
             dropped' = dropped \cup ({cached} \ {NoToken}),
             GetToken(t, Reentered(job[t]), NoToken)
      PROVE  StepFine
  <2> DEFINE j == Reentered(job[t])
  <2>1. /\ j \in Job /\ j.deadline = job[t].deadline /\ j.attempt = 0 /\ j.retriedAuth
    <3>1. PICK anew : anew = [job[t] EXCEPT !.attempt = 0]
      OBVIOUS
    <3>2. /\ anew \in Job /\ anew.deadline = job[t].deadline /\ anew.attempt = 0
      BY <1>0, <3>1 DEF Job
    <3>3. j = [anew EXCEPT !.retriedAuth = TRUE]
      BY <3>1, Zenon DEF Reentered
    <3> HIDE DEF j
    <3> QED
      BY <3>2, <3>3 DEF Job
  <2>2. GetToken(t, j, NoToken)
    BY <1>3
  <2> HIDE DEF j
  <2>3. Asking(t, j)
    <3>1. j.deadline <= now + Buffer
      BY <1>0, <1>1, <2>1 DEF Fine, Paced, Ended
    <3>2. sends[t] <= 0 + job[t].attempt + 1 /\ job[t].attempt <= MostRetries(t)
      BY <1>0, <1>1, <1>3 DEF Fine, Counted, Rounds
    <3>3. job[t].attempt \in Nat
      BY <1>0 DEF Job
    <3>4. sends[t] <= MaxRetries + 1
      BY <1>0, <3>2, <3>3
    <3>5. Rounds(j) + j.attempt = MaxRetries + 1 /\ 0 <= MostRetries(t)
      BY <1>0, <2>1 DEF Rounds
    <3> QED
      BY <1>3, <2>1, <3>1, <3>4, <3>5 DEF Asking
  <2>4. ~Usable(NoToken)
    BY DEF Usable
  <2>5. PICK n \in Job :
            /\ Becomes(t, n)
            /\ \/ Frame(n, j) /\ GaveUp(n) /\ UNCHANGED lockVars
               \/ Fetches(n, j) /\ lock = Nobody /\ lock' = t /\ UNCHANGED lockQueue
               \/ Locks(n, j) /\ UNCHANGED lock /\ lockQueue' = Append(lockQueue, t)
    <3>1. NoToken \in {NoToken} \cup DOMAIN issued
      OBVIOUS
    <3> QED
      BY <2>1, <2>2, <2>4, <3>1, GetTokenLeads
  <2>6. /\ QueueOK'
        /\ \/ lock' = lock
           \/ lock = Nobody /\ lock' = t
    <3>1. CASE UNCHANGED lockVars
      BY <1>1, <2>5, <3>1, QueueSame DEF lockVars
    <3>2. CASE lock = Nobody /\ lock' = t /\ UNCHANGED lockQueue
      BY <1>1, <2>5, <3>2, QueueSame
    <3>3. CASE Locks(n, j) /\ UNCHANGED lock /\ lockQueue' = Append(lockQueue, t)
      BY <1>1, <2>5, <3>3, QueueAppend DEF Locks
    <3> QED
      BY <2>5, <3>1, <3>2, <3>3
  <2>7. Spent'
    <3>1. Newest' = Newest /\ NoToken = 0
      BY <1>1 DEF Newest, NoToken
    <3>2. Newest = NoToken \/ Newest \in dropped'
      BY <1>0, <1>3, <3>1 DEF CacheIsNewest
    <3> QED
      BY <3>1, <3>2 DEF Spent, Usable
  <2>8. <<t, cached'>> \notin rejected'
    <3>1. job[t].token \in DOMAIN issued
      BY <1>0, <1>1 DEF Fine, Carried, Carrying
    <3> QED
      BY <1>0, <1>1, <1>3, <3>1
  <2>9. Fine(t)' /\ SentWell(t)
    <3>1. \/ Frame(n, j) /\ GaveUp(n)
          \/ Fetches(n, j) /\ lock' = t
          \/ Locks(n, j)
      BY <2>5
    <3>2. UNCHANGED <<now, issued, applied>>
      BY <1>1
    <3> QED
      BY <2>3, <2>5, <2>7, <2>8, <3>1, <3>2, UnservedFine
  <2> QED
    BY <1>1, <1>3, <2>5, <2>6, <2>9, RejectedStep
<1>4. CASE job[t].retriedAuth
  BY <1>2, <1>4 DEF Forbidden
<1>5. CASE ~job[t].retriedAuth /\ t \in Strict
  BY <1>2, <1>5 DEF Forbidden, Invalidate
<1>6. CASE ~job[t].retriedAuth /\ t \notin Strict
  <2>1. cached' = NoToken /\ dropped' = dropped \cup ({cached} \ {NoToken})
    BY <1>6 DEF Forbidden, Invalidate
  <2>2. GetToken(t, Reentered(job[t]), cached')
    BY <1>6 DEF Forbidden
  <2>3. GetToken(t, Reentered(job[t]), NoToken)
    BY <2>1, <2>2
  <2> QED
    BY <1>3, <1>6, <2>1, <2>3
<1> QED
  BY <1>4, <1>5, <1>6
-----------------------------------------------------------------------------
(* What happens to no operation in particular. *)
LEMMA StillFine ==
    ASSUME Inv, UNCHANGED <<job, cached, lockVars, issued, sends, applied, historyVars>>,
           now' \in Nat, now <= now', \A t \in Task : Paced(t)'
    PROVE  /\ QueueWaits' /\ CacheIsNewest' /\ \A t \in Task : Fine(t)' /\ SentWell(t)
<1>0. /\ UNCHANGED <<job, cached, lock, lockQueue, issued, sends, applied, rejected, dropped>>
      /\ now \in Nat /\ \A k : ReadyAt(k)' = ReadyAt(k)
  BY Numbers DEF lockVars, historyVars, ReadyAt
<1>1. QueueWaits' /\ CacheIsNewest'
  BY <1>0 DEF Inv, QueueWaits, CacheIsNewest, Newest
<1> SUFFICES ASSUME NEW t \in Task PROVE Fine(t)' /\ SentWell(t)
  BY <1>1, Zenon
<1>2. Fine(t)
  BY DEF Inv
<1>3. Carried(t)'
  <2>1. ASSUME job[t].pc = "queued", NEW k \in DOMAIN issued, ReadyAt(k) <= now
        PROVE  ReadyAt(k) <= now'
    <3>1. ReadyAt(k) \in Int
      BY Numbers DEF ReadyAt
    <3> HIDE DEF ReadyAt
    <3> QED
      BY <1>0, <2>1, <3>1
  <2> HIDE DEF ReadyAt
  <2> QED
    BY <1>0, <1>2, <2>1 DEF Fine, Carried
<1>4. Anew(t)' /\ Counted(t)' /\ Once(t)'
  BY <1>0, <1>2 DEF Fine, Anew, Counted, Once, MostRetries
<1>5. Refreshing(t)'
  <2>1. Spent => Spent'
    <3>1. Newest \in Nat /\ (Newest # NoToken => Newest \in DOMAIN issued /\ issued[Newest] \in Int)
      BY Numbers DEF NoToken
    <3>2. Usable(Newest)' => Usable(Newest)
      BY <1>0, <3>1, Numbers DEF Usable, Newest
    <3> QED
      BY <1>0, <3>2 DEF Spent, Newest
  <2> QED
    BY <1>0, <1>2, <2>1 DEF Fine, Refreshing
<1>6. SentWell(t)
  BY <1>0 DEF SentWell, GoesOut
<1> QED
  BY <1>2, <1>3, <1>4, <1>5, <1>6 DEF Fine

LEMMA TickFine ==
    ASSUME Inv, Tick
    PROVE  StepFine
<1>0. /\ now \in Nat /\ Lag \in Nat /\ Buffer \in Nat /\ now' = now + 1 /\ job' = job
      /\ UNCHANGED <<cached, lockVars, serverVars, sends, historyVars>>
      /\ UNCHANGED <<cached, lockVars, issued, sends, applied, historyVars>>
  BY Numbers DEF Tick, serverVars
<1>1. now' \in Nat /\ now <= now'
  BY <1>0
<1>2. \A t \in Task : Paced(t)'
  <2> SUFFICES ASSUME NEW t \in Task PROVE Paced(t)'
    BY Zenon
  <2>1. /\ Paced(t) /\ job[t].deadline \in Nat /\ job[t].alarm \in Nat
        /\ job[t].alarm # 0 => now < job[t].alarm + Lag
    BY JobTypes DEF Inv, Fine, Job, Tick
  <2> QED
    BY <1>0, <2>1 DEF Paced
<1>3. /\ QueueWaits' /\ CacheIsNewest' /\ \A t \in Task : Fine(t)' /\ SentWell(t)
  BY <1>0, <1>1, <1>2, StillFine
<1>4. TypeOK'
  BY <1>0, <1>1 DEF Inv, TypeOK, lockVars, serverVars, historyVars
<1> QED
  BY <1>3, <1>4 DEF StepFine, Inv

LEMMA RevokeFine ==
    ASSUME Inv, NEW k, Revoke(k)
    PROVE  StepFine
<1>0. /\ UNCHANGED <<now, job>> /\ now \in Nat
      /\ UNCHANGED <<job, cached, lockVars, issued, sends, applied, historyVars>>
      /\ revoked' = revoked \cup {k} /\ k \in DOMAIN issued
  BY Numbers DEF Revoke
<1>1. now' \in Nat /\ now <= now' /\ \A t \in Task : Paced(t)'
  BY <1>0 DEF Inv, Fine, Paced
<1>2. /\ QueueWaits' /\ CacheIsNewest' /\ \A t \in Task : Fine(t)' /\ SentWell(t)
  BY <1>0, <1>1, StillFine
<1>3. TypeOK'
  BY <1>0 DEF Inv, TypeOK, lockVars, historyVars
<1> QED
  BY <1>2, <1>3 DEF StepFine, Inv

LEMMA StutterFine ==
    ASSUME Inv, UNCHANGED vars
    PROVE  StepFine
<1>1. UNCHANGED <<now, job, cached, lock, lockQueue, issued, revoked, applied, sends,
                  rejected, dropped>>
  BY DEF vars, lockVars, serverVars, historyVars
<1>2. Inv'
  BY <1>1 DEF Inv, TypeOK, QueueWaits, CacheIsNewest, Newest, Fine, Paced, Carried, ReadyAt,
              Anew, Refreshing, Spent, Usable, Counted, MostRetries, Once
<1>3. \A u \in Task : SentWell(u)
  BY <1>1 DEF SentWell, GoesOut
<1> QED
  BY <1>2, <1>3 DEF StepFine
-----------------------------------------------------------------------------
LEMMA InitInv == Init => Inv
<1> SUFFICES ASSUME Init PROVE Inv
  OBVIOUS
<1> DEFINE fresh == [pc |-> "new", token |-> NoToken, alarm |-> 0, deadline |-> 0,
                     attempt |-> 0, retriedAuth |-> FALSE, error |-> "none"]
<1>0. /\ now = 0 /\ job = [t \in Task |-> fresh] /\ lock = Nobody /\ lockQueue = <<>>
      /\ revoked = {} /\ rejected = {} /\ dropped = {}
      /\ sends = [t \in Task |-> 0] /\ applied = [t \in Task |-> 0]
  BY DEF Init
<1>1. fresh \in Job /\ 0 \in 0..MaxRetries /\ MaxRetries \in Nat
  BY RequestAssumption, PcNames DEF Job, NoToken, Error, Pc
<1>2. \A t \in Task : /\ job[t].pc = "new" /\ job[t].attempt = 0 /\ ~job[t].retriedAuth
                       /\ job[t].error = "none" /\ sends[t] = 0 /\ applied[t] = 0
  BY <1>0
<1>3. job \in [Task -> Job]
  BY <1>0, <1>1
<1> HIDE DEF fresh
<1>4. /\ issued \in Seq(Int) /\ cached \in {NoToken} \cup DOMAIN issued
      /\ cached = Newest
  <2>1. CASE issued = <<>> /\ cached = NoToken
    BY <2>1, EmptySeq, Zenon DEF Newest, NoToken
  <2>2. CASE \E age \in SeedAges : issued = <<-age>> /\ cached = 1
    <3>1. PICK age \in SeedAges : issued = <<-age>> /\ cached = 1
      BY <2>2
    <3>2. -age \in Int
      BY RequestAssumption
    <3> QED
      BY <3>1, <3>2 DEF Newest
  <2> QED
    BY <2>1, <2>2 DEF Init
<1>5. lockQueue \in Seq(Task) /\ IsInjective(lockQueue) /\ QueueWaits
  BY <1>0 DEF IsInjective, QueueWaits
<1>6. TypeOK
  BY <1>0, <1>3, <1>4, <1>5 DEF TypeOK, Job, Pc, Error
<1>7. CacheIsNewest
  BY <1>4 DEF CacheIsNewest, NoToken
<1>8. ASSUME NEW t \in Task PROVE Fine(t)
  <2>1. Paced(t) /\ Carried(t) /\ Anew(t) /\ Refreshing(t)
    BY <1>2 DEF Paced, Carried, Anew, Refreshing, Waiting, Holding, Carrying
  <2>2. Counted(t)
    BY <1>1, <1>2, RequestAssumption DEF Counted, Rounds, MostRetries, Before
  <2>3. Once(t)
    BY <1>2 DEF Once
  <2> QED
    BY <2>1, <2>2, <2>3 DEF Fine
<1> QED
  BY <1>5, <1>6, <1>7, <1>8 DEF Inv

(* One action after the other, no more than that each was shown to do.     *)
LEMMA NextFine ==
    ASSUME Inv, [Next]_vars
    PROVE  StepFine
<1>1. CASE Tick
  BY <1>1, TickFine
<1>2. CASE \E k \in 1..MaxTokens : Revoke(k)
  BY <1>2, RevokeFine
<1>3. ASSUME NEW t \in Task,
             \/ Start(t) \/ LockTaken(t) \/ Admit(t) \/ TokenGranted(t) \/ TokenRefused(t)
             \/ Readied(t) \/ Retry(t) \/ OutOfTime(t) \/ Cancel(t)
             \/ Succeeded(t) \/ Unclear(t) \/ RateLimited(t) \/ Refused(t) \/ Forbidden(t)
      PROVE  StepFine
  BY <1>3, StartFine, LockTakenFine, AdmitFine, TokenGrantedFine, TokenRefusedFine,
     ReadiedFine, RetryFine, OutOfTimeFine, CancelFine, SucceededFine, UnclearFine,
     RateLimitedFine, RefusedFine, ForbiddenFine
<1>4. CASE UNCHANGED vars
  BY <1>4, StutterFine
<1> QED
  BY <1>1, <1>2, <1>3, <1>4 DEF Next, Horizon

LEMMA Invariance == Spec => []Inv
<1>1. Inv /\ [Next]_vars => Inv'
  BY NextFine DEF StepFine
<1> QED
  BY InitInv, <1>1, PTL DEF Spec
-----------------------------------------------------------------------------
(***************************************************************************)
(* Every variable keeps its type: a token that is cached, revoked,         *)
(* rejected or dropped was issued, and no operation awaits the lock twice  *)
(* (HostawayTokenManager).                                                 *)
(***************************************************************************)
THEOREM ApiTypeCorrect == Spec => []TypeOK
<1>1. Inv => TypeOK
  BY DEF Inv
<1> QED
  BY Invariance, <1>1, PTL

(***************************************************************************)
(* However often its operation is cancelled, refused, left unanswered or   *)
(* answered with a 403, a custom-field mutation is sent at most once, and  *)
(* an error that means "not applied" tells the truth (retry_ambiguous and  *)
(* _RequestPolicy.unknown_error, client.py).                               *)
(***************************************************************************)
THEOREM MutationSentOnce == Spec => []MutationOnce
<1>1. Inv => MutationOnce
  BY RequestAssumption DEF Inv, Fine, Once, MutationOnce
<1> QED
  BY Invariance, <1>1, PTL

(***************************************************************************)
(* Whatever it waits for, and however often it has been sent back to wait, *)
(* an operation waits no longer than the loop is late after its deadline   *)
(* (_acquire_lock, sleep_within_deadline).                                 *)
(***************************************************************************)
THEOREM DeadlinesObeyed == Spec => []DeadlineKept
<1>1. ASSUME Inv PROVE DeadlineKept
  <2>1. ASSUME NEW t \in Task, job[t].pc \in Waiting
        PROVE  now <= job[t].deadline + Lag
    <3>1. job[t].alarm <= job[t].deadline /\ now <= job[t].alarm + Lag
      BY <1>1, <2>1 DEF Inv, Fine, Paced
    <3>2. /\ job[t].alarm \in Nat /\ job[t].deadline \in Nat /\ now \in Nat /\ Lag \in Nat
      BY <1>1, Numbers, JobTypes DEF Job
    <3> QED
      BY <3>1, <3>2
  <2> QED
    BY <2>1 DEF DeadlineKept
<1> QED
  BY Invariance, <1>1, PTL

(***************************************************************************)
(* Two rounds of MAX_RETRIES + 1 requests are the most one operation ever  *)
(* sends, whichever answers come in whichever order (_request, its loop    *)
(* and its one re-entry).                                                  *)
(***************************************************************************)
THEOREM AttemptsCounted == Spec => []AttemptsBounded
<1>1. Inv => AttemptsBounded
  BY DEF Inv, Fine, Counted, AttemptsBounded
<1> QED
  BY Invariance, <1>1, PTL

(***************************************************************************)
(* No request leaves with a token that is not active yet or has expired,   *)
(* however long it waited for the limiter or in a backoff: the refresh     *)
(* buffer is longer than any operation's patience (_ready_token,           *)
(* _REFRESH_BUFFER).                                                       *)
(***************************************************************************)
THEOREM TokensGood == Spec => SentWithGoodToken
<1>1. Inv /\ [Next]_vars => \A t \in Task : SentWell(t)
  BY NextFine DEF StepFine
<1>2. (\A t \in Task : SentWell(t)) =>
          \A t \in Task : GoesOut(t) =>
              LET k == job'[t].token IN ReadyAt(k) <= now /\ now < issued[k] + Lifetime
  BY DEF SentWell
<1> QED
  BY Invariance, <1>1, <1>2, PTL DEF Spec, SentWithGoodToken

(***************************************************************************)
(* A request repeated after a 403 never carries a token the operation was  *)
(* rejected with, also when others refresh the cache in between            *)
(* (_handle_forbidden_response, invalidate).                               *)
(***************************************************************************)
THEOREM RejectedStayAway == Spec => RejectedTokenNotReused
<1>1. Inv /\ [Next]_vars => \A t \in Task : SentWell(t)
  BY NextFine DEF StepFine
<1>2. (\A t \in Task : SentWell(t)) =>
          \A t \in Task : GoesOut(t) /\ job'[t].retriedAuth
                          => <<t, job'[t].token>> \notin rejected
  BY DEF SentWell
<1> QED
  BY Invariance, <1>1, <1>2, PTL DEF Spec, RejectedTokenNotReused

(***************************************************************************)
(* Nobody asks for a token while the newest one is usable and has not been *)
(* invalidated, however many callers found the cache empty at once         *)
(* (get_token and its second check).                                       *)
(***************************************************************************)
THEOREM BoughtOnce == Spec => NoneBoughtTwice
<1>1. ASSUME Inv, Inv', [Next]_vars, NEW t \in Task, job[t].pc # "token_sent",
             job'[t].pc = "token_sent"
      PROVE  ~Usable(Newest) \/ Newest \in dropped'
  <2>1. Spent'
    BY <1>1 DEF Inv, Fine, Refreshing
  <2>2. issued' = issued /\ now' = now
    <3>1. job'[t] # job[t]
      BY <1>1
    <3>2. ASSUME NEW u \in Task, TokenGranted(u) PROVE FALSE
      <4>1. PICK n : /\ n = Slept([job[u] EXCEPT !.token = Len(issued) + 1], "readying", now + ReadyDelay)
                     /\ Becomes(u, n)
        BY <3>2 DEF TokenGranted
      <4>2. job[u] \in Job
        BY <1>1, JobTypes
      <4>3. n.pc # "token_sent"
        BY <4>1, <4>2 DEF Slept, Failed, Job
      <4> QED
        BY <1>1, <3>2, <4>1, <4>3, Effect DEF TokenGranted
    <3> QED
      BY <1>1, <3>1, <3>2
         DEF Next, Horizon, vars, Tick, Revoke, Start, LockTaken, Admit, TokenRefused, Readied,
             Retry, OutOfTime, Cancel, Succeeded, Unclear, RateLimited, Refused, Forbidden,
             serverVars
  <2> QED
    BY <2>1, <2>2 DEF Spent, Usable, Newest
<1>2. Inv /\ Inv' /\ [Next]_vars =>
          \A t \in Task : job[t].pc # "token_sent" /\ job'[t].pc = "token_sent"
                          => ~Usable(Newest) \/ Newest \in dropped'
  BY <1>1
<1> QED
  BY Invariance, <1>2, PTL DEF Spec, NoneBoughtTwice
=============================================================================
