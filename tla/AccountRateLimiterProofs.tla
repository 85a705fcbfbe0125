---------------------- MODULE AccountRateLimiterProofs ----------------------
(***************************************************************************)
(* The safety of AccountRateLimiter, for every number of accounts, calls,  *)
(* budgets and headers, and however long the clock runs.                   *)
(*                                                                         *)
(* The types are inductive together with Past: what the gates and the pump *)
(* compute from timestamps is a number because no timestamp lies ahead of  *)
(* the clock.                                                              *)
(*                                                                         *)
(* Charged carries the argument about windows: an admission younger than a *)
(* window is still on its gate's record, so a gate that reports room has   *)
(* fewer than its budget of them.  Silenced carries the one about 429s: an *)
(* order that is still in force is a suppression nothing has shortened.    *)
(* Callers says how a call, its future and its place in the queue go       *)
(* together, and Pumping what the running pump may rely on.  Timed and     *)
(* Woken say what a sleeping limiter has armed its timer for, Occupancy    *)
(* what a gate counts, and Ordered what the numbers of the queued mean.    *)
(*                                                                         *)
(* What follows shows that every step of the limiter is one of the         *)
(* abstract AdmissionControl, or none that it can tell; the end is about   *)
(* the processes of ProcessRestart, which come one after the other.        *)
(***************************************************************************)
EXTENDS ProcessRestart, SlidingWindowGateProofs, SequenceTheorems

(* Nothing that was recorded lies ahead of the clock. *)
Past ==
    /\ \A r \in Request : admittedAt[r] <= now
    /\ \A g \in Gate :
           /\ gate[g].createdAt <= now
           /\ \A r \in gate[g].admissions : admittedAt[r] # Never
           /\ \A e \in gate[g].synthetic : e.at <= now

Typed == TypeOK /\ Past

(* An action that leaves gates, admissions and the clock alone. *)
LEMMA PastUnchanged ==
    ASSUME Past, UNCHANGED <<now, gateVars>>
    PROVE  Past'
BY DEF Past, gateVars

LEMMA GatesOfRequest ==
    ASSUME NEW r \in Request
    PROVE  /\ Owner[r] \in Limiter
           /\ GatesFor(r) \subseteq Gate
           /\ AccountGate(Owner[r]) \in Gate /\ IpGate \in Gate
BY LimiterAssumption DEF GatesFor, Gate

LEMMA ListenersAreLimiters ==
    ASSUME Typed, NEW g \in Gate
    PROVE  Listeners(g) \in Seq(Limiter)
<1>1. CASE g = IpGate
  BY <1>1 DEF Listeners, Typed, TypeOK
<1>2. CASE g # IpGate
  <2>1. PICK l \in Limiter : g = AccountGate(l)
    BY <1>2 DEF Gate
  <2>2. g[2] = l
    BY <2>1 DEF AccountGate
  <2>3. <<l>> \in Seq(Limiter) /\ <<>> \in Seq(Limiter)
    BY EmptySeq
  <2> QED
    BY <1>2, <2>2, <2>3 DEF Listeners
<1> QED
  BY <1>1, <1>2

(* One admission keeps every gate a gate, and the past the past. *)
LEMMA AdmitTyped ==
    ASSUME Typed, NEW r \in Request, Admit(r), now' = now
    PROVE  /\ DOMAIN gate' = Gate
           /\ \A g \in Gate : IsGate(gate[g], Request)'
           /\ admittedAt' \in [Request -> Nat \cup {Never}]
           /\ interactiveAdmissions' \in [Limiter -> Nat]
           /\ Past'
<1>1. \A g \in Gate : gate'[g] = IF g \in GatesFor(r)
                                THEN Record(gate[g], r, admittedAt, now) ELSE gate[g]
  BY DEF Admit
<1>2. now \in Nat /\ \A g \in Gate : IsGate(gate[g], Request)
  BY DEF Typed, TypeOK
<1>3. \A g \in Gate : IsGate(gate'[g], Request)
  BY <1>1, <1>2, RecordKeepsGate
<1>4. admittedAt' = [admittedAt EXCEPT ![r] = now]
  BY DEF Admit
<1>5. admittedAt' \in [Request -> Nat \cup {Never}]
  BY <1>2, <1>4 DEF Typed, TypeOK
<1>6. interactiveAdmissions' \in [Limiter -> Nat]
  BY GatesOfRequest DEF Admit, Typed, TypeOK
<1>7. ASSUME NEW g \in Gate
      PROVE  /\ gate'[g].createdAt = gate[g].createdAt
             /\ gate'[g].admissions \subseteq gate[g].admissions \cup {r}
             /\ gate'[g].synthetic \subseteq gate[g].synthetic
  <2>1. CASE g \in GatesFor(r)
    <3>1. /\ Record(gate[g], r, admittedAt, now).createdAt = gate[g].createdAt
          /\ Record(gate[g], r, admittedAt, now).admissions
                 = Admitted(gate[g], admittedAt, now) \cup {r}
          /\ Record(gate[g], r, admittedAt, now).synthetic = Synthetic(gate[g], now)
      BY <1>2 DEF Record, IsGate
    <3> QED
      BY <1>1, <2>1, <3>1 DEF Admitted, Synthetic
  <2>2. CASE g \notin GatesFor(r)
    BY <1>1, <2>2
  <2> QED
    BY <2>1, <2>2
<1>8. Past'
  <2>1. \A q \in Request : admittedAt'[q] <= now'
    BY <1>2, <1>4 DEF Typed, TypeOK, Past
  <2>2. ASSUME NEW g \in Gate
        PROVE  /\ gate'[g].createdAt <= now'
               /\ \A q \in gate'[g].admissions : admittedAt'[q] # Never
               /\ \A e \in gate'[g].synthetic : e.at <= now'
    BY <1>2, <1>4, <1>7, <2>2 DEF Typed, TypeOK, Past, Never, IsGate
  <2> QED
    BY <2>1, <2>2 DEF Past
<1> QED
  BY <1>3, <1>5, <1>6, <1>8 DEF Admit
-----------------------------------------------------------------------------
(* How a process begins, with the calls that earlier ones have left over.  *)
Fresh ==
    /\ now \in Nat
    /\ gate = [g \in Gate |-> NewGate(DefaultBudget, now)]
    /\ providerUntil = 0
    /\ phase = [l \in Limiter |-> "new"]
    /\ attached = <<>> /\ waiters = {}
    /\ ticket = [r \in Request |-> NoTicket]
    /\ call \in [Request -> {"idle", "cancelled"}]
    /\ future = [r \in Request |-> IF call[r] = "idle" THEN "none" ELSE "cancelled"]
    /\ admittedAt = [r \in Request |-> Never]
    /\ sequence = [l \in Limiter |-> 0]
    /\ interactiveAdmissions = [l \in Limiter |-> 0]
    /\ timer = [l \in Limiter |-> 0]
    /\ agenda = <<>> /\ deadlines = {} /\ told = {}

LEMMA InitFresh == Init => Fresh
BY DEF Init, Fresh

LEMMA FreshTyped == Fresh => Typed
<1> SUFFICES ASSUME Fresh PROVE Typed
  OBVIOUS
<1>1. \A g \in Gate : gate[g] = NewGate(DefaultBudget, now)
  BY DEF Fresh
<1>2. \A g \in Gate : IsGate(gate[g], Request)
  BY <1>1, NewGateIsGate, LimiterAssumption DEF Fresh
<1>3. TypeOK
  BY <1>2, LimiterAssumption, EmptySeq DEF Fresh, TypeOK, Never, NoTicket
<1>4. Past
  BY <1>1 DEF Fresh, Past, Never, NewGate, StartupHold
<1> QED
  BY <1>3, <1>4 DEF Typed

LEMMA TickTyped == Typed /\ Tick => Typed'
<1> SUFFICES ASSUME Typed, Tick PROVE Typed'
  OBVIOUS
<1>1. TypeOK'
  BY DEF Typed, TypeOK, Tick, queueVars, gateVars, sharedVars, pumpVars
<1>2. Past'
  <2>1. now \in Nat /\ now' = now + 1 /\ UNCHANGED gateVars
    BY DEF Typed, TypeOK, Tick
  <2>2. \A r \in Request : admittedAt[r] \in Int
    BY DEF Typed, TypeOK, Never
  <2>3. \A g \in Gate : gate[g].createdAt \in Nat /\ \A e \in gate[g].synthetic : e.at \in Nat
    BY DEF Typed, TypeOK, IsGate
  <2> QED
    BY <2>1, <2>2, <2>3 DEF Typed, Past, gateVars
<1> QED
  BY <1>1, <1>2 DEF Typed

LEMMA OpenTyped ==
    ASSUME Typed, NEW l \in Limiter, Open(l)
    PROVE  Typed'
<1>1. \A g \in Gate : gate'[g] = gate[g] \/ gate'[g] = NewGate(DefaultBudget, now)
  <2>1. DOMAIN gate = Gate
    BY DEF Typed, TypeOK
  <2> QED
    BY <2>1, Zenon DEF Open
<1>2. now \in Nat /\ DefaultBudget \in 1..MaxBudget
  BY LimiterAssumption DEF Typed, TypeOK
<1>3. \A g \in Gate : IsGate(gate'[g], Request)
  BY <1>1, <1>2, NewGateIsGate DEF Typed, TypeOK
<1>4. DOMAIN gate' = Gate
  BY DEF Open, Typed, TypeOK
<1>5. attached' \in Seq(Limiter)
  BY AppendProperties DEF Open, Typed, TypeOK
<1>6. TypeOK'
  BY <1>3, <1>4, <1>5 DEF Open, Typed, TypeOK, clockVars, queueVars, pumpVars
<1>7. ASSUME NEW g \in Gate
      PROVE  /\ gate'[g].createdAt <= now
             /\ \A r \in gate'[g].admissions : admittedAt[r] # Never
             /\ \A e \in gate'[g].synthetic : e.at <= now
  <2>1. CASE gate'[g] = gate[g]
    BY <2>1 DEF Typed, Past
  <2>2. CASE gate'[g] = NewGate(DefaultBudget, now)
    BY <1>2, <2>2 DEF NewGate, StartupHold
  <2> QED
    BY <1>1, <2>1, <2>2
<1>8. Past'
  BY <1>7 DEF Open, clockVars, Typed, Past
<1> QED
  BY <1>6, <1>8 DEF Typed

LEMMA EnqueueTyped ==
    ASSUME Typed, NEW r \in Request, NEW left \in Patience, Enqueue(r, left)
    PROVE  Typed'
<1>1. Owner[r] \in Limiter /\ left \in Nat
  BY GatesOfRequest, LimiterAssumption
<1>2. ticket' \in [Request -> [sequence : Nat, queuedAt : Nat, deadline : Nat,
                             overtakenBase : Nat]]
  <2>1. [sequence |-> sequence[Owner[r]] + 1, queuedAt |-> now, deadline |-> now + left,
         overtakenBase |-> interactiveAdmissions[Owner[r]]]
            \in [sequence : Nat, queuedAt : Nat, deadline : Nat, overtakenBase : Nat]
    BY <1>1 DEF Typed, TypeOK
  <2> QED
    BY <2>1 DEF Enqueue, Typed, TypeOK
<1>3. agenda' \in Seq(Limiter)
  BY <1>1 DEF Enqueue
<1>4. TypeOK'
  BY <1>1, <1>2, <1>3 DEF Enqueue, Typed, TypeOK, clockVars, gateVars, sharedVars
<1> QED
  BY <1>4, PastUnchanged DEF Enqueue, clockVars, Typed

LEMMA PumpBeginTyped == Typed /\ PumpBegin => Typed'
<1> SUFFICES ASSUME Typed, PumpBegin PROVE Typed'
  OBVIOUS
<1>1. Head(agenda) \in Limiter /\ agenda' \in Seq(Limiter)
  BY HeadTailProperties DEF PumpBegin, Idle, Typed, TypeOK
<1>2. waiters' \subseteq Request
  BY DEF PumpBegin, Typed, TypeOK
<1>3. future' \in [Request -> {"none", "pending", "result", "error", "cancelled"}]
  BY DEF PumpBegin, Typed, TypeOK
<1>4. deadlines' \subseteq Nat
  BY DEF PumpBegin, Typed, TypeOK, Waiting
<1>5. timer' \in [Limiter -> Nat]
  BY <1>1 DEF PumpBegin, Typed, TypeOK
<1>6. UNCHANGED <<clockVars, gateVars, sharedVars, ticket, call, sequence>>
  BY DEF PumpBegin
<1>7. TypeOK'
  BY <1>1, <1>2, <1>3, <1>4, <1>5, <1>6
     DEF Typed, TypeOK, clockVars, gateVars, sharedVars
<1> QED
  BY <1>6, <1>7, PastUnchanged DEF clockVars, Typed

LEMMA PumpAdmitTyped == Typed /\ PumpAdmit => Typed'
<1> SUFFICES ASSUME Typed, PumpAdmit PROVE Typed'
  OBVIOUS
<1>1. PICK r \in Waiting(Head(agenda)) :
          /\ waiters' = waiters \ {r}
          /\ future' = [future EXCEPT ![r] = "result"]
          /\ Admit(r)
  BY DEF PumpAdmit
<1>2. r \in Request
  BY DEF Waiting, Typed, TypeOK
<1>3. UNCHANGED <<clockVars, sharedVars, pumpVars, ticket, call, sequence>>
  BY DEF PumpAdmit
<1>4. /\ DOMAIN gate' = Gate
      /\ \A g \in Gate : IsGate(gate[g], Request)'
      /\ admittedAt' \in [Request -> Nat \cup {Never}]
      /\ interactiveAdmissions' \in [Limiter -> Nat]
      /\ Past'
  BY <1>1, <1>2, <1>3, AdmitTyped DEF clockVars
<1>5. TypeOK'
  BY <1>1, <1>2, <1>3, <1>4 DEF Typed, TypeOK, clockVars, sharedVars, pumpVars
<1> QED
  BY <1>4, <1>5 DEF Typed

(* A waiter the pump must leave has an instant ahead to wake it. *)
LEMMA BlockedUntilIsAhead ==
    ASSUME Typed, NEW r \in Request, ~Clear(r)
    PROVE  BlockedUntil(r) \in Nat /\ BlockedUntil(r) > now
<1> DEFINE suppressed == {g \in GatesFor(r) : IsSuppressed(gate[g], now)}
           full == {g \in GatesFor(r) : ~CapacityAvailable(gate[g], admittedAt, now)}
           ends == {gate[g].suppressedUntil : g \in suppressed}
           frees == {NextAvailable(gate[g], admittedAt, now) : g \in full}
<1>1. /\ now \in Nat /\ providerUntil \in Nat /\ Window \in Nat
      /\ \A g \in GatesFor(r) : IsGate(gate[g], Request)
  BY GatesOfRequest, WindowAssumption DEF Typed, TypeOK
<1>2. \A g \in GatesFor(r) : gate[g].suppressedUntil \in Nat
  BY <1>1 DEF IsGate
<1>3. BlockedUntil(r) = IF now < providerUntil THEN providerUntil
                        ELSE IF suppressed # {} THEN Max(ends) ELSE Max(frees)
  BY DEF BlockedUntil
<1>4. CASE now < providerUntil
  BY <1>1, <1>3, <1>4
<1>5. CASE ~ (now < providerUntil) /\ suppressed # {}
  <2>1. ends \in SUBSET Nat /\ ends # {}
    BY <1>2, <1>5
  <2>2. \A x \in ends : x > now
    BY DEF IsSuppressed
  <2>3. PICK bound \in Nat : \A x \in ends : x <= bound
    <3> DEFINE p == gate[AccountGate(Owner[r])].suppressedUntil
               q == gate[IpGate].suppressedUntil
    <3>1. p \in Nat /\ q \in Nat
      BY <1>2 DEF GatesFor
    <3>2. \A x \in ends : x = p \/ x = q
      BY DEF GatesFor
    <3> HIDE DEF p, q, ends
    <3>3. p + q \in Nat /\ \A x \in ends : x <= p + q
      BY <3>1, <3>2
    <3> QED
      BY <3>3
  <2>4. Max(ends) \in ends
    <3> HIDE DEF ends
    <3> QED
      BY <2>1, <2>3, MaxOfNaturals
  <2> QED
    BY <1>3, <1>5, <2>1, <2>2, <2>4
<1>6. CASE ~ (now < providerUntil) /\ suppressed = {}
  <2>1. full # {}
    BY <1>1, <1>6 DEF Clear
  <2>2. ASSUME NEW g \in full
        PROVE  /\ NextAvailable(gate[g], admittedAt, now) \in Nat
               /\ NextAvailable(gate[g], admittedAt, now) > now
               /\ NextAvailable(gate[g], admittedAt, now) <= now + Window
    <3>1. g \in Gate /\ IsGate(gate[g], Request)
      BY <1>1, GatesOfRequest
    <3>2. \A q \in gate[g].admissions : admittedAt[q] \in Nat /\ admittedAt[q] <= now
      BY <3>1 DEF Typed, TypeOK, Past, IsGate
    <3>3. \A e \in gate[g].synthetic : e.at <= now
      BY <3>1 DEF Typed, Past
    <3> QED
      BY <1>1, <3>1, <3>2, <3>3, NextAvailableIsAhead
  <2>3. frees \in SUBSET Nat /\ frees # {}
    BY <2>1, <2>2
  <2>4. \A x \in frees : x > now /\ x <= now + Window
    BY <2>2
  <2>5. now + Window \in Nat
    BY <1>1
  <2>6. Max(frees) \in frees
    <3> HIDE DEF frees
    <3> QED
      BY <2>3, <2>4, <2>5, MaxOfNaturals
  <2> QED
    BY <1>3, <1>6, <2>3, <2>4, <2>6
<1> QED
  BY <1>4, <1>5, <1>6

LEMMA PumpArmTyped == Typed /\ PumpArm => Typed'
<1> SUFFICES ASSUME Typed, PumpArm PROVE Typed'
  OBVIOUS
<1> DEFINE l == Head(agenda)
<1>1. l \in Limiter /\ agenda' \in Seq(Limiter)
  BY HeadTailProperties DEF PumpArm, Idle, Typed, TypeOK
<1>2. Waiting(l) # {} => Min(Wakeups(l)) \in Nat
  <2>1. SUFFICES ASSUME Waiting(l) # {} PROVE Min(Wakeups(l)) \in Nat
    OBVIOUS
  <2>2. \A r \in Waiting(l) : BlockedUntil(r) \in Nat
    BY BlockedUntilIsAhead DEF PumpArm, Waiting, Typed, TypeOK
  <2>3. Wakeups(l) \in SUBSET Nat /\ Wakeups(l) # {}
    <3>1. deadlines \subseteq Nat
      BY DEF Typed, TypeOK
    <3> HIDE DEF l
    <3> QED
      BY <2>1, <2>2, <3>1 DEF Wakeups
  <2> QED
    BY <2>3, MinOfNaturals
<1>3. timer' = [timer EXCEPT ![l] = IF Waiting(l) = {} THEN 0 ELSE Min(Wakeups(l))]
  BY DEF PumpArm
<1> HIDE DEF l
<1>4. timer' \in [Limiter -> Nat]
  BY <1>1, <1>2, <1>3 DEF Typed, TypeOK
<1>5. deadlines' = {} /\ UNCHANGED <<clockVars, queueVars, gateVars, sharedVars>>
  BY DEF PumpArm
<1>6. TypeOK'
  BY <1>1, <1>4, <1>5 DEF Typed, TypeOK, clockVars, queueVars, gateVars, sharedVars
<1> QED
  BY <1>5, <1>6, PastUnchanged DEF clockVars, Typed

LEMMA SuppressionDelayIsPositive ==
    ASSUME NEW offset \in Int
    PROVE  SuppressionDelay(offset) \in Nat \ {0}
<1>1. DefaultSuppression \in Nat \ {0} /\ MaxSuppression \in Nat \ {0}
  BY LimiterAssumption
<1>2. CASE offset <= 0
  BY <1>1, <1>2 DEF SuppressionDelay
<1>3. CASE offset > 0
  <2>1. {offset, MaxSuppression} \in SUBSET Nat
    BY <1>1, <1>3
  <2>2. Min({offset, MaxSuppression}) \in {offset, MaxSuppression}
    BY <2>1, MinOfNaturals
  <2>3. SuppressionDelay(offset) = Min({offset, MaxSuppression})
    BY <1>3 DEF SuppressionDelay
  <2> HIDE DEF SuppressionDelay
  <2> QED
    BY <1>1, <1>3, <2>2, <2>3
<1> QED
  BY <1>2, <1>3

(* Suppressing and reconciling a gate. *)
LEMMA NotedGate ==
    ASSUME Typed, NEW g \in Gate, NEW until \in Nat, NEW limit \in Int,
           NEW remaining \in Int
    PROVE  LET noted == Reconcile(SuppressUntil(gate[g], until),
                                  admittedAt, now, limit, remaining)
           IN  /\ IsGate(noted, Request)
               /\ noted.admissions = gate[g].admissions
               /\ noted.configured = gate[g].configured
               /\ noted.createdAt = gate[g].createdAt
               /\ noted.suppressedUntil >= until
               /\ noted.suppressedUntil >= gate[g].suppressedUntil
               /\ \A e \in noted.synthetic : e.at <= now
<1> DEFINE h == SuppressUntil(gate[g], until)
           noted == Reconcile(h, admittedAt, now, limit, remaining)
<1>1. now \in Nat /\ IsGate(gate[g], Request)
  BY DEF Typed, TypeOK
<1>2. /\ IsGate(h, Request)
      /\ h.admissions = gate[g].admissions
      /\ h.suppressedUntil >= until
      /\ h.suppressedUntil >= gate[g].suppressedUntil
  BY <1>1, SuppressUntilKeepsGate
<1>3. /\ h.createdAt = gate[g].createdAt /\ h.synthetic = gate[g].synthetic
      /\ h.configured = gate[g].configured
  BY <1>1 DEF SuppressUntil, IsGate
<1> HIDE DEF h
<1>4. /\ IsGate(noted, Request)
      /\ noted.admissions = h.admissions
      /\ noted.suppressedUntil = h.suppressedUntil
      /\ noted.configured = h.configured
      /\ noted.createdAt = h.createdAt
      /\ \A e \in noted.synthetic : e \in h.synthetic \/ e.at = now
  BY <1>1, <1>2, ReconcileKeepsGate
<1>5. \A e \in noted.synthetic : e.at <= now
  BY <1>1, <1>3, <1>4 DEF Typed, Past
<1> QED
  BY <1>2, <1>3, <1>4, <1>5 DEF h

(* What a 429 does to each gate. *)
LEMMA NotedGates ==
    ASSUME Typed, NEW r \in Request, NEW counter, NEW offset \in RetryOffsets,
           NEW limit \in Limits, NEW remaining \in Remainings,
           NoteRateLimited(r, counter, offset, limit, remaining), NEW g \in Gate
    PROVE  /\ DOMAIN gate' = Gate
           /\ IsGate(gate'[g], Request)
           /\ gate'[g].admissions = gate[g].admissions
           /\ gate'[g].configured = gate[g].configured
           /\ gate'[g].createdAt = gate[g].createdAt
           /\ gate'[g].suppressedUntil >= gate[g].suppressedUntil
           /\ g \in Targets(r, counter)
                 => gate'[g].suppressedUntil >= now + SuppressionDelay(offset)
           /\ \A e \in gate'[g].synthetic : e.at <= now
<1> DEFINE until == now + SuppressionDelay(offset)
           noted(h) == Reconcile(SuppressUntil(gate[h], until),
                                 admittedAt, now, limit, remaining)
<1>1. limit \in Int /\ remaining \in Int /\ until \in Nat
  <2>1. offset \in Int /\ limit \in Int /\ remaining \in Int
    BY LimiterAssumption
  <2>2. SuppressionDelay(offset) \in Nat \ {0}
    BY <2>1, SuppressionDelayIsPositive
  <2>3. now \in Nat
    BY DEF Typed, TypeOK
  <2> QED
    BY <2>1, <2>2, <2>3
<1>2. gate' = [h \in Gate |-> IF h \in Targets(r, counter) THEN noted(h) ELSE gate[h]]
  BY Zenon DEF NoteRateLimited
<1>3. /\ IsGate(noted(g), Request)
      /\ noted(g).admissions = gate[g].admissions
      /\ noted(g).configured = gate[g].configured
      /\ noted(g).createdAt = gate[g].createdAt
      /\ noted(g).suppressedUntil >= gate[g].suppressedUntil
      /\ noted(g).suppressedUntil >= until
      /\ \A e \in noted(g).synthetic : e.at <= now
  BY <1>1, NotedGate
<1>4. IsGate(gate[g], Request) /\ \A e \in gate[g].synthetic : e.at <= now
  BY DEF Typed, TypeOK, Past
<1>5. gate[g].suppressedUntil \in Nat
  BY <1>4 DEF IsGate
<1> HIDE DEF noted
<1> QED
  BY <1>2, <1>3, <1>4, <1>5

LEMMA NoteRateLimitedTyped ==
    ASSUME Typed, NEW r \in Request, NEW counter, NEW offset \in RetryOffsets,
           NEW limit \in Limits, NEW remaining \in Remainings,
           NoteRateLimited(r, counter, offset, limit, remaining)
    PROVE  Typed'
<1> DEFINE l == Owner[r]
           until == now + SuppressionDelay(offset)
           targets == Targets(r, counter)
           noted(g) == Reconcile(SuppressUntil(gate[g], until),
                                 admittedAt, now, limit, remaining)
           woken(g) == IF noted(g) = gate[g] \/ g \notin targets THEN <<>>
                       ELSE Listeners(g)
<1>1. l \in Limiter /\ targets \subseteq Gate
  BY GatesOfRequest DEF Targets
<1>2. now \in Nat /\ until \in Nat
  <2>1. SuppressionDelay(offset) \in Nat \ {0}
    BY LimiterAssumption, SuppressionDelayIsPositive
  <2>2. now \in Nat
    BY DEF Typed, TypeOK
  <2> QED
    BY <2>1, <2>2
<1>3. /\ call' = [call EXCEPT ![r] = "refused"]
      /\ told' = told \cup {[gates |-> targets, until |-> until]}
      /\ agenda' = woken(AccountGate(l)) \o woken(IpGate) \o <<l>>
      /\ UNCHANGED <<now, admittedAt, interactiveAdmissions, sharedVars,
                     waiters, ticket, future, sequence, timer, deadlines>>
  BY Zenon DEF NoteRateLimited
<1>4. agenda' \in Seq(Limiter)
  <2>1. \A g \in Gate : woken(g) \in Seq(Limiter)
    BY EmptySeq, ListenersAreLimiters
  <2>2. <<l>> \in Seq(Limiter)
    BY <1>1
  <2>3. AccountGate(l) \in Gate /\ IpGate \in Gate
    BY <1>1 DEF Gate
  <2> HIDE DEF woken, l
  <2> QED
    BY <1>3, <2>1, <2>2, <2>3, ConcatProperties
<1> HIDE DEF targets, until, noted, woken
<1>5. IpGate \in Gate
  BY DEF Gate
<1>6. DOMAIN gate' = Gate /\ \A g \in Gate : IsGate(gate'[g], Request)
  BY <1>5, NotedGates
<1>7. told' \subseteq [gates : SUBSET Gate, until : Nat]
  BY <1>1, <1>2, <1>3 DEF Typed, TypeOK
<1>8. TypeOK'
  BY <1>3, <1>4, <1>6, <1>7 DEF Typed, TypeOK, sharedVars
<1>9. \A g \in Gate : /\ gate'[g].admissions = gate[g].admissions
                     /\ gate'[g].createdAt = gate[g].createdAt
                     /\ \A e \in gate'[g].synthetic : e.at <= now
  BY NotedGates
<1>10. Past'
  BY <1>3, <1>9 DEF Typed, Past
<1> QED
  BY <1>8, <1>10 DEF Typed

LEMMA NoteProviderLimitedTyped ==
    ASSUME Typed, NEW r \in Request, NEW offset \in RetryOffsets,
           NoteProviderLimited(r, offset)
    PROVE  Typed'
<1> DEFINE until == now + SuppressionDelay(offset)
<1>1. now \in Nat /\ until \in Nat
  <2>1. offset \in Int
    BY LimiterAssumption
  <2>2. SuppressionDelay(offset) \in Nat \ {0}
    BY <2>1, SuppressionDelayIsPositive
  <2>3. now \in Nat
    BY DEF Typed, TypeOK
  <2> QED
    BY <2>2, <2>3
<1>2. /\ call' = [call EXCEPT ![r] = "refused"]
      /\ providerUntil' = IF until <= providerUntil THEN providerUntil ELSE until
      /\ told' = told \cup {[gates |-> Gate, until |-> until]}
      /\ agenda' = IF until <= providerUntil THEN <<>> ELSE attached
      /\ UNCHANGED <<now, gateVars, phase, attached, waiters, ticket, future, sequence,
                     timer, deadlines>>
  BY Zenon DEF NoteProviderLimited
<1> HIDE DEF until
<1>3. agenda' \in Seq(Limiter)
  BY <1>2, EmptySeq DEF Typed, TypeOK
<1>4. told' \subseteq [gates : SUBSET Gate, until : Nat]
  BY <1>1, <1>2 DEF Typed, TypeOK
<1>5. TypeOK'
  BY <1>1, <1>2, <1>3, <1>4 DEF Typed, TypeOK, gateVars
<1> QED
  BY <1>2, <1>5, PastUnchanged DEF Typed

(* What new budgets do to each gate. *)
LEMMA ConfiguredGates ==
    ASSUME Typed, NEW l \in Limiter, NEW accountBudget \in Budgets,
           NEW ipBudget \in Budgets, Configure(l, accountBudget, ipBudget),
           NEW g \in Gate
    PROVE  /\ DOMAIN gate' = Gate
           /\ IsGate(gate'[g], Request)
           /\ gate'[g].admissions = gate[g].admissions
           /\ gate'[g].createdAt = gate[g].createdAt
           /\ gate'[g].suppressedUntil = gate[g].suppressedUntil
           /\ \A e \in gate'[g].synthetic : e.at <= now
<1>1. /\ accountBudget \in 1..MaxBudget /\ ipBudget \in 1..MaxBudget
      /\ AccountGate(l) # IpGate /\ AccountGate(l) \in Gate /\ IpGate \in Gate
  BY LimiterAssumption DEF AccountGate, IpGate, Gate
<1>2. DOMAIN gate = Gate
  BY DEF Typed, TypeOK
<1>3. gate' = [gate EXCEPT ![AccountGate(l)] = Reconfigure(@, accountBudget),
                           ![IpGate] = Reconfigure(@, ipBudget)]
  BY DEF Configure
<1>4. gate'[g] = IF g = AccountGate(l) THEN Reconfigure(gate[g], accountBudget)
                 ELSE IF g = IpGate THEN Reconfigure(gate[g], ipBudget)
                 ELSE gate[g]
  BY <1>1, <1>2, <1>3
<1>5. /\ IsGate(gate[g], Request) /\ gate[g].createdAt <= now
      /\ \A e \in gate[g].synthetic : e.at <= now
  BY DEF Typed, TypeOK, Past
<1>6. ASSUME NEW budget \in 1..MaxBudget
      PROVE  /\ IsGate(Reconfigure(gate[g], budget), Request)
             /\ Reconfigure(gate[g], budget).admissions = gate[g].admissions
             /\ Reconfigure(gate[g], budget).createdAt = gate[g].createdAt
             /\ Reconfigure(gate[g], budget).suppressedUntil = gate[g].suppressedUntil
             /\ \A e \in Reconfigure(gate[g], budget).synthetic : e.at <= now
  BY <1>5, ReconfigureKeepsGate
<1> QED
  BY <1>1, <1>2, <1>3, <1>4, <1>5, <1>6

LEMMA ConfigureTyped ==
    ASSUME Typed, NEW l \in Limiter, NEW accountBudget \in Budgets,
           NEW ipBudget \in Budgets, Configure(l, accountBudget, ipBudget)
    PROVE  Typed'
<1>1. /\ agenda' = Listeners(AccountGate(l)) \o Listeners(IpGate) \o <<l>>
      /\ UNCHANGED <<clockVars, queueVars, admittedAt, interactiveAdmissions,
                     sharedVars, timer, deadlines>>
  BY DEF Configure
<1>2. agenda' \in Seq(Limiter)
  <2>1. /\ <<l>> \in Seq(Limiter) /\ Listeners(AccountGate(l)) \in Seq(Limiter)
        /\ Listeners(IpGate) \in Seq(Limiter)
    BY ListenersAreLimiters DEF Gate
  <2> QED
    BY <1>1, <2>1, ConcatProperties
<1>3. IpGate \in Gate
  BY DEF Gate
<1>4. DOMAIN gate' = Gate /\ \A g \in Gate : IsGate(gate'[g], Request)
  BY <1>3, ConfiguredGates
<1>5. TypeOK'
  BY <1>1, <1>2, <1>4 DEF Typed, TypeOK, clockVars, queueVars, sharedVars
<1>6. \A g \in Gate : /\ gate'[g].admissions = gate[g].admissions
                     /\ gate'[g].createdAt = gate[g].createdAt
                     /\ \A e \in gate'[g].synthetic : e.at <= now
  BY ConfiguredGates
<1>7. Past'
  BY <1>1, <1>6 DEF Typed, Past, clockVars
<1> QED
  BY <1>5, <1>7 DEF Typed

LEMMA CloseTyped ==
    ASSUME Typed, NEW l \in Limiter, Close(l)
    PROVE  Typed'
<1>1. attached' \in Seq(Limiter)
  <2>1. PICK i \in DOMAIN attached : attached' = RemoveAt(attached, i)
    BY DEF Close
  <2>2. attached \in Seq(Limiter) /\ DOMAIN attached = 1..Len(attached)
        /\ Len(attached) \in Nat /\ i \in 1..Len(attached)
    BY <2>1, LenProperties DEF Typed, TypeOK
  <2>3. \A j \in 1..Len(attached) : attached[j] \in Limiter
    BY <2>2, ElementOfSeq
  <2>4. SubSeq(attached, 1, i - 1) \in Seq(Limiter)
    BY <2>2, <2>3, SubSeqProperties
  <2>5. SubSeq(attached, i + 1, Len(attached)) \in Seq(Limiter)
    BY <2>2, <2>3, SubSeqProperties
  <2> QED
    BY <2>1, <2>4, <2>5, ConcatProperties DEF RemoveAt
<1>2. /\ phase' \in [Limiter -> {"new", "open", "closed"}]
      /\ timer' \in [Limiter -> Nat]
      /\ waiters' \subseteq Request
      /\ future' \in [Request -> {"none", "pending", "result", "error", "cancelled"}]
  BY DEF Close, Typed, TypeOK
<1>3. UNCHANGED <<clockVars, gateVars, providerUntil, ticket, call, sequence,
                  agenda, deadlines>>
  BY DEF Close
<1>4. TypeOK'
  BY <1>1, <1>2, <1>3 DEF Typed, TypeOK, clockVars, gateVars
<1> QED
  BY <1>3, <1>4, PastUnchanged DEF clockVars, Typed
-----------------------------------------------------------------------------
LEMMA StepTyped == Typed /\ [Next]_vars => Typed'
<1> SUFFICES ASSUME Typed, [Next]_vars PROVE Typed'
  OBVIOUS
<1> USE DEF clockVars, queueVars, gateVars, sharedVars, pumpVars
<1>1. CASE Tick
  BY <1>1, TickTyped
<1>2. CASE Pump
  BY <1>2, PumpBeginTyped, PumpAdmitTyped, PumpArmTyped DEF Pump
<1>3. ASSUME NEW r \in Request, Acquire(r) PROVE Typed'
  <2>1. CASE AcquireClosed(r)
    BY <2>1, PastUnchanged DEF AcquireClosed, Typed, TypeOK
  <2>2. ASSUME NEW left \in Patience, AcquireAtOnce(r, left) PROVE Typed'
    <3>1. left \in Nat /\ now \in Nat
      BY LimiterAssumption DEF Typed, TypeOK
    <3>2. ticket' \in [Request -> [sequence : Nat, queuedAt : Nat, deadline : Nat,
                                 overtakenBase : Nat]]
      <4>1. ticket' = [ticket EXCEPT ![r].deadline = now + left]
        BY <2>2 DEF AcquireAtOnce
      <4>2. now + left \in Nat
        BY <3>1
      <4>3. ticket \in [Request -> [sequence : Nat, queuedAt : Nat, deadline : Nat,
                                    overtakenBase : Nat]]
        BY DEF Typed, TypeOK
      <4> DEFINE new == [ticket[r] EXCEPT !.deadline = now + left]
      <4>4. new \in [sequence : Nat, queuedAt : Nat, deadline : Nat, overtakenBase : Nat]
        BY <4>2, <4>3
      <4>5. ticket' = [ticket EXCEPT ![r] = new]
        BY <4>1, Zenon
      <4> HIDE DEF new
      <4> QED
        BY <4>3, <4>4, <4>5
    <3>3. Admit(r) /\ now' = now
      BY <2>2 DEF AcquireAtOnce
    <3>4. /\ DOMAIN gate' = Gate
          /\ \A g \in Gate : IsGate(gate[g], Request)'
          /\ admittedAt' \in [Request -> Nat \cup {Never}]
          /\ interactiveAdmissions' \in [Limiter -> Nat]
          /\ Past'
      BY <3>3, AdmitTyped
    <3>5. TypeOK'
      BY <2>2, <3>2, <3>4 DEF AcquireAtOnce, Typed, TypeOK
    <3> QED
      BY <3>4, <3>5 DEF Typed
  <2>3. CASE AcquireExpired(r)
    BY <2>3, PastUnchanged DEF AcquireExpired, Typed, TypeOK
  <2>4. ASSUME NEW left \in Patience, Enqueue(r, left) PROVE Typed'
    BY <2>4, EnqueueTyped
  <2> QED
    BY <1>3, <2>1, <2>2, <2>3, <2>4 DEF Acquire
<1>4. ASSUME NEW r \in Request, Resume(r) PROVE Typed'
  <2>1. TypeOK'
    BY <1>4 DEF Resume, Typed, TypeOK, NoTicket
  <2> QED
    BY <1>4, <2>1, PastUnchanged DEF Resume, Typed
<1>5. ASSUME NEW r \in Request, Cancel(r) PROVE Typed'
  <2>1. TypeOK'
    BY <1>5 DEF Cancel, Typed, TypeOK
  <2> QED
    BY <1>5, <2>1, PastUnchanged DEF Cancel, Typed
<1>6. ASSUME NEW r \in Request, ResumeCancelled(r) PROVE Typed'
  <2>1. TypeOK'
    BY <1>6, GatesOfRequest DEF ResumeCancelled, Typed, TypeOK, NoTicket
  <2> QED
    BY <1>6, <2>1, PastUnchanged DEF ResumeCancelled, Typed
<1>7. ASSUME NEW r \in Request, Refused(r) PROVE Typed'
  BY <1>7, NoteProviderLimitedTyped, NoteRateLimitedTyped DEF Refused
<1>8. ASSUME NEW l \in Limiter, Open(l) PROVE Typed'
  BY <1>8, OpenTyped
<1>9. ASSUME NEW l \in Limiter, NEW accountBudget \in Budgets, NEW ipBudget \in Budgets,
             Configure(l, accountBudget, ipBudget)
      PROVE  Typed'
  BY <1>9, ConfigureTyped
<1>10. ASSUME NEW l \in Limiter, FireTimer(l) PROVE Typed'
  <2>1. TypeOK'
    BY <1>10 DEF FireTimer, Typed, TypeOK
  <2> QED
    BY <1>10, <2>1, PastUnchanged DEF FireTimer, Typed
<1>11. ASSUME NEW l \in Limiter, Close(l) PROVE Typed'
  BY <1>11, CloseTyped
<1>12. CASE UNCHANGED vars
  BY <1>12, PastUnchanged DEF vars, Typed, TypeOK
<1> QED
  BY <1>1, <1>2, <1>3, <1>4, <1>5, <1>6, <1>7, <1>8, <1>9, <1>10, <1>11, <1>12
     DEF Next, Horizon

(* Every variable keeps its type, and every gate its shape. *)
THEOREM TypeCorrect == Spec => []TypeOK
<1>1. Init => Typed
  BY InitFresh, FreshTyped
<1>2. Typed /\ [Next]_vars => Typed'
  BY StepTyped
<1>3. Typed => TypeOK
  BY DEF Typed
<1> QED
  BY <1>1, <1>2, <1>3, PTL DEF Spec
-----------------------------------------------------------------------------

Created(g) == IF g = IpGate THEN \E l \in Limiter : phase[l] # "new"
              ELSE \E l \in Limiter : g = AccountGate(l) /\ phase[l] # "new"

Charged ==
    /\ \A g \in Gate : InLastWindow(g) \subseteq gate[g].admissions
    /\ \A g \in Gate : \A r \in gate[g].admissions : g \in GatesFor(r)
    /\ \A r \in waiters : phase[Owner[r]] = "open"
    /\ \A r \in Request : phase[Owner[r]] = "new" => admittedAt[r] = Never

Silenced ==
    \A order \in told :
        /\ order.until > now
        /\ \/ order.until <= providerUntil
           \/ \A g \in order.gates : Created(g) /\ order.until <= gate[g].suppressedUntil

(* How far a caller has got, what its future holds, whether it queues and  *)
(* whether it was admitted.                                                *)
CallerConsistent(r) ==
    /\ r \in waiters => future[r] \in {"pending", "cancelled"}
    /\ future[r] = "pending" => call[r] = "waiting" /\ r \in waiters
    /\ call[r] = "idle" => future[r] = "none"
    /\ call[r] = "waiting" => future[r] \in {"pending", "result", "error"}
    /\ call[r] = "cancelling" => future[r] \in {"cancelled", "result", "error"}
    /\ call[r] = "cancelled" => /\ future[r] \in {"cancelled", "result", "error"}
                                /\ r \notin waiters
    /\ call[r] = "failed" => future[r] \in {"none", "error"}
    /\ call[r] \in {"sent", "refused"} => future[r] \in {"none", "result"}
    /\ admittedAt[r] # Never <=> future[r] = "result" \/ call[r] \in {"sent", "refused"}

Callers == \A r \in Request : CallerConsistent(r)

(* Once the running pump has resolved the expired, everyone it may admit   *)
(* still awaits a pending future and has time left.                        *)
Pumping ==
    deadlines # {} =>
        /\ ~Idle
        /\ \A d \in deadlines : d > now
        /\ \A r \in Waiting(Head(agenda)) :
               future[r] = "pending" /\ ticket[r].deadline \in deadlines

(* What a step does to the gates and to those who ask them. *)
Admission(r) ==
    /\ Clear(r) /\ Admit(r)
    /\ \/ deadlines # {} /\ r \in Waiting(Head(agenda))
       \/ r \notin waiters /\ call[r] = "idle" /\ phase[Owner[r]] = "open"
    /\ waiters' \subseteq waiters
    /\ UNCHANGED <<clockVars, sharedVars>>

LEMMA StepKinds ==
    ASSUME Typed, [Next]_vars
    PROVE  \/ Tick
           \/ \E r \in Request : Admission(r) \/ Refused(r)
           \/ \E r \in Request : \E left \in Patience : Enqueue(r, left)
           \/ \E l \in Limiter : Open(l) \/ Close(l)
           \/ \E l \in Limiter : \E accountBudget \in Budgets, ipBudget \in Budgets :
                  Configure(l, accountBudget, ipBudget)
           \/ /\ UNCHANGED <<clockVars, gateVars, sharedVars>>
              /\ waiters' \subseteq waiters
<1> DEFINE Quiet == /\ UNCHANGED <<clockVars, gateVars, sharedVars>>
                    /\ waiters' \subseteq waiters
<1>1. ASSUME Pump PROVE Quiet \/ \E r \in Request : Admission(r)
  <2>1. CASE PumpBegin
    BY <2>1 DEF PumpBegin
  <2>2. CASE PumpAdmit
    <3>1. PICK r \in Waiting(Head(agenda)) :
              Clear(r) /\ waiters' = waiters \ {r} /\ Admit(r)
      BY <2>2 DEF PumpAdmit
    <3>2. r \in Request /\ r \in waiters
      BY DEF Waiting, Typed, TypeOK
    <3> QED
      BY <2>2, <3>1, <3>2 DEF PumpAdmit, Admission
  <2>3. CASE PumpArm
    BY <2>3 DEF PumpArm, queueVars
  <2> QED
    BY <1>1, <2>1, <2>2, <2>3 DEF Pump
<1>2. ASSUME NEW r \in Request, Acquire(r)
      PROVE  Quiet \/ Admission(r) \/ \E left \in Patience : Enqueue(r, left)
  BY <1>2 DEF Acquire, AcquireClosed, AcquireAtOnce, AcquireExpired, Admission, CanAdmitNow,
              Waiting
<1>3. ASSUME NEW r \in Request, Resume(r) \/ Cancel(r) \/ ResumeCancelled(r)
      PROVE  Quiet
  BY <1>3 DEF Resume, Cancel, ResumeCancelled
<1>4. ASSUME NEW l \in Limiter, FireTimer(l) PROVE Quiet
  BY <1>4 DEF FireTimer, queueVars
<1>5. ASSUME UNCHANGED vars PROVE Quiet
  BY <1>5 DEF vars, queueVars
<1> HIDE DEF Quiet
<1>6. ASSUME Next
      PROVE  \/ Tick
             \/ \E r \in Request : Admission(r) \/ Refused(r)
             \/ \E r \in Request : \E left \in Patience : Enqueue(r, left)
             \/ \E l \in Limiter : Open(l) \/ Close(l)
             \/ \E l \in Limiter : \E accountBudget \in Budgets, ipBudget \in Budgets :
                    Configure(l, accountBudget, ipBudget)
             \/ Quiet
  BY <1>1, <1>2, <1>3, <1>4, <1>5, <1>6, Zenon DEF Next, Horizon
<1> QED
  BY <1>5, <1>6 DEF Quiet

(* What an admission does to each gate. *)
LEMMA AdmittedGates ==
    ASSUME Typed, NEW r \in Request, Admit(r), NEW g \in Gate
    PROVE  /\ gate'[g].suppressedUntil = gate[g].suppressedUntil
           /\ gate'[g].admissions = IF g \in GatesFor(r)
                                    THEN Admitted(gate[g], admittedAt, now) \cup {r}
                                    ELSE gate[g].admissions
           /\ admittedAt' = [admittedAt EXCEPT ![r] = now]
<1>1. gate'[g] = IF g \in GatesFor(r) THEN Record(gate[g], r, admittedAt, now)
                 ELSE gate[g]
  BY DEF Admit
<1>2. IsGate(gate[g], Request)
  BY DEF Typed, TypeOK
<1>3. /\ Record(gate[g], r, admittedAt, now).suppressedUntil = gate[g].suppressedUntil
      /\ Record(gate[g], r, admittedAt, now).admissions
             = Admitted(gate[g], admittedAt, now) \cup {r}
  BY <1>2 DEF IsGate, Record
<1> QED
  BY <1>1, <1>3 DEF Admit

(* A 429 changes neither the admissions, nor who queues, nor who is open. *)
LEMMA RefusedKeeps ==
    ASSUME Typed, NEW r \in Request, Refused(r)
    PROVE  /\ UNCHANGED <<now, admittedAt, phase, attached, waiters>>
           /\ \A g \in Gate : /\ gate'[g].admissions = gate[g].admissions
                              /\ gate'[g].configured = gate[g].configured
                              /\ gate'[g].suppressedUntil >= gate[g].suppressedUntil
<1>1. ASSUME NEW offset \in RetryOffsets, NoteProviderLimited(r, offset)
      PROVE  /\ UNCHANGED <<now, admittedAt, phase, attached, waiters>>
             /\ gate' = gate
  BY <1>1 DEF NoteProviderLimited, gateVars
<1>2. ASSUME NEW offset \in RetryOffsets, NEW counter, NEW limit \in Limits,
             NEW remaining \in Remainings,
             NoteRateLimited(r, counter, offset, limit, remaining)
      PROVE  UNCHANGED <<now, admittedAt, phase, attached, waiters>>
  BY <1>2 DEF NoteRateLimited, sharedVars
<1>3. \A g \in Gate : gate[g].suppressedUntil \in Nat
  BY DEF Typed, TypeOK, IsGate
<1>4. CASE \E offset \in RetryOffsets : NoteProviderLimited(r, offset)
  BY <1>1, <1>3, <1>4
<1>5. ASSUME NEW offset \in RetryOffsets, NEW counter, NEW limit \in Limits,
             NEW remaining \in Remainings,
             NoteRateLimited(r, counter, offset, limit, remaining)
      PROVE  \A g \in Gate : /\ gate'[g].admissions = gate[g].admissions
                             /\ gate'[g].configured = gate[g].configured
                             /\ gate'[g].suppressedUntil >= gate[g].suppressedUntil
  BY <1>5, NotedGates
<1> QED
  BY <1>2, <1>4, <1>5 DEF Refused
-----------------------------------------------------------------------------
(* A gate that reports room has fewer real admissions in its window than   *)
(* its budget, and so than the operator's.                                 *)
LEMMA RoomInWindow ==
    ASSUME Typed, Charged, NEW g \in Gate, CapacityAvailable(gate[g], admittedAt, now)
    PROVE  /\ IsFiniteSet(InLastWindow(g))
           /\ Cardinality(InLastWindow(g)) \in Nat
           /\ Cardinality(InLastWindow(g)) < gate[g].configured
           /\ Cardinality(InLastWindow(g)) < MaxBudget
<1> DEFINE real == Admitted(gate[g], admittedAt, now)
           held == Synthetic(gate[g], now)
<1>1. IsGate(gate[g], Request) /\ now \in Nat
  BY DEF Typed, TypeOK
<1>2. InLastWindow(g) \in SUBSET real
  BY DEF Charged, InLastWindow, Admitted
<1>3. /\ IsFiniteSet(real) /\ Cardinality(real) \in Nat /\ Cardinality(held) \in Nat
      /\ Cardinality(real) + Cardinality(held) < gate[g].budget
  BY <1>1, InWindowIsNatural DEF CapacityAvailable, InWindow
<1>4. /\ IsFiniteSet(InLastWindow(g)) /\ Cardinality(InLastWindow(g)) <= Cardinality(real)
      /\ Cardinality(InLastWindow(g)) \in Nat
  BY <1>2, <1>3, FS_Subset, FS_CardinalityType
<1>5. /\ gate[g].budget \in Nat /\ gate[g].configured \in Nat
      /\ gate[g].budget <= gate[g].configured /\ gate[g].configured <= MaxBudget
      /\ MaxBudget \in Nat
  BY <1>1, WindowAssumption DEF IsGate
<1> HIDE DEF real, held
<1> QED
  BY <1>3, <1>4, <1>5

LEMMA FreshCharged == Fresh => Charged
<1> SUFFICES ASSUME Fresh PROVE Charged
  OBVIOUS
<1>1. \A g \in Gate : gate[g].admissions = {}
  BY DEF Fresh, NewGate
<1> QED
  BY <1>1 DEF Fresh, Charged, InLastWindow

LEMMA ChargedStep == Typed /\ Charged /\ [Next]_vars => Charged'
<1> SUFFICES ASSUME Typed, Charged, [Next]_vars PROVE Charged'
  OBVIOUS
<1>0. /\ now \in Nat /\ Window \in Nat
      /\ \A r \in Request : admittedAt[r] \in Int /\ Owner[r] \in Limiter
  BY GatesOfRequest, WindowAssumption DEF Typed, TypeOK, Never
<1>1. CASE Tick
  <2>1. now' = now + 1 /\ UNCHANGED <<queueVars, gateVars, sharedVars>>
    BY <1>1 DEF Tick
  <2>2. \A g \in Gate : InLastWindow(g)' \subseteq InLastWindow(g)
    BY <1>0, <2>1 DEF InLastWindow, gateVars
  <2> QED
    BY <2>1, <2>2 DEF Charged, queueVars, gateVars, sharedVars
<1>2. ASSUME NEW r \in Request, Admission(r) PROVE Charged'
  <2>1. /\ Admit(r) /\ waiters' \subseteq waiters /\ UNCHANGED <<now, phase>>
        /\ phase[Owner[r]] = "open"
    BY <1>2 DEF Admission, Charged, Waiting, clockVars, sharedVars
  <2>2. admittedAt' = [admittedAt EXCEPT ![r] = now]
    BY <2>1 DEF Admit
  <2>3. ASSUME NEW g \in Gate
        PROVE  InLastWindow(g)' \subseteq gate'[g].admissions
    <3>1. InLastWindow(g)' \subseteq
              InLastWindow(g) \cup (IF g \in GatesFor(r) THEN {r} ELSE {})
      BY <1>0, <2>1, <2>2 DEF InLastWindow, Typed, TypeOK
    <3>2. InLastWindow(g) \subseteq Admitted(gate[g], admittedAt, now)
      BY DEF Charged, InLastWindow, Admitted
    <3>3. /\ gate'[g].admissions = IF g \in GatesFor(r)
                                   THEN Admitted(gate[g], admittedAt, now) \cup {r}
                                   ELSE gate[g].admissions
      BY <2>1, AdmittedGates
    <3> QED
      BY <3>1, <3>2, <3>3 DEF Admitted
  <2>4. \A q \in Request : phase'[Owner[q]] = "new" => admittedAt'[q] = Never
    BY <2>1, <2>2 DEF Charged, Typed, TypeOK
  <2>5. ASSUME NEW g \in Gate, NEW q \in gate'[g].admissions
        PROVE  g \in GatesFor(q)
    <3>1. gate'[g].admissions = IF g \in GatesFor(r)
                                THEN Admitted(gate[g], admittedAt, now) \cup {r}
                                ELSE gate[g].admissions
      BY <2>1, AdmittedGates
    <3> QED
      BY <2>5, <3>1 DEF Charged, Admitted
  <2> QED
    BY <2>1, <2>3, <2>4, <2>5 DEF Charged
<1>3. ASSUME NEW r \in Request, Refused(r) PROVE Charged'
  <2>1. /\ UNCHANGED <<now, admittedAt, phase, waiters>>
        /\ \A g \in Gate : gate'[g].admissions = gate[g].admissions
    BY <1>3, RefusedKeeps
  <2> QED
    BY <2>1 DEF Charged, InLastWindow
<1>4. ASSUME NEW r \in Request, NEW left \in Patience, Enqueue(r, left)
      PROVE  Charged'
  BY <1>4 DEF Enqueue, Charged, InLastWindow, clockVars, gateVars, sharedVars
<1>5. ASSUME NEW l \in Limiter, Open(l) PROVE Charged'
  <2>1. /\ phase[l] = "new" /\ phase' = [phase EXCEPT ![l] = "open"]
        /\ UNCHANGED <<now, admittedAt, waiters>>
    BY <1>5 DEF Open, clockVars, queueVars
  <2>2. ASSUME NEW g \in Gate
        PROVE  InLastWindow(g)' \subseteq gate'[g].admissions
    <3>1. CASE gate'[g] = gate[g]
      BY <2>1, <3>1 DEF Charged, InLastWindow
    <3>2. CASE gate'[g] # gate[g]
      <4>1. \/ g = AccountGate(l)
            \/ g = IpGate /\ \A k \in Limiter : phase[k] = "new"
        BY <1>5, <3>2 DEF Open, Typed, TypeOK
      <4>2. \A r \in Request : g \in GatesFor(r) => phase[Owner[r]] = "new"
        BY <1>0, <2>1, <4>1 DEF GatesFor, AccountGate, IpGate
      <4>3. InLastWindow(g)' = {}
        BY <2>1, <4>2 DEF Charged, InLastWindow
      <4> QED
        BY <4>3
    <3> QED
      BY <3>1, <3>2
  <2>3. ASSUME NEW g \in Gate
        PROVE  gate'[g].admissions \subseteq gate[g].admissions
    <3>1. gate'[g] = gate[g] \/ gate'[g] = NewGate(DefaultBudget, now)
      <4>1. DOMAIN gate = Gate
        BY DEF Typed, TypeOK
      <4> QED
        BY <1>5, <4>1, Zenon DEF Open
    <3> QED
      BY <3>1 DEF NewGate
  <2>4. \A g \in Gate : \A r \in gate'[g].admissions : g \in GatesFor(r)
    BY <2>3 DEF Charged
  <2> QED
    BY <1>0, <2>1, <2>2, <2>4 DEF Charged, Typed, TypeOK
<1>6. ASSUME NEW l \in Limiter, Close(l) PROVE Charged'
  <2>1. /\ phase' = [phase EXCEPT ![l] = "closed"]
        /\ waiters' = waiters \ Waiting(l)
        /\ UNCHANGED <<clockVars, gateVars>>
    BY <1>6 DEF Close
  <2> QED
    BY <1>0, <2>1 DEF Charged, InLastWindow, Waiting, Typed, TypeOK, clockVars, gateVars
<1>7. ASSUME NEW l \in Limiter, NEW accountBudget \in Budgets, NEW ipBudget \in Budgets,
             Configure(l, accountBudget, ipBudget)
      PROVE  Charged'
  <2>1. /\ UNCHANGED <<now, admittedAt, phase, waiters>>
        /\ \A g \in Gate : gate'[g].admissions = gate[g].admissions
    BY <1>7, ConfiguredGates DEF Configure, clockVars, queueVars, sharedVars
  <2> QED
    BY <2>1 DEF Charged, InLastWindow
<1>8. CASE UNCHANGED <<clockVars, gateVars, sharedVars>> /\ waiters' \subseteq waiters
  BY <1>8 DEF Charged, InLastWindow, clockVars, gateVars, sharedVars
<1> QED
  BY <1>1, <1>2, <1>3, <1>4, <1>5, <1>6, <1>7, <1>8, StepKinds

LEMMA FreshBounded == Fresh => WindowBound
<1> SUFFICES ASSUME Fresh, NEW g \in Gate PROVE Cardinality(InLastWindow(g)) <= MaxBudget
  BY DEF WindowBound
<1>1. InLastWindow(g) = {}
  BY DEF Fresh, InLastWindow
<1> QED
  BY <1>1, FS_EmptySet, WindowAssumption

LEMMA BoundStep == Typed /\ Charged /\ WindowBound /\ [Next]_vars => WindowBound'
<1> SUFFICES ASSUME Typed, Charged, WindowBound, [Next]_vars, NEW g \in Gate
             PROVE  Cardinality(InLastWindow(g)') <= MaxBudget
  BY DEF WindowBound
<1>1. /\ IsFiniteSet(InLastWindow(g)) /\ Cardinality(InLastWindow(g)) \in Nat
      /\ Cardinality(InLastWindow(g)) <= MaxBudget /\ MaxBudget \in Nat
  <2>1. IsFiniteSet(gate[g].admissions) /\ InLastWindow(g) \in SUBSET gate[g].admissions
    BY DEF Typed, TypeOK, IsGate, Charged
  <2> QED
    BY <2>1, FS_Subset, FS_CardinalityType, WindowAssumption DEF WindowBound
<1>2. ASSUME InLastWindow(g)' \subseteq InLastWindow(g)
      PROVE  Cardinality(InLastWindow(g)') <= MaxBudget
  <2> DEFINE later == InLastWindow(g)'
  <2>1. later \in SUBSET InLastWindow(g)
    BY <1>2
  <2> HIDE DEF later
  <2>2. IsFiniteSet(later) /\ Cardinality(later) <= Cardinality(InLastWindow(g))
    BY <1>1, <2>1, FS_Subset
  <2>3. Cardinality(later) \in Nat
    BY <2>2, FS_CardinalityType
  <2>4. Cardinality(later) <= MaxBudget
    BY <1>1, <2>2, <2>3
  <2> QED
    BY <2>4 DEF later
<1>3. ASSUME UNCHANGED <<now, admittedAt>>
      PROVE  InLastWindow(g)' \subseteq InLastWindow(g)
  BY <1>3 DEF InLastWindow
<1>4. CASE Tick
  <2>1. now' = now + 1 /\ admittedAt' = admittedAt
    BY <1>4 DEF Tick, gateVars
  <2>2. /\ now \in Nat /\ Window \in Nat
        /\ \A r \in Request : admittedAt[r] \in Int
    BY WindowAssumption DEF Typed, TypeOK, Never
  <2>3. InLastWindow(g)' \subseteq InLastWindow(g)
    BY <2>1, <2>2 DEF InLastWindow
  <2> QED
    BY <1>2, <2>3
<1>5. ASSUME NEW r \in Request, Admission(r)
      PROVE  Cardinality(InLastWindow(g)') <= MaxBudget
  <2>1. /\ Clear(r) /\ now' = now /\ admittedAt' = [admittedAt EXCEPT ![r] = now]
    BY <1>5 DEF Admission, Admit, clockVars
  <2>2. CASE g \in GatesFor(r)
    <3> DEFINE before == InLastWindow(g)
    <3>1. InLastWindow(g)' = before \cup {r}
      BY <2>1, <2>2, WindowAssumption DEF InLastWindow, Typed, TypeOK, Never
    <3>2. Cardinality(before) < MaxBudget
      BY <2>1, <2>2, RoomInWindow DEF Clear
    <3>3. /\ IsFiniteSet(before) /\ Cardinality(before) \in Nat /\ MaxBudget \in Nat
      BY <1>1
    <3> HIDE DEF before
    <3>4. Cardinality(before \cup {r}) <= Cardinality(before) + 1
      <4>1. Cardinality(before \cup {r})
              = IF r \in before THEN Cardinality(before) ELSE Cardinality(before) + 1
        BY <3>3, FS_AddElement
      <4> QED
        BY <3>3, <4>1
    <3>5. Cardinality(before \cup {r}) \in Nat
      BY <3>3, FS_AddElement, FS_CardinalityType
    <3>6. Cardinality(before \cup {r}) <= MaxBudget
      BY <3>2, <3>3, <3>4, <3>5
    <3> QED
      BY <3>1, <3>6
  <2>3. CASE g \notin GatesFor(r)
    <3>1. InLastWindow(g)' \subseteq InLastWindow(g)
      BY <2>1, <2>3 DEF InLastWindow, Typed, TypeOK
    <3> QED
      BY <1>2, <3>1
  <2> QED
    BY <2>2, <2>3
<1>6. CASE \E r \in Request : Refused(r)
  BY <1>2, <1>3, <1>6, RefusedKeeps
<1>7. CASE \E r \in Request : \E left \in Patience : Enqueue(r, left)
  BY <1>2, <1>3, <1>7 DEF Enqueue, clockVars, gateVars
<1>8. CASE \E l \in Limiter : Open(l) \/ Close(l)
  BY <1>2, <1>3, <1>8 DEF Open, Close, clockVars, gateVars
<1>9. CASE \E l \in Limiter : \E accountBudget \in Budgets, ipBudget \in Budgets :
               Configure(l, accountBudget, ipBudget)
  BY <1>2, <1>3, <1>9 DEF Configure, clockVars
<1>10. CASE UNCHANGED <<clockVars, gateVars, sharedVars>>
  BY <1>2, <1>3, <1>10 DEF clockVars, gateVars
<1> QED
  BY <1>4, <1>5, <1>6, <1>7, <1>8, <1>9, <1>10, StepKinds
-----------------------------------------------------------------------------
LEMMA FreshCallers == Fresh => Callers /\ Pumping
BY DEF Fresh, Callers, CallerConsistent, Pumping, Never

LEMMA PumpingStep == Typed /\ Callers /\ Pumping /\ [Next]_vars => Pumping'
<1> SUFFICES ASSUME Typed, Callers, Pumping, [Next]_vars, deadlines' # {} PROVE Pumping'
  BY DEF Pumping
<1> USE DEF clockVars, queueVars, gateVars, sharedVars, pumpVars
<1>1. CASE PumpBegin
  <2> DEFINE l == Head(agenda)
             done == {r \in Waiting(l) : future[r] # "pending"}
             expired == {r \in Waiting(l) \ done : OutOfTime(r)}
             left == Waiting(l) \ (done \cup expired)
  <2>1. /\ waiters' = waiters \ (done \cup expired)
        /\ future' = [r \in Request |-> IF r \in expired THEN "error" ELSE future[r]]
        /\ deadlines' = {ticket[r].deadline : r \in left}
        /\ agenda' = IF left = {} THEN Tail(agenda) ELSE agenda
        /\ agenda # <<>> /\ ticket' = ticket /\ now' = now
    BY <1>1 DEF PumpBegin, Idle
  <2>2. left # {} /\ agenda' = agenda
    BY <2>1
  <2>3. Waiting(l)' = left
    BY <2>1 DEF Waiting
  <2>4. \A r \in left : /\ r \in Request /\ future[r] = "pending"
                        /\ ~ (now >= ticket[r].deadline) /\ r \notin expired
    BY DEF Waiting, OutOfTime, Typed, TypeOK
  <2>5. \A r \in left : ticket[r].deadline > now
    BY <2>4 DEF Typed, TypeOK
  <2> HIDE DEF left, expired, done
  <2> QED
    BY <2>1, <2>2, <2>3, <2>4, <2>5 DEF Pumping, Idle
<1>2. CASE PumpAdmit
  <2>1. PICK r \in Waiting(Head(agenda)) :
            /\ waiters' = waiters \ {r}
            /\ future' = [future EXCEPT ![r] = "result"]
    BY <1>2 DEF PumpAdmit
  <2>2. UNCHANGED <<now, agenda, deadlines, ticket>>
    BY <1>2 DEF PumpAdmit
  <2>3. Waiting(Head(agenda))' = Waiting(Head(agenda)) \ {r}
    BY <2>1, <2>2 DEF Waiting
  <2>4. future \in [Request -> {"none", "pending", "result", "error", "cancelled"}]
        /\ Waiting(Head(agenda)) \subseteq Request
    BY DEF Typed, TypeOK, Waiting
  <2> QED
    BY <2>1, <2>2, <2>3, <2>4 DEF Pumping, Idle
<1>3. CASE PumpArm
  BY <1>3 DEF PumpArm
<1>4. CASE ~Pump /\ deadlines' = deadlines /\ Idle
  BY <1>4 DEF Pumping
<1>5. CASE UNCHANGED vars
  BY <1>5 DEF vars, Pumping, Waiting, Idle
<1>6. ASSUME Next, ~Pump PROVE deadlines' = deadlines /\ Idle
  <2>1. CASE Tick
    BY <2>1 DEF Tick
  <2>2. ASSUME NEW r \in Request, Acquire(r) PROVE deadlines' = deadlines /\ Idle
    BY <2>2 DEF Acquire, AcquireClosed, AcquireAtOnce, AcquireExpired, Enqueue
  <2>3. ASSUME NEW r \in Request, Resume(r) \/ Cancel(r) \/ ResumeCancelled(r)
        PROVE  deadlines' = deadlines /\ Idle
    BY <2>3 DEF Resume, Cancel, ResumeCancelled
  <2>4. ASSUME NEW r \in Request, Refused(r) PROVE deadlines' = deadlines /\ Idle
    BY <2>4, Zenon DEF Refused, NoteProviderLimited, NoteRateLimited
  <2>5. ASSUME NEW l \in Limiter, Open(l) \/ FireTimer(l) \/ Close(l)
        PROVE  deadlines' = deadlines /\ Idle
    BY <2>5 DEF Open, FireTimer, Close
  <2>6. ASSUME NEW l \in Limiter, NEW accountBudget \in Budgets, NEW ipBudget \in Budgets,
               Configure(l, accountBudget, ipBudget)
        PROVE  deadlines' = deadlines /\ Idle
    BY <2>6 DEF Configure
  <2>7. CASE Horizon
    BY <2>7 DEF Horizon, vars
  <2> QED
    BY <1>6, <2>1, <2>2, <2>3, <2>4, <2>5, <2>6, <2>7, Zenon DEF Next
<1> QED
  BY <1>1, <1>2, <1>3, <1>4, <1>5, <1>6 DEF Pump

LEMMA CallersStep == Typed /\ Callers /\ Pumping /\ [Next]_vars => Callers'
<1> SUFFICES ASSUME Typed, Callers, Pumping, [Next]_vars, NEW q \in Request
             PROVE  CallerConsistent(q)'
  BY DEF Callers
<1>0. /\ future \in [Request -> {"none", "pending", "result", "error", "cancelled"}]
      /\ call \in [Request -> {"idle", "waiting", "cancelling", "sent", "refused",
                              "failed", "cancelled"}]
      /\ admittedAt \in [Request -> Nat \cup {Never}] /\ now \in Nat
      /\ CallerConsistent(q)
  BY DEF Typed, TypeOK, Callers
<1> USE DEF clockVars, queueVars, gateVars, sharedVars, pumpVars
<1>1. ASSUME UNCHANGED <<call, future, admittedAt, waiters>> PROVE CallerConsistent(q)'
  BY <1>0, <1>1 DEF CallerConsistent
<1>2. CASE Tick
  BY <1>1, <1>2 DEF Tick
<1>3. CASE PumpBegin
  <2> DEFINE l == Head(agenda)
             done == {r \in Waiting(l) : future[r] # "pending"}
             expired == {r \in Waiting(l) \ done : OutOfTime(r)}
  <2>1. /\ waiters' = waiters \ (done \cup expired)
        /\ future' = [r \in Request |-> IF r \in expired THEN "error" ELSE future[r]]
        /\ call' = call /\ admittedAt' = admittedAt
    BY <1>3 DEF PumpBegin
  <2>2. /\ q \in expired => future[q] = "pending" /\ q \notin done
        /\ q \in done => future[q] # "pending"
    OBVIOUS
  <2> HIDE DEF done, expired
  <2> QED
    BY <1>0, <2>1, <2>2 DEF CallerConsistent
<1>4. CASE PumpAdmit
  <2>1. PICK r \in Waiting(Head(agenda)) :
            /\ waiters' = waiters \ {r}
            /\ future' = [future EXCEPT ![r] = "result"]
            /\ Admit(r)
    BY <1>4 DEF PumpAdmit
  <2>2. admittedAt' = [admittedAt EXCEPT ![r] = now] /\ call' = call
    BY <1>4, <2>1 DEF PumpAdmit, Admit
  <2>3. r \in Request /\ future[r] = "pending"
    BY <1>4 DEF PumpAdmit, Pumping, Waiting, Typed, TypeOK
  <2> QED
    BY <1>0, <2>1, <2>2, <2>3 DEF CallerConsistent, Never
<1>5. CASE PumpArm
  BY <1>1, <1>5 DEF PumpArm
<1>6. ASSUME NEW r \in Request, Acquire(r) PROVE CallerConsistent(q)'
  <2>1. CASE AcquireClosed(r) \/ AcquireExpired(r)
    BY <1>0, <2>1 DEF AcquireClosed, AcquireExpired, CallerConsistent
  <2>2. ASSUME NEW left \in Patience, AcquireAtOnce(r, left) PROVE CallerConsistent(q)'
    BY <1>0, <2>2 DEF AcquireAtOnce, Admit, CallerConsistent, Never
  <2>3. ASSUME NEW left \in Patience, Enqueue(r, left) PROVE CallerConsistent(q)'
    BY <1>0, <2>3 DEF Enqueue, CallerConsistent
  <2> QED
    BY <1>6, <2>1, <2>2, <2>3 DEF Acquire
<1>7. ASSUME NEW r \in Request, Resume(r) PROVE CallerConsistent(q)'
  BY <1>0, <1>7 DEF Resume, CallerConsistent
<1>8. ASSUME NEW r \in Request, Cancel(r) PROVE CallerConsistent(q)'
  BY <1>0, <1>8 DEF Cancel, CallerConsistent
<1>9. ASSUME NEW r \in Request, ResumeCancelled(r) PROVE CallerConsistent(q)'
  BY <1>0, <1>9 DEF ResumeCancelled, CallerConsistent
<1>10. ASSUME NEW r \in Request, Refused(r) PROVE CallerConsistent(q)'
  <2>1. /\ call[r] = "sent" /\ call' = [call EXCEPT ![r] = "refused"]
        /\ UNCHANGED <<future, admittedAt, waiters>>
    BY <1>10, Zenon DEF Refused, NoteProviderLimited, NoteRateLimited
  <2> QED
    BY <1>0, <2>1 DEF CallerConsistent
<1>11. ASSUME NEW l \in Limiter, Open(l) \/ FireTimer(l) PROVE CallerConsistent(q)'
  BY <1>1, <1>11 DEF Open, FireTimer
<1>12. ASSUME NEW l \in Limiter, NEW accountBudget \in Budgets, NEW ipBudget \in Budgets,
              Configure(l, accountBudget, ipBudget)
       PROVE  CallerConsistent(q)'
  BY <1>1, <1>12 DEF Configure
<1>13. ASSUME NEW l \in Limiter, Close(l) PROVE CallerConsistent(q)'
  <2>1. /\ waiters' = waiters \ Waiting(l)
        /\ future' = [r \in Request |-> IF r \in Waiting(l) /\ future[r] = "pending"
                                       THEN "error" ELSE future[r]]
        /\ UNCHANGED <<call, admittedAt>>
    BY <1>13 DEF Close
  <2> QED
    BY <1>0, <2>1 DEF CallerConsistent, Waiting
<1>14. CASE UNCHANGED vars
  BY <1>1, <1>14 DEF vars
<1> QED
  BY <1>2, <1>3, <1>4, <1>5, <1>6, <1>7, <1>8, <1>9, <1>10, <1>11, <1>12, <1>13, <1>14
     DEF Next, Pump, Horizon
-----------------------------------------------------------------------------
(* Only an admission changes when somebody was admitted. *)
LEMMA JustAdmittedIsAdmission ==
    ASSUME Typed, [Next]_vars, NEW r \in JustAdmitted
    PROVE  Admission(r)
<1>1. r \in Request /\ admittedAt'[r] # admittedAt[r]
  BY DEF JustAdmitted
<1>2. ASSUME NEW q \in Request, Admission(q) PROVE q = r
  <2>1. admittedAt' = [admittedAt EXCEPT ![q] = now]
    BY <1>2 DEF Admission, Admit
  <2> QED
    BY <1>1, <2>1 DEF Typed, TypeOK
<1>3. \/ \E q \in Request : Admission(q)
      \/ admittedAt' = admittedAt
  <2>1. CASE Tick
    BY <2>1 DEF Tick, gateVars
  <2>2. CASE \E q \in Request : Refused(q)
    BY <2>2, RefusedKeeps
  <2>3. CASE \E q \in Request : \E left \in Patience : Enqueue(q, left)
    BY <2>3 DEF Enqueue, gateVars
  <2>4. CASE \E l \in Limiter : Open(l) \/ Close(l)
    BY <2>4 DEF Open, Close, gateVars
  <2>5. CASE \E l \in Limiter : \E accountBudget \in Budgets, ipBudget \in Budgets :
                 Configure(l, accountBudget, ipBudget)
    BY <2>5 DEF Configure
  <2>6. CASE UNCHANGED gateVars
    BY <2>6 DEF gateVars
  <2> QED
    BY <2>1, <2>2, <2>3, <2>4, <2>5, <2>6, StepKinds
<1> QED
  BY <1>1, <1>2, <1>3

LEMMA FreshSilenced == Fresh => Silenced
BY DEF Fresh, Silenced

(* A gate that counts for an order in force is reset by nobody. *)
LEMMA OpenKeepsCreated ==
    ASSUME Typed, NEW l \in Limiter, Open(l), NEW g \in Gate, Created(g)
    PROVE  Created(g)' /\ gate'[g] = gate[g]
<1>1. phase[l] = "new" /\ phase' = [phase EXCEPT ![l] = "open"]
  BY DEF Open
<1>2. Created(g)'
  BY <1>1 DEF Created, Typed, TypeOK
<1>3. g # AccountGate(l)
  BY <1>1 DEF Created, AccountGate, IpGate
<1>4. g = IpGate => ~ \A k \in Limiter : phase[k] = "new"
  BY DEF Created
<1>5. gate'[g] = gate[g]
  BY <1>3, <1>4 DEF Open, Typed, TypeOK
<1> QED
  BY <1>2, <1>5

LEMMA SilencedStep ==
    Typed /\ Charged /\ Callers /\ Silenced /\ [Next]_vars => Silenced'
<1> SUFFICES ASSUME Typed, Charged, Callers, Silenced, [Next]_vars PROVE Silenced'
  OBVIOUS
<1>0. /\ now \in Nat /\ providerUntil \in Nat
      /\ \A order \in told : order.until \in Nat /\ order.gates \subseteq Gate
      /\ \A g \in Gate : gate[g].suppressedUntil \in Nat
  BY DEF Typed, TypeOK, IsGate
<1>1. ASSUME told' = told, now' = now, providerUntil' = providerUntil,
             \A g \in Gate : Created(g) =>
                 Created(g)' /\ gate'[g].suppressedUntil >= gate[g].suppressedUntil,
             \A g \in Gate : Created(g) => gate'[g].suppressedUntil \in Nat
      PROVE  Silenced'
  BY <1>0, <1>1 DEF Silenced
<1>2. Typed'
  BY StepTyped
<1>3. \A g \in Gate : gate'[g].suppressedUntil \in Nat
  BY <1>2 DEF Typed, TypeOK, IsGate
<1>4. ASSUME phase' = phase PROVE \A g \in Gate : Created(g) => Created(g)'
  BY <1>4 DEF Created
<1>5. CASE Tick
  <2>1. /\ told' = {order \in told : now + 1 < order.until} /\ now' = now + 1
        /\ UNCHANGED <<gate, phase, providerUntil>>
    BY <1>5 DEF Tick, gateVars, sharedVars
  <2> QED
    BY <1>0, <2>1 DEF Silenced, Created
<1>6. ASSUME NEW r \in Request, Admission(r) PROVE Silenced'
  <2>1. Admit(r) /\ UNCHANGED <<clockVars, sharedVars>>
    BY <1>6 DEF Admission
  <2>2. \A g \in Gate : gate'[g].suppressedUntil = gate[g].suppressedUntil
    BY <2>1, AdmittedGates
  <2> QED
    BY <1>0, <1>1, <1>3, <1>4, <2>1, <2>2 DEF clockVars, sharedVars
<1>7. ASSUME NEW r \in Request, Refused(r) PROVE Silenced'
  <2>1. /\ UNCHANGED <<now, phase>>
        /\ \A g \in Gate : gate'[g].suppressedUntil >= gate[g].suppressedUntil
    BY <1>7, RefusedKeeps
  <2>2. phase[Owner[r]] # "new"
    <3>1. call[r] = "sent"
      BY <1>7, Zenon DEF Refused, NoteProviderLimited, NoteRateLimited
    <3>2. admittedAt[r] # Never
      BY <3>1 DEF Callers, CallerConsistent
    <3> QED
      BY <3>2 DEF Charged
  <2>3. ASSUME NEW order, order.until \in Nat, order.until > now,
               told' = told \cup {order}, providerUntil' >= providerUntil,
               providerUntil' \in Nat,
               \/ order.until <= providerUntil'
               \/ \A g \in order.gates :
                      Created(g)' /\ order.until <= gate'[g].suppressedUntil
        PROVE  Silenced'
    <3>1. SUFFICES ASSUME NEW o \in told
                   PROVE  /\ o.until > now'
                          /\ \/ o.until <= providerUntil'
                             \/ \A g \in o.gates :
                                    Created(g)' /\ o.until <= gate'[g].suppressedUntil
      BY <2>1, <2>3 DEF Silenced
    <3>2. CASE o.until <= providerUntil
      BY <1>0, <2>1, <2>3, <3>2 DEF Silenced
    <3>3. CASE \A g \in o.gates : Created(g) /\ o.until <= gate[g].suppressedUntil
      BY <1>0, <1>3, <1>4, <2>1, <3>3 DEF Silenced
    <3> QED
      BY <3>2, <3>3 DEF Silenced
  <2>4. ASSUME NEW offset \in RetryOffsets
        PROVE  now + SuppressionDelay(offset) \in Nat /\ now + SuppressionDelay(offset) > now
    <3>1. offset \in Int
      BY LimiterAssumption
    <3>2. SuppressionDelay(offset) \in Nat \ {0}
      BY <3>1, SuppressionDelayIsPositive
    <3> QED
      BY <1>0, <3>2
  <2>5. ASSUME NEW offset \in RetryOffsets, NoteProviderLimited(r, offset) PROVE Silenced'
    <3> DEFINE until == now + SuppressionDelay(offset)
               order == [gates |-> Gate, until |-> until]
    <3>1. /\ providerUntil' = IF until <= providerUntil THEN providerUntil ELSE until
          /\ told' = told \cup {order}
      BY <2>5, Zenon DEF NoteProviderLimited
    <3>2. until \in Nat /\ until > now
      BY <2>4
    <3> HIDE DEF until
    <3>3. order.until = until /\ until <= providerUntil' /\ providerUntil' >= providerUntil
          /\ providerUntil' \in Nat
      BY <1>0, <3>1, <3>2
    <3> HIDE DEF order
    <3> QED
      BY <2>3, <3>1, <3>2, <3>3
  <2>6. ASSUME NEW offset \in RetryOffsets, NEW counter, NEW limit \in Limits,
               NEW remaining \in Remainings,
               NoteRateLimited(r, counter, offset, limit, remaining)
        PROVE  Silenced'
    <3> DEFINE until == now + SuppressionDelay(offset)
               order == [gates |-> Targets(r, counter), until |-> until]
    <3>1. told' = told \cup {order} /\ providerUntil' = providerUntil
      BY <2>6, Zenon DEF NoteRateLimited, sharedVars
    <3>2. until \in Nat /\ until > now
      BY <2>4
    <3>3. Targets(r, counter) \subseteq Gate
      BY GatesOfRequest DEF Targets
    <3>4. \A g \in Targets(r, counter) : gate'[g].suppressedUntil >= until
      BY <2>6, <3>3, NotedGates
    <3>5. \A g \in Targets(r, counter) : Created(g)
      BY <2>2, GatesOfRequest DEF Targets, GatesFor, Created
    <3>6. \A g \in Targets(r, counter) : Created(g)'
      BY <1>4, <2>1, <3>3, <3>5
    <3> HIDE DEF until
    <3>7. \A g \in Targets(r, counter) : until <= gate'[g].suppressedUntil
      BY <1>3, <3>2, <3>3, <3>4
    <3>8. order.until = until /\ order.gates = Targets(r, counter)
      OBVIOUS
    <3> HIDE DEF order
    <3> QED
      BY <1>0, <2>3, <3>1, <3>2, <3>6, <3>7, <3>8
  <2> QED
    BY <1>7, <2>5, <2>6 DEF Refused
<1>8. ASSUME NEW r \in Request, NEW left \in Patience, Enqueue(r, left) PROVE Silenced'
  BY <1>0, <1>1, <1>4, <1>8 DEF Enqueue, clockVars, gateVars, sharedVars
<1>9. ASSUME NEW l \in Limiter, Open(l) PROVE Silenced'
  <2>1. UNCHANGED <<told, now, providerUntil>>
    BY <1>9 DEF Open, clockVars
  <2>2. \A g \in Gate : Created(g) => Created(g)' /\ gate'[g] = gate[g]
    BY <1>9, OpenKeepsCreated
  <2> QED
    BY <1>0, <1>1, <2>1, <2>2
<1>10. ASSUME NEW l \in Limiter, Close(l) PROVE Silenced'
  <2>1. /\ UNCHANGED <<told, now, providerUntil, gate>>
        /\ phase' = [phase EXCEPT ![l] = "closed"]
    BY <1>10 DEF Close, clockVars, gateVars
  <2>2. \A g \in Gate : Created(g) => Created(g)'
    BY <2>1 DEF Created, Typed, TypeOK
  <2> QED
    BY <1>0, <1>1, <2>1, <2>2
<1>11. ASSUME NEW l \in Limiter, NEW accountBudget \in Budgets, NEW ipBudget \in Budgets,
              Configure(l, accountBudget, ipBudget)
       PROVE  Silenced'
  <2>1. \A g \in Gate : gate'[g].suppressedUntil = gate[g].suppressedUntil
    BY <1>11, ConfiguredGates
  <2>2. UNCHANGED <<told, now, providerUntil, phase>>
    BY <1>11 DEF Configure, clockVars, sharedVars
  <2> QED
    BY <1>0, <1>1, <1>4, <2>1, <2>2
<1>12. CASE UNCHANGED <<clockVars, gateVars, sharedVars>>
  BY <1>0, <1>1, <1>4, <1>12 DEF clockVars, gateVars, sharedVars
<1> QED
  BY <1>5, <1>6, <1>7, <1>8, <1>9, <1>10, <1>11, <1>12, StepKinds
-----------------------------------------------------------------------------
(* Closing removes one limiter from those who listen, and keeps the rest.  *)
LEMMA CloseDetachesOne ==
    ASSUME Typed, NEW l \in Limiter, Close(l), NEW k \in Limiter, k # l,
           \E i \in DOMAIN attached : attached[i] = k
    PROVE  \E i \in DOMAIN attached' : attached'[i] = k
<1>1. PICK j \in DOMAIN attached : attached[j] = l /\ attached' = RemoveAt(attached, j)
  BY DEF Close
<1>2. PICK i \in DOMAIN attached : attached[i] = k
  OBVIOUS
<1>3. /\ attached \in Seq(Limiter) /\ Len(attached) \in Nat
      /\ DOMAIN attached = 1..Len(attached)
  BY LenProperties DEF Typed, TypeOK
<1>4. \A m \in 1..Len(attached) : attached[m] \in Limiter
  BY <1>3, ElementOfSeq
<1> DEFINE left == SubSeq(attached, 1, j - 1)
           right == SubSeq(attached, j + 1, Len(attached))
<1>5. /\ left \in Seq(Limiter) /\ Len(left) = j - 1
      /\ \A m \in 1..(j - 1) : left[m] = attached[m]
  <2>1. 1 \in Int /\ j - 1 \in Int /\ \A m \in 1..(j - 1) : attached[m] \in Limiter
    BY <1>1, <1>3, <1>4
  <2>2. /\ left \in Seq(Limiter)
        /\ Len(left) = IF 1 <= j - 1 THEN (j - 1) - 1 + 1 ELSE 0
        /\ \A m \in 1..((j - 1) - 1 + 1) : left[m] = attached[1 + m - 1]
    BY <2>1, SubSeqProperties
  <2> HIDE DEF left
  <2>3. (j - 1) - 1 + 1 = j - 1 /\ (1 <= j - 1 \/ j - 1 = 0)
        /\ \A m \in 1..(j - 1) : 1 + m - 1 = m
    BY <1>1, <1>3
  <2> QED
    BY <2>2, <2>3
<1>6. /\ right \in Seq(Limiter) /\ Len(right) = Len(attached) - j
      /\ \A m \in 1..(Len(attached) - j) : right[m] = attached[m + j]
  <2>1. PICK from \in Int : from = j + 1
    BY <1>1, <1>3
  <2>2. PICK to \in Int : to = Len(attached)
    <3>1. Len(attached) \in Int
      BY <1>3
    <3> QED
      BY <3>1, Zenon
  <2>3. \A m \in from..to : attached[m] \in Limiter
    BY <1>1, <1>3, <1>4, <2>1, <2>2
  <2>4. /\ SubSeq(attached, from, to) \in Seq(Limiter)
        /\ Len(SubSeq(attached, from, to)) = IF from <= to THEN to - from + 1 ELSE 0
        /\ \A m \in 1..(to - from + 1) : SubSeq(attached, from, to)[m] = attached[from + m - 1]
    BY <2>3, SubSeqProperties
  <2>5. right = SubSeq(attached, from, to)
    BY <2>1, <2>2
  <2> HIDE DEF right
  <2>6. /\ to - from + 1 = Len(attached) - j
        /\ from <= to \/ Len(attached) - j = 0
        /\ ~ (from <= to) => Len(attached) - j = 0
        /\ \A m \in 1..(Len(attached) - j) : from + m - 1 = m + j
    BY <1>1, <1>3, <2>1, <2>2
  <2> QED
    BY <2>4, <2>5, <2>6
<1>7. attached' = left \o right
  BY <1>1 DEF RemoveAt
<1> HIDE DEF left, right
<1>8. /\ attached' \in Seq(Limiter) /\ Len(attached') = (j - 1) + (Len(attached) - j)
      /\ \A m \in 1..((j - 1) + (Len(attached) - j)) :
             attached'[m] = IF m <= j - 1 THEN left[m] ELSE right[m - (j - 1)]
  <2>1. /\ left \o right \in Seq(Limiter)
        /\ Len(left \o right) = Len(left) + Len(right)
        /\ \A m \in 1..(Len(left) + Len(right)) :
               (left \o right)[m] = IF m <= Len(left) THEN left[m] ELSE right[m - Len(left)]
    BY <1>5, <1>6, ConcatProperties
  <2> QED
    BY <1>5, <1>6, <1>7, <2>1
<1>9. DOMAIN attached' = 1..Len(attached')
  BY <1>8, LenProperties
<1>10. CASE i < j
  BY <1>1, <1>2, <1>3, <1>5, <1>8, <1>9, <1>10
<1>11. CASE i > j
  <2>1. i - 1 \in 1..((j - 1) + (Len(attached) - j)) /\ ~ (i - 1 <= j - 1)
        /\ (i - 1) - (j - 1) = i - j /\ i - j \in 1..(Len(attached) - j) /\ (i - j) + j = i
    BY <1>1, <1>2, <1>3, <1>11
  <2>2. attached'[i - 1] = right[i - j] /\ right[i - j] = attached[i]
    BY <1>6, <1>8, <2>1
  <2> QED
    BY <1>2, <1>8, <1>9, <2>1, <2>2
<1>12. i # j
  BY <1>1, <1>2
<1> QED
  BY <1>1, <1>2, <1>3, <1>10, <1>11, <1>12

(* Who is open listens to the shared state. *)
Listening == \A l \in Limiter : phase[l] = "open" => \E i \in DOMAIN attached : attached[i] = l

LEMMA FreshListening == Fresh => Listening
BY DEF Fresh, Listening

LEMMA ListeningStep == Typed /\ Listening /\ [Next]_vars => Listening'
<1> SUFFICES ASSUME Typed, Listening, [Next]_vars PROVE Listening'
  OBVIOUS
<1>1. ASSUME UNCHANGED <<phase, attached>> PROVE Listening'
  BY <1>1 DEF Listening
<1>2. ASSUME NEW l \in Limiter, Open(l) PROVE Listening'
  <2>1. phase' = [phase EXCEPT ![l] = "open"] /\ attached' = Append(attached, l)
    BY <1>2 DEF Open
  <2>2. /\ attached \in Seq(Limiter) /\ Len(attached) \in Nat
        /\ DOMAIN attached = 1..Len(attached)
    BY LenProperties DEF Typed, TypeOK
  <2>3. /\ attached' \in Seq(Limiter) /\ Len(attached') = Len(attached) + 1
        /\ \A i \in 1..Len(attached) : attached'[i] = attached[i]
        /\ attached'[Len(attached) + 1] = l
    BY <2>1, <2>2, AppendProperties
  <2>4. DOMAIN attached' = 1..(Len(attached) + 1)
    BY <2>3, LenProperties
  <2>5. SUFFICES ASSUME NEW k \in Limiter, phase'[k] = "open"
                 PROVE  \E i \in DOMAIN attached' : attached'[i] = k
    BY DEF Listening
  <2>6. CASE k = l
    BY <2>2, <2>3, <2>4, <2>6
  <2>7. CASE k # l
    <3>1. phase[k] = "open"
      BY <2>1, <2>5, <2>7 DEF Typed, TypeOK
    <3>2. PICK i \in DOMAIN attached : attached[i] = k
      BY <3>1 DEF Listening
    <3> QED
      BY <2>2, <2>3, <2>4, <3>2
  <2> QED
    BY <2>6, <2>7
<1>3. ASSUME NEW l \in Limiter, Close(l) PROVE Listening'
  <2>1. phase' = [phase EXCEPT ![l] = "closed"]
    BY <1>3 DEF Close
  <2>2. \A k \in Limiter : phase'[k] = "open" => k # l /\ phase[k] = "open"
    BY <2>1 DEF Typed, TypeOK
  <2> QED
    BY <1>3, <2>2, CloseDetachesOne DEF Listening
<1>4. CASE Tick
  BY <1>1, <1>4 DEF Tick, sharedVars
<1>5. CASE \E r \in Request : Admission(r) \/ Refused(r)
  BY <1>1, <1>5, RefusedKeeps DEF Admission, sharedVars
<1>6. CASE \E r \in Request : \E left \in Patience : Enqueue(r, left)
  BY <1>1, <1>6 DEF Enqueue, sharedVars
<1>7. CASE \E l \in Limiter : \E accountBudget \in Budgets, ipBudget \in Budgets :
               Configure(l, accountBudget, ipBudget)
  BY <1>1, <1>7 DEF Configure, sharedVars
<1>8. CASE UNCHANGED sharedVars
  BY <1>1, <1>8 DEF sharedVars
<1> QED
  BY <1>2, <1>3, <1>4, <1>5, <1>6, <1>7, <1>8, StepKinds
-----------------------------------------------------------------------------
(* Whoever awaits a pending future either has a pump to come in this very  *)
(* handler or a timer armed for no later than its deadline, so the clock   *)
(* cannot leave the deadline behind by more than the loop's lag.           *)
Scheduled(l) == \E i \in DOMAIN agenda : agenda[i] = l

TimedCaller(r) ==
    /\ now <= ticket[r].deadline + Lag
    /\ \/ Scheduled(Owner[r])
       \/ timer[Owner[r]] # 0 /\ timer[Owner[r]] <= ticket[r].deadline

Timed == \A r \in waiters : future[r] = "pending" => TimedCaller(r)

LEMMA FreshTimed == Fresh => Timed
BY DEF Fresh, Timed

(* The pump that has finished leaves the agenda, and the others stay.      *)
LEMMA TailKeepsScheduled ==
    ASSUME Typed, ~Idle, agenda' = Tail(agenda), NEW l \in Limiter,
           Scheduled(l), l # Head(agenda)
    PROVE  Scheduled(l)'
<1>1. /\ agenda \in Seq(Limiter) /\ Len(agenda) \in Nat /\ agenda # <<>>
      /\ DOMAIN agenda = 1..Len(agenda)
  BY LenProperties DEF Typed, TypeOK, Idle
<1>2. PICK i \in 1..Len(agenda) : agenda[i] = l
  BY <1>1 DEF Scheduled
<1>3. Head(agenda) = agenda[1]
  BY <1>1
<1>4. /\ Tail(agenda) \in Seq(Limiter) /\ Len(Tail(agenda)) = Len(agenda) - 1
      /\ \A j \in 1..(Len(agenda) - 1) : Tail(agenda)[j] = agenda[j + 1]
  BY <1>1
<1>5. DOMAIN Tail(agenda) = 1..(Len(agenda) - 1)
  BY <1>4, LenProperties
<1>6. i - 1 \in 1..(Len(agenda) - 1) /\ (i - 1) + 1 = i
  BY <1>1, <1>2, <1>3
<1> QED
  BY <1>2, <1>4, <1>5, <1>6 DEF Scheduled

LEMMA TimedStep == Typed /\ Callers /\ Pumping /\ Timed /\ [Next]_vars => Timed'
<1> SUFFICES ASSUME Typed, Callers, Pumping, Timed, [Next]_vars,
                    NEW q \in waiters', future'[q] = "pending"
             PROVE  TimedCaller(q)'
  BY DEF Timed
<1>0. /\ now \in Nat /\ Lag \in Nat /\ timer \in [Limiter -> Nat]
      /\ ticket \in [Request -> [sequence : Nat, queuedAt : Nat, deadline : Nat,
                                overtakenBase : Nat]]
      /\ future \in [Request -> {"none", "pending", "result", "error", "cancelled"}]
      /\ \A r \in Request : Owner[r] \in Limiter /\ CallerConsistent(r)
      /\ waiters \subseteq Request
  BY LimiterAssumption DEF Typed, TypeOK, Callers
<1> USE DEF clockVars, queueVars, gateVars, sharedVars, pumpVars
<1>1. ASSUME Idle, q \in waiters, future[q] = "pending"
      PROVE  /\ now <= ticket[q].deadline + Lag
             /\ timer[Owner[q]] # 0 /\ timer[Owner[q]] <= ticket[q].deadline
  BY <1>1 DEF Timed, TimedCaller, Scheduled, Idle
<1>2. ASSUME Idle, q \in waiters, future[q] = "pending", UNCHANGED now,
             ticket'[q] = ticket[q], timer'[Owner[q]] = timer[Owner[q]]
      PROVE  TimedCaller(q)'
  BY <1>1, <1>2 DEF TimedCaller
<1>3. CASE Tick
  <2>1. /\ Idle /\ now' = now + 1 /\ UNCHANGED <<waiters, future, ticket, timer>>
        /\ \A l \in Limiter : timer[l] # 0 => now < timer[l] + Lag
    BY <1>3 DEF Tick
  <2>2. /\ timer[Owner[q]] # 0 /\ timer[Owner[q]] <= ticket[q].deadline
        /\ q \in Request
    BY <1>0, <1>1, <2>1
  <2>3. now < timer[Owner[q]] + Lag
    BY <1>0, <2>1, <2>2
  <2>4. timer[Owner[q]] \in Nat /\ ticket[q].deadline \in Nat
    BY <1>0, <2>2
  <2> QED
    BY <1>0, <2>1, <2>2, <2>3, <2>4 DEF TimedCaller
<1>4. CASE PumpBegin
  <2> DEFINE l == Head(agenda)
             done == {r \in Waiting(l) : future[r] # "pending"}
             expired == {r \in Waiting(l) \ done : OutOfTime(r)}
             left == Waiting(l) \ (done \cup expired)
  <2>1. /\ ~Idle
        /\ waiters' = waiters \ (done \cup expired)
        /\ future' = [r \in Request |-> IF r \in expired THEN "error" ELSE future[r]]
        /\ timer' = [timer EXCEPT ![l] = 0]
        /\ agenda' = IF left = {} THEN Tail(agenda) ELSE agenda
        /\ UNCHANGED <<now, ticket>>
    BY <1>4 DEF PumpBegin
  <2>2. q \in waiters /\ future[q] = "pending" /\ q \in Request
    BY <1>0, <2>1
  <2>3. TimedCaller(q)
    BY <2>2 DEF Timed
  <2>4. CASE Owner[q] = l
    <3>1. q \in left
      BY <2>1, <2>2, <2>4 DEF Waiting
    <3>2. agenda' = agenda
      BY <2>1, <3>1
    <3>3. Scheduled(l)
      <4>1. /\ agenda \in Seq(Limiter) /\ agenda # <<>> /\ Len(agenda) \in Nat
            /\ DOMAIN agenda = 1..Len(agenda)
        BY <2>1, LenProperties DEF Typed, TypeOK, Idle
      <4>2. 1 \in DOMAIN agenda /\ agenda[1] = l
        BY <4>1
      <4> QED
        BY <4>2 DEF Scheduled
    <3> QED
      BY <2>1, <2>3, <2>4, <3>2, <3>3 DEF TimedCaller, Scheduled
  <2>5. CASE Owner[q] # l
    <3>1. Owner[q] \in Limiter /\ timer'[Owner[q]] = timer[Owner[q]]
      BY <1>0, <2>1, <2>2, <2>5
    <3>2. Scheduled(Owner[q]) => Scheduled(Owner[q])'
      <4>1. CASE agenda' = agenda
        BY <4>1 DEF Scheduled
      <4>2. CASE agenda' = Tail(agenda)
        BY <2>1, <2>5, <3>1, <4>2, TailKeepsScheduled
      <4> QED
        BY <2>1, <4>1, <4>2
    <3> QED
      BY <2>1, <2>3, <3>1, <3>2 DEF TimedCaller
  <2> QED
    BY <2>4, <2>5
<1>5. CASE PumpAdmit
  <2>1. PICK r \in Waiting(Head(agenda)) :
            waiters' = waiters \ {r} /\ future' = [future EXCEPT ![r] = "result"]
    BY <1>5 DEF PumpAdmit
  <2>2. UNCHANGED <<now, ticket, timer, agenda>>
    BY <1>5 DEF PumpAdmit
  <2>3. q \in waiters /\ future[q] = "pending"
    BY <1>0, <2>1
  <2> QED
    BY <2>2, <2>3 DEF Timed, TimedCaller, Scheduled
<1>6. CASE PumpArm
  <2> DEFINE l == Head(agenda)
  <2>1. /\ ~Idle /\ deadlines # {} /\ agenda' = Tail(agenda)
        /\ timer' = [timer EXCEPT ![l] = IF Waiting(l) = {} THEN 0 ELSE Min(Wakeups(l))]
        /\ \A r \in Waiting(l) : ~Clear(r)
        /\ UNCHANGED <<now, ticket, waiters, future>>
    BY <1>6 DEF PumpArm
  <2>2. TimedCaller(q) /\ q \in Request /\ Owner[q] \in Limiter
    BY <1>0, <2>1 DEF Timed
  <2>3. CASE Owner[q] = l
    <3>1. q \in Waiting(l) /\ ticket[q].deadline \in deadlines
      BY <2>1, <2>3 DEF Pumping, Waiting
    <3>2. \A r \in Waiting(l) : BlockedUntil(r) \in Nat /\ BlockedUntil(r) > now
      BY <1>0, <2>1, BlockedUntilIsAhead DEF Waiting
    <3>3. deadlines \subseteq Nat /\ \A d \in deadlines : d > now
      BY <2>1 DEF Pumping, Typed, TypeOK
    <3>4. /\ Wakeups(l) \in SUBSET Nat /\ ticket[q].deadline \in Wakeups(l)
          /\ \A w \in Wakeups(l) : w > now
      <4> HIDE DEF l
      <4> QED
        BY <3>1, <3>2, <3>3 DEF Wakeups
    <3>5. Min(Wakeups(l)) \in Wakeups(l) /\ Min(Wakeups(l)) <= ticket[q].deadline
      BY <3>4, MinOfNaturals
    <3>6. timer'[Owner[q]] = Min(Wakeups(l))
      BY <1>0, <2>1, <2>2, <2>3, <3>1
    <3>7. Min(Wakeups(l)) \in Nat /\ Min(Wakeups(l)) > now
      BY <3>4, <3>5
    <3> HIDE DEF l
    <3> QED
      BY <1>0, <2>1, <2>2, <3>5, <3>6, <3>7 DEF TimedCaller
  <2>4. CASE Owner[q] # l
    <3>1. timer'[Owner[q]] = timer[Owner[q]]
      BY <1>0, <2>1, <2>2, <2>4
    <3>2. Scheduled(Owner[q]) => Scheduled(Owner[q])'
      BY <2>1, <2>2, <2>4, TailKeepsScheduled
    <3> QED
      BY <2>1, <2>2, <3>1, <3>2 DEF TimedCaller
  <2> QED
    BY <2>3, <2>4
<1>7. ASSUME NEW r \in Request, Acquire(r) PROVE TimedCaller(q)'
  <2>1. CASE AcquireClosed(r) \/ AcquireExpired(r)
    BY <1>2, <2>1 DEF AcquireClosed, AcquireExpired
  <2>2. ASSUME NEW left \in Patience, AcquireAtOnce(r, left) PROVE TimedCaller(q)'
    <3>1. /\ Idle /\ call[r] = "idle" /\ UNCHANGED <<now, waiters, future, timer>>
          /\ ticket' = [ticket EXCEPT ![r].deadline = now + left]
      BY <2>2 DEF AcquireAtOnce
    <3>2. q # r
      BY <1>0, <3>1 DEF CallerConsistent
    <3>3. ticket'[q] = ticket[q]
      BY <1>0, <3>1, <3>2
    <3> QED
      BY <1>2, <3>1, <3>3
  <2>3. ASSUME NEW left \in Patience, Enqueue(r, left) PROVE TimedCaller(q)'
    <3>1. /\ Idle /\ UNCHANGED <<now, timer>> /\ agenda' = <<Owner[r]>>
          /\ waiters' = waiters \cup {r} /\ future' = [future EXCEPT ![r] = "pending"]
          /\ ticket'[r].deadline = now + left
          /\ \A p \in Request \ {r} : ticket'[p] = ticket[p]
      BY <1>0, <2>3 DEF Enqueue
    <3>2. CASE q = r
      <4>1. Scheduled(Owner[r])'
        BY <3>1 DEF Scheduled
      <4>2. left \in Nat
        BY LimiterAssumption
      <4> QED
        BY <1>0, <3>1, <3>2, <4>1, <4>2 DEF TimedCaller
    <3>3. CASE q # r
      BY <1>0, <1>2, <3>1, <3>3
    <3> QED
      BY <3>2, <3>3
  <2> QED
    BY <1>7, <2>1, <2>2, <2>3 DEF Acquire
<1>8. ASSUME NEW r \in Request, Resume(r) PROVE TimedCaller(q)'
  <2>1. /\ Idle /\ UNCHANGED <<now, waiters, future, timer>>
        /\ future[r] \in {"result", "error"} /\ ticket' = [ticket EXCEPT ![r] = NoTicket]
    BY <1>8 DEF Resume
  <2>2. ticket'[q] = ticket[q]
    BY <1>0, <2>1
  <2> QED
    BY <1>2, <2>1, <2>2
<1>9. ASSUME NEW r \in Request, Cancel(r) PROVE TimedCaller(q)'
  BY <1>0, <1>2, <1>9 DEF Cancel
<1>10. ASSUME NEW r \in Request, ResumeCancelled(r) PROVE TimedCaller(q)'
  <2>1. /\ Idle /\ UNCHANGED <<now, future, timer>> /\ waiters' = waiters \ {r}
        /\ ticket' = [ticket EXCEPT ![r] = NoTicket]
    BY <1>10 DEF ResumeCancelled
  <2>2. q \in waiters /\ ticket'[q] = ticket[q]
    BY <1>0, <2>1
  <2> QED
    BY <1>2, <2>1, <2>2
<1>11. ASSUME NEW r \in Request, Refused(r) PROVE TimedCaller(q)'
  <2>1. Idle /\ UNCHANGED <<now, waiters, ticket, future, timer>>
    BY <1>11, Zenon DEF Refused, NoteProviderLimited, NoteRateLimited
  <2> QED
    BY <1>2, <2>1
<1>12. ASSUME NEW l \in Limiter, Open(l) PROVE TimedCaller(q)'
  BY <1>2, <1>12 DEF Open
<1>13. ASSUME NEW l \in Limiter, NEW accountBudget \in Budgets, NEW ipBudget \in Budgets,
              Configure(l, accountBudget, ipBudget)
       PROVE  TimedCaller(q)'
  BY <1>2, <1>13 DEF Configure
<1>14. ASSUME NEW l \in Limiter, FireTimer(l) PROVE TimedCaller(q)'
  <2>1. /\ Idle /\ UNCHANGED <<now, waiters, ticket, future>>
        /\ timer' = [timer EXCEPT ![l] = 0] /\ agenda' = <<l>>
    BY <1>14 DEF FireTimer
  <2>2. CASE Owner[q] = l
    <3>1. Scheduled(Owner[q])'
      BY <2>1, <2>2 DEF Scheduled
    <3> QED
      BY <1>1, <2>1, <3>1 DEF TimedCaller
  <2>3. CASE Owner[q] # l
    BY <1>0, <1>2, <2>1, <2>3
  <2> QED
    BY <2>2, <2>3
<1>15. ASSUME NEW l \in Limiter, Close(l) PROVE TimedCaller(q)'
  <2>1. /\ Idle /\ UNCHANGED <<now, ticket>> /\ timer' = [timer EXCEPT ![l] = 0]
        /\ waiters' = waiters \ Waiting(l)
        /\ future' = [r \in Request |-> IF r \in Waiting(l) /\ future[r] = "pending"
                                       THEN "error" ELSE future[r]]
    BY <1>15 DEF Close
  <2>2. q \in waiters /\ Owner[q] # l /\ q \in Request
    BY <1>0, <2>1 DEF Waiting
  <2>3. future[q] = "pending" /\ timer'[Owner[q]] = timer[Owner[q]]
    BY <1>0, <2>1, <2>2
  <2> QED
    BY <1>2, <2>1, <2>2, <2>3
<1>16. CASE UNCHANGED vars
  BY <1>16 DEF vars, Timed, TimedCaller, Scheduled
<1> QED
  BY <1>3, <1>4, <1>5, <1>6, <1>7, <1>8, <1>9, <1>10, <1>11, <1>12, <1>13, <1>14, <1>15,
     <1>16 DEF Next, Pump, Horizon
-----------------------------------------------------------------------------
(* What every gate counts leaves room within the ceiling for its hold. *)
Occupancy == \A g \in Gate : Occupied(gate[g], admittedAt, now)

LEMMA FreshOccupancy == Fresh => Occupancy
BY NewGateOccupied, LimiterAssumption DEF Fresh, Occupancy

(* A 429 only suppresses and reconciles. *)
LEMMA RefusedOccupancy ==
    ASSUME Typed, Occupancy, NEW r \in Request, Refused(r), NEW g \in Gate
    PROVE  Occupied(gate'[g], admittedAt, now)
<1>1. Occupied(gate[g], admittedAt, now) /\ IsGate(gate[g], Request) /\ now \in Nat
  BY DEF Occupancy, Typed, TypeOK
<1>2. CASE \E offset \in RetryOffsets : NoteProviderLimited(r, offset)
  BY <1>1, <1>2 DEF NoteProviderLimited, gateVars
<1>3. ASSUME NEW offset \in RetryOffsets, NEW counter, NEW limit \in Limits,
             NEW remaining \in Remainings,
             NoteRateLimited(r, counter, offset, limit, remaining)
      PROVE  Occupied(gate'[g], admittedAt, now)
  <2> DEFINE until == now + SuppressionDelay(offset)
             silent(h) == SuppressUntil(gate[h], until)
             noted(h) == Reconcile(silent(h), admittedAt, now, limit, remaining)
  <2>1. limit \in Int /\ remaining \in Int /\ until \in Nat
    <3>1. SuppressionDelay(offset) \in Nat \ {0}
      BY LimiterAssumption, SuppressionDelayIsPositive
    <3> QED
      BY <1>1, <3>1, LimiterAssumption
  <2>2. gate' = [h \in Gate |-> IF h \in Targets(r, counter) THEN noted(h) ELSE gate[h]]
    BY <1>3, Zenon DEF NoteRateLimited
  <2> HIDE DEF until
  <2>3. IsGate(silent(g), Request)
    BY <1>1, <2>1, SuppressUntilKeepsGate
  <2>4. /\ silent(g).admissions = gate[g].admissions
        /\ silent(g).synthetic = gate[g].synthetic
        /\ silent(g).createdAt = gate[g].createdAt
        /\ silent(g).configured = gate[g].configured
    BY <1>1 DEF SuppressUntil, IsGate
  <2> HIDE DEF silent
  <2>5. Occupied(silent(g), admittedAt, now)
    BY <1>1, <2>4, SameCount
  <2>6. Occupied(noted(g), admittedAt, now)
    BY <1>1, <2>1, <2>3, <2>5, ReconcileOccupied
  <2> HIDE DEF noted
  <2> QED
    BY <1>1, <2>2, <2>6
<1> QED
  BY <1>2, <1>3 DEF Refused

LEMMA ConfiguredOccupancy ==
    ASSUME Typed, Occupancy, NEW l \in Limiter, NEW accountBudget \in Budgets,
           NEW ipBudget \in Budgets, Configure(l, accountBudget, ipBudget),
           NEW g \in Gate
    PROVE  Occupied(gate'[g], admittedAt, now)
<1>1. /\ accountBudget \in 1..MaxBudget /\ ipBudget \in 1..MaxBudget
      /\ AccountGate(l) # IpGate /\ AccountGate(l) \in Gate /\ IpGate \in Gate
  BY LimiterAssumption DEF AccountGate, IpGate, Gate
<1>2. DOMAIN gate = Gate
  BY DEF Typed, TypeOK
<1>3. gate' = [gate EXCEPT ![AccountGate(l)] = Reconfigure(@, accountBudget),
                           ![IpGate] = Reconfigure(@, ipBudget)]
  BY DEF Configure
<1>4. gate'[g] = IF g = AccountGate(l) THEN Reconfigure(gate[g], accountBudget)
                 ELSE IF g = IpGate THEN Reconfigure(gate[g], ipBudget)
                 ELSE gate[g]
  BY <1>1, <1>2, <1>3
<1>5. Occupied(gate[g], admittedAt, now) /\ IsGate(gate[g], Request) /\ now \in Nat
  BY DEF Occupancy, Typed, TypeOK
<1>6. \A budget \in 1..MaxBudget : Occupied(Reconfigure(gate[g], budget), admittedAt, now)
  BY <1>5, ReconfigureOccupied
<1> QED
  BY <1>1, <1>4, <1>5, <1>6

LEMMA OccupancyStep == Typed /\ Charged /\ Occupancy /\ [Next]_vars => Occupancy'
<1> SUFFICES ASSUME Typed, Charged, Occupancy, [Next]_vars, NEW g \in Gate
             PROVE  Occupied(gate'[g], admittedAt', now')
  BY DEF Occupancy
<1>1. /\ Occupied(gate[g], admittedAt, now) /\ IsGate(gate[g], Request)
      /\ now \in Nat /\ DOMAIN gate = Gate
      /\ admittedAt \in [Request -> Nat \cup {Never}]
  BY DEF Occupancy, Typed, TypeOK
<1>2. CASE UNCHANGED <<now, gateVars>>
  BY <1>1, <1>2 DEF gateVars
<1>3. CASE Tick
  <2>1. now' = now + 1 /\ UNCHANGED gateVars
    BY <1>3 DEF Tick
  <2>2. \A r \in gate[g].admissions : admittedAt[r] \in Int
    BY <1>1 DEF IsGate, Never
  <2>3. now + 1 \in Nat /\ now <= now + 1
    BY <1>1
  <2>4. Occupied(gate[g], admittedAt, now + 1)
    BY <1>1, <2>2, <2>3, LaterOccupied
  <2> QED
    BY <2>1, <2>4 DEF gateVars
<1>4. ASSUME NEW r \in Request, Admission(r)
      PROVE  Occupied(gate'[g], admittedAt', now')
  <2>1. /\ Clear(r) /\ Admit(r) /\ now' = now
        /\ admittedAt' = [admittedAt EXCEPT ![r] = now]
    BY <1>4 DEF Admission, Admit, clockVars
  <2>2. \A q \in Request \ {r} : admittedAt'[q] = admittedAt[q]
    BY <1>1, <2>1
  <2>3. \A q \in gate[g].admissions : q \in Request
    BY <1>1 DEF IsGate
  <2>4. gate'[g] = IF g \in GatesFor(r) THEN Record(gate[g], r, admittedAt, now)
                   ELSE gate[g]
    BY <2>1 DEF Admit
  <2>5. CASE g \in GatesFor(r)
    <3>1. CapacityAvailable(gate[g], admittedAt, now)
      BY <2>1, <2>5 DEF Clear
    <3>2. \A q \in gate[g].admissions : q = r \/ admittedAt'[q] = admittedAt[q]
      BY <2>2, <2>3
    <3> DEFINE later == admittedAt'
    <3>3. \A q \in gate[g].admissions : q = r \/ later[q] = admittedAt[q]
      BY <3>2
    <3> HIDE DEF later
    <3>4. Occupied(Record(gate[g], r, admittedAt, now), later, now)
      BY <1>1, <3>1, <3>3, RecordOccupied
    <3> QED
      BY <2>1, <2>4, <2>5, <3>4 DEF later
  <2>6. CASE g \notin GatesFor(r)
    <3> DEFINE later == admittedAt'
    <3>1. \A q \in gate[g].admissions : later[q] = admittedAt[q]
      BY <2>2, <2>3, <2>6 DEF Charged
    <3> HIDE DEF later
    <3>2. Occupied(gate[g], later, now)
      BY <1>1, <3>1, SameCount
    <3> QED
      BY <2>1, <2>4, <2>6, <3>2 DEF later
  <2> QED
    BY <2>5, <2>6
<1>5. CASE \E r \in Request : Refused(r)
  BY <1>5, RefusedOccupancy, RefusedKeeps
<1>6. ASSUME NEW l \in Limiter, Open(l)
      PROVE  Occupied(gate'[g], admittedAt', now')
  <2>1. gate'[g] = gate[g] \/ gate'[g] = NewGate(DefaultBudget, now)
    BY <1>1, <1>6, Zenon DEF Open
  <2>2. admittedAt' = admittedAt /\ now' = now
    BY <1>6 DEF Open, clockVars
  <2>3. Occupied(NewGate(DefaultBudget, now), admittedAt, now)
    BY <1>1, LimiterAssumption, NewGateOccupied
  <2> QED
    BY <1>1, <2>1, <2>2, <2>3
<1>7. ASSUME NEW l \in Limiter, NEW accountBudget \in Budgets, NEW ipBudget \in Budgets,
             Configure(l, accountBudget, ipBudget)
      PROVE  Occupied(gate'[g], admittedAt', now')
  <2>1. Occupied(gate'[g], admittedAt, now)
    BY <1>7, ConfiguredOccupancy
  <2> QED
    BY <1>7, <2>1 DEF Configure, clockVars
<1>8. CASE \E r \in Request : \E left \in Patience : Enqueue(r, left)
  BY <1>2, <1>8 DEF Enqueue, clockVars
<1>9. CASE \E l \in Limiter : Close(l)
  BY <1>2, <1>9 DEF Close, clockVars
<1>10. CASE UNCHANGED <<clockVars, gateVars, sharedVars>>
  BY <1>2, <1>10 DEF clockVars
<1> QED
  BY <1>3, <1>4, <1>5, <1>6, <1>7, <1>8, <1>9, <1>10, StepKinds
-----------------------------------------------------------------------------
(* Whoever queued later has the later number, and cannot have aged before  *)
(* one of its class that queued earlier.                                   *)
Behind(a, b) ==
    /\ ticket[a].sequence < ticket[b].sequence
    /\ ticket[a].queuedAt <= ticket[b].queuedAt
    /\ ticket[a].overtakenBase <= ticket[b].overtakenBase

Ordered ==
    /\ \A r \in waiters :
           /\ ticket[r].sequence <= sequence[Owner[r]]
           /\ ticket[r].queuedAt <= now
           /\ ticket[r].overtakenBase <= interactiveAdmissions[Owner[r]]
    /\ \A a \in waiters, b \in waiters :
           a # b /\ Owner[a] = Owner[b] => Behind(a, b) \/ Behind(b, a)

LEMMA FreshOrdered == Fresh => Ordered
BY DEF Fresh, Ordered

(* Only queueing writes the ticket of one who queues, and what tickets are *)
(* compared with only grows.                                               *)
LEMMA TicketsStay ==
    ASSUME Typed, Callers, [Next]_vars
    PROVE  \/ \E r \in Request : \E left \in Patience : Enqueue(r, left)
           \/ /\ waiters' \subseteq waiters
              /\ \A r \in waiters' : ticket'[r] = ticket[r]
              /\ now' >= now /\ sequence' = sequence
              /\ \A l \in Limiter : interactiveAdmissions'[l] >= interactiveAdmissions[l]
<1> DEFINE Stay == /\ waiters' \subseteq waiters
                   /\ \A r \in waiters' : ticket'[r] = ticket[r]
                   /\ now' >= now /\ sequence' = sequence
                   /\ \A l \in Limiter :
                          interactiveAdmissions'[l] >= interactiveAdmissions[l]
<1> USE DEF clockVars, queueVars, gateVars, sharedVars, pumpVars
<1>1. /\ now \in Nat /\ interactiveAdmissions \in [Limiter -> Nat]
      /\ ticket \in [Request -> [sequence : Nat, queuedAt : Nat, deadline : Nat,
                                overtakenBase : Nat]]
      /\ waiters \subseteq Request
      /\ \A r \in Request : CallerConsistent(r)
  BY DEF Typed, TypeOK, Callers
<1>2. ASSUME NEW r \in Request, Admit(r)
      PROVE  \A l \in Limiter : interactiveAdmissions'[l] >= interactiveAdmissions[l]
  <2>1. interactiveAdmissions' =
            [interactiveAdmissions EXCEPT ![Owner[r]] =
                IF r \in Interactive THEN @ + 1 ELSE @]
    BY <1>2 DEF Admit
  <2> QED
    BY <1>1, <2>1
<1>3. CASE Tick
  BY <1>1, <1>3 DEF Tick
<1>4. CASE Pump
  <2>1. CASE PumpBegin
    BY <1>1, <2>1 DEF PumpBegin
  <2>2. CASE PumpAdmit
    <3>1. PICK r \in Waiting(Head(agenda)) : Admit(r) /\ waiters' = waiters \ {r}
      BY <2>2 DEF PumpAdmit
    <3>2. UNCHANGED <<now, ticket, sequence>>
      BY <2>2 DEF PumpAdmit
    <3>3. r \in Request
      BY <1>1 DEF Waiting
    <3> QED
      BY <1>1, <1>2, <3>1, <3>2, <3>3
  <2>3. CASE PumpArm
    BY <1>1, <2>3 DEF PumpArm
  <2> QED
    BY <1>4, <2>1, <2>2, <2>3 DEF Pump
<1>5. ASSUME NEW r \in Request, Acquire(r)
      PROVE  Stay \/ \E left \in Patience : Enqueue(r, left)
  <2>1. CASE AcquireClosed(r) \/ AcquireExpired(r)
    BY <1>1, <2>1 DEF AcquireClosed, AcquireExpired
  <2>2. CASE \E left \in Patience : AcquireAtOnce(r, left)
    <3>1. PICK left \in Patience : AcquireAtOnce(r, left)
      BY <2>2
    <3>2. call[r] = "idle" /\ Admit(r) /\ UNCHANGED <<now, told, waiters, sequence>>
          /\ ticket' = [ticket EXCEPT ![r].deadline = now + left]
      BY <3>1 DEF AcquireAtOnce
    <3>3. r \notin waiters
      BY <1>1, <3>2 DEF CallerConsistent
    <3>4. \A q \in waiters : ticket'[q] = ticket[q]
      BY <1>1, <3>2, <3>3
    <3> QED
      BY <1>1, <1>2, <3>2, <3>4
  <2> QED
    BY <1>5, <2>1, <2>2 DEF Acquire
<1>6. ASSUME NEW r \in Request, Resume(r) PROVE Stay
  <2>1. /\ ticket' = [ticket EXCEPT ![r] = NoTicket] /\ future[r] \in {"result", "error"}
        /\ UNCHANGED <<now, waiters, sequence, interactiveAdmissions>>
    BY <1>6 DEF Resume
  <2>2. r \notin waiters
    BY <1>1, <2>1 DEF CallerConsistent
  <2>3. \A q \in waiters : ticket'[q] = ticket[q]
    BY <1>1, <2>1, <2>2
  <2> QED
    BY <1>1, <2>1, <2>3
<1>7. ASSUME NEW r \in Request, Cancel(r) PROVE Stay
  BY <1>1, <1>7 DEF Cancel
<1>8. ASSUME NEW r \in Request, ResumeCancelled(r) PROVE Stay
  <2>1. /\ ticket' = [ticket EXCEPT ![r] = NoTicket] /\ waiters' = waiters \ {r}
        /\ UNCHANGED <<now, sequence, interactiveAdmissions>>
    BY <1>8 DEF ResumeCancelled
  <2>2. \A q \in waiters' : ticket'[q] = ticket[q]
    BY <1>1, <2>1
  <2> QED
    BY <1>1, <2>1, <2>2
<1>9. ASSUME NEW r \in Request, Refused(r) PROVE Stay
  <2>1. ASSUME NEW offset, NoteProviderLimited(r, offset) PROVE Stay
    BY <1>1, <2>1 DEF NoteProviderLimited
  <2>2. ASSUME NEW offset, NEW counter, NEW limit, NEW remaining,
               NoteRateLimited(r, counter, offset, limit, remaining)
        PROVE  Stay
    <3>1. UNCHANGED <<now, interactiveAdmissions, waiters, ticket, sequence>>
      BY <2>2, Zenon DEF NoteRateLimited
    <3> QED
      BY <1>1, <3>1
  <2> HIDE DEF Stay
  <2> QED
    BY <1>9, <2>1, <2>2 DEF Refused
<1>10. ASSUME NEW l \in Limiter, Open(l) \/ Close(l) \/ FireTimer(l) PROVE Stay
  BY <1>1, <1>10 DEF Open, Close, FireTimer
<1>11. ASSUME NEW l \in Limiter, NEW accountBudget, NEW ipBudget,
              Configure(l, accountBudget, ipBudget)
       PROVE  Stay
  BY <1>1, <1>11 DEF Configure
<1>12. CASE UNCHANGED vars
  BY <1>1, <1>12 DEF vars
<1> HIDE DEF Stay
<1>13. \/ Stay
       \/ \E r \in Request : \E left \in Patience : Enqueue(r, left)
  <2>1. CASE \E r \in Request : Acquire(r) \/ Resume(r) \/ Cancel(r)
                                \/ ResumeCancelled(r) \/ Refused(r)
    BY <1>5, <1>6, <1>7, <1>8, <1>9, <2>1
  <2>2. CASE \E l \in Limiter :
                 \/ Open(l)
                 \/ \E accountBudget \in Budgets, ipBudget \in Budgets :
                        Configure(l, accountBudget, ipBudget)
                 \/ FireTimer(l)
                 \/ Close(l)
    BY <1>10, <1>11, <2>2
  <2> QED
    BY <1>3, <1>4, <1>12, <2>1, <2>2 DEF Next, Horizon, Stay
<1> QED
  BY <1>13 DEF Stay

LEMMA OrderedStep == Typed /\ Callers /\ Ordered /\ [Next]_vars => Ordered'
<1> SUFFICES ASSUME Typed, Callers, Ordered, [Next]_vars PROVE Ordered'
  OBVIOUS
<1>1. /\ now \in Nat /\ interactiveAdmissions \in [Limiter -> Nat]
      /\ sequence \in [Limiter -> Nat]
      /\ ticket \in [Request -> [sequence : Nat, queuedAt : Nat, deadline : Nat,
                                overtakenBase : Nat]]
      /\ waiters \subseteq Request
      /\ \A r \in Request : Owner[r] \in Limiter
  BY LimiterAssumption DEF Typed, TypeOK
<1>2. interactiveAdmissions' \in [Limiter -> Nat] /\ now' \in Nat
  BY StepTyped DEF Typed, TypeOK
<1>3. CASE /\ waiters' \subseteq waiters
           /\ \A r \in waiters' : ticket'[r] = ticket[r]
           /\ now' >= now /\ sequence' = sequence
           /\ \A l \in Limiter : interactiveAdmissions'[l] >= interactiveAdmissions[l]
  <2>1. ASSUME NEW r \in waiters'
        PROVE  /\ ticket'[r].sequence <= sequence'[Owner[r]]
               /\ ticket'[r].queuedAt <= now'
               /\ ticket'[r].overtakenBase <= interactiveAdmissions'[Owner[r]]
    <3>1. /\ r \in waiters /\ r \in Request /\ ticket'[r] = ticket[r]
          /\ Owner[r] \in Limiter
      BY <1>1, <1>3
    <3>2. /\ ticket[r].sequence <= sequence[Owner[r]]
          /\ ticket[r].queuedAt <= now
          /\ ticket[r].overtakenBase <= interactiveAdmissions[Owner[r]]
      BY <3>1 DEF Ordered
    <3>3. /\ ticket[r].queuedAt \in Nat /\ ticket[r].overtakenBase \in Nat
          /\ interactiveAdmissions[Owner[r]] \in Nat
          /\ interactiveAdmissions'[Owner[r]] \in Nat
          /\ interactiveAdmissions'[Owner[r]] >= interactiveAdmissions[Owner[r]]
      BY <1>1, <1>2, <1>3, <3>1
    <3> QED
      BY <1>1, <1>2, <1>3, <3>1, <3>2, <3>3
  <2>2. ASSUME NEW a \in waiters', NEW b \in waiters', a # b, Owner[a] = Owner[b]
        PROVE  Behind(a, b)' \/ Behind(b, a)'
    BY <1>3, <2>2 DEF Ordered, Behind
  <2> QED
    BY <2>1, <2>2 DEF Ordered
<1>4. ASSUME NEW r \in Request, NEW left \in Patience, Enqueue(r, left)
      PROVE  Ordered'
  <2> DEFINE l == Owner[r]
  <2>1. /\ waiters' = waiters \cup {r} /\ call[r] = "idle"
        /\ sequence' = [sequence EXCEPT ![l] = @ + 1]
        /\ UNCHANGED <<now, interactiveAdmissions>>
        /\ ticket' = [ticket EXCEPT ![r] =
                         [sequence |-> sequence[l] + 1,
                          queuedAt |-> now,
                          deadline |-> now + left,
                          overtakenBase |-> interactiveAdmissions[l]]]
    BY <1>4 DEF Enqueue, clockVars, gateVars
  <2>2. r \notin waiters
    BY <2>1 DEF Callers, CallerConsistent
  <2>3. /\ \A q \in waiters : ticket'[q] = ticket[q]
        /\ ticket'[r].sequence = sequence[l] + 1 /\ ticket'[r].queuedAt = now
        /\ ticket'[r].overtakenBase = interactiveAdmissions[l]
        /\ sequence'[l] = sequence[l] + 1
        /\ \A k \in Limiter \ {l} : sequence'[k] = sequence[k]
    BY <1>1, <2>1, <2>2
  <2>4. ASSUME NEW q \in waiters
        PROVE  /\ ticket'[q].sequence <= sequence'[Owner[q]]
               /\ ticket'[q].queuedAt <= now'
               /\ ticket'[q].overtakenBase <= interactiveAdmissions'[Owner[q]]
               /\ Owner[q] = l => Behind(q, r)'
    <3>1. /\ ticket[q].sequence <= sequence[Owner[q]]
          /\ ticket[q].queuedAt <= now
          /\ ticket[q].overtakenBase <= interactiveAdmissions[Owner[q]]
      BY DEF Ordered
    <3>2. /\ ticket[q].sequence \in Nat /\ sequence[Owner[q]] \in Nat
          /\ Owner[q] \in Limiter /\ l \in Limiter
      BY <1>1
    <3> HIDE DEF l
    <3> QED
      BY <2>1, <2>3, <3>1, <3>2 DEF Behind
  <2>5. /\ ticket'[r].sequence <= sequence'[Owner[r]]
        /\ ticket'[r].queuedAt <= now'
        /\ ticket'[r].overtakenBase <= interactiveAdmissions'[Owner[r]]
    BY <1>1, <2>1, <2>3
  <2>6. ASSUME NEW a \in waiters, NEW b \in waiters, a # b, Owner[a] = Owner[b]
        PROVE  Behind(a, b)' \/ Behind(b, a)'
    BY <2>3, <2>6 DEF Ordered, Behind
  <2> HIDE DEF l
  <2>7. ASSUME NEW a \in waiters', NEW b \in waiters', a # b, Owner[a] = Owner[b]
        PROVE  Behind(a, b)' \/ Behind(b, a)'
    BY <2>1, <2>4, <2>6, <2>7 DEF l
  <2>8. \A q \in waiters' : /\ ticket'[q].sequence <= sequence'[Owner[q]]
                            /\ ticket'[q].queuedAt <= now'
                            /\ ticket'[q].overtakenBase <= interactiveAdmissions'[Owner[q]]
    BY <2>1, <2>4, <2>5
  <2> QED
    BY <2>7, <2>8 DEF Ordered
<1> QED
  BY <1>3, <1>4, TicketsStay

(* Who is admitted past others was chosen by the pump, before each of them *)
(* that the gates let go.                                                  *)
LEMMA AdmittedPast ==
    ASSUME Typed, [Next]_vars, NEW r \in JustAdmitted, Waiting(Owner[r]) # {}
    PROVE  /\ r \in waiters /\ Clear(r)
           /\ \A v \in Waiting(Owner[r]) \ {r} : Clear(v) => ConsideredBefore(r, v)
<1>1. r \in Request /\ admittedAt'[r] # admittedAt[r]
  BY DEF JustAdmitted
<1>2. CASE PumpAdmit
  <2>1. PICK q \in Waiting(Head(agenda)) :
            /\ Clear(q) /\ Admit(q)
            /\ \A v \in Waiting(Head(agenda)) \ {q} : Clear(v) => ConsideredBefore(q, v)
    BY <1>2 DEF PumpAdmit
  <2>2. q = r
    <3>1. admittedAt' = [admittedAt EXCEPT ![q] = now]
      BY <2>1 DEF Admit
    <3> QED
      BY <1>1, <3>1 DEF Typed, TypeOK
  <2>3. Owner[r] = Head(agenda) /\ r \in waiters
    BY <2>1, <2>2 DEF Waiting
  <2> QED
    BY <2>1, <2>2, <2>3
<1>3. ASSUME NEW q \in Request, Acquire(q) PROVE FALSE
  <2>1. PICK left \in Patience : AcquireAtOnce(q, left)
    BY <1>1, <1>3 DEF Acquire, AcquireClosed, AcquireExpired, Enqueue, gateVars
  <2>2. Admit(q) /\ Waiting(Owner[q]) = {}
    BY <2>1 DEF AcquireAtOnce, CanAdmitNow
  <2>3. admittedAt' = [admittedAt EXCEPT ![q] = now]
    BY <2>2 DEF Admit
  <2>4. q = r
    BY <1>1, <2>3 DEF Typed, TypeOK
  <2> QED
    BY <2>2, <2>4
<1>4. ~Tick /\ ~PumpBegin /\ ~PumpArm
  BY <1>1 DEF Tick, PumpBegin, PumpArm, gateVars
<1>5. ASSUME NEW q \in Request
      PROVE  ~Resume(q) /\ ~Cancel(q) /\ ~ResumeCancelled(q) /\ ~Refused(q)
  <2>1. ~Refused(q)
    BY <1>1, RefusedKeeps
  <2> QED
    BY <1>1, <2>1 DEF Resume, Cancel, ResumeCancelled, gateVars
<1>6. ASSUME NEW l \in Limiter
      PROVE  /\ ~Open(l) /\ ~Close(l) /\ ~FireTimer(l)
             /\ \A accountBudget, ipBudget : ~Configure(l, accountBudget, ipBudget)
  BY <1>1 DEF Open, Close, FireTimer, Configure, gateVars
<1>7. ~UNCHANGED vars
  BY <1>1 DEF vars, gateVars
<1> QED
  BY <1>2, <1>3, <1>4, <1>5, <1>6, <1>7, Zenon DEF Next, Pump, Horizon

(* Among those that have aged, one queued first. *)
LEMMA FirstOfThem ==
    ASSUME Typed, Ordered, NEW l \in Limiter, NEW S \in SUBSET Waiting(l), S # {}
    PROVE  \E w \in S : \A v \in S \ {w} : ticket[w].sequence < ticket[v].sequence
<1> DEFINE Numbers == {ticket[v].sequence : v \in S}
<1>1. /\ \A v \in S : /\ v \in waiters /\ Owner[v] = l
                      /\ ticket[v].sequence \in Nat
  BY DEF Waiting, Typed, TypeOK
<1>2. Numbers \in SUBSET Nat /\ Numbers # {}
  BY <1>1
<1>3. Min(Numbers) \in Numbers /\ \A n \in Numbers : Min(Numbers) <= n
  BY <1>2, MinOfNaturals
<1>4. PICK w \in S : ticket[w].sequence = Min(Numbers)
  BY <1>3
<1> HIDE DEF Numbers
<1>5. ASSUME NEW v \in S \ {w} PROVE ticket[w].sequence < ticket[v].sequence
  <2>1. ticket[v].sequence \in Numbers
    BY DEF Numbers
  <2>2. Min(Numbers) <= ticket[v].sequence
    BY <1>3, <2>1
  <2>3. Behind(w, v) \/ Behind(v, w)
    BY <1>1 DEF Ordered
  <2>4. ticket[v].sequence # ticket[w].sequence
    BY <1>1, <2>3 DEF Behind
  <2> QED
    BY <1>1, <1>4, <2>2, <2>4
<1> QED
  BY <1>5
-----------------------------------------------------------------------------
(* A limiter is in the agenda of the running handler, or asleep: its timer *)
(* is armed for no later than the first instant at which the gates, as     *)
(* they are now, would let the caller go.                                  *)
ClearAt(r, t) ==
    /\ t >= providerUntil
    /\ \A g \in GatesFor(r) : /\ ~IsSuppressed(gate[g], t)
                              /\ CapacityAvailable(gate[g], admittedAt, t)

Asleep(r) ==
    /\ timer[Owner[r]] # 0
    /\ \A t \in Nat : t >= now /\ ClearAt(r, t) => timer[Owner[r]] <= t

Woken == \A r \in waiters : Scheduled(Owner[r]) \/ Asleep(r)

LEMMA FreshWoken == Fresh => Woken
BY DEF Fresh, Woken

(* The instant the pump arms its timer for on behalf of one caller is not  *)
(* later than the first at which that caller could go.                     *)
LEMMA BlockedUntilIsFirst ==
    ASSUME Typed, NEW r \in Request, ~Clear(r), NEW t \in Nat, t >= now, ClearAt(r, t)
    PROVE  BlockedUntil(r) <= t
<1> DEFINE suppressed == {g \in GatesFor(r) : IsSuppressed(gate[g], now)}
           full == {g \in GatesFor(r) : ~CapacityAvailable(gate[g], admittedAt, now)}
           silences == {gate[g].suppressedUntil : g \in suppressed}
           rooms == {NextAvailable(gate[g], admittedAt, now) : g \in full}
<1>1. now \in Nat /\ providerUntil \in Nat /\ GatesFor(r) \subseteq Gate
  BY GatesOfRequest DEF Typed, TypeOK
<1>2. BlockedUntil(r) = IF now < providerUntil THEN providerUntil
                        ELSE IF suppressed # {} THEN Max(silences) ELSE Max(rooms)
  BY DEF BlockedUntil
<1>3. t >= providerUntil
  BY DEF ClearAt
<1>4. ASSUME NEW g \in suppressed
      PROVE  gate[g].suppressedUntil \in Nat /\ gate[g].suppressedUntil <= t
  <2>1. g \in Gate /\ g \in GatesFor(r) /\ gate[g].suppressedUntil \in Nat
    BY <1>1 DEF Typed, TypeOK, IsGate
  <2> QED
    BY <2>1 DEF ClearAt, IsSuppressed
<1>5. ASSUME NEW g \in full
      PROVE  /\ NextAvailable(gate[g], admittedAt, now) \in Nat
             /\ NextAvailable(gate[g], admittedAt, now) <= t
  <2>1. g \in Gate /\ g \in GatesFor(r) /\ ~CapacityAvailable(gate[g], admittedAt, now)
    BY <1>1
  <2>2. /\ IsGate(gate[g], Request)
        /\ \A q \in gate[g].admissions : admittedAt[q] \in Nat /\ admittedAt[q] <= now
        /\ \A e \in gate[g].synthetic : e.at <= now
    <3>1. IsGate(gate[g], Request)
      BY <2>1 DEF Typed, TypeOK
    <3>2. \A q \in gate[g].admissions : q \in Request /\ admittedAt[q] # Never
      BY <2>1, <3>1 DEF Typed, Past, IsGate
    <3> QED
      BY <2>1, <3>1, <3>2 DEF Typed, TypeOK, Past
  <2>3. CapacityAvailable(gate[g], admittedAt, t)
    BY <2>1 DEF ClearAt
  <2>4. NextAvailable(gate[g], admittedAt, now) \in Nat
    BY <1>1, <2>1, <2>2, NextAvailableIsAhead
  <2>5. NextAvailable(gate[g], admittedAt, now) <= t
    BY <1>1, <2>1, <2>2, <2>3, NextAvailableIsFirst
  <2> QED
    BY <2>4, <2>5
<1>6. CASE now < providerUntil
  BY <1>2, <1>3, <1>6
<1>7. CASE ~(now < providerUntil) /\ suppressed # {}
  <2>1. silences \in SUBSET Nat /\ silences # {} /\ \A x \in silences : x <= t
    BY <1>4, <1>7
  <2> HIDE DEF suppressed, silences
  <2>2. Max(silences) \in silences
    BY <2>1, MaxOfNaturals
  <2> QED
    BY <1>2, <1>7, <2>1, <2>2
<1>8. CASE ~(now < providerUntil) /\ suppressed = {}
  <2>1. full # {}
    BY <1>1, <1>8 DEF Clear
  <2>2. rooms \in SUBSET Nat /\ rooms # {} /\ \A x \in rooms : x <= t
    BY <1>5, <2>1
  <2> HIDE DEF suppressed, rooms
  <2>3. Max(rooms) \in rooms
    BY <2>2, MaxOfNaturals
  <2> QED
    BY <1>2, <1>8, <2>2, <2>3
<1> QED
  BY <1>6, <1>7, <1>8

(* No handler but a change of budgets lets a caller go any sooner. *)
LEMMA NoSooner ==
    ASSUME Typed, Charged, [Next]_vars, NEW q \in waiters,
           ~ \E l \in Limiter : \E accountBudget \in Budgets, ipBudget \in Budgets :
                 Configure(l, accountBudget, ipBudget),
           NEW t \in Nat, t >= now, ClearAt(q, t)'
    PROVE  ClearAt(q, t)
<1>1. /\ now \in Nat /\ q \in Request /\ GatesFor(q) \subseteq Gate
      /\ t >= providerUntil'
      /\ providerUntil \in Nat /\ providerUntil' \in Nat
      /\ admittedAt \in [Request -> Nat \cup {Never}]
  BY StepTyped, GatesOfRequest DEF Typed, TypeOK, ClearAt
<1>2. ASSUME NEW g \in GatesFor(q)
      PROVE  /\ g \in Gate /\ IsGate(gate[g], Request)
             /\ ~IsSuppressed(gate'[g], t)
             /\ CapacityAvailable(gate'[g], admittedAt', t)
             /\ \A r \in gate[g].admissions : /\ r \in Request /\ admittedAt[r] \in Nat
                                              /\ admittedAt[r] <= now
             /\ \A e \in gate[g].synthetic : e.at <= now
             /\ gate[g].suppressedUntil \in Nat
  <2>1. g \in Gate /\ IsGate(gate[g], Request) /\ gate[g].suppressedUntil \in Nat
    BY <1>1 DEF Typed, TypeOK, IsGate
  <2>2. \A r \in gate[g].admissions : r \in Request /\ admittedAt[r] # Never
    BY <2>1 DEF Typed, Past, IsGate
  <2>3. ~IsSuppressed(gate'[g], t) /\ CapacityAvailable(gate'[g], admittedAt', t)
    BY DEF ClearAt
  <2> QED
    BY <2>1, <2>2, <2>3 DEF Typed, TypeOK, Past
<1>3. ASSUME UNCHANGED <<gate, admittedAt, providerUntil>> PROVE ClearAt(q, t)
  BY <1>1, <1>2, <1>3 DEF ClearAt
<1>4. ASSUME NEW r \in Request, Admission(r) PROVE ClearAt(q, t)
  <2>1. /\ Admit(r) /\ UNCHANGED <<now, providerUntil>>
        /\ admittedAt' = [admittedAt EXCEPT ![r] = now]
    BY <1>4 DEF Admission, Admit, clockVars, sharedVars
  <2> DEFINE later == admittedAt'
  <2>2. later[r] = now /\ \A p \in Request \ {r} : later[p] = admittedAt[p]
    BY <1>1, <2>1
  <2>3. ASSUME NEW g \in GatesFor(q)
        PROVE  ~IsSuppressed(gate[g], t) /\ CapacityAvailable(gate[g], admittedAt, t)
    <3>1. g \in Gate /\ IsGate(gate[g], Request)
      BY <1>2
    <3>2. gate'[g].suppressedUntil = gate[g].suppressedUntil
      BY <2>1, <3>1, AdmittedGates
    <3>3. ~IsSuppressed(gate[g], t)
      BY <1>2, <3>2 DEF IsSuppressed
    <3>4. gate'[g] = IF g \in GatesFor(r) THEN Record(gate[g], r, admittedAt, now)
                     ELSE gate[g]
      BY <2>1, <3>1 DEF Admit
    <3>5. CapacityAvailable(gate'[g], later, t)
      BY <1>2
    <3>6. /\ \A p \in gate[g].admissions : admittedAt[p] \in Nat /\ admittedAt[p] <= now
          /\ \A p \in gate[g].admissions \ {r} : later[p] = admittedAt[p]
      BY <1>2, <2>2
    <3>7. CASE g \in GatesFor(r)
      <4>1. CapacityAvailable(Record(gate[g], r, admittedAt, now), later, t)
        BY <3>4, <3>5, <3>7
      <4>2. later[r] = now
        BY <2>2
      <4> HIDE DEF later
      <4>3. CapacityAvailable(gate[g], admittedAt, t)
        BY <1>1, <3>1, <3>6, <4>1, <4>2, RecordLeavesLess
      <4> QED
        BY <3>3, <4>3
    <3>8. CASE g \notin GatesFor(r)
      <4>1. gate'[g] = gate[g] /\ r \notin gate[g].admissions
        BY <3>1, <3>4, <3>8 DEF Charged
      <4> HIDE DEF later
      <4>2. Admitted(gate[g], later, t) = Admitted(gate[g], admittedAt, t)
        BY <3>6, <4>1 DEF Admitted
      <4>3. CapacityAvailable(gate[g], admittedAt, t)
        BY <3>5, <4>1, <4>2 DEF CapacityAvailable, InWindow
      <4> QED
        BY <3>3, <4>3
    <3> QED
      BY <3>7, <3>8
  <2> QED
    BY <1>1, <2>1, <2>3 DEF ClearAt
<1>5. ASSUME NEW r \in Request, NEW offset \in RetryOffsets, NoteProviderLimited(r, offset)
      PROVE  ClearAt(q, t)
  <2>1. /\ UNCHANGED <<gate, admittedAt>>
        /\ providerUntil' = IF now + SuppressionDelay(offset) <= providerUntil
                            THEN providerUntil ELSE now + SuppressionDelay(offset)
    BY <1>5 DEF NoteProviderLimited, gateVars
  <2>2. SuppressionDelay(offset) \in Nat \ {0}
    BY LimiterAssumption, SuppressionDelayIsPositive
  <2>3. t >= providerUntil
    BY <1>1, <2>1, <2>2
  <2> QED
    BY <1>2, <2>1, <2>3 DEF ClearAt
<1>6. ASSUME NEW r \in Request, NEW offset \in RetryOffsets, NEW counter,
             NEW limit \in Limits, NEW remaining \in Remainings,
             NoteRateLimited(r, counter, offset, limit, remaining)
      PROVE  ClearAt(q, t)
  <2> DEFINE until == now + SuppressionDelay(offset)
             silent(h) == SuppressUntil(gate[h], until)
             noted(h) == Reconcile(silent(h), admittedAt, now, limit, remaining)
  <2>1. limit \in Int /\ remaining \in Int /\ until \in Nat
    <3>1. SuppressionDelay(offset) \in Nat \ {0}
      BY LimiterAssumption, SuppressionDelayIsPositive
    <3> QED
      BY <1>1, <3>1, LimiterAssumption
  <2>2. gate' = [h \in Gate |-> IF h \in Targets(r, counter) THEN noted(h) ELSE gate[h]]
    BY <1>6, Zenon DEF NoteRateLimited
  <2>3. UNCHANGED <<admittedAt, providerUntil>>
    BY <1>6, Zenon DEF NoteRateLimited, sharedVars
  <2> HIDE DEF until
  <2>4. ASSUME NEW g \in GatesFor(q)
        PROVE  ~IsSuppressed(gate[g], t) /\ CapacityAvailable(gate[g], admittedAt, t)
    <3>1. g \in Gate /\ IsGate(gate[g], Request)
      BY <1>2
    <3>2. gate'[g].suppressedUntil >= gate[g].suppressedUntil /\ gate'[g].suppressedUntil \in Nat
      BY <1>6, <3>1, NotedGates DEF IsGate
    <3>3. ~IsSuppressed(gate[g], t)
      BY <1>2, <3>2 DEF IsSuppressed
    <3>4. CASE g \in Targets(r, counter)
      <4>1. CapacityAvailable(noted(g), admittedAt, t)
        BY <1>2, <2>2, <2>3, <3>1, <3>4
      <4>2. IsGate(silent(g), Request)
        BY <2>1, <3>1, SuppressUntilKeepsGate
      <4>3. /\ silent(g).admissions = gate[g].admissions
            /\ silent(g).synthetic = gate[g].synthetic
            /\ silent(g).budget = gate[g].budget
        BY <3>1 DEF SuppressUntil, IsGate
      <4> HIDE DEF silent
      <4>4. CapacityAvailable(silent(g), admittedAt, t)
        BY <1>1, <2>1, <4>1, <4>2, ReconcileLeavesLess
      <4>5. CapacityAvailable(gate[g], admittedAt, t)
        BY <4>3, <4>4 DEF CapacityAvailable, InWindow, Admitted, Synthetic
      <4> QED
        BY <3>3, <4>5
    <3>5. CASE g \notin Targets(r, counter)
      <4> HIDE DEF noted
      <4>1. gate'[g] = gate[g]
        BY <2>2, <3>1, <3>5
      <4> QED
        BY <1>2, <2>3, <3>3, <4>1
    <3> QED
      BY <3>4, <3>5
  <2> QED
    BY <1>1, <2>3, <2>4 DEF ClearAt
<1>7. CASE \E r \in Request : Refused(r)
  BY <1>5, <1>6, <1>7 DEF Refused
<1>8. ASSUME NEW l \in Limiter, Open(l) PROVE ClearAt(q, t)
  <2>1. UNCHANGED <<admittedAt, providerUntil>>
    BY <1>8 DEF Open
  <2>2. ASSUME NEW g \in GatesFor(q) PROVE gate'[g] = gate[g]
    <3>1. phase[Owner[q]] = "open" /\ Owner[q] \in Limiter
      BY GatesOfRequest, <1>1 DEF Charged
    <3>2. Created(g)
      BY <3>1 DEF Created, GatesFor
    <3> QED
      BY <1>2, <1>8, <3>2, OpenKeepsCreated
  <2> QED
    BY <1>1, <1>2, <2>1, <2>2 DEF ClearAt
<1>9. CASE Tick
  BY <1>3, <1>9 DEF Tick, gateVars, sharedVars
<1>10. CASE \E r \in Request : \E left \in Patience : Enqueue(r, left)
  BY <1>3, <1>10 DEF Enqueue, gateVars, sharedVars
<1>11. CASE \E l \in Limiter : Close(l)
  BY <1>3, <1>11 DEF Close, gateVars
<1>12. CASE UNCHANGED <<clockVars, gateVars, sharedVars>>
  BY <1>3, <1>12 DEF gateVars, sharedVars
<1> QED
  BY <1>4, <1>7, <1>8, <1>9, <1>10, <1>11, <1>12, StepKinds
-----------------------------------------------------------------------------
(* A handler leaves the limiter of a queued caller in the agenda, or its   *)
(* timer as it was, unless it is the pump that arms it.                    *)
LEMMA TimersStay ==
    ASSUME Typed, Callers, [Next]_vars, NEW q \in waiters',
           ~ \E l \in Limiter : \E accountBudget \in Budgets, ipBudget \in Budgets :
                 Configure(l, accountBudget, ipBudget)
    PROVE  \/ Scheduled(Owner[q])'
           \/ /\ q \in waiters /\ timer'[Owner[q]] = timer[Owner[q]]
              /\ Scheduled(Owner[q]) => Scheduled(Owner[q])'
           \/ PumpArm /\ q \in Waiting(Head(agenda))
<1> DEFINE Stays == /\ q \in waiters /\ timer'[Owner[q]] = timer[Owner[q]]
                    /\ Scheduled(Owner[q]) => Scheduled(Owner[q])'
<1>0. /\ timer \in [Limiter -> Nat] /\ waiters' \subseteq Request /\ waiters \subseteq Request
      /\ \A r \in Request : Owner[r] \in Limiter
  BY StepTyped, LimiterAssumption DEF Typed, TypeOK
<1> USE DEF clockVars, queueVars, gateVars, sharedVars, pumpVars
<1>1. q \in Request /\ Owner[q] \in Limiter
  BY <1>0
<1>2. ASSUME UNCHANGED <<timer, agenda>>, q \in waiters PROVE Stays
  BY <1>2 DEF Scheduled
<1>3. ASSUME Idle PROVE ~Scheduled(Owner[q])
  BY <1>3 DEF Idle, Scheduled
<1>4. CASE PumpBegin
  <2> DEFINE l == Head(agenda)
             done == {r \in Waiting(l) : future[r] # "pending"}
             expired == {r \in Waiting(l) \ done : OutOfTime(r)}
             left == Waiting(l) \ (done \cup expired)
  <2>1. /\ ~Idle /\ waiters' = waiters \ (done \cup expired)
        /\ timer' = [timer EXCEPT ![l] = 0]
        /\ agenda' = IF left = {} THEN Tail(agenda) ELSE agenda
    BY <1>4 DEF PumpBegin
  <2>2. CASE Owner[q] = l
    <3>1. q \in left
      BY <2>1, <2>2 DEF Waiting
    <3>2. agenda' = agenda
      BY <2>1, <3>1
    <3>3. agenda \in Seq(Limiter) /\ agenda # <<>>
      BY <2>1 DEF Typed, TypeOK, Idle
    <3>4. 1 \in DOMAIN agenda /\ agenda[1] = l
      BY <3>3, LenProperties
    <3> QED
      BY <2>2, <3>2, <3>4 DEF Scheduled
  <2>3. CASE Owner[q] # l
    <3>1. q \in waiters /\ timer'[Owner[q]] = timer[Owner[q]]
      BY <1>0, <1>1, <2>1, <2>3
    <3>2. Scheduled(Owner[q]) => Scheduled(Owner[q])'
      <4>1. CASE agenda' = agenda
        BY <4>1 DEF Scheduled
      <4>2. CASE agenda' = Tail(agenda)
        BY <1>1, <2>1, <2>3, <4>2, TailKeepsScheduled
      <4> QED
        BY <2>1, <4>1, <4>2
    <3> QED
      BY <3>1, <3>2
  <2> QED
    BY <2>2, <2>3
<1>5. CASE PumpAdmit
  <2>1. waiters' \subseteq waiters /\ UNCHANGED <<timer, agenda>>
    BY <1>5 DEF PumpAdmit
  <2> QED
    BY <1>2, <2>1
<1>6. CASE PumpArm
  <2> DEFINE l == Head(agenda)
  <2>1. /\ ~Idle /\ agenda' = Tail(agenda) /\ UNCHANGED waiters
        /\ timer' = [timer EXCEPT ![l] = IF Waiting(l) = {} THEN 0 ELSE Min(Wakeups(l))]
    BY <1>6 DEF PumpArm
  <2>2. CASE Owner[q] = l
    BY <1>6, <2>1, <2>2 DEF Waiting
  <2>3. CASE Owner[q] # l
    <3>1. timer'[Owner[q]] = timer[Owner[q]]
      BY <1>0, <1>1, <2>1, <2>3
    <3>2. Scheduled(Owner[q]) => Scheduled(Owner[q])'
      BY <1>1, <2>1, <2>3, TailKeepsScheduled
    <3> QED
      BY <2>1, <3>1, <3>2
  <2> QED
    BY <2>2, <2>3
<1>7. CASE Tick
  BY <1>2, <1>7 DEF Tick
<1>8. ASSUME NEW r \in Request, Acquire(r) PROVE Stays \/ Scheduled(Owner[q])'
  <2>1. CASE AcquireClosed(r) \/ AcquireExpired(r) \/ \E left \in Patience : AcquireAtOnce(r, left)
    BY <1>2, <2>1 DEF AcquireClosed, AcquireExpired, AcquireAtOnce
  <2>2. ASSUME NEW left \in Patience, Enqueue(r, left) PROVE Stays \/ Scheduled(Owner[q])'
    <3>1. /\ Idle /\ UNCHANGED timer /\ agenda' = <<Owner[r]>>
          /\ waiters' = waiters \cup {r}
      BY <2>2 DEF Enqueue
    <3>2. CASE q = r
      BY <3>1, <3>2 DEF Scheduled
    <3>3. CASE q # r
      BY <1>3, <3>1, <3>3
    <3> QED
      BY <3>2, <3>3
  <2> QED
    BY <1>8, <2>1, <2>2 DEF Acquire
<1>9. ASSUME NEW r \in Request, Resume(r) \/ Cancel(r) PROVE Stays
  BY <1>2, <1>9 DEF Resume, Cancel
<1>10. ASSUME NEW r \in Request, ResumeCancelled(r) PROVE Stays
  BY <1>3, <1>10 DEF ResumeCancelled
<1>11. ASSUME NEW r \in Request, Refused(r) PROVE Stays
  <2>1. Idle /\ UNCHANGED <<waiters, timer>>
    BY <1>11, Zenon DEF Refused, NoteProviderLimited, NoteRateLimited
  <2> QED
    BY <1>3, <2>1
<1>12. ASSUME NEW l \in Limiter, Open(l) PROVE Stays
  BY <1>2, <1>12 DEF Open
<1>13. ASSUME NEW l \in Limiter, FireTimer(l) PROVE Stays \/ Scheduled(Owner[q])'
  <2>1. /\ Idle /\ UNCHANGED waiters
        /\ timer' = [timer EXCEPT ![l] = 0] /\ agenda' = <<l>>
    BY <1>13 DEF FireTimer
  <2>2. CASE Owner[q] = l
    BY <2>1, <2>2 DEF Scheduled
  <2>3. CASE Owner[q] # l
    BY <1>0, <1>1, <1>3, <2>1, <2>3
  <2> QED
    BY <2>2, <2>3
<1>14. ASSUME NEW l \in Limiter, Close(l) PROVE Stays
  <2>1. /\ Idle /\ waiters' = waiters \ Waiting(l) /\ timer' = [timer EXCEPT ![l] = 0]
    BY <1>14 DEF Close
  <2>2. q \in waiters /\ Owner[q] # l
    BY <2>1 DEF Waiting
  <2> QED
    BY <1>0, <1>1, <1>3, <2>1, <2>2
<1>15. CASE UNCHANGED vars
  BY <1>2, <1>15 DEF vars
<1> HIDE DEF Stays
<1>16. \/ Stays \/ Scheduled(Owner[q])'
       \/ PumpArm /\ q \in Waiting(Head(agenda))
  <2>1. CASE \E r \in Request : Acquire(r) \/ Resume(r) \/ Cancel(r)
                                \/ ResumeCancelled(r) \/ Refused(r)
    BY <1>8, <1>9, <1>10, <1>11, <2>1
  <2>2. CASE \E l \in Limiter :
                 \/ Open(l)
                 \/ \E accountBudget \in Budgets, ipBudget \in Budgets :
                        Configure(l, accountBudget, ipBudget)
                 \/ FireTimer(l)
                 \/ Close(l)
    BY <1>12, <1>13, <1>14, <2>2
  <2>3. CASE Pump
    BY <1>4, <1>5, <1>6, <2>3 DEF Pump, Stays
  <2> QED
    BY <1>7, <1>15, <2>1, <2>2, <2>3 DEF Next, Horizon, Stays
<1> QED
  BY <1>16 DEF Stays

(* A change of budgets pumps every limiter that is open. *)
LEMMA ConfigureSchedules ==
    ASSUME Typed, Charged, Listening, NEW l \in Limiter, NEW accountBudget, NEW ipBudget,
           Configure(l, accountBudget, ipBudget), NEW q \in waiters'
    PROVE  Scheduled(Owner[q])'
<1> DEFINE own == Listeners(AccountGate(l))
<1>1. /\ agenda' = own \o Listeners(IpGate) \o <<l>>
      /\ waiters' = waiters
  BY DEF Configure, queueVars
<1>2. phase[Owner[q]] = "open" /\ Owner[q] \in Limiter
  BY <1>1, LimiterAssumption DEF Charged, Typed, TypeOK
<1>3. PICK i \in DOMAIN attached : attached[i] = Owner[q]
  BY <1>2 DEF Listening
<1>4. /\ own \in Seq(Limiter) /\ attached \in Seq(Limiter)
      /\ <<l>> \in Seq(Limiter) /\ Listeners(IpGate) = attached
  <2>1. own \in Seq(Limiter)
    BY ListenersAreLimiters DEF Gate
  <2>2. attached \in Seq(Limiter) /\ Listeners(IpGate) = attached
    BY DEF Listeners, Typed, TypeOK
  <2>3. <<l>> \in Seq(Limiter)
    OBVIOUS
  <2> QED
    BY <2>1, <2>2, <2>3
<1> HIDE DEF own
<1>5. /\ own \o attached \in Seq(Limiter)
      /\ Len(own \o attached) = Len(own) + Len(attached)
      /\ Len(own) \in Nat /\ Len(attached) \in Nat
      /\ DOMAIN attached = 1..Len(attached)
      /\ (own \o attached)[Len(own) + i] = attached[i]
  BY <1>4, ConcatProperties, LenProperties
<1>6. /\ Len(own \o attached \o <<l>>) = Len(own) + Len(attached) + 1
      /\ own \o attached \o <<l>> \in Seq(Limiter)
      /\ (own \o attached \o <<l>>)[Len(own) + i] = attached[i]
  BY <1>4, <1>5, ConcatProperties
<1>7. Len(own) + i \in DOMAIN agenda' /\ agenda'[Len(own) + i] = Owner[q]
  <2>1. DOMAIN (own \o attached \o <<l>>) = 1..(Len(own) + Len(attached) + 1)
    BY <1>6, LenProperties
  <2>2. Len(own) + i \in 1..(Len(own) + Len(attached) + 1)
    BY <1>5
  <2> QED
    BY <1>1, <1>3, <1>4, <1>6, <2>1, <2>2
<1> QED
  BY <1>7 DEF Scheduled

LEMMA WokenStep ==
    Typed /\ Charged /\ Callers /\ Pumping /\ Listening /\ Woken /\ [Next]_vars => Woken'
<1> SUFFICES ASSUME Typed, Charged, Callers, Pumping, Listening, Woken, [Next]_vars,
                    NEW q \in waiters'
             PROVE  Scheduled(Owner[q])' \/ Asleep(q)'
  BY DEF Woken
<1>1. /\ now \in Nat /\ now' \in Nat /\ now' >= now /\ q \in Request
      /\ Owner[q] \in Limiter /\ timer \in [Limiter -> Nat]
  <2>1. now' >= now
    BY TicketsStay DEF Enqueue, clockVars, Typed, TypeOK
  <2> QED
    BY <2>1, StepTyped, LimiterAssumption DEF Typed, TypeOK
<1>2. CASE \E l \in Limiter : \E accountBudget \in Budgets, ipBudget \in Budgets :
               Configure(l, accountBudget, ipBudget)
  BY <1>2, ConfigureSchedules
<1>3. CASE ~ \E l \in Limiter : \E accountBudget \in Budgets, ipBudget \in Budgets :
                 Configure(l, accountBudget, ipBudget)
  <2>1. CASE /\ q \in waiters /\ timer'[Owner[q]] = timer[Owner[q]]
             /\ Scheduled(Owner[q]) => Scheduled(Owner[q])'
    <3>1. SUFFICES ASSUME Asleep(q) PROVE Asleep(q)'
      BY <2>1 DEF Woken
    <3>2. ASSUME NEW t \in Nat, t >= now', ClearAt(q, t)'
          PROVE  timer[Owner[q]] <= t
      <4>1. t >= now
        BY <1>1, <3>2
      <4>2. ClearAt(q, t)
        BY <1>3, <2>1, <3>2, <4>1, NoSooner
      <4> QED
        BY <3>1, <4>1, <4>2 DEF Asleep
    <3> QED
      BY <2>1, <3>1, <3>2 DEF Asleep
  <2>2. CASE PumpArm /\ q \in Waiting(Head(agenda))
    <3> DEFINE l == Head(agenda)
    <3>1. /\ timer' = [timer EXCEPT ![l] = IF Waiting(l) = {} THEN 0 ELSE Min(Wakeups(l))]
          /\ \A r \in Waiting(l) : ~Clear(r)
          /\ UNCHANGED <<now, gate, admittedAt, providerUntil>>
          /\ deadlines # {} /\ Owner[q] = l
      BY <2>2 DEF PumpArm, clockVars, gateVars, sharedVars, Waiting
    <3>2. \A r \in Waiting(l) : BlockedUntil(r) \in Nat /\ BlockedUntil(r) > now
      BY <3>1, BlockedUntilIsAhead DEF Waiting, Typed, TypeOK
    <3>3. deadlines \subseteq Nat /\ \A d \in deadlines : d > now
      BY <3>1 DEF Pumping, Typed, TypeOK
    <3>4. /\ Wakeups(l) \in SUBSET Nat /\ BlockedUntil(q) \in Wakeups(l)
          /\ \A w \in Wakeups(l) : w > now
      <4> HIDE DEF l
      <4> QED
        BY <2>2, <3>2, <3>3 DEF Wakeups, l
    <3>5. Min(Wakeups(l)) \in Wakeups(l) /\ Min(Wakeups(l)) <= BlockedUntil(q)
      BY <3>4, MinOfNaturals
    <3>6. timer'[Owner[q]] = Min(Wakeups(l))
      BY <1>1, <2>2, <3>1
    <3>7. BlockedUntil(q) \in Nat
      BY <2>2, <3>2
    <3> HIDE DEF l
    <3>8. timer'[Owner[q]] \in Nat /\ timer'[Owner[q]] # 0 /\ timer'[Owner[q]] <= BlockedUntil(q)
      BY <1>1, <3>4, <3>5, <3>6
    <3>9. ASSUME NEW t \in Nat, t >= now', ClearAt(q, t)'
          PROVE  timer'[Owner[q]] <= t
      <4>1. ClearAt(q, t) /\ t >= now
        BY <3>1, <3>9 DEF ClearAt
      <4>2. ~Clear(q)
        BY <2>2, <3>1 DEF l
      <4>3. BlockedUntil(q) <= t
        BY <1>1, <4>1, <4>2, BlockedUntilIsFirst
      <4> QED
        BY <3>7, <3>8, <4>3
    <3> QED
      BY <3>8, <3>9 DEF Asleep
  <2> QED
    BY <1>3, <2>1, <2>2, TimersStay
<1> QED
  BY <1>2, <1>3
-----------------------------------------------------------------------------
Inv == /\ Typed /\ Charged /\ WindowBound /\ Silenced
       /\ Callers /\ Pumping /\ Timed /\ Listening /\ Occupancy /\ Ordered
       /\ Woken

LEMMA FreshInv == Fresh => Inv
BY FreshTyped, FreshCharged, FreshBounded, FreshCallers, FreshSilenced, FreshTimed,
   FreshListening, FreshOccupancy, FreshOrdered, FreshWoken DEF Inv

LEMMA InitInv == Init => Inv
BY InitFresh, FreshInv

LEMMA StepInv == Inv /\ [Next]_vars => Inv'
BY StepTyped, ChargedStep, BoundStep, CallersStep, PumpingStep, SilencedStep,
   TimedStep, ListeningStep, OccupancyStep, OrderedStep, WokenStep DEF Inv

LEMMA Invariance == Spec => []Inv
BY InitInv, StepInv, PTL DEF Spec

(* The documented ceiling holds of every window and every gate, whatever   *)
(* budgets are configured and reconciled and whatever callers do.          *)
THEOREM WindowBounded == Spec => []WindowBound
<1>1. Inv => WindowBound
  BY DEF Inv
<1> QED
  BY <1>1, Invariance, PTL

(* What a gate counts, real admissions, startup hold and what the server   *)
(* reported together, stays within the ceiling, in whatever order budgets  *)
(* are lowered, holds resized and counters reconciled (the `room` of       *)
(* reconcile, _resize_startup_hold).                                       *)
THEOREM OccupancyBounded == Spec => []OccupancyWithinCeiling
<1>1. Inv => OccupancyWithinCeiling
  BY DEF Inv, Occupancy, Occupied, OccupancyWithinCeiling
<1> QED
  BY <1>1, Invariance, PTL

(* Every admission finds fewer real admissions in its window than the      *)
(* operator's budget of that moment.                                       *)
THEOREM BudgetRespected == Spec => AdmittedWithinBudget
<1>1. ASSUME Inv, [Next]_vars
      PROVE  \A r \in JustAdmitted : \A g \in GatesFor(r) :
                 Cardinality(InLastWindow(g)) < gate[g].configured
  <2>1. SUFFICES ASSUME NEW r \in JustAdmitted, NEW g \in GatesFor(r)
                 PROVE  Cardinality(InLastWindow(g)) < gate[g].configured
    OBVIOUS
  <2>2. Typed /\ Charged
    BY <1>1 DEF Inv
  <2>3. Clear(r)
    BY <1>1, <2>2, JustAdmittedIsAdmission DEF Admission
  <2>4. g \in Gate
    BY GatesOfRequest DEF JustAdmitted
  <2>5. CapacityAvailable(gate[g], admittedAt, now)
    BY <2>3 DEF Clear
  <2> QED
    BY <2>2, <2>4, <2>5, RoomInWindow
<1>2. Inv /\ [Next]_vars =>
          [\A r \in JustAdmitted : \A g \in GatesFor(r) :
              Cardinality(InLastWindow(g)) < gate[g].configured]_vars
  BY <1>1
<1> QED
  BY <1>2, Invariance, PTL DEF Spec, AdmittedWithinBudget

(* An order that is still in force closes a gate of every request it is    *)
(* about.                                                                  *)
LEMMA ClearUnderOrders ==
    ASSUME Typed, Silenced, NEW r \in Request, Clear(r), NEW order \in told
    PROVE  GatesFor(r) \cap order.gates = {}
<1>1. SUFFICES ASSUME NEW g \in GatesFor(r), g \in order.gates PROVE FALSE
  OBVIOUS
<1>2. g \in Gate
  BY GatesOfRequest
<1>3. /\ now \in Nat /\ providerUntil \in Nat /\ order.until \in Nat
      /\ gate[g].suppressedUntil \in Nat
  BY <1>2 DEF Typed, TypeOK, IsGate
<1>4. now < providerUntil \/ now < gate[g].suppressedUntil
  BY <1>1, <1>3 DEF Silenced
<1> QED
  BY <1>1, <1>3, <1>4 DEF Clear, IsSuppressed

(* No request passes a gate that some 429 still forbids. *)
THEOREM SilenceObeyed == Spec => SilenceKept
<1>1. ASSUME Inv, [Next]_vars, NEW r \in JustAdmitted, NEW order \in told
      PROVE  GatesFor(r) \cap order.gates = {}
  <2>1. Clear(r) /\ r \in Request
    BY <1>1, JustAdmittedIsAdmission DEF Admission, Inv, JustAdmitted
  <2> QED
    BY <1>1, <2>1, ClearUnderOrders DEF Inv
<1>2. Inv /\ [Next]_vars =>
          [\A r \in JustAdmitted : \A order \in told : GatesFor(r) \cap order.gates = {}]_vars
  BY <1>1
<1> QED
  BY <1>2, Invariance, PTL DEF Spec, SilenceKept

(* Nobody awaits a future that no pump can resolve any more. *)
THEOREM NoneStranded == Spec => []NobodyStranded
<1>1. Inv => NobodyStranded
  <2> SUFFICES ASSUME Inv, NEW r \in Request, call[r] = "waiting", future[r] = "pending"
               PROVE  r \in waiters /\ \E i \in DOMAIN attached : attached[i] = Owner[r]
    BY DEF NobodyStranded
  <2>1. r \in waiters
    BY DEF Inv, Callers, CallerConsistent
  <2>2. phase[Owner[r]] = "open" /\ Owner[r] \in Limiter
    BY <2>1, GatesOfRequest DEF Inv, Charged
  <2> QED
    BY <2>1, <2>2 DEF Inv, Listening
<1> QED
  BY <1>1, Invariance, PTL

(* The server's view and the gates' agree on every caller: whoever was     *)
(* admitted stays charged, and nobody else is.                             *)
THEOREM ChargesCorrect == Spec => []ChargedExactly
<1>1. Inv => ChargedExactly
  <2> SUFFICES ASSUME Inv PROVE ChargedExactly
    OBVIOUS
  <2>1. \A g \in Gate : \A r \in gate[g].admissions :
            g \in GatesFor(r) /\ admittedAt[r] # Never
    BY DEF Inv, Charged, Typed, Past
  <2>2. \A r \in Request : CallerConsistent(r)
    BY DEF Inv, Callers
  <2>3. \A g \in Gate : InLastWindow(g) \subseteq gate[g].admissions
    BY DEF Inv, Charged
  <2>4. \A r \in Request : call[r] \in {"sent", "refused"} => admittedAt[r] # Never
    BY <2>2 DEF CallerConsistent
  <2>5. \A r \in Request : call[r] = "failed" \/ future[r] = "cancelled"
                              => admittedAt[r] = Never
    BY <2>2 DEF CallerConsistent
  <2> QED
    BY <2>1, <2>3, <2>4, <2>5, Zenon DEF ChargedExactly
<1> QED
  BY <1>1, Invariance, PTL

(* The timer is armed for the future only: the pump has resolved whoever   *)
(* ran out of time, and what blocks the others ends later.                 *)
THEOREM TimersAhead == Spec => NoZeroDelayTimer
<1>1. ASSUME Inv, [Next]_vars, NEW k \in Limiter
      PROVE  timer'[k] \in {0, timer[k]} \/ timer'[k] > now
  <2>1. timer \in [Limiter -> Nat] /\ now \in Nat
    BY <1>1 DEF Inv, Typed, TypeOK
  <2>2. ASSUME NEW l, timer' = [timer EXCEPT ![l] = 0] PROVE timer'[k] \in {0, timer[k]}
    BY <2>1, <2>2
  <2>3. ASSUME timer' = timer PROVE timer'[k] \in {0, timer[k]}
    BY <2>3
  <2>4. CASE PumpArm
    <3> DEFINE l == Head(agenda)
    <3>1. timer' = [timer EXCEPT ![l] = IF Waiting(l) = {} THEN 0 ELSE Min(Wakeups(l))]
      BY <2>4 DEF PumpArm
    <3>2. ASSUME Waiting(l) # {} PROVE Min(Wakeups(l)) > now
      <4>1. \A r \in Waiting(l) : BlockedUntil(r) \in Nat /\ BlockedUntil(r) > now
        BY <1>1, <2>4, BlockedUntilIsAhead DEF PumpArm, Waiting, Inv, Typed, TypeOK
      <4>2. deadlines \subseteq Nat /\ \A d \in deadlines : d > now
        BY <1>1, <2>4 DEF PumpArm, Inv, Pumping, Typed, TypeOK
      <4> HIDE DEF l
      <4>3. /\ Wakeups(l) \in SUBSET Nat /\ Wakeups(l) # {}
            /\ \A w \in Wakeups(l) : w > now
        BY <3>2, <4>1, <4>2 DEF Wakeups
      <4> QED
        BY <4>3, MinOfNaturals
    <3> HIDE DEF l
    <3> QED
      BY <2>1, <3>1, <3>2
  <2>5. CASE Next /\ ~PumpArm
    <3> USE DEF pumpVars
    <3>1. CASE Tick
      BY <2>3, <3>1 DEF Tick
    <3>2. CASE PumpBegin
      BY <2>2, <3>2 DEF PumpBegin
    <3>3. CASE PumpAdmit
      BY <2>3, <3>3 DEF PumpAdmit
    <3>4. CASE \E r \in Request : Acquire(r)
      BY <2>3, <3>4 DEF Acquire, AcquireClosed, AcquireAtOnce, AcquireExpired, Enqueue
    <3>5. CASE \E r \in Request : Resume(r) \/ Cancel(r) \/ ResumeCancelled(r)
      BY <2>3, <3>5 DEF Resume, Cancel, ResumeCancelled
    <3>6. ASSUME NEW r \in Request, Refused(r) PROVE timer'[k] \in {0, timer[k]}
      <4>1. timer' = timer
        BY <3>6, Zenon DEF Refused, NoteProviderLimited, NoteRateLimited
      <4> QED
        BY <2>3, <4>1
    <3>7. CASE \E l \in Limiter : Open(l)
      BY <2>3, <3>7 DEF Open
    <3>8. CASE \E l \in Limiter : FireTimer(l) \/ Close(l)
      BY <2>2, <3>8 DEF FireTimer, Close
    <3>9. CASE \E l \in Limiter : \E accountBudget \in Budgets, ipBudget \in Budgets :
                   Configure(l, accountBudget, ipBudget)
      BY <2>3, <3>9 DEF Configure
    <3>10. CASE Horizon
      BY <2>3, <3>10 DEF Horizon, vars
    <3> QED
      BY <2>5, <3>1, <3>2, <3>3, <3>4, <3>5, <3>6, <3>7, <3>8, <3>9, <3>10, Zenon
         DEF Next, Pump
  <2>6. CASE UNCHANGED vars
    BY <2>3, <2>6 DEF vars, pumpVars
  <2> QED
    BY <1>1, <2>4, <2>5, <2>6
<1>2. Inv /\ [Next]_vars =>
          [\A l \in Limiter : timer'[l] \notin {0, timer[l]} => timer'[l] > now]_vars
  BY <1>1
<1> QED
  BY <1>2, Invariance, PTL DEF Spec, NoZeroDelayTimer

(* A queued caller is not admitted after its deadline, and does not wait   *)
(* beyond it for longer than the loop is late.                             *)
THEOREM DeadlinesKept == Spec => QueuedDeadlineKept
<1>1. ASSUME Inv, [Next]_vars, NEW r \in JustAdmitted \cap waiters
      PROVE  now < ticket[r].deadline
  <2>1. Admission(r)
    BY <1>1, JustAdmittedIsAdmission DEF Inv
  <2>2. deadlines # {} /\ r \in Waiting(Head(agenda))
    BY <2>1 DEF Admission
  <2>3. ticket[r].deadline \in deadlines /\ \A d \in deadlines : d > now
    BY <1>1, <2>2 DEF Inv, Pumping
  <2>4. now \in Nat /\ deadlines \subseteq Nat
    BY <1>1 DEF Inv, Typed, TypeOK
  <2> QED
    BY <2>3, <2>4
<1>2. ASSUME Inv, [Next]_vars
      PROVE  \A r \in waiters' : future'[r] = "pending" => now' <= ticket'[r].deadline + Lag
  BY <1>2, StepInv DEF Inv, Timed, TimedCaller
<1>3. Inv /\ [Next]_vars =>
          [/\ \A r \in JustAdmitted \cap waiters : now < ticket[r].deadline
           /\ \A r \in waiters' : future'[r] = "pending"
                                     => now' <= ticket'[r].deadline + Lag]_vars
  BY <1>1, <1>2
<1> QED
  BY <1>3, Invariance, PTL DEF Spec, QueuedDeadlineKept

(* Whoever is admitted overtakes nobody that must come first. *)
LEMMA NoneOvertaken ==
    ASSUME Inv, [Next]_vars, NEW r \in JustAdmitted, NEW v \in Waiting(Owner[r]) \ {r}
    PROVE  ~MustPrecede(v, r)
<1> SUFFICES ASSUME MustPrecede(v, r) PROVE FALSE
  OBVIOUS
<1>1. /\ r \in waiters /\ Clear(r) /\ r \in Request /\ v \in waiters
      /\ Owner[v] = Owner[r] /\ v # r /\ v \in Request /\ Owner[r] \in Limiter
      /\ \A w \in Waiting(Owner[r]) \ {r} : Clear(w) => ConsideredBefore(r, w)
  BY AdmittedPast, LimiterAssumption DEF Inv, Waiting, JustAdmitted, Typed, TypeOK
<1>2. ASSUME NEW w \in Waiting(Owner[r]) \ {r} PROVE ConsideredBefore(r, w)
  <2>1. GatesFor(w) = GatesFor(r)
    BY DEF GatesFor, Waiting
  <2>2. Clear(w)
    BY <1>1, <2>1 DEF Clear
  <2> QED
    BY <1>1, <2>2
<1>3. /\ ticket[r].sequence \in Nat /\ ticket[r].queuedAt \in Nat
      /\ ticket[r].overtakenBase \in Nat
      /\ ticket[v].sequence \in Nat /\ ticket[v].queuedAt \in Nat
      /\ ticket[v].overtakenBase \in Nat
      /\ now \in Nat /\ interactiveAdmissions[Owner[r]] \in Nat
      /\ AgingTime \in Nat /\ AgingAdmissions \in Nat
  BY <1>1, LimiterAssumption DEF Inv, Typed, TypeOK
<1>4. Behind(r, v) \/ Behind(v, r)
  BY <1>1 DEF Inv, Ordered
<1>5. CASE Promoted(r)
  <2>1. r \notin Interactive /\ HasAged(r)
    BY <1>5 DEF Promoted
  <2>2. v \notin Interactive /\ ticket[v].sequence < ticket[r].sequence
    BY <2>1 DEF MustPrecede
  <2>3. Behind(v, r)
    BY <1>3, <1>4, <2>2 DEF Behind
  <2>4. HasAged(v)
    <3>1. /\ ticket[v].queuedAt <= ticket[r].queuedAt
          /\ ticket[v].overtakenBase <= ticket[r].overtakenBase
      BY <2>3 DEF Behind
    <3>2. CASE now - ticket[r].queuedAt >= AgingTime
      <4>1. now - ticket[v].queuedAt >= AgingTime
        BY <1>3, <3>1, <3>2
      <4> QED
        BY <4>1 DEF HasAged
    <3>3. CASE interactiveAdmissions[Owner[r]] - ticket[r].overtakenBase >= AgingAdmissions
      <4>1. interactiveAdmissions[Owner[v]] - ticket[v].overtakenBase >= AgingAdmissions
        BY <1>1, <1>3, <3>1, <3>3
      <4> QED
        BY <4>1 DEF HasAged
    <3> QED
      BY <2>1, <3>2, <3>3 DEF HasAged
  <2>5. SortedBefore(r, v)
    BY <1>1, <1>5, <2>2, <2>4 DEF Promoted, Waiting
  <2>6. ticket[r].sequence < ticket[v].sequence
    BY <2>1, <2>2, <2>5 DEF SortedBefore
  <2> QED
    BY <1>3, <2>2, <2>6
<1>6. CASE ~Promoted(r)
  <2>1. ~Promoted(v) /\ SortedBefore(r, v)
    BY <1>2, <1>6 DEF ConsideredBefore
  <2>2. v \notin Interactive /\ r \in Interactive /\ HasAged(v)
    <3>1. ~(ticket[r].sequence < ticket[v].sequence /\ ticket[v].sequence < ticket[r].sequence)
      BY <1>3
    <3> QED
      BY <2>1, <3>1 DEF MustPrecede, SortedBefore
  <2> DEFINE aged == {w \in Waiting(Owner[r]) \ Interactive : HasAged(w)}
  <2>3. v \in aged /\ aged \in SUBSET Waiting(Owner[r])
    BY <2>2
  <2> HIDE DEF aged
  <2>4. PICK w \in aged : \A u \in aged \ {w} : ticket[w].sequence < ticket[u].sequence
    BY <1>1, <2>3, FirstOfThem DEF Inv
  <2>5. w \in Waiting(Owner[r]) /\ w \notin Interactive /\ w # r /\ Owner[w] = Owner[r]
    BY <2>2 DEF aged, Waiting
  <2>6. Promoted(w)
    <3>1. r \in Waiting(Owner[w]) \cap Interactive
      BY <1>1, <2>2, <2>5 DEF Waiting
    <3>2. \A u \in aged \ {w} : u \notin Interactive /\ SortedBefore(w, u)
      BY <2>4, <2>5 DEF aged, SortedBefore
    <3>3. aged = {u \in Waiting(Owner[w]) \ Interactive : HasAged(u)}
      BY <2>5 DEF aged
    <3> QED
      BY <3>1, <3>2, <3>3 DEF Promoted
  <2> QED
    BY <1>2, <1>6, <2>5, <2>6 DEF ConsideredBefore
<1> QED
  BY <1>5, <1>6

(* First in, first out inside a class, interactive first until a scheduled *)
(* caller has aged, for any number of callers.  The one of the scheduled   *)
(* that is promoted is the first that aged, and so no interactive caller   *)
(* is ever chosen while one exists (_ordered_candidates, FR-019).          *)
THEOREM OrderKept == Spec => FairOrder
<1>1. Inv /\ [Next]_vars =>
          [\A r \in JustAdmitted : \A v \in Waiting(Owner[r]) \ {r} :
               future[v] = "pending" => ~MustPrecede(v, r)]_vars
  BY NoneOvertaken
<1> QED
  BY <1>1, Invariance, PTL DEF Spec, FairOrder

(* The limiter's count of interactive admissions is the number of those    *)
(* that were made, and bounds who has passed the scheduled that queue.     *)
Aging ==
    /\ \A l \in Limiter : IsFiniteSet(InteractiveAdmitted(l))
    /\ OvertakingBounded

LEMMA FreshAging == Fresh => Aging
<1> SUFFICES ASSUME Fresh PROVE Aging
  OBVIOUS
<1>1. \A l \in Limiter : InteractiveAdmitted(l) = {}
  BY LimiterAssumption DEF Fresh, InteractiveAdmitted
<1>2. IsFiniteSet({}) /\ Cardinality({}) = 0
  BY FS_EmptySet
<1> QED
  BY <1>1, <1>2 DEF Fresh, Aging, OvertakingBounded

LEMMA AgingStep == Inv /\ Aging /\ [Next]_vars => Aging'
<1> SUFFICES ASSUME Inv, Aging, [Next]_vars PROVE Aging'
  OBVIOUS
<1>1. /\ now \in Nat /\ interactiveAdmissions \in [Limiter -> Nat]
      /\ ticket \in [Request -> [sequence : Nat, queuedAt : Nat, deadline : Nat,
                                overtakenBase : Nat]]
      /\ waiters \subseteq Request /\ admittedAt \in [Request -> Nat \cup {Never}]
      /\ \A r \in Request : admittedAt[r] <= now /\ Owner[r] \in Limiter
      /\ Interactive \subseteq Request /\ AgingTime \in Nat /\ AgingAdmissions \in Nat
  BY LimiterAssumption DEF Inv, Typed, TypeOK, Past
<1>2. ASSUME NEW r \in Request, NEW left \in Patience, Enqueue(r, left)
      PROVE  Aging'
  <2>1. /\ UNCHANGED <<admittedAt, interactiveAdmissions>> /\ waiters' = waiters \cup {r}
        /\ ticket' = [ticket EXCEPT ![r] =
                         [sequence |-> sequence[Owner[r]] + 1,
                          queuedAt |-> now,
                          deadline |-> now + left,
                          overtakenBase |-> interactiveAdmissions[Owner[r]]]]
    BY <1>2 DEF Enqueue, gateVars
  <2>2. /\ ticket'[r].queuedAt = now
        /\ ticket'[r].overtakenBase = interactiveAdmissions[Owner[r]]
        /\ \A w \in Request \ {r} : ticket'[w] = ticket[w]
    BY <1>1, <2>1
  <2>3. \A l : InteractiveAdmitted(l)' = InteractiveAdmitted(l)
    BY <2>1 DEF InteractiveAdmitted
  <2>4. ASSUME NEW w \in waiters' \ Interactive
        PROVE  /\ interactiveAdmissions[Owner[w]] - ticket'[w].overtakenBase <= AgingAdmissions
               /\ \A v \in InteractiveAdmitted(Owner[w]) :
                      \/ admittedAt[v] <= ticket'[w].queuedAt
                      \/ admittedAt[v] < ticket'[w].queuedAt + AgingTime
    <3>1. CASE w = r
      BY <1>1, <2>2, <3>1 DEF InteractiveAdmitted
    <3>2. CASE w # r
      BY <1>1, <2>1, <2>2, <3>2 DEF Aging, OvertakingBounded
    <3> QED
      BY <3>1, <3>2
  <2> QED
    BY <2>1, <2>3, <2>4 DEF Aging, OvertakingBounded
<1>3. ASSUME UNCHANGED <<admittedAt, interactiveAdmissions>>,
             waiters' \subseteq waiters, \A w \in waiters' : ticket'[w] = ticket[w]
      PROVE  Aging'
  <2>1. \A l : InteractiveAdmitted(l)' = InteractiveAdmitted(l)
    BY <1>3 DEF InteractiveAdmitted
  <2> QED
    BY <1>3, <2>1 DEF Aging, OvertakingBounded
<1>4. ASSUME NEW r \in Request, Admission(r) PROVE Aging'
  <2>1. /\ admittedAt' = [admittedAt EXCEPT ![r] = now]
        /\ interactiveAdmissions' = [interactiveAdmissions EXCEPT ![Owner[r]] =
                                        IF r \in Interactive THEN @ + 1 ELSE @]
        /\ waiters' \subseteq waiters
    BY <1>4 DEF Admission, Admit
  <2>2. admittedAt[r] = Never
    BY <1>4 DEF Admission, Inv, Pumping, Waiting, Callers, CallerConsistent
  <2>3. r \in JustAdmitted
    BY <1>1, <2>1, <2>2 DEF JustAdmitted, Never
  <2>4. \A w \in waiters' : ticket'[w] = ticket[w]
    <3>1. ASSUME NEW q \in Request, NEW left \in Patience, Enqueue(q, left) PROVE FALSE
      BY <2>3, <3>1 DEF Enqueue, gateVars, JustAdmitted
    <3> QED
      BY <3>1, TicketsStay DEF Inv
  <2>5. CASE r \notin Interactive
    <3>1. interactiveAdmissions' = interactiveAdmissions
      BY <1>1, <2>1, <2>5
    <3>2. \A v \in Interactive : admittedAt'[v] = admittedAt[v]
      BY <1>1, <2>1, <2>5
    <3>3. \A l : InteractiveAdmitted(l)' = InteractiveAdmitted(l)
      BY <3>2 DEF InteractiveAdmitted
    <3>4. \A l : \A v \in InteractiveAdmitted(l) : v \in Interactive
      BY DEF InteractiveAdmitted
    <3> QED
      BY <2>1, <2>4, <3>1, <3>2, <3>3, <3>4 DEF Aging, OvertakingBounded
  <2>6. CASE r \in Interactive
    <3> DEFINE l == Owner[r]
    <3>1. /\ interactiveAdmissions'[l] = interactiveAdmissions[l] + 1
          /\ \A k \in Limiter \ {l} : interactiveAdmissions'[k] = interactiveAdmissions[k]
      BY <1>1, <2>1, <2>6
    <3>2. /\ admittedAt'[r] = now
          /\ \A v \in Interactive \ {r} : admittedAt'[v] = admittedAt[v]
      BY <1>1, <2>1
    <3>3. /\ InteractiveAdmitted(l)' = InteractiveAdmitted(l) \cup {r}
          /\ r \notin InteractiveAdmitted(l)
          /\ \A k \in Limiter \ {l} : InteractiveAdmitted(k)' = InteractiveAdmitted(k)
      BY <1>1, <2>2, <2>6, <3>2 DEF InteractiveAdmitted, Never
    <3>4. \A k \in Limiter : /\ IsFiniteSet(InteractiveAdmitted(k)')
                            /\ Cardinality(InteractiveAdmitted(k)') = interactiveAdmissions'[k]
      <4>1. \A k \in Limiter : /\ IsFiniteSet(InteractiveAdmitted(k))
                              /\ Cardinality(InteractiveAdmitted(k)) = interactiveAdmissions[k]
        BY DEF Aging, OvertakingBounded
      <4>2. l \in Limiter
        BY <1>1
      <4>3. /\ IsFiniteSet(InteractiveAdmitted(l) \cup {r})
            /\ Cardinality(InteractiveAdmitted(l) \cup {r}) = interactiveAdmissions[l] + 1
        BY <3>3, <4>1, <4>2, FS_AddElement
      <4> HIDE DEF l
      <4> QED
        BY <3>1, <3>3, <4>1, <4>3
    <3>5. ASSUME NEW w \in waiters' \ Interactive
          PROVE  /\ interactiveAdmissions'[Owner[w]] - ticket'[w].overtakenBase
                        <= AgingAdmissions
                 /\ \A v \in InteractiveAdmitted(Owner[w])' :
                        \/ admittedAt'[v] <= ticket'[w].queuedAt
                        \/ admittedAt'[v] < ticket'[w].queuedAt + AgingTime
      <4>1. /\ w \in waiters /\ w \in Request /\ Owner[w] \in Limiter /\ w # r
            /\ ticket'[w] = ticket[w]
        BY <1>1, <2>1, <2>4, <2>6
      <4>2. /\ interactiveAdmissions[Owner[w]] - ticket[w].overtakenBase <= AgingAdmissions
            /\ \A v \in InteractiveAdmitted(Owner[w]) :
                   \/ admittedAt[v] <= ticket[w].queuedAt
                   \/ admittedAt[v] < ticket[w].queuedAt + AgingTime
        BY <4>1 DEF Aging, OvertakingBounded
      <4>3. \A v \in InteractiveAdmitted(Owner[w]) \ {r} : admittedAt'[v] = admittedAt[v]
        BY <3>2 DEF InteractiveAdmitted
      <4>4. CASE Owner[w] # l
        <5>1. /\ InteractiveAdmitted(Owner[w])' = InteractiveAdmitted(Owner[w])
              /\ r \notin InteractiveAdmitted(Owner[w])
              /\ interactiveAdmissions'[Owner[w]] = interactiveAdmissions[Owner[w]]
          BY <3>1, <3>3, <4>1, <4>4 DEF InteractiveAdmitted
        <5> QED
          BY <4>1, <4>2, <4>3, <5>1
      <4>5. CASE Owner[w] = l
        <5>1. w \in Waiting(Owner[r]) \ {r}
          BY <4>1, <4>5 DEF Waiting
        <5>2. ~HasAged(w)
          BY <2>3, <2>6, <5>1, NoneOvertaken DEF MustPrecede
        <5>3. /\ ~(now - ticket[w].queuedAt >= AgingTime)
              /\ ~(interactiveAdmissions[l] - ticket[w].overtakenBase >= AgingAdmissions)
          BY <4>5, <5>2 DEF HasAged
        <5>4. /\ ticket[w].queuedAt \in Nat /\ ticket[w].overtakenBase \in Nat
              /\ interactiveAdmissions[l] \in Nat
          BY <1>1, <4>1
        <5>5. now < ticket[w].queuedAt + AgingTime
          BY <1>1, <5>3, <5>4
        <5>6. interactiveAdmissions[l] + 1 - ticket[w].overtakenBase <= AgingAdmissions
          BY <1>1, <5>3, <5>4
        <5>7. interactiveAdmissions'[Owner[w]] - ticket'[w].overtakenBase <= AgingAdmissions
          <6>1. /\ interactiveAdmissions'[Owner[w]] = interactiveAdmissions[l] + 1
                /\ ticket'[w].overtakenBase = ticket[w].overtakenBase
            BY <3>1, <4>1, <4>5
          <6> QED
            BY <1>1, <5>4, <5>6, <6>1
        <5>8. ASSUME NEW v \in InteractiveAdmitted(Owner[w])'
              PROVE  \/ admittedAt'[v] <= ticket'[w].queuedAt
                     \/ admittedAt'[v] < ticket'[w].queuedAt + AgingTime
          <6>1. CASE v = r
            BY <3>2, <4>1, <5>5, <6>1
          <6>2. CASE v # r
            <7>1. v \in InteractiveAdmitted(Owner[w])
              BY <3>3, <4>5, <5>8, <6>2
            <7> QED
              BY <4>1, <4>2, <4>3, <6>2, <7>1
          <6> QED
            BY <6>1, <6>2
        <5> QED
          BY <5>7, <5>8
      <4> QED
        BY <4>4, <4>5
    <3> QED
      BY <3>4, <3>5 DEF Aging, OvertakingBounded
  <2> QED
    BY <2>5, <2>6
<1>5. \/ \E r \in Request : Admission(r)
      \/ UNCHANGED <<admittedAt, interactiveAdmissions>>
  <2> USE DEF gateVars
  <2>1. CASE Tick
    BY <2>1 DEF Tick
  <2>2. CASE \E r \in Request : Refused(r)
    <3>1. ASSUME NEW r \in Request, NEW offset, NoteProviderLimited(r, offset)
          PROVE  UNCHANGED interactiveAdmissions
      BY <3>1 DEF NoteProviderLimited
    <3>2. ASSUME NEW r \in Request, NEW offset, NEW counter, NEW limit, NEW remaining,
                 NoteRateLimited(r, counter, offset, limit, remaining)
          PROVE  UNCHANGED interactiveAdmissions
      BY <3>2, Zenon DEF NoteRateLimited
    <3>3. UNCHANGED interactiveAdmissions
      BY <2>2, <3>1, <3>2 DEF Refused
    <3> QED
      BY <2>2, <3>3, RefusedKeeps DEF Inv
  <2>3. CASE \E r \in Request : \E left \in Patience : Enqueue(r, left)
    BY <2>3 DEF Enqueue
  <2>4. CASE \E l \in Limiter : Open(l) \/ Close(l)
    BY <2>4 DEF Open, Close
  <2>5. CASE \E l \in Limiter : \E accountBudget \in Budgets, ipBudget \in Budgets :
                 Configure(l, accountBudget, ipBudget)
    BY <2>5 DEF Configure
  <2> QED
    BY <2>1, <2>2, <2>3, <2>4, <2>5, StepKinds DEF Inv
<1> QED
  BY <1>2, <1>3, <1>4, <1>5, TicketsStay DEF Inv

(* However many interactive callers there are, and however they arrive,    *)
(* are cancelled or closed on, a scheduled one is passed by at most        *)
(* AGING_ADMISSIONS of them while it queues, all within AGING_SECONDS: the *)
(* admissions of one pump count against the very next (_has_aged, FR-019). *)
THEOREM OvertakingIsBounded == Spec => []OvertakingBounded
<1>1. Init => Aging
  BY InitFresh, FreshAging
<1>2. Aging => OvertakingBounded
  BY DEF Aging
<1> QED
  BY <1>1, <1>2, AgingStep, Invariance, PTL DEF Spec

(* Whenever the loop is idle and a queued caller could go, or is out of    *)
(* time, its limiter's timer is due already: whatever other limiters       *)
(* admit, suppress, reconcile, reconfigure or close (_pump, notify).       *)
THEOREM NoWakeupLost == Spec => []NoLostWakeup
<1>1. ASSUME Inv PROVE NoLostWakeup
  <2>1. SUFFICES ASSUME Idle, NEW r \in waiters, future[r] = "pending",
                        Clear(r) \/ now >= ticket[r].deadline
                 PROVE  timer[Owner[r]] # 0 /\ timer[Owner[r]] <= now
    BY DEF NoLostWakeup
  <2>2. ~Scheduled(Owner[r])
    BY <2>1 DEF Idle, Scheduled
  <2>3. /\ now \in Nat /\ timer[Owner[r]] \in Nat /\ ticket[r].deadline \in Nat
    BY <1>1, LimiterAssumption DEF Inv, Typed, TypeOK
  <2>4. CASE Clear(r)
    <3>1. ClearAt(r, now)
      BY <2>4 DEF Clear, ClearAt
    <3>2. Asleep(r)
      BY <1>1, <2>2 DEF Inv, Woken
    <3> QED
      BY <2>3, <3>1, <3>2 DEF Asleep
  <2>5. CASE now >= ticket[r].deadline
    <3>1. timer[Owner[r]] # 0 /\ timer[Owner[r]] <= ticket[r].deadline
      BY <1>1, <2>1, <2>2 DEF Inv, Timed, TimedCaller
    <3> QED
      BY <2>3, <2>5, <3>1
  <2> QED
    BY <2>1, <2>4, <2>5
<1> QED
  BY <1>1, Invariance, PTL

-----------------------------------------------------------------------------
(* How a request stands, with the cases in order. *)
View(r) == IF admittedAt[r] # Never THEN "granted"
           ELSE IF call[r] = "failed" \/ future[r] \in {"error", "cancelled"} THEN "denied"
           ELSE IF future[r] = "pending" THEN "asked" ELSE "new"

LEMMA Views ==
    ASSUME Callers, Callers'
    PROVE  /\ Standing = [r \in Request |-> View(r)]
           /\ Standing' = [r \in Request |-> View(r)']
<1>1. ASSUME NEW r \in Request PROVE Standing[r] = View(r)
  BY DEF Standing, View, Callers, CallerConsistent
<1>2. ASSUME NEW r \in Request PROVE Standing'[r] = View(r)'
  BY DEF Standing, View, Callers, CallerConsistent
<1> QED
  BY <1>1, <1>2 DEF Standing

LEMMA InitPromise == Init => Promise!Init
BY DEF Init, Promise!Init, Standing, Promise!Never, Never

LEMMA SameCardinality == \A S : Promise!Cardinality(S) = Cardinality(S)
BY DEF Promise!Cardinality, Cardinality

(* An admission is a grant. *)
LEMMA AdmissionGrants ==
    ASSUME Inv, Inv', NEW r \in Request, Admission(r),
           View(r) \in {"new", "asked"},
           \A q \in Request \ {r} : call'[q] = call[q] /\ future'[q] = future[q]
    PROVE  Promise!Grant(r)
<1>1. /\ Clear(r) /\ Admit(r) /\ UNCHANGED <<now, told>>
      /\ admittedAt' = [admittedAt EXCEPT ![r] = now]
  BY DEF Admission, Admit, clockVars
<1>2. /\ Standing = [q \in Request |-> View(q)]
      /\ Standing' = [q \in Request |-> View(q)']
  BY Views DEF Inv
<1>3. now \in Nat /\ admittedAt \in [Request -> Nat \cup {Never}]
  BY DEF Inv, Typed, TypeOK
<1>4. View(r)' = "granted"
  BY <1>1, <1>3 DEF View, Never
<1>5. \A q \in Request \ {r} : View(q)' = View(q)
  BY <1>1, <1>3 DEF View
<1>6. Standing' = [Standing EXCEPT ![r] = "granted"]
  BY <1>2, <1>4, <1>5
<1>7. ASSUME NEW k \in GatesFor(r) PROVE Promise!Cardinality(Promise!Recent(k)) < MaxBudget
  <2>1. k \in Gate
    BY GatesOfRequest
  <2>2. CapacityAvailable(gate[k], admittedAt, now)
    BY <1>1 DEF Clear
  <2>3. Cardinality(InLastWindow(k)) < MaxBudget
    BY <2>1, <2>2, RoomInWindow DEF Inv
  <2>4. Promise!Recent(k) = InLastWindow(k)
    BY DEF Promise!Recent, InLastWindow, Promise!Never, Never
  <2> QED
    BY <2>3, <2>4, SameCardinality
<1>8. ASSUME NEW order \in told PROVE GatesFor(r) \cap order.gates = {}
  <2>1. r \in JustAdmitted
    BY <1>1, <1>3, <1>4 DEF JustAdmitted, View, Never
  <2> QED
    BY <1>1, <2>1, ClearUnderOrders DEF Inv
<1>9. Standing[r] \in {"new", "asked"}
  BY <1>2
<1> QED
  BY <1>1, <1>6, <1>7, <1>8, <1>9, Zenon DEF Promise!Grant

(* A change of nothing but who is denied, and nobody who was granted. *)
LEMMA DenialDenies ==
    ASSUME Callers, Callers', UNCHANGED <<now, told, admittedAt>>,
           NEW denied \in SUBSET Request,
           \A q \in denied : View(q) \in {"new", "asked"} /\ View(q)' = "denied",
           \A q \in Request \ denied : View(q)' = View(q)
    PROVE  Promise!Next
<1>1. /\ Standing = [q \in Request |-> View(q)]
      /\ Standing' = [q \in Request |-> View(q)']
  BY Views
<1>2. \A q \in denied : Standing[q] \in {"new", "asked"}
  BY <1>1
<1>3. Standing' = [q \in Request |-> IF q \in denied THEN "denied" ELSE Standing[q]]
  BY <1>1
<1>4. Promise!Deny(denied)
  BY <1>2, <1>3 DEF Promise!Deny
<1> QED
  BY <1>4, Zenon DEF Promise!Next

(* Nothing the outside can see. *)
LEMMA NothingSeen ==
    ASSUME Callers, Callers', UNCHANGED <<now, told, admittedAt>>,
           \A q \in Request : View(q)' = View(q)
    PROVE  UNCHANGED Promise!vars
BY Views DEF Promise!vars

(* A 429 orders silence. *)
LEMMA RefusalSilences ==
    ASSUME Inv, Inv', NEW r \in Request, Refused(r)
    PROVE  Promise!Next
<1> USE DEF gateVars, queueVars, sharedVars, pumpVars
<1>1. PICK offset \in RetryOffsets, targets \in SUBSET Gate :
          /\ told' = told \cup {[gates |-> targets, until |-> now + SuppressionDelay(offset)]}
          /\ call[r] = "sent" /\ call' = [call EXCEPT ![r] = "refused"]
          /\ UNCHANGED <<now, admittedAt, future>>
  <2>1. CASE \E offset \in RetryOffsets : NoteProviderLimited(r, offset)
    BY <2>1 DEF NoteProviderLimited
  <2>2. CASE \E offset \in RetryOffsets : \E counter \in {"account", "ip", "other"},
                limit \in Limits, remaining \in Remainings :
                 NoteRateLimited(r, counter, offset, limit, remaining)
    <3>1. PICK offset \in RetryOffsets, counter \in {"account", "ip", "other"},
               limit \in Limits, remaining \in Remainings :
              NoteRateLimited(r, counter, offset, limit, remaining)
      BY <2>2
    <3>2. Targets(r, counter) \in SUBSET Gate
      BY GatesOfRequest DEF Targets
    <3>3. /\ told' = told \cup {[gates |-> Targets(r, counter),
                                 until |-> now + SuppressionDelay(offset)]}
          /\ call[r] = "sent" /\ call' = [call EXCEPT ![r] = "refused"]
          /\ UNCHANGED <<now, admittedAt, future>>
      BY <3>1, Zenon DEF NoteRateLimited
    <3> QED
      BY <3>2, <3>3
  <2> QED
    BY <2>1, <2>2 DEF Refused
<1>2. \A q \in Request : View(q)' = View(q)
  BY <1>1 DEF View, Inv, Typed, TypeOK
<1>3. UNCHANGED <<now, Standing, admittedAt>>
  BY <1>1, <1>2, Views DEF Inv
<1>4. now + SuppressionDelay(offset) > now
  <2>1. SuppressionDelay(offset) \in Nat \ {0} /\ now \in Nat
    BY LimiterAssumption, SuppressionDelayIsPositive DEF Inv, Typed, TypeOK
  <2> QED
    BY <2>1
<1>5. Promise!Silence
  <2> DEFINE order == [gates |-> targets, until |-> now + SuppressionDelay(offset)]
  <2>1. order \in told' /\ told' = told \cup {order}
    BY <1>1
  <2>2. order.gates \subseteq Gate /\ order.until > now
    BY <1>4
  <2> HIDE DEF order
  <2> QED
    BY <1>3, <2>1, <2>2 DEF Promise!Silence
<1> QED
  BY <1>5, Zenon DEF Promise!Next

LEMMA StepPromise == Inv /\ Inv' /\ [Next]_vars => [Promise!Next]_(Promise!vars)
<1> SUFFICES ASSUME Inv, Inv', [Next]_vars
             PROVE  Promise!Next \/ UNCHANGED Promise!vars
  OBVIOUS
<1> USE DEF clockVars, queueVars, gateVars, sharedVars, pumpVars
<1>1. /\ Callers /\ Callers'
      /\ \A r \in Request : CallerConsistent(r) /\ Owner[r] \in Limiter
      /\ future \in [Request -> {"none", "pending", "result", "error", "cancelled"}]
      /\ call \in [Request -> {"idle", "waiting", "cancelling", "sent", "refused",
                               "failed", "cancelled"}]
      /\ admittedAt \in [Request -> Nat \cup {Never}]
      /\ waiters \subseteq Request
  BY LimiterAssumption DEF Inv, Callers, Typed, TypeOK
<1>2. ASSUME UNCHANGED <<now, told, admittedAt, call, future>>
      PROVE  UNCHANGED Promise!vars
  BY <1>1, <1>2, NothingSeen DEF View
<1>3. CASE Tick
  <2>1. /\ now' = now + 1 /\ told' = {order \in told : now + 1 < order.until}
        /\ UNCHANGED <<call, future, admittedAt>>
    BY <1>3 DEF Tick
  <2>2. UNCHANGED Standing
    BY <2>1 DEF Standing
  <2> QED
    BY <2>1, <2>2, Zenon DEF Promise!Next, Promise!Pass
<1>4. CASE PumpBegin
  <2> DEFINE l == Head(agenda)
             done == {r \in Waiting(l) : future[r] # "pending"}
             expired == {r \in Waiting(l) \ done : OutOfTime(r)}
  <2>1. /\ future' = [r \in Request |-> IF r \in expired THEN "error" ELSE future[r]]
        /\ UNCHANGED <<now, told, admittedAt, call>>
    BY <1>4 DEF PumpBegin
  <2>2. expired \in SUBSET Request /\ \A r \in expired : future[r] = "pending"
    BY <1>1 DEF Waiting
  <2> HIDE DEF expired
  <2>3. \A r \in expired : View(r) \in {"new", "asked"} /\ View(r)' = "denied"
    BY <1>1, <2>1, <2>2 DEF View, CallerConsistent
  <2>4. \A r \in Request \ expired : View(r)' = View(r)
    BY <2>1, <2>2 DEF View
  <2> QED
    BY <1>1, <2>1, <2>2, <2>3, <2>4, DenialDenies
<1>5. CASE PumpAdmit
  <2>1. PICK r \in Waiting(Head(agenda)) :
            /\ Clear(r) /\ Admit(r) /\ waiters' = waiters \ {r}
            /\ future' = [future EXCEPT ![r] = "result"]
    BY <1>5 DEF PumpAdmit
  <2>2. /\ deadlines # {} /\ UNCHANGED <<clockVars, sharedVars, pumpVars, ticket, call, sequence>>
    BY <1>5 DEF PumpAdmit
  <2>3. r \in Request /\ future[r] = "pending"
    BY <1>1, <2>1, <2>2 DEF Inv, Pumping, Waiting
  <2>4. Admission(r)
    BY <2>1, <2>2 DEF Admission
  <2>5. View(r) \in {"new", "asked"}
    BY <1>1, <2>3 DEF View, CallerConsistent
  <2>6. \A q \in Request \ {r} : call'[q] = call[q] /\ future'[q] = future[q]
    BY <1>1, <2>1, <2>2
  <2>7. Promise!Grant(r)
    BY <2>3, <2>4, <2>5, <2>6, AdmissionGrants
  <2> QED
    BY <2>3, <2>7, Zenon DEF Promise!Next
<1>6. CASE PumpArm
  BY <1>2, <1>6 DEF PumpArm
<1>7. ASSUME NEW r \in Request, AcquireClosed(r) \/ AcquireExpired(r)
      PROVE  Promise!Next
  <2>1. /\ call[r] = "idle" /\ call' = [call EXCEPT ![r] = "failed"]
        /\ UNCHANGED <<now, told, admittedAt, future>>
    BY <1>7 DEF AcquireClosed, AcquireExpired
  <2>2. View(r) \in {"new", "asked"} /\ View(r)' = "denied"
    BY <1>1, <2>1 DEF View, CallerConsistent
  <2>3. \A q \in Request \ {r} : View(q)' = View(q)
    BY <1>1, <2>1 DEF View
  <2>4. \A q \in {r} : View(q) \in {"new", "asked"} /\ View(q)' = "denied"
    BY <2>2
  <2>5. {r} \in SUBSET Request
    OBVIOUS
  <2> QED
    BY <1>1, <2>1, <2>3, <2>4, <2>5, DenialDenies
<1>8. ASSUME NEW r \in Request, NEW left \in Patience, AcquireAtOnce(r, left)
      PROVE  Promise!Next
  <2>1. /\ call[r] = "idle" /\ CanAdmitNow(r) /\ Admit(r) /\ phase[Owner[r]] = "open"
        /\ call' = [call EXCEPT ![r] = "sent"]
        /\ UNCHANGED <<clockVars, sharedVars, pumpVars, waiters, future, sequence>>
    BY <1>8 DEF AcquireAtOnce
  <2>2. r \notin waiters /\ View(r) \in {"new", "asked"}
    BY <1>1, <2>1 DEF CallerConsistent, View
  <2>3. Admission(r)
    BY <2>1, <2>2 DEF Admission, CanAdmitNow
  <2>4. \A q \in Request \ {r} : call'[q] = call[q] /\ future'[q] = future[q]
    BY <1>1, <2>1
  <2>5. Promise!Grant(r)
    BY <2>2, <2>3, <2>4, AdmissionGrants
  <2> QED
    BY <2>5, Zenon DEF Promise!Next
<1>9. ASSUME NEW r \in Request, NEW left \in Patience, Enqueue(r, left)
      PROVE  Promise!Next
  <2>1. /\ call[r] = "idle" /\ call' = [call EXCEPT ![r] = "waiting"]
        /\ future' = [future EXCEPT ![r] = "pending"]
        /\ UNCHANGED <<now, told, admittedAt>>
    BY <1>9 DEF Enqueue
  <2>2. View(r) = "new" /\ View(r)' = "asked"
    BY <1>1, <2>1 DEF View, CallerConsistent
  <2>3. \A q \in Request \ {r} : View(q)' = View(q)
    BY <1>1, <2>1 DEF View
  <2>4. Standing[r] = "new" /\ Standing' = [Standing EXCEPT ![r] = "asked"]
    BY <1>1, <2>2, <2>3, Views
  <2>5. Promise!Ask(r)
    BY <2>1, <2>4 DEF Promise!Ask
  <2> QED
    BY <2>5, Zenon DEF Promise!Next
<1>10. ASSUME NEW r \in Request, Resume(r) PROVE UNCHANGED Promise!vars
  <2>1. /\ future[r] \in {"result", "error"} /\ call[r] = "waiting"
        /\ call' = [call EXCEPT ![r] = IF future[r] = "result" THEN "sent" ELSE "failed"]
        /\ UNCHANGED <<now, told, admittedAt, future>>
    BY <1>10 DEF Resume
  <2>2. View(r)' = View(r)
    BY <1>1, <2>1 DEF View, CallerConsistent
  <2>3. \A q \in Request \ {r} : View(q)' = View(q)
    BY <1>1, <2>1 DEF View
  <2> QED
    BY <1>1, <2>1, <2>2, <2>3, NothingSeen
<1>11. ASSUME NEW r \in Request, Cancel(r) PROVE Promise!Next
  <2> DEFINE denied == IF future[r] = "pending" THEN {r} ELSE {}
  <2>1. /\ call[r] = "waiting" /\ call' = [call EXCEPT ![r] = "cancelling"]
        /\ future' = [future EXCEPT ![r] = IF @ = "pending" THEN "cancelled" ELSE @]
        /\ UNCHANGED <<now, told, admittedAt>>
    BY <1>11 DEF Cancel
  <2>2. denied \in SUBSET Request
    OBVIOUS
  <2>3. \A q \in Request \ {r} : View(q)' = View(q)
    BY <1>1, <2>1 DEF View
  <2>4. future[r] # "pending" => View(r)' = View(r)
    BY <1>1, <2>1 DEF View
  <2>5. future[r] = "pending" => View(r) \in {"new", "asked"} /\ View(r)' = "denied"
    BY <1>1, <2>1 DEF View, CallerConsistent
  <2>6. /\ \A q \in denied : View(q) \in {"new", "asked"} /\ View(q)' = "denied"
        /\ \A q \in Request \ denied : View(q)' = View(q)
    BY <2>3, <2>4, <2>5
  <2> HIDE DEF denied
  <2> QED
    BY <1>1, <2>1, <2>2, <2>6, DenialDenies
<1>12. ASSUME NEW r \in Request, ResumeCancelled(r) PROVE UNCHANGED Promise!vars
  <2>1. /\ call[r] = "cancelling" /\ call' = [call EXCEPT ![r] = "cancelled"]
        /\ UNCHANGED <<now, told, admittedAt, future>>
    BY <1>12 DEF ResumeCancelled
  <2>2. \A q \in Request : View(q)' = View(q)
    BY <1>1, <2>1 DEF View
  <2> QED
    BY <1>1, <2>1, <2>2, NothingSeen
<1>13. ASSUME NEW l \in Limiter, Open(l) \/ FireTimer(l) PROVE UNCHANGED Promise!vars
  BY <1>2, <1>13 DEF Open, FireTimer
<1>14. ASSUME NEW l \in Limiter, NEW accountBudget, NEW ipBudget,
              Configure(l, accountBudget, ipBudget)
       PROVE  UNCHANGED Promise!vars
  BY <1>2, <1>14 DEF Configure
<1>15. ASSUME NEW l \in Limiter, Close(l) PROVE Promise!Next
  <2> DEFINE denied == {r \in Waiting(l) : future[r] = "pending"}
  <2>1. /\ future' = [r \in Request |-> IF r \in Waiting(l) /\ future[r] = "pending"
                                       THEN "error" ELSE future[r]]
        /\ UNCHANGED <<now, told, admittedAt, call>>
    BY <1>15 DEF Close
  <2>2. denied \in SUBSET Request
    BY <1>1 DEF Waiting
  <2>3. \A r \in denied : View(r) \in {"new", "asked"} /\ View(r)' = "denied"
    BY <1>1, <2>1, <2>2 DEF View, CallerConsistent
  <2>4. \A r \in Request \ denied : View(r)' = View(r)
    BY <2>1 DEF View
  <2> HIDE DEF denied
  <2> QED
    BY <1>1, <2>1, <2>2, <2>3, <2>4, DenialDenies
<1>16. CASE UNCHANGED vars
  BY <1>2, <1>16 DEF vars
<1>17. ASSUME NEW r \in Request,
              Acquire(r) \/ Resume(r) \/ Cancel(r) \/ ResumeCancelled(r) \/ Refused(r)
       PROVE  Promise!Next \/ UNCHANGED Promise!vars
  BY <1>7, <1>8, <1>9, <1>10, <1>11, <1>12, <1>17, RefusalSilences DEF Acquire
<1>18. CASE Pump
  BY <1>4, <1>5, <1>6, <1>18 DEF Pump
<1>19. ASSUME NEW l \in Limiter,
              \/ Open(l) \/ FireTimer(l) \/ Close(l)
              \/ \E accountBudget \in Budgets, ipBudget \in Budgets :
                     Configure(l, accountBudget, ipBudget)
       PROVE  Promise!Next \/ UNCHANGED Promise!vars
  BY <1>13, <1>14, <1>15, <1>19
<1> QED
  BY <1>3, <1>16, <1>17, <1>18, <1>19, Zenon DEF Next, Horizon

(* The limiter, with its queue, timers and gates, does nothing that the    *)
(* abstract admission control does not allow: the safety half of           *)
(* KeepsPromise, for every value of the constants.                         *)
THEOREM PromiseKept == Spec => Promise!Init /\ [][Promise!Next]_(Promise!vars)
<1>1. Inv /\ [Next]_vars => Inv'
  BY StepInv
<1> QED
  BY <1>1, InitPromise, StepPromise, Invariance, PTL DEF Spec
-----------------------------------------------------------------------------
(***************************************************************************)
(* Restarts.  A new process begins Fresh, so Inv holds in it as in the     *)
(* first one; Restarted adds what the server remembers of earlier ones.    *)
(* A gate younger than a window still holds back half of a budget, so what *)
(* was admitted through it is within Overshoot; of an older one nothing    *)
(* that earlier processes sent is left in the window.                      *)
(***************************************************************************)
LeastHold == HalfRoundedUp(Min(Budgets \cup {DefaultBudget}))
HoldNow(g) == IF raised THEN LeastHold ELSE HalfRoundedUp(gate[g].configured)
Young(g) == gate[g].createdAt > now - Window

Formerly(g) == {r \in Request : /\ g \in GatesFor(r)
                                /\ formerly[r] > now - Window /\ formerly[r] # Never}

HeldBack(g) ==
    /\ gate[g].configured \in Budgets \cup {DefaultBudget}
    /\ Young(g) => /\ Cardinality(Held(gate[g])) >= HoldNow(g)
                   /\ Cardinality(InLastWindow(g)) <= Overshoot

SentBefore(g) ==
    /\ IsFiniteSet(Formerly(g))
    /\ \A r \in Request : formerly[r] <= gate[g].createdAt
    /\ restarts = 0 => Formerly(g) = {}
    /\ restarts > 0 => Cardinality(Formerly(g)) <= MaxBudget + (restarts - 1) * Overshoot

Restarted ==
    /\ restarts \in Nat /\ raised \in BOOLEAN
    /\ formerly \in [Request -> Nat \cup {Never}]
    /\ \A g \in Gate : HeldBack(g) /\ SentBefore(g)

(* The least of some budgets is one of them, and gives the least hold.     *)
LEMMA LeastBudget ==
    /\ Min(Budgets \cup {DefaultBudget}) \in 1..MaxBudget
    /\ \A b \in Budgets \cup {DefaultBudget} :
           LeastHold <= HalfRoundedUp(b) /\ b \in 1..MaxBudget
    /\ LeastHold \in Nat /\ LeastHold <= HalfRoundedUp(MaxBudget)
<1> DEFINE B == Budgets \cup {DefaultBudget}
           least == Min(B)
<1>1. B \in SUBSET Nat /\ B # {} /\ \A b \in B : b \in 1..MaxBudget
  BY LimiterAssumption
<1>2. least \in B /\ \A b \in B : least <= b
  <2> HIDE DEF B
  <2> QED
    BY <1>1, MinOfNaturals
<1> HIDE DEF B, least
<1>3. LeastHold = HalfRoundedUp(least)
  BY DEF LeastHold, least, B
<1>4. least \in 1..MaxBudget
  BY <1>1, <1>2
<1>5. \A b \in B : HalfRoundedUp(least) <= HalfRoundedUp(b)
  BY <1>1, <1>2, WindowAssumption DEF HalfRoundedUp
<1>6. LeastHold \in Nat /\ LeastHold <= HalfRoundedUp(MaxBudget)
  BY <1>3, <1>4, HalfOfBudget
<1> QED
  BY <1>1, <1>3, <1>4, <1>5, <1>6 DEF B, least

(* What may be admitted beside a hold, and that raising a budget allows    *)
(* for no less.                                                            *)
LEMMA OvershootIsNatural ==
    /\ Overshoot = IF raised THEN MaxBudget - LeastHold
                   ELSE MaxBudget - HalfRoundedUp(MaxBudget)
    /\ Overshoot \in Nat
<1>1. MaxBudget \in Nat /\ MaxBudget \in 1..MaxBudget
  BY WindowAssumption
<1>2. MaxBudget - HalfRoundedUp(MaxBudget) = MaxBudget \div 2
  BY <1>1 DEF HalfRoundedUp
<1>3. HalfRoundedUp(MaxBudget) \in Nat /\ HalfRoundedUp(MaxBudget) <= MaxBudget
  BY <1>1, HalfOfBudget
<1> QED
  BY <1>1, <1>2, <1>3, LeastBudget DEF Overshoot, LeastHold

LEMMA OvershootGrows ==
    ASSUME raised \in BOOLEAN, raised' \in BOOLEAN, raised => raised'
    PROVE  Overshoot <= Overshoot' /\ Overshoot' \in Nat
<1>1. Overshoot' = IF raised' THEN MaxBudget - LeastHold
                   ELSE MaxBudget - HalfRoundedUp(MaxBudget)
  <2>1. (Overshoot = IF raised THEN MaxBudget - LeastHold
                     ELSE MaxBudget - HalfRoundedUp(MaxBudget))'
    BY OvershootIsNatural, PTL
  <2> QED
    BY <2>1
<1>2. MaxBudget \in Nat /\ MaxBudget \in 1..MaxBudget
  BY WindowAssumption
<1>3. HalfRoundedUp(MaxBudget) \in Nat /\ HalfRoundedUp(MaxBudget) <= MaxBudget
  BY <1>2, HalfOfBudget
<1> QED
  BY <1>1, <1>2, <1>3, OvershootIsNatural, LeastBudget

(* The sum of what this process and earlier ones have sent.                *)
LEMMA CountedTogether ==
    ASSUME Inv, Restarted, NEW g \in Gate
    PROVE  /\ IsFiniteSet(CountedByServer(g))
           /\ Cardinality(CountedByServer(g)) <= MaxBudget + restarts * Overshoot
<1> DEFINE mine == InLastWindow(g)
           old == Formerly(g)
           o == Overshoot
<1>1. CountedByServer(g) = mine \cup old
  BY DEF CountedByServer, InLastWindow, Formerly
<1>2. IsFiniteSet(mine) /\ Cardinality(mine) \in Nat /\ Cardinality(mine) <= MaxBudget
  <2>1. IsFiniteSet(gate[g].admissions) /\ mine \in SUBSET gate[g].admissions
    BY DEF Inv, Typed, TypeOK, IsGate, Charged
  <2> QED
    BY <2>1, FS_Subset, FS_CardinalityType DEF Inv, WindowBound
<1>3. IsFiniteSet(old) /\ Cardinality(old) \in Nat
  BY FS_CardinalityType DEF Restarted, SentBefore
<1>4. /\ IsFiniteSet(CountedByServer(g)) /\ Cardinality(CountedByServer(g)) \in Nat
      /\ Cardinality(CountedByServer(g)) <= Cardinality(mine) + Cardinality(old)
  <2> HIDE DEF mine, old
  <2>1. IsFiniteSet(mine \cup old) /\ Cardinality(mine \cup old) \in Nat
    BY <1>2, <1>3, FS_Union, FS_CardinalityType
  <2>2. IsFiniteSet(mine \cap old) /\ Cardinality(mine \cap old) \in Nat
    BY <1>2, FS_Intersection, FS_CardinalityType
  <2>3. Cardinality(mine \cup old) = Cardinality(mine) + Cardinality(old) - Cardinality(mine \cap old)
    BY <1>2, <1>3, FS_Union
  <2> QED
    BY <1>1, <1>2, <1>3, <2>1, <2>2, <2>3
<1>5. MaxBudget \in Nat /\ o \in Nat /\ restarts \in Nat
  BY WindowAssumption, OvershootIsNatural DEF Restarted
<1>6. restarts * o \in Nat
  BY <1>5
<1>7. CASE old = {}
  <2>1. Cardinality(old) = 0
    BY <1>7, FS_EmptySet
  <2> QED
    BY <1>2, <1>4, <1>5, <1>6, <2>1
<1>8. CASE old # {}
  <2>1. restarts > 0
    BY <1>5, <1>8 DEF Restarted, SentBefore
  <2>2. Young(g)
    <3>1. PICK r \in old : r \in Request
      BY <1>8 DEF Formerly
    <3>2. formerly[r] \in Int /\ gate[g].createdAt \in Int /\ now \in Int /\ Window \in Int
      BY <3>1, WindowAssumption DEF Restarted, Inv, Typed, TypeOK, IsGate, Never
    <3>3. formerly[r] > now - Window /\ formerly[r] <= gate[g].createdAt
      BY <3>1 DEF Formerly, Restarted, SentBefore
    <3> QED
      BY <3>2, <3>3 DEF Young
  <2>3. Cardinality(mine) <= o
    BY <2>2 DEF Restarted, HeldBack
  <2>4. Cardinality(old) <= MaxBudget + (restarts - 1) * o
    BY <2>1 DEF Restarted, SentBefore
  <2>5. (restarts - 1) * o + o = restarts * o /\ (restarts - 1) * o \in Int
    <3> HIDE DEF o
    <3>1. \A n, k \in Int : (n - 1) * k + k = n * k /\ (n - 1) * k \in Int
      OBVIOUS
    <3> QED
      BY <1>5, <3>1
  <2> HIDE DEF mine, old, o
  <2> QED
    BY <1>2, <1>3, <1>4, <1>5, <1>6, <2>3, <2>4, <2>5 DEF o
<1> QED
  BY <1>7, <1>8

(* The hold left in a gate by a budget that is no higher, or raised with   *)
(* the history noting it.                                                  *)
LEMMA HoldKept ==
    ASSUME NEW g \in Gate, raised \in BOOLEAN, raised' \in BOOLEAN, raised => raised',
           gate[g].configured \in Budgets \cup {DefaultBudget},
           gate'[g].configured \in Budgets \cup {DefaultBudget},
           gate'[g].configured > gate[g].configured => raised'
    PROVE  HoldNow(g)' <= HoldNow(g)
<1> DEFINE c == gate[g].configured
           d == gate'[g].configured
<1>1. HoldNow(g)' = IF raised' THEN LeastHold ELSE HalfRoundedUp(d)
  BY DEF HoldNow, LeastHold
<1>2. /\ c \in 1..MaxBudget /\ d \in 1..MaxBudget
      /\ LeastHold <= HalfRoundedUp(c) /\ LeastHold <= HalfRoundedUp(d)
      /\ LeastHold \in Nat
  BY LeastBudget
<1>3. /\ c \in Nat /\ d \in Nat /\ HalfRoundedUp(c) \in Nat /\ HalfRoundedUp(d) \in Nat
      /\ d <= c => HalfRoundedUp(d) <= HalfRoundedUp(c)
  BY <1>2, WindowAssumption DEF HalfRoundedUp
<1> HIDE DEF c, d
<1>4. ~(d > c) => d <= c
  BY <1>3
<1>5. HoldNow(g) = IF raised THEN LeastHold ELSE HalfRoundedUp(c)
  BY DEF HoldNow, c
<1>6. d > c => raised'
  BY DEF c, d
<1> QED
  BY <1>1, <1>2, <1>3, <1>4, <1>5, <1>6

(* What the server reports is not of the hold.                             *)
LEMMA ReconcileKeepsHold ==
    ASSUME NEW R, NEW g, IsGate(g, R), NEW stamp, NEW t \in Nat,
           NEW limit \in Int, NEW remaining \in Int
    PROVE  Held(Reconcile(g, stamp, t, limit, remaining)) = Held(g)
<1> DEFINE h == Reconcile(g, stamp, t, limit, remaining)
<1>1. PICK added :
          /\ h.budget <= g.budget
          /\ h.synthetic = g.synthetic \cup added
          /\ IsFiniteSet(added) /\ Cardinality(added) \in Nat
          /\ \A e \in added : e.why = "server" /\ e.at = t
          /\ added # {} => InWindow(g, stamp, t) + Cardinality(added) <= g.configured
  BY ReconcileAdds
<1> HIDE DEF h
<1>2. Held(h) = Held(g)
  BY <1>1 DEF Held
<1> QED
  BY <1>2 DEF h

(* A 429 leaves the hold and the age of a gate as they are.                *)
LEMMA RefusedHold ==
    ASSUME Typed, NEW r \in Request, Refused(r), NEW g \in Gate
    PROVE  /\ gate'[g].createdAt = gate[g].createdAt
           /\ Held(gate'[g]) = Held(gate[g])
<1>1. IsGate(gate[g], Request) /\ now \in Nat
  BY DEF Typed, TypeOK
<1>2. CASE \E offset \in RetryOffsets : NoteProviderLimited(r, offset)
  BY <1>2 DEF NoteProviderLimited, gateVars
<1>3. ASSUME NEW offset \in RetryOffsets, NEW counter, NEW limit \in Limits,
             NEW remaining \in Remainings,
             NoteRateLimited(r, counter, offset, limit, remaining)
      PROVE  /\ gate'[g].createdAt = gate[g].createdAt
             /\ Held(gate'[g]) = Held(gate[g])
  <2> DEFINE until == now + SuppressionDelay(offset)
             silent(h) == SuppressUntil(gate[h], until)
             noted(h) == Reconcile(silent(h), admittedAt, now, limit, remaining)
  <2>1. limit \in Int /\ remaining \in Int /\ until \in Nat
    <3>1. SuppressionDelay(offset) \in Nat \ {0}
      BY LimiterAssumption, SuppressionDelayIsPositive
    <3> QED
      BY <1>1, <3>1, LimiterAssumption
  <2>2. gate' = [h \in Gate |-> IF h \in Targets(r, counter) THEN noted(h) ELSE gate[h]]
    BY <1>3, Zenon DEF NoteRateLimited
  <2> HIDE DEF until
  <2>3. IsGate(silent(g), Request)
    BY <1>1, <2>1, SuppressUntilKeepsGate
  <2>4. silent(g).synthetic = gate[g].synthetic
    BY <1>1 DEF SuppressUntil, IsGate
  <2> HIDE DEF silent
  <2>5. Held(noted(g)) = Held(silent(g))
    BY <1>1, <2>1, <2>3, ReconcileKeepsHold
  <2> HIDE DEF noted
  <2>6. Held(noted(g)) = Held(gate[g])
    BY <2>4, <2>5 DEF Held
  <2>7. gate'[g].createdAt = gate[g].createdAt
    BY <1>3, NotedGates
  <2> QED
    BY <2>2, <2>6, <2>7
<1> QED
  BY <1>2, <1>3 DEF Refused

(* A new budget moves the hold of a gate that has admitted nothing, and    *)
(* that of no other.                                                       *)
LEMMA ReconfiguredHold ==
    ASSUME NEW R, NEW g, IsGate(g, R), NEW budget \in 1..MaxBudget, NEW t,
           HoldFits(g, t)
    PROVE  /\ Reconfigure(g, budget).configured = budget
           /\ g.admissions # {} => Held(Reconfigure(g, budget)) = Held(g)
           /\ g.admissions = {} =>
                  Held(Reconfigure(g, budget)) = StartupHold(budget, g.createdAt)
<1> DEFINE h == Reconfigure(g, budget)
           hold == StartupHold(budget, g.createdAt)
<1>1. CASE budget = g.configured
  BY <1>1 DEF Reconfigure, HoldFits
<1>2. CASE budget # g.configured /\ g.admissions # {}
  <2>1. h = [g EXCEPT !.configured = budget, !.budget = budget, !.synthetic = g.synthetic]
    BY <1>2 DEF Reconfigure
  <2>2. h.synthetic = g.synthetic /\ h.configured = budget
    BY <2>1 DEF IsGate
  <2> QED
    BY <1>2, <2>2 DEF Held
<1>3. CASE budget # g.configured /\ g.admissions = {}
  <2>1. g.configured \in 1..MaxBudget
    BY DEF IsGate
  <2>2. Held(g) = StartupHold(g.configured, g.createdAt)
    BY <1>3 DEF HoldFits
  <2>3. Held(g) # {}
    <3>1. 1 \in 1..HalfRoundedUp(g.configured)
      BY <2>1, HalfOfBudget
    <3> QED
      BY <2>2, <3>1 DEF StartupHold
  <2>4. h = [g EXCEPT !.configured = budget, !.budget = budget,
                      !.synthetic = (g.synthetic \ Held(g)) \cup hold]
    BY <1>3, <2>3 DEF Reconfigure, Held
  <2>5. h.synthetic = (g.synthetic \ Held(g)) \cup hold /\ h.configured = budget
    BY <2>4 DEF IsGate
  <2>6. \A e \in hold : e.why = "hold"
    BY DEF StartupHold
  <2> HIDE DEF h, hold
  <2>7. Held(h) = hold
    BY <2>5, <2>6 DEF Held
  <2> QED
    BY <1>3, <2>5, <2>7 DEF h, hold
<1> QED
  BY <1>1, <1>2, <1>3

LEMMA ConfiguredHold ==
    ASSUME Typed, Occupancy, NEW l \in Limiter, NEW accountBudget \in Budgets,
           NEW ipBudget \in Budgets, Configure(l, accountBudget, ipBudget), NEW g \in Gate
    PROVE  \/ gate'[g] = gate[g]
           \/ /\ gate'[g].configured \in Budgets
              /\ gate[g].admissions # {} => Held(gate'[g]) = Held(gate[g])
              /\ gate[g].admissions = {} =>
                     Held(gate'[g]) = StartupHold(gate'[g].configured, gate[g].createdAt)
<1>1. /\ accountBudget \in 1..MaxBudget /\ ipBudget \in 1..MaxBudget
      /\ AccountGate(l) # IpGate /\ AccountGate(l) \in Gate /\ IpGate \in Gate
  BY LimiterAssumption DEF AccountGate, IpGate, Gate
<1>2. DOMAIN gate = Gate
  BY DEF Typed, TypeOK
<1>3. gate' = [gate EXCEPT ![AccountGate(l)] = Reconfigure(@, accountBudget),
                           ![IpGate] = Reconfigure(@, ipBudget)]
  BY DEF Configure
<1>4. gate'[g] = IF g = AccountGate(l) THEN Reconfigure(gate[g], accountBudget)
                 ELSE IF g = IpGate THEN Reconfigure(gate[g], ipBudget)
                 ELSE gate[g]
  BY <1>1, <1>2, <1>3
<1>5. HoldFits(gate[g], now) /\ IsGate(gate[g], Request)
  BY DEF Occupancy, Occupied, Typed, TypeOK
<1>6. ASSUME NEW budget \in Budgets, gate'[g] = Reconfigure(gate[g], budget)
      PROVE  /\ gate'[g].configured \in Budgets
             /\ gate[g].admissions # {} => Held(gate'[g]) = Held(gate[g])
             /\ gate[g].admissions = {} =>
                    Held(gate'[g]) = StartupHold(gate'[g].configured, gate[g].createdAt)
  <2>1. budget \in 1..MaxBudget
    BY LimiterAssumption
  <2> QED
    BY <1>5, <1>6, <2>1, ReconfiguredHold
<1> QED
  BY <1>4, <1>6

(* Beside a hold that is still in the window there is room for no more     *)
(* than Overshoot.                                                         *)
LEMMA RoomBesideHold ==
    ASSUME Inv, Restarted, NEW g \in Gate, Young(g),
           CapacityAvailable(gate[g], admittedAt, now)
    PROVE  Cardinality(InLastWindow(g)) + 1 <= Overshoot
<1> DEFINE x == gate[g]
           real == Admitted(x, admittedAt, now)
           kept == Synthetic(x, now)
           c == x.configured
<1>1. IsGate(x, Request) /\ now \in Nat /\ HoldFits(x, now)
  BY DEF Inv, Typed, TypeOK, Occupancy, Occupied
<1>2. /\ IsFiniteSet(real) /\ Cardinality(real) \in Nat
      /\ IsFiniteSet(kept) /\ Cardinality(kept) \in Nat
      /\ Cardinality(real) + Cardinality(kept) < x.budget
  BY <1>1, InWindowIsNatural DEF CapacityAvailable, InWindow
<1>3. x.budget \in Nat /\ x.budget <= c /\ c \in 1..MaxBudget /\ c \in Nat
  BY <1>1, WindowAssumption DEF IsGate
<1>4. Held(x) \in SUBSET kept
  BY <1>1 DEF Held, Synthetic, HoldFits, Young
<1>5. Cardinality(Held(x)) \in Nat /\ Cardinality(Held(x)) <= Cardinality(kept)
  BY <1>2, <1>4, FS_Subset, FS_CardinalityType
<1>6. InLastWindow(g) \in SUBSET real
  BY DEF Inv, Charged, InLastWindow, Admitted
<1>7. /\ Cardinality(InLastWindow(g)) \in Nat
      /\ Cardinality(InLastWindow(g)) <= Cardinality(real)
  BY <1>2, <1>6, FS_Subset, FS_CardinalityType
<1>8. Cardinality(Held(x)) >= HoldNow(g) /\ raised \in BOOLEAN
  BY DEF Restarted, HeldBack
<1>9. HoldNow(g) \in Nat /\ c - HoldNow(g) <= Overshoot /\ Overshoot \in Int
  <2>1. /\ HalfRoundedUp(c) \in Nat
        /\ HalfRoundedUp(MaxBudget) \in Nat
        /\ c - HalfRoundedUp(c) <= MaxBudget - HalfRoundedUp(MaxBudget)
    BY <1>3, HalfOfBudget
  <2>2. LeastHold \in Nat /\ MaxBudget \in Nat /\ c <= MaxBudget
    BY <1>3, LeastBudget, WindowAssumption
  <2>3. /\ HoldNow(g) = IF raised THEN LeastHold ELSE HalfRoundedUp(c)
        /\ Overshoot = IF raised THEN MaxBudget - LeastHold
                       ELSE MaxBudget - HalfRoundedUp(MaxBudget)
    BY OvershootIsNatural DEF HoldNow
  <2> HIDE DEF x, c
  <2> QED
    BY <1>3, <2>1, <2>2, <2>3, OvershootIsNatural
<1> HIDE DEF x, real, kept, c
<1> QED
  BY <1>2, <1>3, <1>5, <1>7, <1>8, <1>9

(* Multiplying by a number of restarts keeps an order.                     *)
LEMMA TimesRestarts ==
    ASSUME NEW n \in Nat, NEW x \in Nat, NEW y \in Nat, x <= y
    PROVE  n * x <= n * y /\ n * x \in Nat /\ n * y \in Nat
OBVIOUS

LEMMA InLastWindowIsFinite ==
    ASSUME Inv, NEW g \in Gate
    PROVE  IsFiniteSet(InLastWindow(g)) /\ Cardinality(InLastWindow(g)) \in Nat
<1>1. IsFiniteSet(gate[g].admissions) /\ InLastWindow(g) \in SUBSET gate[g].admissions
  BY DEF Inv, Typed, TypeOK, IsGate, Charged
<1> QED
  BY <1>1, FS_Subset, FS_CardinalityType

(* A gate through which nothing is admitted and whose hold is as large as  *)
(* before, or that is new.                                                 *)
LEMMA HeldBackStays ==
    ASSUME Inv, Restarted, NEW g \in Gate,
           raised' \in BOOLEAN, raised => raised',
           Young(g)' => Young(g),
           InLastWindow(g)' \subseteq InLastWindow(g),
           gate'[g].configured \in Budgets \cup {DefaultBudget},
           gate'[g].configured > gate[g].configured => raised',
           Cardinality(Held(gate'[g])) \in Nat,
           Cardinality(Held(gate'[g])) >= Cardinality(Held(gate[g]))
    PROVE  HeldBack(g)'
<1> SUFFICES ASSUME Young(g)'
             PROVE  /\ Cardinality(Held(gate'[g])) >= HoldNow(g)'
                    /\ Cardinality(InLastWindow(g)') <= Overshoot'
  BY DEF HeldBack
<1>1. /\ Cardinality(Held(gate[g])) >= HoldNow(g)
      /\ Cardinality(InLastWindow(g)) <= Overshoot
      /\ gate[g].configured \in Budgets \cup {DefaultBudget} /\ raised \in BOOLEAN
  BY DEF Restarted, HeldBack
<1>2. HoldNow(g)' <= HoldNow(g)
  BY <1>1, HoldKept
<1>3. /\ Overshoot <= Overshoot' /\ Overshoot \in Nat /\ Overshoot' \in Nat
  BY <1>1, OvershootGrows, OvershootIsNatural
<1>4. Cardinality(InLastWindow(g)') \in Nat
      /\ Cardinality(InLastWindow(g)') <= Cardinality(InLastWindow(g))
  <2> DEFINE later == InLastWindow(g)'
  <2>1. later \in SUBSET InLastWindow(g)
    OBVIOUS
  <2> HIDE DEF later
  <2>2. Cardinality(later) \in Nat /\ Cardinality(later) <= Cardinality(InLastWindow(g))
    BY <2>1, InLastWindowIsFinite, FS_Subset, FS_CardinalityType
  <2> QED
    BY <2>2 DEF later
<1>5. HoldNow(g) \in Nat /\ HoldNow(g)' \in Nat
  <2>1. /\ HoldNow(g) = IF raised THEN LeastHold ELSE HalfRoundedUp(gate[g].configured)
        /\ HoldNow(g)' = IF raised' THEN LeastHold ELSE HalfRoundedUp(gate'[g].configured)
    BY DEF HoldNow, LeastHold
  <2>2. gate[g].configured \in 1..MaxBudget /\ gate'[g].configured \in 1..MaxBudget
    BY <1>1, LeastBudget
  <2> QED
    BY <2>1, <2>2, HalfOfBudget, LeastBudget
<1>6. Cardinality(Held(gate[g])) \in Nat
  <2>1. IsFiniteSet(gate[g].synthetic) /\ Held(gate[g]) \in SUBSET gate[g].synthetic
    BY DEF Inv, Typed, TypeOK, IsGate, Held
  <2> QED
    BY <2>1, FS_Subset, FS_CardinalityType
<1>7. Cardinality(InLastWindow(g)) \in Nat
  BY InLastWindowIsFinite
<1> QED
  BY <1>1, <1>2, <1>3, <1>4, <1>5, <1>6, <1>7

(* What earlier processes sent only leaves the window.                     *)
LEMMA SentBeforeStays ==
    ASSUME Inv, Restarted, NEW g \in Gate, raised' \in BOOLEAN, raised => raised',
           UNCHANGED <<restarts, formerly>>, now' \in Nat, now <= now',
           gate'[g].createdAt \in Nat, gate[g].createdAt <= gate'[g].createdAt
    PROVE  SentBefore(g)'
<1> DEFINE before == Formerly(g)
           later == Formerly(g)'
<1>1. /\ IsFiniteSet(before) /\ restarts \in Nat /\ raised \in BOOLEAN
      /\ formerly \in [Request -> Nat \cup {Never}]
      /\ \A r \in Request : formerly[r] <= gate[g].createdAt
      /\ restarts = 0 => before = {}
      /\ restarts > 0 => Cardinality(before) <= MaxBudget + (restarts - 1) * Overshoot
  BY DEF Restarted, SentBefore
<1>2. /\ now \in Nat /\ Window \in Nat /\ MaxBudget \in Nat
      /\ gate[g].createdAt \in Nat /\ \A r \in Request : formerly[r] \in Int
  BY <1>1, WindowAssumption DEF Inv, Typed, TypeOK, IsGate, Never
<1>3. later \in SUBSET before
  BY <1>2 DEF Formerly
<1>4. /\ Overshoot <= Overshoot' /\ Overshoot \in Nat /\ Overshoot' \in Nat
  BY <1>1, OvershootGrows, OvershootIsNatural
<1>5. \A r \in Request : formerly'[r] <= gate'[g].createdAt
  BY <1>1, <1>2
<1> HIDE DEF before, later
<1>6. /\ IsFiniteSet(later) /\ Cardinality(later) \in Nat
      /\ Cardinality(before) \in Nat /\ Cardinality(later) <= Cardinality(before)
  BY <1>1, <1>3, FS_Subset, FS_CardinalityType
<1>7. restarts' > 0 => Cardinality(later) <= MaxBudget + (restarts' - 1) * Overshoot'
  <2> SUFFICES ASSUME restarts > 0
               PROVE  Cardinality(later) <= MaxBudget + (restarts - 1) * Overshoot'
    OBVIOUS
  <2>1. restarts - 1 \in Nat
    BY <1>1
  <2>2. /\ (restarts - 1) * Overshoot <= (restarts - 1) * Overshoot'
        /\ (restarts - 1) * Overshoot \in Nat /\ (restarts - 1) * Overshoot' \in Nat
    BY <1>4, <2>1, TimesRestarts
  <2> QED
    BY <1>1, <1>2, <1>6, <2>2
<1> QED
  BY <1>1, <1>3, <1>5, <1>6, <1>7 DEF SentBefore, later

(* The hold of a gate that has just been created is that of its budget.    *)
LEMMA NewGateHoldsBack ==
    ASSUME Restarted, raised' \in BOOLEAN, NEW g \in Gate, NEW t \in Nat,
           gate'[g] = NewGate(DefaultBudget, t), InLastWindow(g)' = {}
    PROVE  HeldBack(g)'
<1>1. /\ gate'[g].configured = DefaultBudget
      /\ Held(gate'[g]) = StartupHold(DefaultBudget, t)
  BY DEF NewGate, Held, StartupHold
<1>2. Cardinality(Held(gate'[g])) = HalfRoundedUp(DefaultBudget)
  BY <1>1, HoldSize, LimiterAssumption
<1>3. /\ HoldNow(g)' = IF raised' THEN LeastHold ELSE HalfRoundedUp(DefaultBudget)
      /\ LeastHold <= HalfRoundedUp(DefaultBudget) /\ LeastHold \in Nat
      /\ HalfRoundedUp(DefaultBudget) \in Nat
  BY <1>1, LeastBudget, HalfOfBudget, LimiterAssumption DEF HoldNow, LeastHold
<1>4. Cardinality(InLastWindow(g)') = 0
  BY FS_EmptySet
<1>5. Overshoot' \in Nat
  <2>1. (Overshoot \in Nat)'
    BY OvershootIsNatural, PTL
  <2> QED
    BY <2>1
<1> QED
  BY <1>1, <1>2, <1>3, <1>4, <1>5 DEF HeldBack

LEMMA RestartedStep ==
    ASSUME Inv, Inv', Restarted, Next, UNCHANGED <<restarts, formerly>>,
           raised' \in BOOLEAN, raised => raised', RaisedUnderTraffic => raised'
    PROVE  Restarted'
<1>1. /\ raised \in BOOLEAN /\ raised' \in BOOLEAN
      /\ raised => raised'
      /\ \A g \in Gate : gate[g].configured \in Budgets \cup {DefaultBudget}
  BY DEF Restarted, HeldBack
<1>2. /\ now \in Nat /\ now' \in Nat /\ Window \in Nat
      /\ \A r \in Request : admittedAt[r] \in Int /\ Owner[r] \in Limiter
      /\ DOMAIN gate = Gate
      /\ \A g \in Gate : /\ IsGate(gate[g], Request) /\ IsGate(gate'[g], Request)
                         /\ gate[g].createdAt \in Nat /\ gate'[g].createdAt \in Nat
                         /\ gate[g].createdAt <= now /\ gate[g].configured \in Nat
      /\ admittedAt \in [Request -> Nat \cup {Never}]
  <2>1. /\ now \in Nat /\ now' \in Nat /\ DOMAIN gate = Gate
        /\ \A g \in Gate : IsGate(gate[g], Request) /\ IsGate(gate'[g], Request)
        /\ \A g \in Gate : gate[g].createdAt <= now
        /\ admittedAt \in [Request -> Nat \cup {Never}]
    BY DEF Inv, Typed, TypeOK, Past
  <2>2. \A g \in Gate : /\ gate[g].createdAt \in Nat /\ gate'[g].createdAt \in Nat
                        /\ gate[g].configured \in Nat
    BY <2>1, WindowAssumption DEF IsGate
  <2> QED
    BY <2>1, <2>2, GatesOfRequest, WindowAssumption DEF Never
<1>3. \A g \in Gate : Cardinality(Held(gate[g])) \in Nat
  <2>1. \A g \in Gate : IsFiniteSet(gate[g].synthetic) /\ Held(gate[g]) \in SUBSET gate[g].synthetic
    BY <1>2 DEF IsGate, Held
  <2> QED
    BY <2>1, FS_Subset, FS_CardinalityType
<1>4. SUFFICES ASSUME NEW g \in Gate
               PROVE  /\ now <= now' /\ gate[g].createdAt <= gate'[g].createdAt
                      /\ HeldBack(g)'
  <2>1. \A g \in Gate : HeldBack(g)' /\ SentBefore(g)'
    BY <1>1, <1>2, <1>4, SentBeforeStays
  <2> QED
    BY <1>1, <2>1 DEF Restarted
<1>5. ASSUME now' = now, admittedAt' = admittedAt
      PROVE  InLastWindow(g)' = InLastWindow(g)
  BY <1>5 DEF InLastWindow
(* Steps that change neither the gates nor who was admitted.               *)
<1>6. ASSUME UNCHANGED <<gate, admittedAt>>, now <= now'
      PROVE  HeldBack(g)'
  <2>1. InLastWindow(g)' \subseteq InLastWindow(g) /\ (Young(g)' => Young(g))
    BY <1>2, <1>6 DEF InLastWindow, Young
  <2> QED
    BY <1>1, <1>2, <1>3, <1>6, <2>1, HeldBackStays
<1>7. CASE Tick
  <2>1. now' = now + 1 /\ UNCHANGED <<gate, admittedAt>>
    BY <1>7 DEF Tick, gateVars
  <2> QED
    BY <1>2, <1>6, <2>1
<1>8. ASSUME NEW r \in Request, Admission(r)
      PROVE  /\ now <= now' /\ gate[g].createdAt <= gate'[g].createdAt
             /\ HeldBack(g)'
  <2>1. /\ Clear(r) /\ now' = now /\ admittedAt' = [admittedAt EXCEPT ![r] = now]
        /\ gate'[g] = IF g \in GatesFor(r) THEN Record(gate[g], r, admittedAt, now)
                      ELSE gate[g]
    BY <1>8 DEF Admission, Admit, clockVars
  <2>2. CASE g \notin GatesFor(r)
    <3>1. InLastWindow(g)' = InLastWindow(g) /\ Young(g)' = Young(g)
      BY <1>2, <2>1, <2>2 DEF InLastWindow, Young
    <3> QED
      BY <1>1, <1>2, <1>3, <2>1, <2>2, <3>1, HeldBackStays
  <2>3. CASE g \in GatesFor(r)
    <3>1. /\ gate'[g].configured = gate[g].configured
          /\ gate'[g].createdAt = gate[g].createdAt
          /\ gate'[g].synthetic = Synthetic(gate[g], now)
      BY <1>2, <2>1, <2>3 DEF Record, IsGate
    <3>2. HeldBack(g)'
      <4> SUFFICES ASSUME Young(g)
                   PROVE  /\ Cardinality(Held(gate'[g])) >= HoldNow(g)'
                          /\ Cardinality(InLastWindow(g)') <= Overshoot'
        BY <1>1, <2>1, <3>1 DEF HeldBack, Young
      <4>1. Held(gate'[g]) = Held(gate[g])
        BY <3>1 DEF Held, Synthetic, Young, Inv, Occupancy, Occupied, HoldFits
      <4>2. HoldNow(g)' <= HoldNow(g) /\ HoldNow(g) <= Cardinality(Held(gate[g]))
        BY <1>1, <1>2, <3>1, HoldKept DEF Restarted, HeldBack, IsGate
      <4>3. HoldNow(g) \in Nat /\ HoldNow(g)' \in Nat
        <5>1. /\ HoldNow(g) = IF raised THEN LeastHold ELSE HalfRoundedUp(gate[g].configured)
              /\ HoldNow(g)' = IF raised' THEN LeastHold ELSE HalfRoundedUp(gate[g].configured)
          BY <3>1 DEF HoldNow, LeastHold
        <5>2. gate[g].configured \in 1..MaxBudget
          BY <1>1, LeastBudget
        <5> QED
          BY <5>1, <5>2, HalfOfBudget, LeastBudget
      <4>4. Cardinality(InLastWindow(g)) + 1 <= Overshoot
        BY <2>1, <2>3, RoomBesideHold DEF Clear
      <4>5. Overshoot <= Overshoot' /\ Overshoot \in Nat /\ Overshoot' \in Nat
        BY <1>1, OvershootGrows, OvershootIsNatural
      <4>6. InLastWindow(g)' = InLastWindow(g) \cup {r}
        BY <1>2, <2>1, <2>3, WindowAssumption DEF InLastWindow, Never
      <4>7. /\ IsFiniteSet(InLastWindow(g)) /\ Cardinality(InLastWindow(g)) \in Nat
        BY InLastWindowIsFinite
      <4>8. Cardinality(InLastWindow(g) \cup {r}) <= Cardinality(InLastWindow(g)) + 1
            /\ Cardinality(InLastWindow(g) \cup {r}) \in Nat
        <5> DEFINE S == InLastWindow(g)
        <5> HIDE DEF S
        <5>1. IsFiniteSet(S) /\ Cardinality(S) \in Nat
          BY <4>7 DEF S
        <5>2. /\ IsFiniteSet(S \cup {r})
              /\ Cardinality(S \cup {r})
                     = IF r \in S THEN Cardinality(S) ELSE Cardinality(S) + 1
          BY <5>1, FS_AddElement
        <5>3. Cardinality(S \cup {r}) <= Cardinality(S) + 1 /\ Cardinality(S \cup {r}) \in Nat
          BY <5>1, <5>2
        <5> QED
          BY <5>3 DEF S
      <4> QED
        BY <1>3, <4>1, <4>2, <4>3, <4>4, <4>5, <4>6, <4>7, <4>8
    <3> QED
      BY <1>2, <2>1, <3>1, <3>2
  <2> QED
    BY <1>2, <2>1, <2>2, <2>3
<1>9. ASSUME NEW r \in Request, Refused(r)
      PROVE  /\ now <= now' /\ gate[g].createdAt <= gate'[g].createdAt
             /\ HeldBack(g)'
  <2>1. /\ UNCHANGED <<now, admittedAt>> /\ gate'[g].configured = gate[g].configured
        /\ gate'[g].createdAt = gate[g].createdAt /\ Held(gate'[g]) = Held(gate[g])
    BY <1>9, RefusedKeeps, RefusedHold DEF Inv
  <2>2. Young(g)' = Young(g)
    BY <2>1 DEF Young
  <2> QED
    BY <1>1, <1>2, <1>3, <1>5, <2>1, <2>2, HeldBackStays
<1>10. ASSUME NEW l \in Limiter, Open(l)
       PROVE  /\ now <= now' /\ gate[g].createdAt <= gate'[g].createdAt
              /\ HeldBack(g)'
  <2>1. /\ phase[l] = "new" /\ UNCHANGED <<now, admittedAt>>
    BY <1>10 DEF Open, clockVars
  <2>2. CASE gate'[g] = gate[g]
    <3>1. Young(g)' = Young(g)
      BY <2>1, <2>2 DEF Young
    <3> QED
      BY <1>1, <1>2, <1>3, <1>5, <2>1, <2>2, <3>1, HeldBackStays
  <2>3. CASE gate'[g] # gate[g]
    <3>1. gate'[g] = NewGate(DefaultBudget, now)
      BY <1>2, <1>10, <2>3, Zenon DEF Open
    <3>2. \/ g = AccountGate(l)
          \/ g = IpGate /\ \A k \in Limiter : phase[k] = "new"
      BY <1>2, <1>10, <2>3 DEF Open
    <3>3. \A r \in Request : g \in GatesFor(r) => phase[Owner[r]] = "new"
      BY <1>2, <2>1, <3>2 DEF GatesFor, AccountGate, IpGate
    <3>4. InLastWindow(g)' = {}
      BY <2>1, <3>3 DEF Inv, Charged, InLastWindow
    <3>5. gate'[g].createdAt = now
      BY <3>1 DEF NewGate
    <3> QED
      BY <1>1, <1>2, <2>1, <3>1, <3>4, <3>5, NewGateHoldsBack
  <2> QED
    BY <2>2, <2>3
<1>11. ASSUME NEW l \in Limiter, NEW accountBudget \in Budgets, NEW ipBudget \in Budgets,
              Configure(l, accountBudget, ipBudget)
       PROVE  /\ now <= now' /\ gate[g].createdAt <= gate'[g].createdAt
              /\ HeldBack(g)'
  <2>1. UNCHANGED <<now, admittedAt>> /\ gate'[g].createdAt = gate[g].createdAt
    BY <1>11, ConfiguredGates DEF Configure, clockVars, Inv
  <2>2. Young(g)' = Young(g) /\ InLastWindow(g)' = InLastWindow(g)
    BY <1>5, <2>1 DEF Young
  <2>3. CASE gate'[g] = gate[g]
    BY <1>1, <1>2, <1>3, <2>1, <2>2, <2>3, HeldBackStays
  <2>4. CASE /\ gate[g].admissions # {} /\ gate'[g].configured \in Budgets
             /\ Held(gate'[g]) = Held(gate[g])
    <3>1. gate'[g].configured > gate[g].configured => raised'
      BY <2>4 DEF RaisedUnderTraffic
    <3> QED
      BY <1>1, <1>2, <1>3, <2>1, <2>2, <2>4, <3>1, HeldBackStays
  <2>5. CASE /\ gate[g].admissions = {} /\ gate'[g].configured \in Budgets
             /\ Held(gate'[g]) = StartupHold(gate'[g].configured, gate[g].createdAt)
    <3> DEFINE d == gate'[g].configured
    <3>1. d \in 1..MaxBudget
      BY <2>5, LimiterAssumption
    <3>2. Cardinality(Held(gate'[g])) = HalfRoundedUp(d) /\ HalfRoundedUp(d) \in Nat
      BY <1>2, <2>5, <3>1, HoldSize, HalfOfBudget
    <3>3. /\ HoldNow(g)' = IF raised' THEN LeastHold ELSE HalfRoundedUp(d)
          /\ LeastHold <= HalfRoundedUp(d) /\ LeastHold \in Nat
      BY <2>5, LeastBudget DEF HoldNow, LeastHold
    <3>4. Young(g) => Cardinality(InLastWindow(g)) <= Overshoot
      BY DEF Restarted, HeldBack
    <3>5. Overshoot <= Overshoot' /\ Overshoot \in Nat /\ Overshoot' \in Nat
      BY <1>1, OvershootGrows, OvershootIsNatural
    <3>6. Cardinality(InLastWindow(g)) \in Nat
      BY InLastWindowIsFinite
    <3> QED
      BY <1>2, <2>1, <2>2, <2>5, <3>2, <3>3, <3>4, <3>5, <3>6 DEF HeldBack
  <2> QED
    BY <1>11, <2>3, <2>4, <2>5, ConfiguredHold DEF Inv
<1>12. CASE UNCHANGED <<now, gate, admittedAt>>
  BY <1>2, <1>6, <1>12
<1>13. CASE \E r \in Request : \E left \in Patience : Enqueue(r, left)
  BY <1>12, <1>13 DEF Enqueue, clockVars, gateVars
<1>14. CASE \E l \in Limiter : Close(l)
  BY <1>12, <1>14 DEF Close, clockVars, gateVars
<1>15. CASE UNCHANGED <<clockVars, gateVars, sharedVars>>
  BY <1>12, <1>15 DEF clockVars, gateVars
<1>16. Typed
  BY DEF Inv
<1> QED
  BY <1>7, <1>8, <1>9, <1>10, <1>11, <1>13, <1>14, <1>15, <1>16, StepKinds

(* A new process finds nothing of the old one but what the server counts.  *)
LEMMA RestartRestarts ==
    ASSUME Inv, Restarted, Restart
    PROVE  Inv' /\ Restarted'
<1>1. /\ restarts' = restarts + 1 /\ now' = now /\ raised' = raised
      /\ formerly' = [r \in Request |-> IF admittedAt[r] # Never THEN admittedAt[r]
                                        ELSE formerly[r]]
      /\ gate' = [g \in Gate |-> NewGate(DefaultBudget, now)]
      /\ admittedAt' = [r \in Request |-> Never]
  BY DEF Restart
<1>2. /\ now \in Nat /\ Window \in Nat /\ restarts \in Nat /\ raised \in BOOLEAN
      /\ admittedAt \in [Request -> Nat \cup {Never}]
      /\ formerly \in [Request -> Nat \cup {Never}]
      /\ \A r \in Request : admittedAt[r] <= now
      /\ call \in [Request -> {"idle", "waiting", "cancelling", "sent", "refused",
                               "failed", "cancelled"}]
  BY WindowAssumption DEF Inv, Typed, TypeOK, Past, Restarted
<1>3. Fresh'
  <2>1. call' \in [Request -> {"idle", "cancelled"}]
    BY <1>2 DEF Restart
  <2>2. future' = [r \in Request |-> IF call'[r] = "idle" THEN "none" ELSE "cancelled"]
    BY DEF Restart
  <2> QED
    BY <1>1, <1>2, <2>1, <2>2 DEF Restart, Fresh
<1>4. Inv'
  BY <1>3, FreshInv, PTL
<1>5. ASSUME NEW g \in Gate PROVE HeldBack(g)'
  <2>1. InLastWindow(g)' = {}
    BY <1>1 DEF InLastWindow
  <2> QED
    BY <1>1, <1>2, <2>1, NewGateHoldsBack
<1>6. ASSUME NEW g \in Gate PROVE SentBefore(g)'
  <2> DEFINE later == Formerly(g)'
  <2>1. later \in SUBSET CountedByServer(g)
    BY <1>1 DEF Formerly, CountedByServer
  <2>2. /\ IsFiniteSet(CountedByServer(g))
        /\ Cardinality(CountedByServer(g)) <= MaxBudget + restarts * Overshoot
    BY CountedTogether
  <2>3. Overshoot' = Overshoot
    BY <1>1 DEF Overshoot
  <2>4. gate'[g].createdAt = now
    BY <1>1 DEF NewGate
  <2>5. \A r \in Request : formerly'[r] <= gate'[g].createdAt
    <3>1. ASSUME NEW r \in Request PROVE formerly[r] <= now
      <4>1. formerly[r] <= gate[g].createdAt /\ gate[g].createdAt <= now
        BY DEF Restarted, SentBefore, Inv, Typed, Past
      <4>2. formerly[r] \in Int /\ gate[g].createdAt \in Nat
        BY <1>2 DEF Inv, Typed, TypeOK, IsGate, Never
      <4> QED
        BY <1>2, <4>1, <4>2
    <3> QED
      BY <1>1, <1>2, <2>4, <3>1
  <2> HIDE DEF later
  <2>6. /\ IsFiniteSet(later) /\ Cardinality(later) \in Nat
        /\ Cardinality(CountedByServer(g)) \in Nat
        /\ Cardinality(later) <= Cardinality(CountedByServer(g))
    BY <2>1, <2>2, FS_Subset, FS_CardinalityType
  <2>7. restarts' - 1 = restarts /\ restarts' # 0
    BY <1>1, <1>2
  <2>8. restarts * Overshoot \in Nat /\ MaxBudget \in Nat
    BY <1>2, OvershootIsNatural, TimesRestarts, WindowAssumption
  <2>9. Cardinality(later) <= MaxBudget + (restarts' - 1) * Overshoot'
    BY <2>2, <2>3, <2>6, <2>7, <2>8
  <2> QED
    BY <2>5, <2>6, <2>7, <2>9 DEF SentBefore, later
<1>7. formerly' \in [Request -> Nat \cup {Never}] /\ restarts' \in Nat
  BY <1>1, <1>2
<1> QED
  BY <1>1, <1>2, <1>4, <1>5, <1>6, <1>7 DEF Restarted

LEMMA InitRestarted == RInit => Inv /\ Restarted
<1> SUFFICES ASSUME RInit PROVE Inv /\ Restarted
  OBVIOUS
<1>1. Init /\ restarts = 0 /\ formerly = [r \in Request |-> Never] /\ raised = FALSE
  BY DEF RInit
<1>2. Inv
  BY <1>1, InitInv
<1>3. ASSUME NEW g \in Gate PROVE HeldBack(g) /\ SentBefore(g)
  <2>1. /\ gate[g].configured = DefaultBudget /\ gate[g].createdAt = 0
        /\ Held(gate[g]) = StartupHold(DefaultBudget, 0)
    BY <1>1 DEF Init, NewGate, Held, StartupHold
  <2>2. /\ Cardinality(Held(gate[g])) = HalfRoundedUp(DefaultBudget)
        /\ HalfRoundedUp(DefaultBudget) \in Nat
    BY <2>1, HoldSize, HalfOfBudget, LimiterAssumption
  <2>3. InLastWindow(g) = {} /\ Formerly(g) = {}
    BY <1>1 DEF Init, InLastWindow, Formerly
  <2>4. IsFiniteSet({}) /\ Cardinality({}) = 0
    BY FS_EmptySet
  <2>5. HeldBack(g)
    BY <1>1, <2>1, <2>2, <2>3, <2>4, OvershootIsNatural DEF HeldBack, HoldNow
  <2>6. SentBefore(g)
    BY <1>1, <2>1, <2>3, <2>4 DEF SentBefore, Never
  <2> QED
    BY <2>5, <2>6
<1> QED
  BY <1>1, <1>2, <1>3 DEF Restarted

(* What every process of the run keeps.                                    *)
LEMMA RestartsInvariance == RSpec => [](Inv /\ Restarted)
<1>1. Inv /\ Restarted /\ [RNext]_restartVars => (Inv /\ Restarted)'
  <2> SUFFICES ASSUME Inv, Restarted, [RNext]_restartVars PROVE Inv' /\ Restarted'
    OBVIOUS
  <2>1. CASE Next /\ raised' = (raised \/ RaisedUnderTraffic)
             /\ UNCHANGED <<restarts, formerly>>
    <3>1. Inv'
      BY <2>1, StepInv
    <3>2. raised' \in BOOLEAN /\ (raised => raised') /\ (RaisedUnderTraffic => raised')
      BY <2>1 DEF Restarted, RaisedUnderTraffic
    <3> QED
      BY <2>1, <3>1, <3>2, RestartedStep
  <2>2. CASE Restart
    BY <2>2, RestartRestarts
  <2>3. CASE UNCHANGED restartVars
    <3>1. Inv'
      BY <2>3, StepInv DEF restartVars
    <3>2. UNCHANGED <<now, gate, admittedAt, restarts, formerly, raised>>
      BY <2>3 DEF restartVars, vars, clockVars, gateVars
    <3>3. Restarted'
      BY <3>2 DEF Restarted, HeldBack, SentBefore, Formerly, InLastWindow, Young, HoldNow,
                  Overshoot, LeastHold
    <3> QED
      BY <3>1, <3>3
  <2> QED
    BY <2>1, <2>2, <2>3 DEF RNext
<1> QED
  BY <1>1, InitRestarted, PTL DEF RSpec

(* However often and whenever Home Assistant restarts, the processes of    *)
(* one window send together no more than the ceiling and, for each         *)
(* restart, what a new process may send beside its startup hold.           *)
THEOREM RestartsBounded == RSpec => []RestartBound
<1>1. Inv /\ Restarted => RestartBound
  BY CountedTogether DEF RestartBound
<1> QED
  BY <1>1, RestartsInvariance, PTL

(* Within every process, the documented ceiling holds of every window, as  *)
(* it does without restarts.                                               *)
THEOREM WindowBoundedAcrossRestarts == RSpec => []WindowBound
<1>1. Inv => WindowBound
  BY DEF Inv
<1> QED
  BY <1>1, RestartsInvariance, PTL
=============================================================================
