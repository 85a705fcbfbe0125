-------------------------- MODULE SlidingWindowGate --------------------------
(***************************************************************************)
(* The sliding-window counter of api/rate_limit/gates.py, as operators on  *)
(* a gate record.                                                          *)
(*                                                                         *)
(* A deque of timestamps becomes the set of requests it counts; their      *)
(* timestamps are the function `stamp`, because the limiter records one    *)
(* admission with one `now` on every gate.  Synthetic admissions (those    *)
(* the process did not make itself) carry their own timestamp, the reason  *)
(* they were added for and a number that tells equal timestamps apart.     *)
(* Expired entries are dropped when the code reads them as well as when it *)
(* writes; since no reader sees an expired entry, only `Record` drops them *)
(* here and every reader looks through the window.                         *)
(*                                                                         *)
(* Time is a number of ticks.  A gate that is not suppressed has           *)
(* suppressedUntil = 0, which no suppression can produce.                  *)
(***************************************************************************)
EXTENDS Integers, FiniteSets, FiniteSetsExt

CONSTANTS
    Window,      \* RATE_LIMIT_WINDOW_SECONDS
    MaxBudget    \* RATE_LIMIT_CEILING, the documented ceiling of a counter

ASSUME WindowAssumption == Window \in Nat \ {0} /\ MaxBudget \in Nat \ {0}

(* A gate that counts admissions of the given requests, finitely many. *)
IsGate(g, requests) ==
    /\ g \in [configured : 1..MaxBudget, budget : 1..MaxBudget, createdAt : Nat,
              admissions : SUBSET requests,
              synthetic : SUBSET [why : {"hold", "server"}, at : Nat, n : Nat \ {0}],
              suppressedUntil : Nat]
    /\ IsFiniteSet(g.admissions)
    /\ IsFiniteSet(g.synthetic)
    /\ g.budget <= g.configured

HalfRoundedUp(n) == (n + 1) \div 2

(* A bug: a new gate starts at full capacity. *)
NoStartupHold(budget, t) == {}

(* The startup hold: half a budget, parked at the gate's creation time. *)
StartupHold(budget, t) ==
    {[why |-> "hold", at |-> t, n |-> k] : k \in 1..HalfRoundedUp(budget)}

NewGate(budget, t) ==
    [configured     |-> budget,
     budget         |-> budget,
     createdAt      |-> t,
     admissions     |-> {},
     synthetic      |-> StartupHold(budget, t),
     suppressedUntil |-> 0]

(* A bug: a timestamp expires one tick early. *)
AdmittedShort(g, stamp, t) == {r \in g.admissions : stamp[r] > t - Window + 1}

(* _prune: what is left of each deque once expired timestamps are gone. *)
Admitted(g, stamp, t) == {r \in g.admissions : stamp[r] > t - Window}
Synthetic(g, t) == {e \in g.synthetic : e.at > t - Window}

InWindow(g, stamp, t) ==
    Cardinality(Admitted(g, stamp, t)) + Cardinality(Synthetic(g, t))

(* A bug: a full gate still has room for one. *)
RoomForOneMore(g, stamp, t) == InWindow(g, stamp, t) <= g.budget

CapacityAvailable(g, stamp, t) == InWindow(g, stamp, t) < g.budget

IsSuppressed(g, t) == t < g.suppressedUntil

Record(g, r, stamp, t) ==
    [g EXCEPT !.admissions = Admitted(g, stamp, t) \cup {r},
              !.synthetic = Synthetic(g, t)]

(* The instant at which one admission fits into a gate that is full: the   *)
(* expiry of the first entry by which the surplus over the budget is gone. *)
NextAvailable(g, stamp, t) ==
    LET real == Admitted(g, stamp, t)
        told == Synthetic(g, t)
        surplus == InWindow(g, stamp, t) - g.budget
        upTo(x) == Cardinality({r \in real : stamp[r] <= x})
                     + Cardinality({e \in told : e.at <= x})
        times == {stamp[r] : r \in real} \cup {e.at : e \in told}
    IN  Window + Min({x \in times : upTo(x) > surplus})

(* A bug: the latest 429 wins, also when it is the shorter one. *)
SuppressUntilLatest(g, until) == [g EXCEPT !.suppressedUntil = until]

(* suppress_until: suppression only ever grows. *)
SuppressUntil(g, until) ==
    IF until <= g.suppressedUntil THEN g
    ELSE [g EXCEPT !.suppressedUntil = until]

(* A bug: a new budget starts a new window. *)
ReconfigureAfresh(g, budget) ==
    [g EXCEPT !.configured = budget, !.budget = budget, !.admissions = {}]

(* reconfigure, with _resize_startup_hold: only a hold that has neither    *)
(* expired nor seen a real admission follows the new budget.               *)
Reconfigure(g, budget) ==
    LET hold == {e \in g.synthetic : e.why = "hold"}
        resized == IF hold = {} \/ g.admissions # {} THEN g.synthetic
                   ELSE (g.synthetic \ hold) \cup StartupHold(budget, g.createdAt)
    IN  IF budget = g.configured THEN g
        ELSE [g EXCEPT !.configured = budget, !.budget = budget,
                       !.synthetic = resized]

(* A bug: a limit of zero is applied as it stands. *)
AnyLimit(limit) == limit >= 0

(* _usable_limit: a limit below 1 is an unusable header. *)
UsableLimit(limit) == limit >= 1

(* A bug: what is already counted is counted once more. *)
ShortfallOverUsed(used, budget, remaining) ==
    IF remaining >= 0 THEN Min({budget - remaining, MaxBudget}) ELSE 0

(* How many admissions the server has counted and this gate has not; a     *)
(* remaining count below 0 is an unusable header (_usable_remaining).      *)
Shortfall(used, budget, remaining) ==
    IF remaining >= 0 THEN Min({budget - used - remaining, MaxBudget - used}) ELSE 0

(* reconcile: the server's view of the counter, applied downwards only. *)
Reconcile(g, stamp, t, limit, remaining) ==
    LET lowered == IF UsableLimit(limit) THEN Min({g.budget, g.configured, limit})
                   ELSE g.budget
        missing == Shortfall(InWindow(g, stamp, t), lowered, remaining)
        earlier == Cardinality({e \in g.synthetic : e.why = "server" /\ e.at = t})
        added == {[why |-> "server", at |-> t, n |-> earlier + k] : k \in 1..missing}
    IN  [g EXCEPT !.budget = lowered, !.synthetic = @ \cup added]
=============================================================================
