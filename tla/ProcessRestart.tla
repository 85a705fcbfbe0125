--------------------------- MODULE ProcessRestart ---------------------------
(***************************************************************************)
(* Home Assistant stops, or crashes, and starts again while the server's   *)
(* window is still open.  Limiter state is deliberately not persisted      *)
(* (gates.py, the comment at the startup hold; FR-038): every gate, queue, *)
(* suppression and task is lost, and the admissions of the previous        *)
(* process survive only in the server's counters.                          *)
(*                                                                         *)
(* The variables of AccountRateLimiter are those of the process that runs; *)
(* what the server remembers of earlier ones is the history `formerly`.    *)
(***************************************************************************)
EXTENDS AccountRateLimiter

CONSTANT MaxRestarts  \* bound: how often the process restarts

VARIABLES
    restarts,   \* how often the process has restarted
    formerly,   \* history: request -> when an earlier process admitted it
    raised      \* history: a gate that had admitted was given a higher budget

restartVars == <<vars, restarts, formerly, raised>>

RInit == Init /\ restarts = 0 /\ formerly = [r \in Request |-> Never] /\ raised = FALSE

RaisedUnderTraffic ==
    \E g \in Gate : gate[g].admissions # {} /\ gate'[g].configured > gate[g].configured

(* The process ends, wherever its handlers are.  A call that had not       *)
(* returned dies with it; what the server was sent, it has counted.        *)
Restart ==
    /\ restarts < MaxRestarts
    /\ restarts' = restarts + 1
    /\ formerly' = [r \in Request |-> IF admittedAt[r] # Never THEN admittedAt[r] ELSE formerly[r]]
    /\ gate' = [g \in Gate |-> NewGate(DefaultBudget, now)]
    /\ admittedAt' = [r \in Request |-> Never]
    /\ providerUntil' = 0
    /\ phase' = [l \in Limiter |-> "new"]
    /\ attached' = <<>>
    /\ waiters' = {}
    /\ ticket' = [r \in Request |-> NoTicket]
    /\ future' = [r \in Request |-> IF call[r] = "idle" THEN "none" ELSE "cancelled"]
    /\ call' = [r \in Request |-> IF call[r] = "idle" THEN "idle" ELSE "cancelled"]
    /\ sequence' = [l \in Limiter |-> 0]
    /\ interactiveAdmissions' = [l \in Limiter |-> 0]
    /\ timer' = [l \in Limiter |-> 0]
    /\ agenda' = <<>>
    /\ deadlines' = {}
    /\ told' = {}
    /\ UNCHANGED <<now, raised>>

RNext ==
    \/ /\ Next
       /\ raised' = (raised \/ RaisedUnderTraffic)
       /\ UNCHANGED <<restarts, formerly>>
    \/ Restart

RSpec == RInit /\ [][RNext]_restartVars
-----------------------------------------------------------------------------
(* What the server counts of a gate, whichever process it came from. *)
CountedByServer(g) ==
    {r \in Request : /\ g \in GatesFor(r)
                     /\ \/ admittedAt[r] > now - Window /\ admittedAt[r] # Never
                        \/ formerly[r] > now - Window /\ formerly[r] # Never}

(* What a new process may add to a window it does not remember: half a     *)
(* budget, as the hold follows the budget until the first admission.  From *)
(* then on it stays as it is, and raising the budget leaves a hold that    *)
(* may be half of the least one.                                           *)
Overshoot ==
    IF raised THEN MaxBudget - HalfRoundedUp(Min(Budgets \cup {DefaultBudget}))
    ELSE MaxBudget \div 2

(* The startup hold bounds what the processes of one window send together, *)
(* although none knows what those before it have sent (StartupHold,        *)
(* _resize_startup_hold).                                                  *)
RestartBound ==
    \A g \in Gate : Cardinality(CountedByServer(g)) <= MaxBudget + restarts * Overshoot
=============================================================================
