-------------------------- MODULE AdmissionControl --------------------------
(***************************************************************************)
(* What the proactive limiter promises its callers and the server, with no *)
(* queue, timer, gate or account: the promise AccountRateLimiter keeps.    *)
(* (specs/008-proactive-rate-limiting/contracts, FR-007, FR-014, FR-020.)  *)
(*                                                                         *)
(* A caller asks and is granted or denied.  A grant counts against every   *)
(* counter of its caller; no counter sees more than Ceiling grants in any  *)
(* window, and none while the server has ordered silence.                  *)
(***************************************************************************)
EXTENDS Integers, FiniteSets

CONSTANTS Caller, Counter, CountersOf(_), Window, Ceiling

VARIABLES clock, state, grantedAt, orders

vars == <<clock, state, grantedAt, orders>>

Never == -1

Recent(k) == {c \in Caller : /\ k \in CountersOf(c)
                             /\ grantedAt[c] # Never
                             /\ grantedAt[c] > clock - Window}

Init == /\ clock = 0
        /\ state = [c \in Caller |-> "new"]
        /\ grantedAt = [c \in Caller |-> Never]
        /\ orders = {}

Pass == /\ clock' = clock + 1
        /\ orders' = {o \in orders : clock + 1 < o.until}
        /\ UNCHANGED <<state, grantedAt>>

Ask(c) == /\ state[c] = "new"
          /\ state' = [state EXCEPT ![c] = "asked"]
          /\ UNCHANGED <<clock, grantedAt, orders>>

Grant(c) == /\ state[c] \in {"new", "asked"}
            /\ \A k \in CountersOf(c) : Cardinality(Recent(k)) < Ceiling
            /\ \A o \in orders : CountersOf(c) \cap o.gates = {}
            /\ state' = [state EXCEPT ![c] = "granted"]
            /\ grantedAt' = [grantedAt EXCEPT ![c] = clock]
            /\ UNCHANGED <<clock, orders>>

Deny(denied) == /\ \A c \in denied : state[c] \in {"new", "asked"}
                /\ state' = [c \in Caller |-> IF c \in denied THEN "denied" ELSE state[c]]
                /\ UNCHANGED <<clock, grantedAt, orders>>

Silence == /\ \E o \in orders' : /\ orders' = orders \cup {o}
                                 /\ o.gates \subseteq Counter
                                 /\ o.until > clock
           /\ UNCHANGED <<clock, state, grantedAt>>

Next == \/ Pass
        \/ \E c \in Caller : Ask(c) \/ Grant(c)
        \/ \E denied \in SUBSET Caller : Deny(denied)
        \/ Silence

(* Whoever asks is answered. *)
Answer(c) == /\ state[c] = "asked"
             /\ Grant(c) \/ \E denied \in SUBSET Caller : c \in denied /\ Deny(denied)

Spec == Init /\ [][Next]_vars /\ \A c \in Caller : WF_vars(Answer(c))
=============================================================================
