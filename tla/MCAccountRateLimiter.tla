------------------------ MODULE MCAccountRateLimiter ------------------------
(***************************************************************************)
(* Small instances of AccountRateLimiter for TLC.                          *)
(***************************************************************************)
EXTENDS AccountRateLimiter, TLC

CONSTANTS a, b, i1, i2, s1, s2

(* One account. *)
OneAccount == [r \in Request |-> a]

(* Two accounts behind one IP address. *)
TwoAccounts == [r \in Request |-> IF r = i1 THEN a ELSE b]

(* X-RateLimit-Remaining: unusable, or unusable and exhausted. *)
NoCount == {-1}
SomeCounts == {-1, 0}

(* Callers of one account and one class are interchangeable. *)
Alike == Permutations({i1, i2}) \cup Permutations({s1, s2})
=============================================================================
