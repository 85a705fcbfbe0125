------------------------- MODULE MCRateLimitRegistry -------------------------
(***************************************************************************)
(* Small instances of RateLimitRegistry for TLC: two entries of one        *)
(* account and one of another.                                             *)
(***************************************************************************)
EXTENDS RateLimitRegistry, TLC

CONSTANTS x1, x2, y, ours, theirs

TwoAccounts == [e \in Entry |-> IF e = y THEN theirs ELSE ours]

(* Entries of one account are interchangeable: Established chooses among   *)
(* claimants, all of one account (OneAccount), and needs only the account. *)
Alike == Permutations({x1, x2})
=============================================================================
