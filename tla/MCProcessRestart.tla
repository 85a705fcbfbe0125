-------------------------- MODULE MCProcessRestart --------------------------
(***************************************************************************)
(* Small instances of ProcessRestart for TLC.                              *)
(***************************************************************************)
EXTENDS ProcessRestart, TLC

CONSTANTS a, i1, i2, i3, i4, i5

OneAccount == [r \in Request |-> a]
NoCount == {-1}
Alike == Permutations(Request)
=============================================================================
