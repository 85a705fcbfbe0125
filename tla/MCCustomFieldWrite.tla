------------------------- MODULE MCCustomFieldWrite -------------------------
(***************************************************************************)
(* Small instances of CustomFieldWrite for TLC: writers u and w, edits d,  *)
(* fields f and g, a selected listing s, a reservation r.                  *)
(***************************************************************************)
EXTENDS CustomFieldWrite, TLC

CONSTANTS u, w, d, f, g, s, r

Holding(entries) == [state |-> "present", entries |-> entries]
Entry(field, value) == [field |-> field, value |-> value]

(* An entry without an id next to a value of f; a malformed f; nothing. *)
Collected == {Holding(<<Entry(NoField, "null"), Entry(f, "null")>>),
              Holding(<<Entry(f, NoValue)>>),
              [state |-> "missing", entries |-> <<>>]}
Plain == {Holding(<<Entry(f, "null")>>)}

(* Callers are interchangeable. *)
Alike == Permutations({u, w})
=============================================================================
