---------------------------- MODULE ListingKeys ----------------------------
(***************************************************************************)
(* The keys under which the custom-field values of one listing appear      *)
(* (ListingCustomFieldKeyAllocation, sensor/custom_fields.py).             *)
(*                                                                         *)
(* A key is the sequence of its words after "custom_"; words and field ids *)
(* are numbers.  That is how the keys of two fields meet although they are *)
(* built differently: a variable named "field 2" and the field 2 that has  *)
(* no definition both give custom_field_2.                                 *)
(***************************************************************************)
EXTENDS Naturals, Sequences, FiniteSets

CONSTANT FieldWord  \* the word "field"

(* Definitions are those of listings; slug is the slugified varName.       *)
Definition == [id : Nat, slug : Seq(Nat)]

(* get_definition(): the first one with that id. *)
Known(defs, f) == {i \in DOMAIN defs : defs[i].id = f}
Slug(defs, f) == defs[CHOOSE i \in Known(defs, f) : \A j \in Known(defs, f) : i <= j].slug
Named(defs, slug) == {i \in DOMAIN defs : defs[i].slug = slug}

(* _candidate_key(): equal varNames have equal slugs. *)
CandidateKey(f, defs) ==
    IF Known(defs, f) = {} \/ Slug(defs, f) = <<>> THEN <<FieldWord, f>>
    ELSE IF Cardinality(Named(defs, Slug(defs, f))) > 1 THEN Slug(defs, f) \o <<f>>
    ELSE Slug(defs, f)

(* _reserve_available_key() *)
AvailableKey(key, f, reserved) ==
    LET base == key \o <<f>>
        suffixes == {n \in 2..Cardinality(reserved) + 2 : base \o <<n>> \notin reserved}
    IN IF key \notin reserved THEN key
       ELSE IF base \notin reserved THEN base
       ELSE base \o <<CHOOSE n \in suffixes : \A m \in suffixes : n <= m>>

(* An allocation is [keys, reserved]: field_to_key and reserved_keys. *)
NothingAllocated == [keys |-> <<>>, reserved |-> {}]

(* A bug: the key that was given away is not reserved. *)
AllocateUnreserved(a, f, defs) ==
    IF f \in DOMAIN a.keys THEN a
    ELSE LET key == AvailableKey(CandidateKey(f, defs), f, a.reserved) IN
         [a EXCEPT !.keys = [g \in DOMAIN a.keys \cup {f} |->
                                IF g = f THEN key ELSE a.keys[g]]]

(* allocate() *)
Allocate(a, f, defs) ==
    IF f \in DOMAIN a.keys THEN a
    ELSE LET key == AvailableKey(CandidateKey(f, defs), f, a.reserved) IN
         [keys |-> [g \in DOMAIN a.keys \cup {f} |-> IF g = f THEN key ELSE a.keys[g]],
          reserved |-> a.reserved \cup {key}]

(* from_entity_registry(), of the registered entities <<field, key>>. *)
FromEntityRegistry(registered) ==
    [keys |-> [f \in {e[1] : e \in registered} |->
                  (CHOOSE e \in registered : e[1] = f)[2]],
     reserved |-> {e[2] : e \in registered}]

(* No two fields share a key, and every key given away is reserved. *)
KeysDiffer(a) ==
    /\ \A f, g \in DOMAIN a.keys : a.keys[f] = a.keys[g] => f = g
    /\ \A f \in DOMAIN a.keys : a.keys[f] \in a.reserved
=============================================================================
