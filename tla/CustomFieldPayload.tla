------------------------- MODULE CustomFieldPayload -------------------------
(***************************************************************************)
(* The data of a custom-field write (api/custom_fields.py): the collection *)
(* customFieldValues of a listing or reservation, the merge that replaces  *)
(* one value in it, and the comparison of two snapshots of an object.      *)
(*                                                                         *)
(* An entry is [field, value].  Without a valid customFieldId its field is *)
(* NoField, without a "value" key its value is NoValue.  What else an      *)
(* entry holds is carried along and left out.  A snapshot is an object as  *)
(* read: [fields, rest, version], where rest stands for every other key    *)
(* and version for the keys the server maintains itself.                   *)
(***************************************************************************)
EXTENDS Naturals, Sequences, FiniteSets

NoField == "no field"
NoValue == "no value"

(* HostawayCustomFieldValue.from_api_entry() accepts it. *)
WellFormed(e) == e.field # NoField /\ e.value # NoValue

(* raw_entries_for_id(), as positions. *)
Addressed(entries, f) == {i \in DOMAIN entries : entries[i].field = f}

(* ensure_writable_collection() and preflight_addressed_entry() *)
Mergeable(fields, f) ==
    /\ fields.state = "present"
    /\ Cardinality(Addressed(fields.entries, f)) <= 1
    /\ \A i \in Addressed(fields.entries, f) : WellFormed(fields.entries[i])

(* A bug: the merge starts from the parsed values, not the raw entries. *)
MergedFromParsed(entries, f, v) ==
    Append(SelectSeq(entries, LAMBDA e : WellFormed(e) /\ e.field # f),
           [field |-> f, value |-> v])

(* The entries build_custom_field_values_payload() sends. *)
Merged(entries, f, v) ==
    IF Addressed(entries, f) = {} THEN Append(entries, [field |-> f, value |-> v])
    ELSE [i \in DOMAIN entries |->
             IF entries[i].field = f THEN [entries[i] EXCEPT !.value = v] ELSE entries[i]]

(* _snapshot_value(): the first entry of that field, or null. *)
Stored(fields, f) ==
    LET found == Addressed(fields.entries, f) IN
    IF fields.state # "present" \/ found = {} THEN "null"
    ELSE fields.entries[CHOOSE i \in found : \A j \in found : i <= j].value

Count(entries, e) == Cardinality({i \in DOMAIN entries : entries[i] = e})

(* canonical_snapshot_differences() finds none: entries in any order, and  *)
(* nothing of SERVER_MANAGED_VOLATILE_FIELDS.                              *)
SameSnapshot(s, r) ==
    /\ s.rest = r.rest /\ s.fields.state = r.fields.state
    /\ Len(s.fields.entries) = Len(r.fields.entries)
    /\ \A i \in DOMAIN s.fields.entries :
           Count(s.fields.entries, s.fields.entries[i])
               = Count(r.fields.entries, s.fields.entries[i])
=============================================================================
