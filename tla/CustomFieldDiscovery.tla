----------------------- MODULE CustomFieldDiscovery -----------------------
(***************************************************************************)
(* The custom-field sensors of one listing (sensor/__init__.py,            *)
(* sensor/custom_fields.py): they are created as values appear, under keys *)
(* allocated from the definitions DefinitionRefresh has at that moment,    *)
(* and keep them in Home Assistant's entity registry, which outlives       *)
(* reloads.  The service get_custom_field_values previews the same keys.   *)
(*                                                                         *)
(* The platform registers an entity some time after it was handed over; an *)
(* unload ends that for every entity still pending, either way.            *)
(***************************************************************************)
EXTENDS DefinitionRefresh, ListingKeys, Functions

CONSTANT Collections  \* what the listing may hold: sequences of its fields

ASSUME DiscoveryAssumption ==
    /\ FieldWord \in Nat
    /\ Catalogs \subseteq Seq(Definition)
    /\ Collections \subseteq Seq(Nat)

VARIABLES
    values,      \* the fields of the published listing, in its order
    allocation,  \* its entry of custom_field_key_allocations, or NothingAllocated
    known,       \* known_custom_fields
    pending,     \* entities <<field, key>> handed to the platform
    registered   \* those of the entity registry

sensorVars == <<values, allocation, known, pending, registered>>
vars == <<refreshVars, sensorVars>>

(* The loop over the fields of v, which passes over those already seen.    *)
AllocateAll(a, v, seen, defs) ==
    LET after[i \in 0..Len(v)] ==
            IF i = 0 THEN a
            ELSE IF v[i] \in seen THEN after[i - 1]
            ELSE Allocate(after[i - 1], v[i], defs)
    IN after[Len(v)]
-----------------------------------------------------------------------------
(* A bug: an allocation starts from nothing. *)
AllocationAfresh(a, entities) == a

(* The allocation extend_custom_field_entities() goes on with. *)
Allocation(a, entities) == IF a = NothingAllocated THEN FromEntityRegistry(entities) ELSE a

(* extend_custom_field_entities() for the fields of v, where the platform  *)
(* knows those in seen and was handed the entities in waiting.             *)
Extends(v, a, seen, waiting, defs) ==
    LET all == AllocateAll(Allocation(a, registered'), v, seen, defs)
    IN /\ values' = v
       /\ allocation' = all
       /\ known' = seen \cup Range(v)
       /\ pending' = waiting \cup {<<f, all.keys[f]>> : f \in Range(v) \ seen}

Init ==
    /\ RefreshInit
    /\ \E v \in Collections :
           LET all == AllocateAll(NothingAllocated, v, {}, <<>>) IN
           /\ values = v /\ allocation = all /\ known = Range(v)
           /\ pending = {<<f, all.keys[f]>> : f \in Range(v)}
    /\ registered = {}

(* async_setup_entry() of the entry and of the platform. *)
SetUp ==
    /\ SetUpRefresh
    /\ UNCHANGED registered
    /\ \E v \in Collections : Extends(v, NothingAllocated, {}, {}, definitions')

(* The listings coordinator publishes: _async_add_new_listings(). *)
ListingRefreshed ==
    /\ stage = "loaded"
    /\ UNCHANGED <<refreshVars, registered>>
    /\ \E v \in Collections : Extends(v, allocation, known, pending, definitions)

(* The platform adds an entity: get_or_create() by its unique id. *)
Registers(e) ==
    /\ e \in pending
    /\ pending' = pending \ {e}
    /\ registered' = registered \cup {e}
    /\ UNCHANGED <<refreshVars, values, allocation, known>>

(* A user deletes an entity. *)
Deletes(e) ==
    /\ e \in registered
    /\ registered' = registered \ {e}
    /\ UNCHANGED <<refreshVars, values, allocation, known, pending>>

(* async_unload_entry(), which forgets the runtime data. *)
Unload ==
    /\ UnloadRefresh
    /\ \E added \in SUBSET pending : registered' = registered \cup added
    /\ values' = <<>> /\ allocation' = NothingAllocated /\ known' = {} /\ pending' = {}

Next ==
    \/ RefreshNext /\ UNCHANGED sensorVars
    \/ SetUp \/ ListingRefreshed \/ Unload
    \/ \E e \in pending : Registers(e)
    \/ \E e \in registered : Deletes(e)

Spec == Init /\ [][Next]_vars
-----------------------------------------------------------------------------
TypeOK ==
    /\ catalog \in Catalogs /\ paging \in Pagings /\ stage \in {"loaded", "off"}
    /\ succeeded \in BOOLEAN /\ loaded \in BOOLEAN /\ armed \in BOOLEAN /\ timer \in BOOLEAN
    /\ retries \in 0..MaxRetries /\ (armed => retries > 0)
    /\ \A r \in Refresher : /\ fetch[r].busy \in BOOLEAN
                            /\ fetch[r].offset % PageLimit = 0
                            /\ r \in 1..MaxRetries /\ fetch[r].busy => r <= retries
    /\ values \in Collections \cup {<<>>}
    /\ known = {} \/ known \subseteq DOMAIN allocation.keys
    /\ \A e \in pending : e[1] \in known

(* Every field of the listing has one key, its own, from the first time it *)
(* is seen until its entity is deleted: whatever definitions arrive later, *)
(* and across reloads (FR-011).                                            *)
OneKeyPerField ==
    \A e, h \in registered \cup pending : e[1] = h[1] <=> e[2] = h[2]

(* sorted() of field ids *)
Ascending(fields) ==
    [i \in 1..Cardinality(fields) |->
        CHOOSE f \in fields : Cardinality({g \in fields : g <= f}) = i]

(* get_custom_field_values: every field defined or held, in the order of   *)
(* the ids, from a copy of the allocation (_listing_allocation_preview).   *)
Previewed ==
    LET fields == Range(values) \cup {definitions[i].id : i \in DOMAIN definitions} IN
    AllocateAll(Allocation(allocation, registered), Ascending(fields), {}, definitions).keys

(* No entry of the response overwrites another, and a field that has a     *)
(* sensor appears under the key of that sensor (FR-024).                   *)
PreviewAgrees ==
    stage = "loaded" =>
        LET keys == Previewed IN
        /\ \A f, g \in DOMAIN keys : keys[f] = keys[g] => f = g
        /\ \A e \in registered \cup pending : e[1] \in DOMAIN keys => keys[e[1]] = e[2]
=============================================================================
