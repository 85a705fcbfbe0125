-------------------------- MODULE CustomFieldWrite --------------------------
(***************************************************************************)
(* The set_custom_field service (services/custom_fields.py) together with  *)
(* the two coordinators whose data it patches (coordinator.py) and the     *)
(* reloads that replace them (__init__.py), for one config entry.          *)
(*                                                                         *)
(* A writer is one service call whose request was found valid; its value   *)
(* is its own name, so that the author of every stored value is known.     *)
(* The server is external.  It stores a sent payload or not, whatever it   *)
(* answers, and may store it long after the client gave up waiting.  The   *)
(* client is what ApiRequest models: a mutation takes effect at most once, *)
(* and never when the call ends in HostawayRateLimitWaitTimeout.           *)
(*                                                                         *)
(* A request and its answer are two steps only where something of this     *)
(* process can change in between: for the read-back and the refreshes.     *)
(***************************************************************************)
EXTENDS CustomFieldPayload

CONSTANTS
    Listing,      \* listings
    Reservation,  \* reservations, of selected listings
    Selected,     \* CONF_SELECTED_LISTINGS
    Field,        \* custom fields
    Writer,       \* calls of set_custom_field
    Edit,         \* changes made in the Hostaway dashboard
    Collections,  \* the collections an object may start with
    MaxAttempts,  \* how often _write_custom_field tries: range(2)
    Kind,         \* the coordinators that poll, of "listing" and "reservation"
    MaxLives,     \* bound: times the entry is set up
    None          \* not there: no object, no payload, no answer yet

ASSUME WriteAssumption ==
    /\ Listing \cap Reservation = {} /\ Selected \subseteq Listing
    /\ Kind \subseteq {"listing", "reservation"}
    /\ MaxAttempts \in Nat \ {0} /\ MaxLives \in Nat \ {0}

CollectionOf(values) ==
    [state : {"present", "missing", "null", "invalid"},
     entries : Seq([field : Field \cup {NoField}, value : values])]

Values == Writer \cup Edit \cup {"null", NoValue}
Object == [fields : CollectionOf(Values), rest : {"rest"} \cup Writer, version : Nat]

(* Who wrote a value, or changed the rest of an object, can be told from it. *)
ASSUME AuthorAssumption ==
    /\ Writer \cap (Edit \cup {"null", NoValue, "rest"}) = {}
    /\ \A c \in Collections : c \in CollectionOf({"null", NoValue})
    /\ None \notin {"success", "refused", "unverified", "cancelled"} /\ None \notin Object

VARIABLES
    server,      \* target -> the object at Hostaway
    published,   \* target -> what its coordinator publishes, or None
    generation,  \* target -> its write generation, this life's
    refresh,     \* kind -> the refresh of that coordinator
    stage,       \* how far the entry is set up
    life,        \* which set-up the entry is in
    queue,       \* life -> target -> the writers at its lock, the first holds it
    job,         \* writer -> where its call is
    limbo,       \* writer -> the fields it sent and nobody answered for, or None
    effects,     \* history: writer -> how often its payload was stored
    collateral,  \* history: writers whose payload changed something else too
    changedAt,   \* history: writer or edit -> the version it produced, 0 before
    floor        \* history: target -> the version its last verified write produced

entryVars == <<published, generation, refresh, stage, life>>
callVars == <<queue, job, limbo>>
serverVars == <<server, effects, collateral, changedAt>>
vars == <<entryVars, callVars, serverVars, floor>>

Target == Listing \cup Reservation
Of(k) == IF k = "listing" THEN Listing ELSE Reservation
NewCall == [pc |-> "new", target |-> None, field |-> None, life |-> 0, attempt |-> 0,
            base |-> None, seen |-> None, since |-> 0, outcome |-> None]
Idle == [phase |-> "idle", registry |-> FALSE, captured |-> <<>>, served |-> <<>>]
-----------------------------------------------------------------------------
(* What a coordinator may get of its targets: objects leave and join what  *)
(* the list endpoints return, and only selected listings are kept.         *)
Fetches(targets) ==
    {got \in [targets -> {None} \cup {server[t] : t \in targets}] :
        \A t \in targets : got[t] = None \/ (t \notin Listing \ Selected /\ got[t] = server[t])}

Init ==
    /\ server \in [Target -> [fields : Collections, rest : {"rest"}, version : {1}]]
    /\ published \in Fetches(Target)
    /\ generation = [t \in Target |-> 0]
    /\ refresh = [k \in Kind |-> Idle]
    /\ stage = "loaded" /\ life = 1
    /\ queue = [l \in 1..MaxLives |-> [t \in Target |-> <<>>]]
    /\ job = [w \in Writer |-> NewCall]
    /\ limbo = [w \in Writer |-> None]
    /\ effects = [w \in Writer |-> 0]
    /\ collateral = {}
    /\ changedAt = [a \in Writer \cup Edit |-> 0]
    /\ floor = [t \in Target |-> 0]
-----------------------------------------------------------------------------
(* The writer w enters the section its lock protects: a new attempt. *)
Attempting(j) == [j EXCEPT !.pc = "reading", !.since = server[j.target].version]

(* A bug: no lock. *)
StartUnlocked(w, t, f) ==
    /\ job[w].pc = "new" /\ stage = "loaded"
    /\ job' = [job EXCEPT ![w] = Attempting([@ EXCEPT !.target = t, !.field = f,
                                                     !.life = life])]
    /\ queue' = [queue EXCEPT ![life][t] = Append(@, w)]
    /\ UNCHANGED <<entryVars, limbo, serverVars, floor>>

(* async_handle_set_custom_field() up to the lock, which this life's       *)
(* registry keeps for the target.                                          *)
Start(w, t, f) ==
    /\ job[w].pc = "new" /\ stage = "loaded"
    /\ LET called == [job[w] EXCEPT !.pc = "waiting", !.target = t, !.field = f,
                                    !.life = life] IN
       job' = [job EXCEPT ![w] =
                  IF queue[life][t] = <<>> THEN Attempting(called) ELSE called]
    /\ queue' = [queue EXCEPT ![life][t] = Append(@, w)]
    /\ UNCHANGED <<entryVars, limbo, serverVars, floor>>

Ended(j, outcome) ==
    [pc |-> "done", target |-> j.target, field |-> j.field, life |-> j.life, attempt |-> 0,
     base |-> None, seen |-> None, since |-> 0, outcome |-> outcome]

(* The queue of a lock once w is done with it. *)
Without(q, w) ==
    LET at == CHOOSE i \in DOMAIN q : q[i] = w IN
    [i \in 1..Len(q) - 1 |-> IF i < at THEN q[i] ELSE q[i + 1]]

(* A bug: the lock stays taken when the call fails. *)
LeaveLocked(w, outcome) ==
    /\ job' = [job EXCEPT ![w] = Ended(@, outcome)]
    /\ UNCHANGED queue

(* The call returns or raises.  Its lock passes to the next writer.        *)
Leave(w, outcome) ==
    LET l == job[w].life
        t == job[w].target
        rest == Without(queue[l][t], w)
    IN
    /\ queue' = [queue EXCEPT ![l][t] = rest]
    /\ job' = [u \in Writer |->
                  IF u = w THEN Ended(job[w], outcome)
                  ELSE IF rest # <<>> /\ u = Head(rest) /\ job[u].pc = "waiting"
                  THEN Attempting(job[u])
                  ELSE job[u]]

(* The read before the write, and the payload built from it. *)
ReadBefore(w) ==
    /\ job[w].pc = "reading"
    /\ LET now == server[job[w].target] IN
       IF Mergeable(now.fields, job[w].field)
       THEN /\ job' = [job EXCEPT ![w].pc = "sending", ![w].base = now]
            /\ UNCHANGED queue
       ELSE Leave(w, "refused")
    /\ UNCHANGED <<entryVars, limbo, serverVars, floor>>

ReadFails(w) ==
    /\ job[w].pc = "reading"
    /\ Leave(w, "refused")
    /\ UNCHANGED <<entryVars, limbo, serverVars, floor>>

(* What the payload of w makes of the fields it read. *)
Payload(w) ==
    [state |-> "present",
     entries |-> Merged(job[w].base.fields.entries, job[w].field, w)]

(* The server stores the payload of w: the whole array, and with partial   *)
(* updates nothing else, unless it misbehaves.                             *)
TakesEffect(w, fields) ==
    LET t == job[w].target
        next == server[t].version + 1
        stored == [server[t] EXCEPT !.fields = fields, !.version = next]
    IN
    /\ effects' = [effects EXCEPT ![w] = @ + 1]
    /\ \/ /\ server' = [server EXCEPT ![t] = stored]
          /\ UNCHANGED collateral
       \/ /\ server' = [server EXCEPT ![t] = [stored EXCEPT !.rest = w]]
          /\ collateral' = collateral \cup {w}
    /\ changedAt' = [changedAt EXCEPT ![w] = next]

(* The request takes effect; the answer is a success, or malformed, or     *)
(* lost: all of them lead to the read-back.                                *)
Applied(w) ==
    /\ job[w].pc = "sending"
    /\ TakesEffect(w, Payload(w))
    /\ job' = [job EXCEPT ![w].pc = "checking"]
    /\ UNCHANGED <<entryVars, queue, limbo, floor>>

(* A success that stored nothing, the known bug of Hostaway, or a request  *)
(* that was lost.                                                          *)
Vanished(w) ==
    /\ job[w].pc = "sending"
    /\ job' = [job EXCEPT ![w].pc = "checking"]
    /\ UNCHANGED <<entryVars, queue, limbo, serverVars, floor>>

(* A bug: a connection error is answered by sending the write again. *)
DelayedRetried(w) ==
    /\ job[w].pc = "sending"
    /\ limbo' = [limbo EXCEPT ![w] = Payload(w)]
    /\ job' = [job EXCEPT ![w].pc = IF job[w].attempt + 1 < MaxAttempts
                                    THEN "backoff" ELSE "checking"]
    /\ UNCHANGED <<entryVars, queue, serverVars, floor>>

(* A connection error for a request that is still on its way. *)
Delayed(w) ==
    /\ job[w].pc = "sending"
    /\ limbo' = [limbo EXCEPT ![w] = Payload(w)]
    /\ job' = [job EXCEPT ![w].pc = "checking"]
    /\ UNCHANGED <<entryVars, queue, serverVars, floor>>

Arrives(w) ==
    /\ limbo[w] # None
    /\ limbo' = [limbo EXCEPT ![w] = None]
    /\ TakesEffect(w, limbo[w])
    /\ UNCHANGED <<entryVars, queue, job, floor>>

(* A 429 with attempts left, and a Retry-After no longer than MAX_BACKOFF. *)
Limited(w) ==
    /\ job[w].pc = "sending" /\ job[w].attempt + 1 < MaxAttempts
    /\ job' = [job EXCEPT ![w].pc = "backoff"]
    /\ UNCHANGED <<entryVars, queue, limbo, serverVars, floor>>

(* A bug: the second attempt sends what the first one read. *)
AgainUnread(w) ==
    /\ job[w].pc = "backoff"
    /\ job' = [job EXCEPT ![w] = [Attempting(@) EXCEPT !.pc = "sending", !.attempt = @ + 1]]
    /\ UNCHANGED <<entryVars, queue, limbo, serverVars, floor>>

(* The next turn of the loop: it reads again. *)
Again(w) ==
    /\ job[w].pc = "backoff"
    /\ job' = [job EXCEPT ![w] = [Attempting(job[w]) EXCEPT !.attempt = @ + 1, !.base = None]]
    /\ UNCHANGED <<entryVars, queue, limbo, serverVars, floor>>

(* A 429 on the last attempt or with a long Retry-After, a wait of our own *)
(* that timed out, any other refusal: nothing was stored.                  *)
Rejected(w) ==
    /\ job[w].pc = "sending"
    /\ Leave(w, "refused")
    /\ UNCHANGED <<entryVars, limbo, serverVars, floor>>

(* The mandatory read-back: the server answers it. *)
ReadBack(w) ==
    /\ job[w].pc = "checking"
    /\ job' = [job EXCEPT ![w].pc = "checked", ![w].seen = server[job[w].target]]
    /\ UNCHANGED <<entryVars, queue, limbo, serverVars, floor>>

ReadBackFails(w) ==
    /\ job[w].pc = "checking"
    /\ Leave(w, "unverified")
    /\ UNCHANGED <<entryVars, limbo, serverVars, floor>>

(* A bug: only the requested value is looked for. *)
VerifiedByValue(w) == Stored(job[w].seen.fields, job[w].field) = w

(* _verify_post_write_readback() *)
Verified(w) ==
    /\ Stored(job[w].seen.fields, job[w].field) = w
    /\ SameSnapshot([job[w].base EXCEPT !.fields = Payload(w)], job[w].seen)

(* A bug: a refresh in flight is not told of the write. *)
PatchUnnoticed(w) ==
    LET t == job[w].target
        shown == published[t] # None \/ t \in Selected
    IN
    IF job[w].life # life THEN UNCHANGED <<published, generation, floor>>
    ELSE /\ UNCHANGED generation
         /\ published' = [published EXCEPT ![t] = IF shown THEN job[w].seen ELSE @]
         /\ floor' = [floor EXCEPT ![t] = IF shown THEN job[w].seen.version ELSE @]

(* _patch_local_state() and _advance_generation(), on what the set-up the  *)
(* call began in publishes.  Nobody reads that any more after a reload.    *)
Patch(w) ==
    LET t == job[w].target
        shown == published[t] # None \/ t \in Selected
    IN
    IF job[w].life # life THEN UNCHANGED <<published, generation, floor>>
    ELSE /\ generation' = [generation EXCEPT ![t] = @ + 1]
         /\ published' = [published EXCEPT ![t] = IF shown THEN job[w].seen ELSE @]
         /\ floor' = [floor EXCEPT ![t] = IF shown THEN job[w].seen.version ELSE @]

Verify(w) ==
    /\ job[w].pc = "checked"
    /\ \/ Verified(w) /\ Leave(w, "success") /\ Patch(w)
       \/ ~Verified(w) /\ Leave(w, "unverified") /\ UNCHANGED <<published, generation, floor>>
    /\ UNCHANGED <<refresh, stage, life, limbo, serverVars>>

(* The caller is cancelled at an await; its request may be under way.      *)
Cancel(w) ==
    /\ job[w].pc \in {"waiting", "reading", "sending", "backoff", "checking"}
    /\ Leave(w, "cancelled")
    /\ \/ UNCHANGED limbo
       \/ job[w].pc = "sending" /\ limbo' = [limbo EXCEPT ![w] = Payload(w)]
    /\ UNCHANGED <<entryVars, serverVars, floor>>
-----------------------------------------------------------------------------
(* Somebody edits a field in the Hostaway dashboard. *)
EditField(e, t, f) ==
    /\ changedAt[e] = 0 /\ Mergeable(server[t].fields, f)
    /\ server' = [server EXCEPT ![t].fields.entries = Merged(@, f, e),
                                ![t].version = @ + 1]
    /\ changedAt' = [changedAt EXCEPT ![e] = server[t].version + 1]
    /\ UNCHANGED <<entryVars, callVars, effects, collateral, floor>>
-----------------------------------------------------------------------------
(* _async_fetch_data() of a coordinator up to its request.  The registry   *)
(* of generations is found only once the entry is loaded.                  *)
Begin(k) ==
    /\ refresh[k].phase = "idle"
    /\ stage = "loaded" \/ (stage = "listings" /\ k = "listing")
                        \/ (stage = "reservations" /\ k = "reservation")
    /\ LET noted == IF stage # "loaded" THEN {}
                    ELSE IF k = "listing" THEN Selected
                    ELSE {t \in Reservation : published[t] # None}
       IN refresh' = [refresh EXCEPT ![k] =
                         [Idle EXCEPT !.phase = "asked", !.registry = (stage = "loaded"),
                                      !.captured = [t \in noted |-> generation[t]]]]
    /\ UNCHANGED <<published, generation, stage, life, callVars, serverVars, floor>>

Serve(k) ==
    /\ refresh[k].phase = "asked"
    /\ \E got \in Fetches(Of(k)) :
           refresh' = [refresh EXCEPT ![k].phase = "served", ![k].served = got]
    /\ UNCHANGED <<published, generation, stage, life, callVars, serverVars, floor>>

(* _generation_changed() *)
Changed(k, t) ==
    LET begun == refresh[k] IN
    /\ begun.registry
    /\ generation[t] # IF t \in DOMAIN begun.captured THEN begun.captured[t] ELSE 0

(* What was patched since the fetch began is kept, even when the fetch no  *)
(* longer has it.  The first refreshes of a set-up lead to the next stage. *)
Land(k) ==
    /\ refresh[k].phase = "served"
    /\ published' = [t \in Target |->
                        IF t \notin Of(k) \/ (Changed(k, t) /\ published[t] # None)
                        THEN published[t] ELSE refresh[k].served[t]]
    /\ refresh' = [refresh EXCEPT ![k] = Idle]
    /\ stage' = IF stage = "listings" THEN "reservations" ELSE "loaded"
    /\ UNCHANGED <<generation, life, callVars, serverVars, floor>>

(* A refresh that fails or is shed leaves the data alone.  In a set-up it  *)
(* raises ConfigEntryNotReady, and the set-up starts over.                 *)
Dropped(k) ==
    /\ refresh[k].phase # "idle"
    /\ refresh' = [refresh EXCEPT ![k] = Idle]
    /\ stage' = IF stage = "loaded" THEN "loaded" ELSE "listings"
    /\ published' = IF stage = "loaded" THEN published ELSE [t \in Target |-> None]
    /\ UNCHANGED <<generation, life, callVars, serverVars, floor>>

(* A reload: async_unload_entry() forgets coordinators, locks and          *)
(* generations, and a set-up begins.  Calls under way go on.               *)
Reload ==
    /\ stage = "loaded" /\ life < MaxLives
    /\ stage' = "listings" /\ life' = life + 1
    /\ published' = [t \in Target |-> None]
    /\ generation' = [t \in Target |-> 0]
    /\ refresh' = [k \in Kind |-> Idle]
    /\ floor' = [t \in Target |-> 0]
    /\ UNCHANGED <<callVars, serverVars>>
-----------------------------------------------------------------------------
Proceeds(w) ==
    \/ ReadBefore(w) \/ ReadFails(w)
    \/ Applied(w) \/ Vanished(w) \/ Delayed(w) \/ Limited(w) \/ Rejected(w) \/ Again(w)
    \/ ReadBack(w) \/ ReadBackFails(w) \/ Verify(w)

Refreshes(k) == Begin(k) \/ Serve(k) \/ Land(k) \/ Dropped(k)

Next ==
    \/ \E w \in Writer : \/ \E t \in Target, f \in Field : Start(w, t, f)
                         \/ Proceeds(w) \/ Arrives(w) \/ Cancel(w)
    \/ \E e \in Edit, t \in Target, f \in Field : EditField(e, t, f)
    \/ \E k \in Kind : Refreshes(k)
    \/ Reload

Spec == Init /\ [][Next]_vars

(* Every await of a call ends: requests and sleeps time out. *)
FairSpec == Spec /\ \A w \in Writer : WF_vars(Proceeds(w))
-----------------------------------------------------------------------------
TypeOK ==
    /\ \A t \in Target : /\ server[t] \in Object
                         /\ published[t] = None \/ published[t] \in Object
                         /\ generation[t] \in Nat /\ floor[t] \in Nat
    /\ \A k \in Kind : /\ refresh[k].phase \in {"idle", "asked", "served"}
                       /\ DOMAIN refresh[k].captured \subseteq Of(k)
    /\ stage \in {"listings", "reservations", "loaded"} /\ life \in 1..MaxLives
    /\ \A w \in Writer :
           /\ job[w].pc \in {"new", "waiting", "reading", "sending", "backoff", "checking",
                             "checked", "done"}
           /\ job[w].attempt < MaxAttempts
           /\ job[w].pc = "done" => job[w].outcome \in
                  {"success", "refused", "unverified", "cancelled"}
           /\ job[w].pc \in {"sending", "checking", "checked"} => job[w].base \in Object

(* The verdict of a call is true: a success was stored, and nothing else   *)
(* changed with it; what is refused never happens, later either; and       *)
(* nothing is stored twice, whatever answers get lost ("No retry was       *)
(* attempted because the original whole-array mutation outcome is          *)
(* unknown", _write_custom_field; _verify_post_write_readback).            *)
VerdictsTrue ==
    \A w \in Writer :
        /\ effects[w] <= 1
        /\ job[w].outcome = "success" =>
               effects[w] > 0 /\ limbo[w] = None /\ w \notin collateral
        /\ job[w].outcome = "refused" => effects[w] = 0 /\ limbo[w] = None

(* The payload of a write leaves every raw entry of what it read as it     *)
(* was, malformed ones included, but for one that it adds or that was a    *)
(* value of its field (build_custom_field_values_payload,                  *)
(* preflight_addressed_entry; FR-019, FR-032, FR-050).                     *)
OthersPassThrough ==
    \A w \in Writer : job[w].pc = "sending" =>
        LET was == job[w].base.fields.entries
            sent == Payload(w).entries
        IN \E own \in 1..Len(was) + 1 :
               /\ own \in DOMAIN was => WellFormed(was[own]) /\ was[own].field = job[w].field
               /\ DOMAIN sent = DOMAIN was \cup {own}
               /\ \A i \in DOMAIN was \ {own} : sent[i] = was[i]

(* What u wrote to a field other than f stands in the object. *)
Holds(object, u, f) ==
    \E i \in DOMAIN object.fields.entries :
        object.fields.entries[i].value = u /\ object.fields.entries[i].field # f

(* The step in which the server stores the payload of a call that is still *)
(* waiting for the answer.                                                 *)
Stores(w) == job[w].pc = "sending" /\ effects'[w] # effects[w]
Reverts(w, u) ==
    LET t == job[w].target IN
    Stores(w) /\ Holds(server[t], u, job[w].field) /\ ~Holds(server'[t], u, job[w].field)

(* Since the attempt of w began, a payload was stored that its lock does   *)
(* not keep out: one that nobody waited for, or of an earlier set-up.      *)
Intruded(w) ==
    \E v \in Writer :
        /\ job[v].target = job[w].target /\ changedAt[v] > job[w].since
        /\ job[v].life # job[w].life \/ job[v].outcome \in {"unverified", "cancelled"}

(* A write never takes back the value another one stored and was told      *)
(* "success" for, within one set-up of the entry: the per-target lock      *)
(* covers the read, the write and the read-back (_write_lock).  Only after *)
(* an intruder may it, as what it read and what stands there then differ.  *)
SuccessesKept ==
    [][\A w, u \in Writer : /\ job[u].outcome = "success" /\ job[u].life = job[w].life
                            /\ Reverts(w, u)
                            => Intruded(w)]_vars

(* What FR-033 says, without that restriction: "one successful call cannot *)
(* overwrite another successful call's custom-variable changes": what a    *)
(* call read back when it succeeds still has what u stored in another      *)
(* field and was told "success" for.                                       *)
NoSuccessOverwritten ==
    [][\A w, u \in Writer :
           /\ job[u].outcome = "success" /\ job[u].field # job[w].field
           /\ job[w].pc = "checked" /\ job'[w].outcome = "success"
           /\ job[u].target = job[w].target
           => Holds(job[w].seen, u, job[w].field)]_vars

(* Nor does it take back an edit of somebody else that it could have read: *)
(* only one made during its last attempt is lost (the loop of              *)
(* _write_custom_field reads again after a 429), again but for intruders.  *)
OnlyRacedEditsLost ==
    [][\A w \in Writer, e \in Edit :
           Reverts(w, e) => changedAt[e] > job[w].since \/ Intruded(w)]_vars

(* Home Assistant never shows an object older than the last verified write *)
(* it showed, whichever refresh was under way meanwhile and whatever that  *)
(* refresh found (_preserve_changed_reservations, _generation_changed).    *)
VerifiedNotUndone ==
    \A t \in Target : published[t] # None => published[t].version >= floor[t]

(* Every call comes to an end, also one that waits for the lock while its  *)
(* predecessors fail, are cancelled or outlive a reload (async with lock). *)
EveryCallEnds ==
    \A w \in Writer : job[w].pc # "new" ~> job[w].pc = "done"
=============================================================================
