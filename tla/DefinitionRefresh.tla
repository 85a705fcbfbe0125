------------------------- MODULE DefinitionRefresh -------------------------
(***************************************************************************)
(* HostawayCustomFieldsCoordinator (coordinator.py): the custom-field      *)
(* definitions of one config entry, first asked for by a timer that set-up *)
(* starts, then by the scan interval, and by a bounded number of retries   *)
(* until they have loaded once.  Refreshes overlap.                        *)
(*                                                                         *)
(* A fetch reads the catalog page by page (fetch_custom_field_definitions) *)
(* while Hostaway's users change it, in pages that Hostaway may make       *)
(* smaller than it was asked for.  The coordinator is replaced when the    *)
(* entry is set up again.  Waiting for the rate limiter, which may shed a  *)
(* fetch, is AccountRateLimiter's part.                                    *)
(***************************************************************************)
EXTENDS Naturals, Sequences, FiniteSets

CONSTANTS
    Catalogs,    \* the definition lists the server may hold, in its order
    Pagings,     \* how the server may page: the size of its pages, and the
                 \* limit its answers report, 0 for none or an unusable one
    PageLimit,   \* CUSTOM_FIELD_PAGE_LIMIT, the limit requested
    MaxRetries   \* len(_DEFINITION_RETRY_DELAYS)

ASSUME RefreshAssumption ==
    /\ PageLimit \in Nat \ {0} /\ MaxRetries \in Nat
    /\ Pagings \subseteq [size : Nat \ {0}, limit : Nat]

VARIABLES
    catalog,      \* the server's definitions
    paging,       \* how it pages
    definitions,  \* data
    succeeded,    \* last_refresh_succeeded
    loaded,       \* _definitions_loaded
    retries,      \* _definition_retries
    armed,        \* _definition_retry_unsub is set
    timer,        \* the timer of the first refresh is set
    fetch,        \* refresher -> its fetch
    stage         \* "loaded" or "off": _definitions_shutdown

coordinatorVars == <<definitions, succeeded, loaded, retries, armed>>
serverVars == <<catalog, paging>>
refreshVars == <<serverVars, coordinatorVars, timer, fetch, stage>>

(* The first refresh, the retries by number, the scheduled one. *)
Initial == 0
Scheduled == MaxRetries + 1
Refresher == 0..MaxRetries + 1
Retaining == Refresher \ {Scheduled}  \* async_refresh_retaining_stale()

(* "moved" is history: more than the end of the catalog changed between    *)
(* the pages.                                                              *)
Idle == [busy |-> FALSE, offset |-> 0, got |-> <<>>, moved |-> FALSE]
Begun == [Idle EXCEPT !.busy = TRUE]
NoFetch == [r \in Refresher |-> Idle]
Prefix(s, t) == Len(s) <= Len(t) /\ s = SubSeq(t, 1, Len(s))
-----------------------------------------------------------------------------
RefreshInit ==
    /\ catalog \in Catalogs /\ paging \in Pagings
    /\ definitions = <<>> /\ succeeded = FALSE /\ loaded = FALSE
    /\ retries = 0 /\ armed = FALSE /\ timer = TRUE
    /\ fetch = NoFetch
    /\ stage = "loaded"

(* A new coordinator, and _start_custom_field_definitions(). *)
SetUpRefresh ==
    /\ stage = "off" /\ fetch = NoFetch
    /\ definitions' = <<>> /\ succeeded' = FALSE /\ loaded' = FALSE
    /\ retries' = 0 /\ armed' = FALSE /\ timer' = TRUE
    /\ stage' = "loaded"
    /\ UNCHANGED <<serverVars, fetch>>

(* _initial_refresh() *)
TimerFires ==
    /\ timer = TRUE /\ timer' = FALSE
    /\ fetch' = [fetch EXCEPT ![Initial] = Begun]
    /\ UNCHANGED <<serverVars, coordinatorVars, stage>>

IntervalElapses ==
    /\ stage = "loaded" /\ ~fetch[Scheduled].busy
    /\ fetch' = [fetch EXCEPT ![Scheduled] = Begun]
    /\ UNCHANGED <<serverVars, coordinatorVars, timer, stage>>

(* _retry() *)
RetryFires ==
    /\ armed /\ armed' = FALSE
    /\ fetch' = [fetch EXCEPT ![retries] = Begun]
    /\ UNCHANGED <<serverVars, definitions, succeeded, loaded, retries, timer, stage>>

(* A bug: a refresh that ends after the shutdown still arms a retry. *)
ScheduleRetryAnyway ==
    IF armed \/ retries >= MaxRetries
    THEN UNCHANGED <<armed, retries>>
    ELSE armed' = TRUE /\ retries' = retries + 1

(* A bug: the retries are not bounded. *)
ScheduleRetryForever ==
    IF stage = "off" \/ armed
    THEN UNCHANGED <<armed, retries>>
    ELSE armed' = TRUE /\ retries' = retries + 1

(* _schedule_definition_retry() *)
ScheduleRetry ==
    IF stage = "off" \/ armed \/ retries >= MaxRetries
    THEN UNCHANGED <<armed, retries>>
    ELSE armed' = TRUE /\ retries' = retries + 1

(* A bug: the retry that follows a failure is left to _on_shed(). *)
FailsForGood(r) ==
    /\ fetch[r].busy
    /\ fetch' = [fetch EXCEPT ![r] = Idle]
    /\ succeeded' = FALSE
    /\ UNCHANGED <<serverVars, definitions, loaded, armed, retries, timer, stage>>

(* The fetch fails: UpdateFailed, the data stays. *)
Fails(r) ==
    /\ fetch[r].busy
    /\ fetch' = [fetch EXCEPT ![r] = Idle]
    /\ succeeded' = FALSE
    /\ IF r \in Retaining /\ ~loaded THEN ScheduleRetry ELSE UNCHANGED <<armed, retries>>
    /\ UNCHANGED <<serverVars, definitions, loaded, timer, stage>>

(* _note_shed() and _on_shed(): last_refresh_succeeded stays as it is. *)
Sheds(r) ==
    /\ fetch[r].busy
    /\ fetch' = [fetch EXCEPT ![r] = Idle]
    /\ IF ~loaded THEN ScheduleRetry ELSE UNCHANGED <<armed, retries>>
    /\ UNCHANGED <<serverVars, definitions, succeeded, loaded, timer, stage>>

Page(offset) == SubSeq(catalog, offset + 1,
                       IF offset + paging.size < Len(catalog) THEN offset + paging.size
                       ELSE Len(catalog))

(* What data.get("limit") and its fallback yield. *)
Reported == IF paging.limit = 0 THEN PageLimit ELSE paging.limit

(* _is_last_definition_page(): by "totalPages" if the answer has it, else  *)
(* by the number of items and the limit that the answer reports.           *)
LastPage(offset) == {offset + paging.size >= Len(catalog), Len(Page(offset)) < Reported}

(* The end of _async_fetch_data(), after which the data is published. *)
Loads(r, all) ==
    /\ definitions' = all /\ succeeded' = TRUE /\ loaded' = TRUE
    /\ armed' = FALSE
    /\ fetch' = [fetch EXCEPT ![r] = Idle]
    /\ UNCHANGED <<serverVars, retries, timer, stage>>

(* A bug: the offset counts pages. *)
AnsweredByPage(r) ==
    /\ fetch[r].busy
    /\ LET all == fetch[r].got \o Page(fetch[r].offset) IN
       \E last \in LastPage(fetch[r].offset) :
           \/ last /\ Loads(r, all)
           \/ /\ ~last
              /\ fetch' = [fetch EXCEPT ![r].got = all, ![r].offset = @ + 1]
              /\ UNCHANGED <<serverVars, coordinatorVars, timer, stage>>

(* One page arrives.  The next one is requested by the limit requested,    *)
(* whatever limit the answer reports.                                      *)
Answered(r) ==
    /\ fetch[r].busy
    /\ LET all == fetch[r].got \o Page(fetch[r].offset) IN
       \E last \in LastPage(fetch[r].offset) :
           \/ last /\ Loads(r, all)
           \/ /\ ~last
              /\ fetch' = [fetch EXCEPT ![r].got = all, ![r].offset = @ + PageLimit]
              /\ UNCHANGED <<serverVars, coordinatorVars, timer, stage>>

(* The definitions' part of async_unload_entry().  What is in flight ends, *)
(* or is cancelled with the other background tasks of the entry.           *)
UnloadRefresh ==
    /\ stage = "loaded" /\ stage' = "off"
    /\ timer' = FALSE /\ armed' = FALSE
    /\ UNCHANGED <<serverVars, definitions, succeeded, loaded, retries, fetch>>

TasksCancelled ==
    /\ stage = "off" /\ fetch # NoFetch
    /\ fetch' = NoFetch
    /\ UNCHANGED <<serverVars, coordinatorVars, timer, stage>>

(* Somebody adds, removes or renames a definition. *)
CatalogChanges ==
    /\ catalog' \in Catalogs \ {catalog}
    /\ fetch' = [r \in Refresher |->
                    [fetch[r] EXCEPT !.moved =
                        fetch[r].offset > 0 /\ (@ \/ ~Prefix(catalog, catalog'))]]
    /\ UNCHANGED <<paging, coordinatorVars, timer, stage>>

RefreshNext ==
    \/ TimerFires \/ IntervalElapses \/ RetryFires
    \/ \E r \in Refresher : Fails(r) \/ Sheds(r) \/ Answered(r)
    \/ TasksCancelled \/ CatalogChanges
-----------------------------------------------------------------------------
(* Until definitions have loaded once, the next attempt is always on its   *)
(* way, unless the retries are used up: every refresh that may end without *)
(* them leaves another one behind (async_refresh_retaining_stale).  No     *)
(* retry is armed once there is nothing to retry, also by a refresh that   *)
(* began earlier and ends later (_cancel_definition_retry, the guard on    *)
(* _definitions_shutdown).                                                 *)
RetriedWhileNeeded ==
    IF stage = "loaded" /\ ~loaded
    THEN timer \/ armed \/ retries = MaxRetries \/ \E r \in Retaining : fetch[r].busy
    ELSE ~armed

(* Pages are as long as requested, and no other limit is reported. *)
AsRequested == paging.size = PageLimit /\ Reported = PageLimit

(* A fetch whose pages were as requested and not disturbed, but for        *)
(* definitions appended meanwhile, publishes every definition, once and in *)
(* order (FR-002).  Of pages shortened by the server it does not: the      *)
(* offset advances by the limit requested (fetch_custom_field_definitions).*)
FetchedWhole ==
    [][\A r \in Refresher :
           /\ fetch[r].busy /\ ~fetch'[r].busy /\ ~fetch[r].moved
           /\ AsRequested
           /\ definitions' # definitions
           => definitions' = catalog]_refreshVars
=============================================================================
