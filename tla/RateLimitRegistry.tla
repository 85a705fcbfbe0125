-------------------------- MODULE RateLimitRegistry --------------------------
(***************************************************************************)
(* The process-wide registry of rate_limit_registry.py: which limiter each *)
(* account has, what budget each config entry asks for, and for how long   *)
(* an entry that was unloaded or failed keeps its claim.  Home Assistant   *)
(* drives it: it sets entries up, unloads, reloads and removes them, and   *)
(* runs config flows (__init__.py, config_flow.py).                        *)
(*                                                                         *)
(* Every registry function is synchronous and starts by retiring the       *)
(* claims that have lapsed, so each is an operator on the registry record  *)
(* and each handler one action.  Home Assistant serialises the operations  *)
(* on one entry and interleaves those on different entries.                *)
(*                                                                         *)
(* A limiter is represented by what its holders see of it: an account has  *)
(* one or has none, and an entry's clients hold one that is open or one    *)
(* that has been closed.                                                   *)
(***************************************************************************)
EXTENDS Integers, Sequences, FiniteSetsExt, SequencesExt

CONSTANTS
    Entry,          \* config entries, present and future
    Account,        \* Hostaway client ids
    AccountOf,      \* the account of an entry
    Options,        \* what an entry may store as its budget
    MaxBudget,      \* RATE_LIMIT_CEILING
    DefaultBudget,  \* DEFAULT_RATE_LIMIT_BUDGET
    Window,         \* RATE_LIMIT_WINDOW_SECONDS, the grace of a departed entry
    Lag,            \* how late the event loop may run a due timer
    MaxTime         \* bound: the model's last tick

ASSUME RegistryAssumption ==
    /\ IsFiniteSet(Entry) /\ AccountOf \in [Entry -> Account]
    /\ Options \subseteq Int
    /\ MaxBudget \in Nat \ {0} /\ DefaultBudget \in 1..MaxBudget
    /\ Window \in Nat \ {0} /\ Lag \in Nat /\ MaxTime \in Nat

VARIABLES
    now,        \* the monotonic clock
    known,      \* the configured entries, oldest first
    entry,      \* entry -> its state in Home Assistant
    flow,       \* the entries whose config flow is validating credentials
    option,     \* entry -> the budget it stores
    registry,   \* the LimiterRegistry, the budgets of its gates and who holds a limiter
    entitled,   \* history: entry -> the budget it last registered
    leftAt      \* history: entry -> when it last stopped running, Never if it has not

haVars == <<known, entry, flow, option>>
historyVars == <<entitled, leftAt>>
vars == <<now, haVars, registry, historyVars>>

Never == -1
NoClaim == 0
NoOption == 0
Running == {"setting_up", "loaded", "stuck"}
-----------------------------------------------------------------------------
(* A bug: whatever is stored is asked for. *)
EntryBudgetAsStored(e) == IF option[e] = NoOption THEN DefaultBudget ELSE option[e]

(* entry_budget: what is stored, if it is usable. *)
EntryBudget(e) == IF option[e] \in 1..MaxBudget THEN option[e] ELSE DefaultBudget

Claimants(reg) == {e \in Entry : reg.claims[e] # NoClaim}
ClaimsOn(reg, a) == {reg.claims[e] : e \in {k \in Claimants(reg) : AccountOf[k] = a}}

(* _drop: claims go, with their timers, and a limiter nobody claims is closed. *)
Drop(reg, gone) ==
    LET left == Claimants(reg) \ gone
        over == {AccountOf[e] : e \in Claimants(reg) \cap gone} \ {AccountOf[e] : e \in left}
    IN  [claims |-> [e \in Entry |-> IF e \in gone THEN NoClaim ELSE reg.claims[e]],
         graceEnd |-> [e \in Entry |-> IF e \in gone THEN 0 ELSE reg.graceEnd[e]],
         timer |-> [e \in Entry |-> IF e \in gone THEN 0 ELSE reg.timer[e]],
         limiters |-> reg.limiters \ over,
         pacer |-> [e \in Entry |-> IF AccountOf[e] \in over /\ reg.pacer[e] = "open"
                                    THEN "closed" ELSE reg.pacer[e]],
         ipBudget |-> reg.ipBudget,
         accountBudget |-> reg.accountBudget]

(* apply_minima: the lowest claim of an account rules its gate, the lowest *)
(* claim of all rules the IP gate, which nobody's claim leaves at default. *)
ApplyMinima(reg) ==
    LET served == {a \in reg.limiters : ClaimsOn(reg, a) # {}}
        lowest == Min({reg.claims[e] : e \in Claimants(reg)})
    IN  IF Claimants(reg) = {} THEN [reg EXCEPT !.ipBudget = DefaultBudget]
        ELSE [reg EXCEPT
                 !.ipBudget = IF served = {} THEN @ ELSE lowest,
                 !.accountBudget = [a \in Account |-> IF a \in served THEN Min(ClaimsOn(reg, a))
                                                      ELSE reg.accountBudget[a]]]

Lapsed(reg, t) == {e \in Entry : reg.graceEnd[e] # 0 /\ reg.graceEnd[e] <= t}

(* A bug: what departed entries asked for still rules. *)
ExpireWithoutMinima(reg, t) == Drop(reg, Lapsed(reg, t))

(* _expire_pending, which get_registry runs before anything else. *)
Expire(reg, t) ==
    IF Lapsed(reg, t) = {} THEN reg ELSE ApplyMinima(Drop(reg, Lapsed(reg, t)))

(* A bug: the unload half of a reload gives the claim back. *)
ScheduleReleaseAtOnce(reg, e, t) == ApplyMinima(Drop(Expire(reg, t), {e}))

(* schedule_release: the claim counts for one more window, then a timer    *)
(* comes back for it.                                                      *)
ScheduleRelease(reg, e, t) ==
    LET fresh == Expire(reg, t)
    IN  IF fresh.claims[e] = NoClaim THEN fresh
        ELSE [fresh EXCEPT !.graceEnd[e] = t + Window, !.timer[e] = t + Window]

(* A bug: the entry's own deadline goes on counting. *)
ReclaimTimerOnly(reg, e) == [reg EXCEPT !.timer[e] = 0]

(* The start of register_entry: the entry is back, its grace is over. *)
Reclaim(reg, e) == [reg EXCEPT !.graceEnd[e] = 0, !.timer[e] = 0]

(* A bug: only configured entries settle the account, oldest first. *)
EstablishedByAge(reg) == AccountOf[Head(known)]

(* _established_account: a registered entry settles it, else the oldest    *)
(* configured entry, loaded or not.  All claims are of one account         *)
(* (OneAccount), so any claimant answers for the first.                    *)
Established(reg) ==
    IF Claimants(reg) # {} THEN AccountOf[CHOOSE e \in Claimants(reg) : TRUE]
    ELSE AccountOf[Head(known)]

(* The rest of register_entry. *)
Claim(reg, e, budget) ==
    LET a == AccountOf[e]
    IN  ApplyMinima([reg EXCEPT
            !.claims[e] = budget,
            !.limiters = @ \cup {a},
            !.pacer[e] = "open",
            !.accountBudget[a] = IF a \in reg.limiters THEN @ ELSE DefaultBudget])
-----------------------------------------------------------------------------
(* Home Assistant starts with the entries it has stored, none set up. *)
Init ==
    /\ now = 0
    /\ \E stored \in SUBSET Entry : known \in SetToSeqs(stored)
    /\ entry = [e \in Entry |-> IF e \in ToSet(known) THEN "not_loaded" ELSE "absent"]
    /\ flow = {}
    /\ option \in [Entry -> Options]
    /\ registry = [claims |-> [e \in Entry |-> NoClaim],
                   graceEnd |-> [e \in Entry |-> 0],
                   timer |-> [e \in Entry |-> 0],
                   limiters |-> {},
                   pacer |-> [e \in Entry |-> "none"],
                   ipBudget |-> DefaultBudget,
                   accountBudget |-> [a \in Account |-> DefaultBudget]]
    /\ entitled = [e \in Entry |-> NoClaim]
    /\ leftAt = [e \in Entry |-> Never]

Tick ==
    /\ now < MaxTime
    /\ \A e \in Entry : registry.timer[e] # 0 => now < registry.timer[e] + Lag
    /\ now' = now + 1
    /\ UNCHANGED <<haVars, registry, historyVars>>

(* async_step_user lets a flow go on if no entry has its account's unique  *)
(* id and none is of another account; validation_limiter asks the registry. *)
FlowBegin(e) ==
    /\ entry[e] = "absent" /\ e \notin flow
    /\ \A k \in flow : AccountOf[k] # AccountOf[e]
    /\ \A k \in ToSet(known) : AccountOf[k] # AccountOf[e]
    /\ \A k \in ToSet(known) : AccountOf[k] = AccountOf[e]
    /\ flow' = flow \cup {e}
    /\ registry' = Expire(registry, now)
    /\ UNCHANGED <<now, known, entry, option, historyVars>>

(* The flow ends, with a new entry, which stores no budget, or without. *)
FlowEnd(e) ==
    /\ e \in flow
    /\ flow' = flow \ {e}
    /\ \/ UNCHANGED <<known, entry, option>>
       \/ /\ known' = Append(known, e)
          /\ entry' = [entry EXCEPT ![e] = "not_loaded"]
          /\ option' = [option EXCEPT ![e] = NoOption]
    /\ UNCHANGED <<now, registry, historyVars>>

(* async_setup_entry up to its first await, refused as a second account:   *)
(* not retried, but given the grace of any failed setup.                   *)
SetupRefused(e) ==
    LET mine == Reclaim(Expire(registry, now), e) IN
    /\ entry[e] \in {"not_loaded", "failed", "cancelled"}
    /\ Established(mine) # AccountOf[e]
    /\ entry' = [entry EXCEPT ![e] = "failed"]
    /\ registry' = ScheduleRelease(mine, e, now)
    /\ UNCHANGED <<now, known, flow, option, historyVars>>

(* async_setup_entry up to its first await, registered. *)
SetupBegin(e) ==
    LET mine == Reclaim(Expire(registry, now), e) IN
    /\ entry[e] \in {"not_loaded", "failed", "cancelled"}
    /\ Established(mine) = AccountOf[e]
    /\ entry' = [entry EXCEPT ![e] = "setting_up"]
    /\ registry' = Claim(mine, e, EntryBudget(e))
    /\ entitled' = [entitled EXCEPT ![e] = EntryBudget(e)]
    /\ UNCHANGED <<now, known, flow, option, leftAt>>

(* Everything succeeded and the update listener has been registered. *)
SetupDone(e) ==
    /\ entry[e] = "setting_up"
    /\ entry' = [entry EXCEPT ![e] = "loaded"]
    /\ UNCHANGED <<now, known, flow, option, registry, historyVars>>

(* A bug: a failed setup is not an unload, and keeps its claim. *)
SetupFailedOnly(e) ==
    /\ entry[e] = "setting_up"
    /\ entry' = [entry EXCEPT ![e] = "failed"]
    /\ leftAt' = [leftAt EXCEPT ![e] = now]
    /\ UNCHANGED <<now, known, flow, option, registry, entitled>>

(* The connection test or a first refresh raises. *)
SetupFailed(e) ==
    /\ entry[e] = "setting_up"
    /\ entry' = [entry EXCEPT ![e] = "failed"]
    /\ registry' = ScheduleRelease(registry, e, now)
    /\ leftAt' = [leftAt EXCEPT ![e] = now]
    /\ UNCHANGED <<now, known, flow, option, entitled>>

(* Home Assistant cancels the setup, as it does when a start-up stage      *)
(* times out: `except Exception` does not catch a CancelledError.          *)
SetupCancelled(e) ==
    /\ entry[e] = "setting_up"
    /\ entry' = [entry EXCEPT ![e] = "cancelled"]
    /\ leftAt' = [leftAt EXCEPT ![e] = now]
    /\ UNCHANGED <<now, known, flow, option, registry, entitled>>

(* async_unload_entry, also as the first half of a reload. *)
Unload(e) ==
    /\ entry[e] = "loaded"
    /\ entry' = [entry EXCEPT ![e] = "not_loaded"]
    /\ registry' = ScheduleRelease(registry, e, now)
    /\ leftAt' = [leftAt EXCEPT ![e] = now]
    /\ UNCHANGED <<now, known, flow, option, entitled>>

(* A platform refuses to unload: the entry goes on running. *)
UnloadFailed(e) ==
    /\ entry[e] = "loaded"
    /\ entry' = [entry EXCEPT ![e] = "stuck"]
    /\ UNCHANGED <<now, known, flow, option, registry, historyVars>>

(* async_remove_entry, after the unload of a loaded entry was tried. *)
RemoveEntry(e) ==
    LET fresh == Expire(registry, now) IN
    /\ entry[e] \in {"not_loaded", "failed", "cancelled", "stuck"}
    /\ entry' = [entry EXCEPT ![e] = "absent"]
    /\ known' = RemoveAt(known, CHOOSE i \in DOMAIN known : known[i] = e)
    /\ registry' = IF fresh.claims[e] = NoClaim THEN Drop(fresh, {e})
                   ELSE ApplyMinima(Drop(fresh, {e}))
    /\ entitled' = [entitled EXCEPT ![e] = NoClaim]
    /\ leftAt' = [leftAt EXCEPT ![e] = Never]
    /\ UNCHANGED <<now, flow, option>>

(* The options flow stores another budget, which the next setup reads.     *)
(* The update listener of a loaded entry reloads it: Unload and SetupBegin *)
(* are enabled at any time.                                                *)
ChangeOptions(e, budget) ==
    /\ entry[e] # "absent"
    /\ budget \in 1..MaxBudget /\ budget # option[e]
    /\ option' = [option EXCEPT ![e] = budget]
    /\ UNCHANGED <<now, known, entry, flow, registry, historyVars>>

(* _release_is_due *)
ReleaseDue(e) ==
    /\ registry.timer[e] # 0 /\ registry.timer[e] <= now
    /\ registry' = Expire([registry EXCEPT !.timer[e] = 0], now)
    /\ UNCHANGED <<now, haVars, historyVars>>

Horizon == now = MaxTime /\ UNCHANGED vars
-----------------------------------------------------------------------------
Next ==
    \/ Tick
    \/ \E e \in Entry :
           \/ FlowBegin(e) \/ FlowEnd(e)
           \/ SetupRefused(e) \/ SetupBegin(e) \/ SetupDone(e)
           \/ SetupFailed(e) \/ SetupCancelled(e)
           \/ Unload(e) \/ UnloadFailed(e) \/ RemoveEntry(e)
           \/ \E budget \in Options : ChangeOptions(e, budget)
           \/ ReleaseDue(e)
    \/ Horizon

Spec == Init /\ [][Next]_vars
-----------------------------------------------------------------------------
(* Every variable has its type. *)
TypeOK ==
    /\ now \in Nat
    /\ known \in Seq(Entry) /\ IsInjective(known)
    /\ entry \in [Entry -> Running \cup {"absent", "not_loaded", "failed", "cancelled"}]
    /\ flow \subseteq Entry
    /\ option \in [Entry -> Int]
    /\ registry \in [claims : [Entry -> 0..MaxBudget],
                     graceEnd : [Entry -> Nat], timer : [Entry -> Nat],
                     limiters : SUBSET Account,
                     pacer : [Entry -> {"none", "open", "closed"}],
                     ipBudget : 1..MaxBudget,
                     accountBudget : [Account -> 1..MaxBudget]]
    /\ entitled \in [Entry -> 0..MaxBudget]
    /\ leftAt \in [Entry -> Nat \cup {Never}]

(* A running entry's clients pace against the open limiter the registry    *)
(* has for its account, and nothing counts down against its claim: no      *)
(* grace period of an earlier life closes a limiter under it               *)
(* (register_entry, _drop).                                                *)
RunningEntriesPaced ==
    \A e \in Entry : entry[e] \in Running =>
        /\ registry.claims[e] # NoClaim /\ registry.graceEnd[e] = 0
        /\ AccountOf[e] \in registry.limiters
        /\ registry.pacer[e] = "open"

(* All claims, and the one limiter, are of one account, also when two      *)
(* flows for different accounts ran side by side (register_entry, FR-039). *)
OneAccount ==
    /\ \A e, k \in Claimants(registry) : AccountOf[e] = AccountOf[k]
    /\ registry.limiters = {AccountOf[e] : e \in Claimants(registry)}

(* While an entry runs, and for a window after it was unloaded or failed,  *)
(* neither gate has a higher budget than it asked for: a reload is never   *)
(* a windfall (schedule_release, SC-012).                                  *)
NoWindfall ==
    \A e \in Entry :
        \/ entry[e] \in Running
        \/ entry[e] # "absent" /\ leftAt[e] # Never /\ now < leftAt[e] + Window
        => /\ registry.ipBudget <= entitled[e]
           /\ registry.accountBudget[AccountOf[e]] <= entitled[e]

(* The budgets in force are the lowest claims and not lower: an entry that *)
(* is gone for good holds nobody down (apply_minima, _expire_pending).     *)
NoHigherThanNeeded ==
    LET claims == {registry.claims[e] : e \in Claimants(registry)}
    IN  /\ registry.ipBudget = IF claims = {} THEN DefaultBudget ELSE Min(claims)
        /\ \A a \in registry.limiters :
               registry.accountBudget[a] = Min(ClaimsOn(registry, a))

(* An entry that was unloaded or whose setup failed keeps its claim for a  *)
(* window, no longer than the loop delays the timer, whatever flows,       *)
(* removals and setups of other entries retire claims meanwhile            *)
(* (_expire_pending, _release_is_due); a removed entry has none.  The one  *)
(* exception is what the code does: a cancelled setup schedules no         *)
(* release, and its claim stays until the entry is set up again or removed.*)
ClaimsLapse ==
    \A e \in Claimants(registry) :
        \/ entry[e] \in Running \cup {"cancelled"}
        \/ entry[e] \in {"not_loaded", "failed"} /\ now <= leftAt[e] + Window + Lag
=============================================================================
