---------------------------- MODULE WriteConsent ----------------------------
(***************************************************************************)
(* What a user agreed to, and what set_custom_field is let through for, in *)
(* one config entry: the options form (config_flow.py), the gates that     *)
(* set-up derives from the stored options (__init__.py), and the checks of *)
(* a call (services/custom_fields.py, api/custom_fields.py).               *)
(*                                                                         *)
(* The credentials of an entry belong to one account, Own, which the user  *)
(* may get wrong in the form.  The definitions tell, if they name one.     *)
(***************************************************************************)
EXTENDS TLAPS

CONSTANTS
    Account,    \* account ids
    Own,        \* that of the entry's credentials
    NoAccount   \* None

VARIABLES
    options,    \* entry.options
    loaded,     \* the entry's runtime data exists
    gates,      \* its safety gates, evidence and account_id
    observed,   \* the account ids of its definitions
    succeeded,  \* last_refresh_succeeded
    due,        \* a reload for changed options is on its way
    agreed,     \* history: <<kind, account>> that some submission enabled
    written     \* history: <<kind, account>> that a write was sent for

vars == <<options, loaded, gates, observed, succeeded, due, agreed, written>>

Kind == {"listing", "reservation"}
Nothing == [k \in Kind |-> FALSE]
Closed == [account |-> NoAccount, open |-> Nothing]
-----------------------------------------------------------------------------
Init ==
    /\ options = [account |-> NoAccount, enabled |-> Nothing, risk |-> FALSE,
                  accepted |-> NoAccount]
    /\ loaded = FALSE /\ gates = Closed /\ observed = {} /\ succeeded = FALSE
    /\ due = FALSE /\ agreed = {} /\ written = {}

(* HostawayOptionsFlow.async_step_init() with a valid form, and            *)
(* _async_update_listener().                                               *)
Submit(account, enabled, risk) ==
    /\ (\E k \in Kind : enabled[k]) => account # NoAccount
    /\ enabled["reservation"] => risk
    /\ risk /\ options.accepted # NoAccount => options.accepted = account
    /\ options' = [account |-> account, enabled |-> enabled, risk |-> risk,
                   accepted |-> IF risk THEN account ELSE NoAccount]
    /\ due' = (due \/ (loaded /\ options' # options))
    /\ agreed' = agreed \cup {<<k, account>> : k \in {c \in Kind : enabled[c]
                                                        /\ (c = "reservation" => risk)}}
    /\ UNCHANGED <<loaded, gates, observed, succeeded, written>>

(* _custom_field_write_safety() *)
GatesOf(o) ==
    [account |-> o.account,
     open |-> [k \in Kind |-> /\ o.account # NoAccount /\ o.enabled[k]
                              /\ k = "reservation" => o.risk /\ o.accepted = o.account]]

(* _async_setup_entry(): between the gates and the update listener nothing *)
(* else runs.                                                              *)
SetUp ==
    /\ ~loaded /\ loaded' = TRUE
    /\ gates' = GatesOf(options) /\ observed' = {} /\ succeeded' = FALSE /\ due' = FALSE
    /\ UNCHANGED <<options, agreed, written>>

Unload ==
    /\ loaded /\ loaded' = FALSE
    /\ gates' = Closed /\ observed' = {} /\ succeeded' = FALSE /\ due' = FALSE
    /\ UNCHANGED <<options, agreed, written>>

(* The definitions coordinator: some definitions name no account. *)
DefinitionsLoaded(ids) ==
    /\ loaded /\ ids \subseteq {Own, NoAccount}
    /\ observed' = ids /\ succeeded' = TRUE
    /\ UNCHANGED <<options, loaded, gates, due, agreed, written>>

DefinitionsFailed ==
    /\ loaded /\ succeeded' = FALSE
    /\ UNCHANGED <<options, loaded, gates, observed, due, agreed, written>>

(* _entry_account_id() *)
AccountId == IF gates.account # NoAccount /\ observed = {gates.account}
             THEN gates.account ELSE NoAccount

(* select_listing_payload_strategy() or select_reservation_payload_strategy *)
(* returns.                                                                *)
StrategySelected(k) == gates.open[k] /\ gates.account = AccountId

(* A call of set_custom_field for a target of kind k passes every check    *)
(* (async_handle_set_custom_field).                                        *)
Write(k) ==
    /\ loaded /\ succeeded /\ observed # {}
    /\ StrategySelected(k)
    /\ written' = written \cup {<<k, Own>>}
    /\ UNCHANGED <<options, loaded, gates, observed, succeeded, due, agreed>>

Next ==
    \/ \E account \in Account \cup {NoAccount}, enabled \in [Kind -> BOOLEAN], risk \in BOOLEAN :
           Submit(account, enabled, risk)
    \/ SetUp \/ Unload
    \/ \E ids \in SUBSET {Own, NoAccount} : DefinitionsLoaded(ids)
    \/ DefinitionsFailed
    \/ \E k \in Kind : Write(k)

Spec == Init /\ [][Next]_vars
-----------------------------------------------------------------------------
(* Every write goes to an account whose id the user entered together with  *)
(* enabling writes of that kind, and for reservations accepting the risk.  *)
WrittenAsAgreed == written \subseteq agreed

(* What the user takes back is no longer written, once the reload that     *)
(* every change of the options starts is through.                          *)
WithdrawalHeeded ==
    [][\A k \in Kind : Write(k) => due \/ (options.enabled[k] /\ options.account = Own)]_vars

Agreed(k, account) == <<k, account>> \in agreed

ConsentInv ==
    /\ options.enabled \in [Kind -> BOOLEAN]
    /\ \A k \in Kind : /\ GatesOf(options).open[k] => Agreed(k, options.account)
                       /\ gates.open[k] => Agreed(k, gates.account) /\ gates.account # NoAccount
    /\ loaded => due \/ gates = GatesOf(options)
    /\ observed \subseteq {Own, NoAccount}
    /\ WrittenAsAgreed
-----------------------------------------------------------------------------
LEMMA WriteIsAgreed ==
    ASSUME ConsentInv, NEW k \in Kind, Write(k)
    PROVE  gates.open[k] /\ gates.account = Own /\ Agreed(k, Own)
<1>1. gates.open[k] /\ gates.account # NoAccount /\ Agreed(k, gates.account)
  BY DEF Write, StrategySelected, ConsentInv
<1>2. observed = {gates.account}
  BY <1>1 DEF Write, StrategySelected, AccountId
<1>3. gates.account = Own
  BY <1>1, <1>2 DEF ConsentInv
<1> QED
  BY <1>1, <1>3

LEMMA ConsentStep == ConsentInv /\ [Next]_vars => ConsentInv'
<1> SUFFICES ASSUME ConsentInv, [Next]_vars PROVE ConsentInv'
  OBVIOUS
<1> USE DEF ConsentInv, Agreed, WrittenAsAgreed
<1>1. ASSUME NEW account \in Account \cup {NoAccount}, NEW enabled \in [Kind -> BOOLEAN],
             NEW risk \in BOOLEAN, Submit(account, enabled, risk)
      PROVE  ConsentInv'
  <2>1. ASSUME NEW k \in Kind, GatesOf(options').open[k]
        PROVE  <<k, account>> \in agreed'
    BY <1>1, <2>1 DEF Submit, GatesOf
  <2> QED
    BY <1>1, <2>1 DEF Submit
<1>2. CASE SetUp
  <2>1. \A k \in Kind : GatesOf(options).open[k] => options.account # NoAccount
    BY DEF GatesOf
  <2>2. GatesOf(options).account = options.account
    BY DEF GatesOf
  <2> QED
    BY <1>2, <2>1, <2>2 DEF SetUp
<1>3. CASE Unload
  BY <1>3 DEF Unload, Closed, Nothing
<1>4. ASSUME NEW ids \in SUBSET {Own, NoAccount}, DefinitionsLoaded(ids) PROVE ConsentInv'
  BY <1>4 DEF DefinitionsLoaded
<1>5. CASE DefinitionsFailed
  BY <1>5 DEF DefinitionsFailed
<1>6. ASSUME NEW k \in Kind, Write(k) PROVE ConsentInv'
  <2>1. <<k, Own>> \in agreed
    BY <1>6, WriteIsAgreed
  <2> QED
    BY <1>6, <2>1 DEF Write
<1>7. CASE UNCHANGED vars
  BY <1>7 DEF vars
<1> QED
  BY <1>1, <1>2, <1>3, <1>4, <1>5, <1>6, <1>7 DEF Next

LEMMA ConsentInvariant == Spec => []ConsentInv
<1>1. Init => ConsentInv
  BY DEF Init, ConsentInv, Closed, Nothing, GatesOf, WrittenAsAgreed
<1> QED
  BY <1>1, ConsentStep, PTL DEF Spec

(* Writes reach only the account that the user agreed to, kind by kind     *)
(* (_entry_account_id, select_listing_payload_strategy,                    *)
(* select_reservation_payload_strategy; FR-055).                           *)
THEOREM ConsentRespected == Spec => []WrittenAsAgreed
<1>1. ConsentInv => WrittenAsAgreed
  BY DEF ConsentInv
<1> QED
  BY <1>1, ConsentInvariant, PTL

(* And only as long as the user agrees, but for the time a reload takes    *)
(* (_async_update_listener).                                               *)
THEOREM WithdrawalObeyed == Spec => WithdrawalHeeded
<1>1. ConsentInv /\ [Next]_vars =>
          [\A k \in Kind : Write(k) => due \/ (options.enabled[k] /\ options.account = Own)]_vars
  <2> SUFFICES ASSUME ConsentInv, NEW k \in Kind, Write(k), ~due
               PROVE  options.enabled[k] /\ options.account = Own
    OBVIOUS
  <2>1. gates = GatesOf(options)
    BY DEF ConsentInv, Write
  <2>2. gates.open[k] /\ gates.account = Own
    BY WriteIsAgreed
  <2> QED
    BY <2>1, <2>2 DEF GatesOf
<1> QED
  BY <1>1, ConsentInvariant, PTL DEF Spec, WithdrawalHeeded
=============================================================================
