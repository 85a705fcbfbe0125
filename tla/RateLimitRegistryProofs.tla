----------------------- MODULE RateLimitRegistryProofs -----------------------
(***************************************************************************)
(* The safety of RateLimitRegistry, for every number of entries, accounts  *)
(* and budgets, and however long the clock runs.                           *)
(*                                                                         *)
(* Sound says of a registry record what every function of the registry     *)
(* keeps, Ruled that its gates are paced by the lowest claims.  Both are   *)
(* shown once for each function; Entitled and Departed then say what a     *)
(* running entry and one that has left may count on.                       *)
(***************************************************************************)
EXTENDS RateLimitRegistry, SequenceTheorems, FiniteSetTheorems,
        WellFoundedInduction, TLAPS

Registry == [claims : [Entry -> 0..MaxBudget], graceEnd : [Entry -> Nat],
             timer : [Entry -> Nat], limiters : SUBSET Account,
             pacer : [Entry -> {"none", "open", "closed"}],
             ipBudget : 1..MaxBudget, accountBudget : [Account -> 1..MaxBudget]]

(* A grace period has a claim and a timer, and all claims one limiter. *)
Sound(reg) ==
    /\ reg \in Registry
    /\ \A e, k \in Claimants(reg) : AccountOf[e] = AccountOf[k]
    /\ reg.limiters = {AccountOf[e] : e \in Claimants(reg)}
    /\ \A e \in Entry : /\ reg.timer[e] = reg.graceEnd[e]
                        /\ reg.graceEnd[e] # 0 => reg.claims[e] # NoClaim

Claims(reg) == {reg.claims[e] : e \in Claimants(reg)}

Ruled(reg) ==
    /\ reg.ipBudget = IF Claims(reg) = {} THEN DefaultBudget ELSE Min(Claims(reg))
    /\ \A a \in reg.limiters : reg.accountBudget[a] = Min(ClaimsOn(reg, a))

(* What is left of a registry when the claims of gone go. *)
Without(new, reg, gone) ==
    /\ \A e \in Entry : /\ new.claims[e] = IF e \in gone THEN NoClaim ELSE reg.claims[e]
                        /\ new.graceEnd[e] = IF e \in gone THEN 0 ELSE reg.graceEnd[e]
    /\ \A e \in Entry \ gone : reg.claims[e] # NoClaim => new.pacer[e] = reg.pacer[e]
-----------------------------------------------------------------------------
LEMMA LowestOf ==
    ASSUME NEW S, S \subseteq 1..MaxBudget, S # {}
    PROVE  Min(S) \in S /\ \A n \in S : Min(S) <= n
<1>1. MaxBudget \in Nat /\ S \subseteq Nat
  BY RegistryAssumption
<1>2. \E n \in S : \A m \in S : ~(<<m, n>> \in OpToRel(<, Nat))
  BY <1>1, NatLessThanWellFounded, WFMin, Zenon
<1>3. PICK n \in S : \A m \in S : ~(<<m, n>> \in OpToRel(<, Nat))
  BY <1>2
<1>4. \A m \in S : ~(m < n)
  BY <1>1, <1>3, Zenon DEF OpToRel
<1>5. \A m \in S : n <= m
  BY <1>1, <1>4
<1> QED
  BY <1>5 DEF Min

LEMMA ClaimsInRange ==
    ASSUME NEW reg, reg \in Registry
    PROVE  /\ Claims(reg) \subseteq 1..MaxBudget
           /\ \A a : ClaimsOn(reg, a) \subseteq Claims(reg)
           /\ \A e \in Entry : reg.claims[e] # NoClaim =>
                  reg.claims[e] \in Claims(reg) /\ reg.claims[e] \in ClaimsOn(reg, AccountOf[e])
<1>1. \A e \in Entry : reg.claims[e] \in 0..MaxBudget
  BY DEF Registry
<1> QED
  BY <1>1, RegistryAssumption DEF Claims, ClaimsOn, Claimants, NoClaim

(* _drop *)
LEMMA DropSound ==
    ASSUME NEW reg, Sound(reg), NEW gone \in SUBSET Entry
    PROVE  Sound(Drop(reg, gone)) /\ Without(Drop(reg, gone), reg, gone)
<1> DEFINE left == Claimants(reg) \ gone
           over == {AccountOf[e] : e \in Claimants(reg) \cap gone} \ {AccountOf[e] : e \in left}
           new == Drop(reg, gone)
<1>1. /\ new.claims = [e \in Entry |-> IF e \in gone THEN NoClaim ELSE reg.claims[e]]
      /\ new.graceEnd = [e \in Entry |-> IF e \in gone THEN 0 ELSE reg.graceEnd[e]]
      /\ new.timer = [e \in Entry |-> IF e \in gone THEN 0 ELSE reg.timer[e]]
      /\ new.limiters = reg.limiters \ over
      /\ new.pacer = [e \in Entry |-> IF AccountOf[e] \in over /\ reg.pacer[e] = "open"
                                      THEN "closed" ELSE reg.pacer[e]]
      /\ new.ipBudget = reg.ipBudget /\ new.accountBudget = reg.accountBudget
  BY DEF Drop
<1>2. Claimants(new) = left
  BY <1>1 DEF Claimants
<1>3. new \in Registry
  BY RegistryAssumption DEF Sound, Registry, Drop, NoClaim
<1> HIDE DEF new
<1>4. new.limiters = {AccountOf[e] : e \in Claimants(new)}
  BY <1>1, <1>2 DEF Sound
<1>5. \A e \in left : AccountOf[e] \notin over
  OBVIOUS
<1>6. Without(new, reg, gone)
  BY <1>1, <1>5 DEF Without, Claimants
<1>7. Sound(new)
  BY <1>1, <1>2, <1>3, <1>4 DEF Sound, Claimants
<1> QED
  BY <1>6, <1>7 DEF new

(* What apply_minima leaves alone. *)
SameClaims(new, reg) ==
    /\ new.claims = reg.claims /\ new.graceEnd = reg.graceEnd /\ new.timer = reg.timer
    /\ new.limiters = reg.limiters /\ new.pacer = reg.pacer

LEMMA MinimaRule ==
    ASSUME NEW reg, Sound(reg)
    PROVE  /\ Sound(ApplyMinima(reg)) /\ Ruled(ApplyMinima(reg))
           /\ SameClaims(ApplyMinima(reg), reg)
<1> DEFINE new == ApplyMinima(reg)
           served == {a \in reg.limiters : ClaimsOn(reg, a) # {}}
<1>0. reg \in Registry /\ DefaultBudget \in 1..MaxBudget
  BY RegistryAssumption DEF Sound
<1>1. served = reg.limiters /\ (Claimants(reg) # {} => served # {})
  BY DEF Sound, ClaimsOn
<1>2. CASE Claimants(reg) = {}
  <2>1. new = [reg EXCEPT !.ipBudget = DefaultBudget]
    BY <1>2, Zenon DEF ApplyMinima
  <2>2. /\ SameClaims(new, reg) /\ new \in Registry /\ new.ipBudget = DefaultBudget
    BY <1>0, <2>1 DEF SameClaims, Registry
  <2> HIDE DEF new
  <2>3. Claims(new) = {} /\ new.limiters = {}
    BY <1>2, <2>2 DEF Claims, Claimants, SameClaims, Sound
  <2>4. Sound(new) /\ Ruled(new)
    BY <2>2, <2>3 DEF Sound, Ruled, SameClaims, Claimants
  <2> QED
    BY <2>2, <2>4 DEF new
<1>3. CASE Claimants(reg) # {}
  <2> DEFINE lowest == Min(Claims(reg))
             budgets == [a \in Account |-> IF a \in served THEN Min(ClaimsOn(reg, a))
                                           ELSE reg.accountBudget[a]]
  <2>1. new = [reg EXCEPT !.ipBudget = lowest, !.accountBudget = budgets]
    BY <1>1, <1>3 DEF ApplyMinima, Claims
  <2>2. Claims(reg) # {} /\ Claims(reg) \subseteq 1..MaxBudget /\ lowest \in 1..MaxBudget
    <3>1. Claims(reg) # {}
      BY <1>3 DEF Claims
    <3>2. Claims(reg) \subseteq 1..MaxBudget
      BY <1>0, ClaimsInRange
    <3> QED
      BY <3>1, <3>2, LowestOf
  <2>3. \A a \in served : Min(ClaimsOn(reg, a)) \in 1..MaxBudget
    <3> SUFFICES ASSUME NEW a \in served PROVE Min(ClaimsOn(reg, a)) \in 1..MaxBudget
      OBVIOUS
    <3>1. ClaimsOn(reg, a) \subseteq 1..MaxBudget /\ ClaimsOn(reg, a) # {}
      BY <1>0, <2>2, ClaimsInRange
    <3> QED
      BY <3>1, LowestOf
  <2>4. budgets \in [Account -> 1..MaxBudget]
    BY <1>0, <2>3 DEF Registry
  <2> HIDE DEF lowest, budgets, new
  <2>5. /\ SameClaims(new, reg) /\ new.ipBudget = lowest /\ new.accountBudget = budgets
        /\ new \in Registry
    BY <1>0, <2>1, <2>2, <2>4 DEF Registry, SameClaims
  <2>6. /\ Claimants(new) = Claimants(reg) /\ Claims(new) = Claims(reg)
        /\ \A a : ClaimsOn(new, a) = ClaimsOn(reg, a)
    BY <2>5 DEF SameClaims, Claims, ClaimsOn, Claimants
  <2>7. Sound(new)
    BY <2>5, <2>6 DEF Sound, SameClaims
  <2>8. Ruled(new)
    <3>1. reg.limiters \subseteq Account
      BY <1>0 DEF Registry
    <3>2. \A a \in reg.limiters : new.accountBudget[a] = Min(ClaimsOn(reg, a))
      BY <1>1, <2>5, <3>1 DEF budgets
    <3> QED
      BY <2>2, <2>5, <2>6, <3>2 DEF Ruled, SameClaims, lowest
  <2> QED
    BY <2>5, <2>7, <2>8 DEF new
<1> QED
  BY <1>2, <1>3

(* _drop with apply_minima *)
LEMMA DropRule ==
    ASSUME NEW reg, Sound(reg), NEW gone \in SUBSET Entry
    PROVE  LET new == ApplyMinima(Drop(reg, gone))
           IN  Sound(new) /\ Ruled(new) /\ Without(new, reg, gone)
<1> DEFINE dropped == Drop(reg, gone)
<1>1. Sound(dropped) /\ Without(dropped, reg, gone)
  BY DropSound
<1> HIDE DEF dropped
<1>2. /\ Sound(ApplyMinima(dropped)) /\ Ruled(ApplyMinima(dropped))
      /\ SameClaims(ApplyMinima(dropped), dropped)
  BY <1>1, MinimaRule
<1>3. Without(ApplyMinima(dropped), reg, gone)
  BY <1>1, <1>2 DEF Without, SameClaims
<1> QED
  BY <1>2, <1>3 DEF dropped

(* _expire_pending *)
LEMMA ExpireRule ==
    ASSUME NEW reg, Sound(reg), Ruled(reg), NEW t
    PROVE  /\ Sound(Expire(reg, t)) /\ Ruled(Expire(reg, t))
           /\ Without(Expire(reg, t), reg, Lapsed(reg, t))
<1>1. CASE Lapsed(reg, t) = {}
  BY <1>1 DEF Expire, Without
<1>2. CASE Lapsed(reg, t) # {}
  <2>1. Lapsed(reg, t) \in SUBSET Entry
    BY DEF Lapsed
  <2> QED
    BY <1>2, <2>1, DropRule DEF Expire
<1> QED
  BY <1>1, <1>2

LEMMA RuledKeeps ==
    ASSUME NEW reg, Ruled(reg), NEW new, new.claims = reg.claims, new.limiters = reg.limiters,
           new.ipBudget = reg.ipBudget, new.accountBudget = reg.accountBudget
    PROVE  Ruled(new)
BY DEF Ruled, Claims, ClaimsOn, Claimants

(* schedule_release, once the lapsed claims are gone. *)
LEMMA ScheduleRule ==
    ASSUME NEW reg, Sound(reg), Ruled(reg), NEW e \in Entry, NEW t \in Nat
    PROVE  LET fresh == Expire(reg, t)
               new == ScheduleRelease(reg, e, t)
           IN  /\ Sound(new) /\ Ruled(new)
               /\ new.claims = fresh.claims /\ new.pacer = fresh.pacer
               /\ \A k \in Entry :
                      new.graceEnd[k] = IF k = e /\ fresh.claims[e] # NoClaim THEN t + Window
                                        ELSE fresh.graceEnd[k]
<1> DEFINE fresh == Expire(reg, t)
           new == ScheduleRelease(reg, e, t)
<1>1. Sound(fresh) /\ Ruled(fresh)
  BY ExpireRule
<1>2. CASE fresh.claims[e] = NoClaim
  <2>1. new = fresh
    BY <1>2 DEF ScheduleRelease
  <2> HIDE DEF new, fresh
  <2> QED
    BY <1>1, <1>2, <2>1 DEF new, fresh
<1>3. CASE fresh.claims[e] # NoClaim
  <2>1. new = [fresh EXCEPT !.graceEnd[e] = t + Window, !.timer[e] = t + Window]
    BY <1>3 DEF ScheduleRelease
  <2> HIDE DEF new, fresh
  <2>2. fresh \in Registry /\ t + Window \in Nat
    BY <1>1, RegistryAssumption DEF Sound
  <2>3. /\ new.claims = fresh.claims /\ new.pacer = fresh.pacer
        /\ new.limiters = fresh.limiters /\ new.ipBudget = fresh.ipBudget
        /\ new.accountBudget = fresh.accountBudget
        /\ new.graceEnd = [fresh.graceEnd EXCEPT ![e] = t + Window]
        /\ new.timer = [fresh.timer EXCEPT ![e] = t + Window]
        /\ new \in Registry
    BY <2>1, <2>2 DEF Registry
  <2>4. \A k \in Entry : /\ new.graceEnd[k] = IF k = e THEN t + Window ELSE fresh.graceEnd[k]
                         /\ new.timer[k] = IF k = e THEN t + Window ELSE fresh.timer[k]
    BY <2>2, <2>3 DEF Registry
  <2>5. Ruled(new)
    BY <1>1, <2>3, RuledKeeps
  <2>6. Sound(new)
    BY <1>1, <1>3, <2>3, <2>4 DEF Sound, Claimants
  <2> QED
    BY <1>3, <2>3, <2>4, <2>5, <2>6 DEF new, fresh
<1> QED
  BY <1>2, <1>3

(* The start of register_entry. *)
LEMMA ReclaimRule ==
    ASSUME NEW reg, Sound(reg), Ruled(reg), NEW e \in Entry
    PROVE  LET new == Reclaim(reg, e)
           IN  /\ Sound(new) /\ Ruled(new)
               /\ new.claims = reg.claims /\ new.pacer = reg.pacer /\ new.limiters = reg.limiters
               /\ \A k \in Entry : new.graceEnd[k] = IF k = e THEN 0 ELSE reg.graceEnd[k]
<1> DEFINE new == Reclaim(reg, e)
<1>1. reg \in Registry
  BY DEF Sound
<1>2. new = [reg EXCEPT !.graceEnd[e] = 0, !.timer[e] = 0]
  BY DEF Reclaim
<1> HIDE DEF new
<1>3. /\ new.claims = reg.claims /\ new.pacer = reg.pacer
      /\ new.limiters = reg.limiters /\ new.ipBudget = reg.ipBudget
      /\ new.accountBudget = reg.accountBudget
      /\ new.graceEnd = [reg.graceEnd EXCEPT ![e] = 0]
      /\ new.timer = [reg.timer EXCEPT ![e] = 0]
      /\ new \in Registry
  BY <1>1, <1>2 DEF Registry
<1>4. \A k \in Entry : /\ new.graceEnd[k] = IF k = e THEN 0 ELSE reg.graceEnd[k]
                       /\ new.timer[k] = IF k = e THEN 0 ELSE reg.timer[k]
  BY <1>1, <1>3 DEF Registry
<1>5. Ruled(new)
  BY <1>3, RuledKeeps
<1>6. Sound(new)
  BY <1>3, <1>4 DEF Sound, Claimants
<1> QED
  BY <1>3, <1>4, <1>5, <1>6 DEF new

(* The rest of register_entry. *)
LEMMA ClaimRule ==
    ASSUME NEW reg, Sound(reg), Ruled(reg), NEW e \in Entry, NEW budget \in 1..MaxBudget,
           Established(reg) = AccountOf[e], reg.graceEnd[e] = 0
    PROVE  LET new == Claim(reg, e, budget)
           IN  /\ Sound(new) /\ Ruled(new) /\ new.graceEnd = reg.graceEnd
               /\ \A k \in Entry :
                      /\ new.claims[k] = IF k = e THEN budget ELSE reg.claims[k]
                      /\ new.pacer[k] = IF k = e THEN "open" ELSE reg.pacer[k]
<1> DEFINE a == AccountOf[e]
           mid == [reg EXCEPT !.claims[e] = budget, !.limiters = @ \cup {a}, !.pacer[e] = "open",
                              !.accountBudget[a] = IF a \in reg.limiters THEN @ ELSE DefaultBudget]
           new == Claim(reg, e, budget)
<1>0. /\ reg \in Registry /\ a \in Account /\ DefaultBudget \in 1..MaxBudget
      /\ budget \in 0..MaxBudget /\ budget # NoClaim
  BY RegistryAssumption DEF Sound, NoClaim
<1>1. new = ApplyMinima(mid)
  BY DEF Claim
<1>2. /\ mid.claims = [reg.claims EXCEPT ![e] = budget] /\ mid.pacer = [reg.pacer EXCEPT ![e] = "open"]
      /\ mid.graceEnd = reg.graceEnd /\ mid.timer = reg.timer
      /\ mid.limiters = reg.limiters \cup {a}
  BY <1>0 DEF Registry
<1>3. mid \in Registry
  BY <1>0 DEF Registry
<1> HIDE DEF mid, new, a
<1>4. \A k \in Entry : /\ mid.claims[k] = IF k = e THEN budget ELSE reg.claims[k]
                       /\ mid.pacer[k] = IF k = e THEN "open" ELSE reg.pacer[k]
  BY <1>0, <1>2 DEF Registry
<1>5. Claimants(mid) = Claimants(reg) \cup {e}
  BY <1>0, <1>4 DEF Claimants
<1>6. \A k \in Claimants(reg) : AccountOf[k] = a
  BY DEF Established, Sound, a
<1>7. Sound(mid)
  <2>1. mid.limiters = {AccountOf[k] : k \in Claimants(mid)}
    BY <1>2, <1>5 DEF Sound, a
  <2>2. \A k, m \in Claimants(mid) : AccountOf[k] = AccountOf[m]
    BY <1>5, <1>6 DEF a
  <2>3. \A k \in Entry : /\ mid.timer[k] = mid.graceEnd[k]
                         /\ mid.graceEnd[k] # 0 => mid.claims[k] # NoClaim
    BY <1>0, <1>2, <1>4 DEF Sound
  <2> QED
    BY <1>3, <2>1, <2>2, <2>3 DEF Sound
<1>8. Sound(new) /\ Ruled(new) /\ SameClaims(new, mid)
  BY <1>1, <1>7, MinimaRule
<1> QED
  BY <1>2, <1>4, <1>8 DEF new, SameClaims
-----------------------------------------------------------------------------
Recent(e) == entry[e] # "absent" /\ leftAt[e] # Never /\ now < leftAt[e] + Window

(* Who runs, or has left within a window, has the claim it registered.     *)
Entitled(e) ==
    entry[e] \in Running \/ Recent(e) =>
        registry.claims[e] = entitled[e] /\ registry.claims[e] # NoClaim

(* A grace period begins when its entry leaves and ends by its timer.      *)
Departed(e) ==
    /\ registry.graceEnd[e] # 0 => now <= registry.graceEnd[e] + Lag
    /\ Recent(e) /\ registry.graceEnd[e] # 0 => leftAt[e] + Window <= registry.graceEnd[e]
    /\ entry[e] \in {"not_loaded", "failed"} /\ registry.claims[e] # NoClaim =>
           leftAt[e] # Never /\ registry.graceEnd[e] # 0
           /\ registry.graceEnd[e] = leftAt[e] + Window

Placed(e) ==
    /\ entry[e] \in Running => registry.graceEnd[e] = 0 /\ registry.pacer[e] = "open"
    /\ Entitled(e) /\ Departed(e)
    /\ entry[e] = "absent" => registry.claims[e] = NoClaim /\ leftAt[e] = Never
    /\ e \in flow => entry[e] = "absent"

Typed == /\ now \in Nat
         /\ entry \in [Entry -> Running \cup {"absent", "not_loaded", "failed", "cancelled"}]
         /\ entitled \in [Entry -> 0..MaxBudget]
         /\ leftAt \in [Entry -> Nat \cup {Never}]

Inv == /\ Typed /\ Sound(registry) /\ Ruled(registry)
       /\ \A e \in Entry : Placed(e)

LEMMA Facts ==
    ASSUME Inv
    PROVE  /\ registry \in Registry /\ now \in Nat /\ Window \in Nat \ {0} /\ Lag \in Nat
           /\ \A e \in Entry : /\ registry.claims[e] \in Nat /\ registry.graceEnd[e] \in Nat
                               /\ registry.timer[e] = registry.graceEnd[e]
                               /\ leftAt[e] \in Nat \cup {Never}
<1>1. registry \in Registry
  BY DEF Inv, Sound
<1>2. \A e \in Entry : registry.claims[e] \in 0..MaxBudget /\ registry.graceEnd[e] \in Nat
  BY <1>1 DEF Registry
<1> QED
  BY <1>1, <1>2, RegistryAssumption DEF Inv, Sound, Typed

(* Who is owed a claim does not lapse. *)
LEMMA NotLapsed ==
    ASSUME Inv, NEW e \in Entry, entry[e] \in Running \/ Recent(e)
    PROVE  e \notin Lapsed(registry, now)
<1>1. registry.graceEnd[e] # 0 => Recent(e) /\ leftAt[e] + Window <= registry.graceEnd[e]
  BY DEF Inv, Placed, Departed
<1>2. Recent(e) => leftAt[e] + Window \in Nat /\ now < leftAt[e] + Window
  BY Facts DEF Recent
<1> QED
  BY <1>1, <1>2, Facts DEF Lapsed

(* An entry that a step treats no worse than to retire its lapsed claim. *)
Spared(k) ==
    /\ registry'.claims[k] = IF k \in Lapsed(registry, now) THEN NoClaim ELSE registry.claims[k]
    /\ registry'.graceEnd[k] = IF k \in Lapsed(registry, now) THEN 0 ELSE registry.graceEnd[k]
    /\ k \notin Lapsed(registry, now) /\ registry.claims[k] # NoClaim
           => registry'.pacer[k] = registry.pacer[k]

LEMMA SparedPlaced ==
    ASSUME Inv, NEW k \in Entry, Spared(k), now' = now, entry'[k] = entry[k],
           entitled'[k] = entitled[k], leftAt'[k] = leftAt[k],
           k \in flow' => entry[k] = "absent"
    PROVE  Placed(k)'
<1>0. Placed(k)
  BY DEF Inv
<1>1. Recent(k)' = Recent(k)
  BY DEF Recent
<1>2. CASE k \in Lapsed(registry, now)
  <2>1. registry'.claims[k] = NoClaim /\ registry'.graceEnd[k] = 0
    BY <1>2 DEF Spared
  <2>2. ~(entry[k] \in Running \/ Recent(k))
    BY <1>2, NotLapsed
  <2> QED
    BY <1>0, <1>1, <2>1, <2>2 DEF Placed, Entitled, Departed
<1>3. CASE k \notin Lapsed(registry, now)
  <2>1. /\ registry'.claims[k] = registry.claims[k]
        /\ registry'.graceEnd[k] = registry.graceEnd[k]
        /\ registry.claims[k] # NoClaim => registry'.pacer[k] = registry.pacer[k]
    BY <1>3 DEF Spared
  <2>2. entry[k] \in Running => registry.claims[k] # NoClaim
    BY <1>0 DEF Placed, Entitled
  <2> QED
    BY <1>0, <1>1, <2>1, <2>2 DEF Placed, Entitled, Departed
<1> QED
  BY <1>2, <1>3

LEMMA ExpiredSpared ==
    ASSUME Inv, NEW k \in Entry, registry' = Expire(registry, now)
    PROVE  Sound(registry') /\ Ruled(registry') /\ Spared(k)
BY ExpireRule DEF Inv, Without, Spared

(* With the claims as they were. *)
LEMMA UntouchedPlaced ==
    ASSUME Inv, NEW k \in Entry, UNCHANGED <<now, registry>>, entry'[k] = entry[k],
           entitled'[k] = entitled[k], leftAt'[k] = leftAt[k],
           k \in flow' => entry[k] = "absent"
    PROVE  Placed(k)'
BY DEF Inv, Placed, Entitled, Departed, Recent
-----------------------------------------------------------------------------
LEMMA TickKeeps ==
    ASSUME Inv, Tick
    PROVE  Inv'
<1>0. /\ now' = now + 1
      /\ UNCHANGED <<known, entry, flow, option, registry, entitled, leftAt>>
  BY DEF Tick, haVars, historyVars
<1>1. Typed'
  BY <1>0 DEF Inv, Typed
<1>2. ASSUME NEW e \in Entry PROVE Placed(e)'
  <2>1. Placed(e) /\ (registry.timer[e] # 0 => now < registry.timer[e] + Lag)
    BY DEF Inv, Tick
  <2>2. Recent(e)' => Recent(e)
    BY <1>0, Facts DEF Recent
  <2>3. registry.graceEnd[e] # 0 => now' <= registry.graceEnd[e] + Lag
    BY <1>0, <2>1, Facts
  <2> QED
    BY <1>0, <2>1, <2>2, <2>3 DEF Placed, Entitled, Departed
<1> QED
  BY <1>0, <1>1, <1>2 DEF Inv

LEMMA FlowBeginKeeps ==
    ASSUME Inv, NEW e \in Entry, FlowBegin(e)
    PROVE  Inv'
<1>0. /\ UNCHANGED <<now, entry, entitled, leftAt>> /\ registry' = Expire(registry, now)
      /\ flow' = flow \cup {e} /\ entry[e] = "absent"
  BY DEF FlowBegin, historyVars
<1>1. \A k \in Entry : k \in flow' => entry[k] = "absent"
  BY <1>0 DEF Inv, Placed
<1>2. \A k \in Entry : Placed(k)'
  BY <1>0, <1>1, ExpiredSpared, SparedPlaced
<1> QED
  BY <1>0, <1>2, ExpiredSpared DEF Inv, Typed

LEMMA FlowEndKeeps ==
    ASSUME Inv, NEW e \in Entry, FlowEnd(e)
    PROVE  Inv'
<1>0. /\ UNCHANGED <<now, registry, entitled, leftAt>> /\ flow' = flow \ {e}
      /\ entry' = entry \/ entry' = [entry EXCEPT ![e] = "not_loaded"]
      /\ entry[e] = "absent"
  BY DEF FlowEnd, historyVars, Inv, Placed
<1>1. \A k \in Entry \ {e} : entry'[k] = entry[k]
  BY <1>0 DEF Inv, Typed
<1>2. \A k \in Entry : k \in flow' => k # e /\ entry[k] = "absent"
  BY <1>0 DEF Inv, Placed
<1>3. \A k \in Entry \ {e} : Placed(k)'
  BY <1>0, <1>1, <1>2, UntouchedPlaced
<1>4. Placed(e)'
  <2>1. CASE entry' = entry
    BY <1>0, <1>2, <2>1, UntouchedPlaced
  <2>2. CASE entry' = [entry EXCEPT ![e] = "not_loaded"]
    <3>1. entry'[e] = "not_loaded" /\ registry.claims[e] = NoClaim /\ leftAt[e] = Never
      BY <1>0, <2>2 DEF Inv, Typed, Placed
    <3>2. registry.graceEnd[e] = 0
      BY <3>1 DEF Inv, Sound
    <3> QED
      BY <1>0, <1>2, <3>1, <3>2 DEF Placed, Entitled, Departed, Recent, Running
  <2> QED
    BY <1>0, <2>1, <2>2
<1> QED
  BY <1>0, <1>3, <1>4 DEF Inv, Typed

(* The registry once the lapsed are retired and the entry's grace is over. *)
LEMMA MineRule ==
    ASSUME Inv, NEW e \in Entry
    PROVE  LET fresh == Expire(registry, now)
               mine == Reclaim(fresh, e)
           IN  /\ Sound(mine) /\ Ruled(mine) /\ mine.graceEnd[e] = 0
               /\ Lapsed(mine, now) = {}
               /\ \A k \in Entry :
                      /\ mine.claims[k] = IF k \in Lapsed(registry, now) THEN NoClaim
                                          ELSE registry.claims[k]
                      /\ k # e => mine.graceEnd[k] = IF k \in Lapsed(registry, now) THEN 0
                                                     ELSE registry.graceEnd[k]
                      /\ k \notin Lapsed(registry, now) /\ registry.claims[k] # NoClaim
                             => mine.pacer[k] = registry.pacer[k]
<1> DEFINE fresh == Expire(registry, now)
           mine == Reclaim(fresh, e)
<1>1. Sound(fresh) /\ Ruled(fresh) /\ Without(fresh, registry, Lapsed(registry, now))
  BY ExpireRule DEF Inv
<1> HIDE DEF fresh
<1>2. /\ Sound(mine) /\ Ruled(mine)
      /\ mine.claims = fresh.claims /\ mine.pacer = fresh.pacer
      /\ \A k \in Entry : mine.graceEnd[k] = IF k = e THEN 0 ELSE fresh.graceEnd[k]
  BY <1>1, ReclaimRule
<1> HIDE DEF mine
<1>3. Lapsed(mine, now) = {}
  BY <1>1, <1>2 DEF Lapsed, Without
<1> QED
  BY <1>1, <1>2, <1>3 DEF fresh, mine, Without

LEMMA SetupRefusedKeeps ==
    ASSUME Inv, NEW e \in Entry, SetupRefused(e)
    PROVE  Inv'
<1> DEFINE mine == Reclaim(Expire(registry, now), e)
<1>0. /\ UNCHANGED <<now, flow, entitled, leftAt>> /\ entry' = [entry EXCEPT ![e] = "failed"]
      /\ registry' = ScheduleRelease(mine, e, now) /\ Established(mine) # AccountOf[e]
      /\ entry[e] \in {"not_loaded", "failed", "cancelled"} /\ now \in Nat
  BY Facts DEF SetupRefused, historyVars
<1>1. /\ Sound(mine) /\ Ruled(mine) /\ mine.graceEnd[e] = 0 /\ Lapsed(mine, now) = {}
      /\ \A k \in Entry :
             /\ mine.claims[k] = IF k \in Lapsed(registry, now) THEN NoClaim
                                 ELSE registry.claims[k]
             /\ k # e => mine.graceEnd[k] = IF k \in Lapsed(registry, now) THEN 0
                                            ELSE registry.graceEnd[k]
             /\ k \notin Lapsed(registry, now) /\ registry.claims[k] # NoClaim
                    => mine.pacer[k] = registry.pacer[k]
  BY MineRule
<1> HIDE DEF mine
<1>2. Expire(mine, now) = mine
  BY <1>1 DEF Expire
<1>3. mine.claims[e] = NoClaim
  BY <1>0, <1>1 DEF Established, Claimants, Sound
<1>4. /\ Sound(registry') /\ Ruled(registry')
      /\ registry'.claims = mine.claims /\ registry'.pacer = mine.pacer
      /\ \A k \in Entry : registry'.graceEnd[k] = mine.graceEnd[k]
  <2>1. Sound(mine) /\ Ruled(mine) /\ now \in Nat /\ registry' = ScheduleRelease(mine, e, now)
    BY <1>0, <1>1 DEF Inv, Typed
  <2> QED
    BY <2>1, <1>2, <1>3, ScheduleRule
<1>5. entry'[e] = "failed" /\ \A k \in Entry \ {e} : entry'[k] = entry[k]
  BY <1>0 DEF Inv, Typed
<1>6. \A k \in Entry \ {e} : Placed(k)'
  <2> SUFFICES ASSUME NEW k \in Entry \ {e} PROVE Placed(k)'
    OBVIOUS
  <2>1. Spared(k)
    BY <1>1, <1>4 DEF Spared
  <2>2. k \in flow' => entry[k] = "absent"
    BY <1>0 DEF Inv, Placed
  <2> QED
    BY <1>0, <1>5, <2>1, <2>2, SparedPlaced
<1>7. Placed(e)'
  <2>1. ~Recent(e)
    BY <1>1, <1>3, NotLapsed DEF Inv, Placed, Entitled
  <2>2. ~Recent(e)' /\ entry'[e] \notin Running /\ e \notin flow'
    BY <1>0, <1>5, <2>1 DEF Recent, Running, Inv, Placed
  <2> QED
    BY <1>1, <1>3, <1>4, <1>5, <2>2 DEF Placed, Entitled, Departed
<1> QED
  BY <1>0, <1>4, <1>5, <1>6, <1>7 DEF Inv, Typed

LEMMA SetupBeginKeeps ==
    ASSUME Inv, NEW e \in Entry, SetupBegin(e)
    PROVE  Inv'
<1> DEFINE mine == Reclaim(Expire(registry, now), e)
<1>0. /\ UNCHANGED <<now, flow, leftAt>> /\ entry' = [entry EXCEPT ![e] = "setting_up"]
      /\ registry' = Claim(mine, e, EntryBudget(e)) /\ Established(mine) = AccountOf[e]
      /\ entry[e] \in {"not_loaded", "failed", "cancelled"}
      /\ entitled' = [entitled EXCEPT ![e] = EntryBudget(e)]
  BY DEF SetupBegin
<1>1. /\ Sound(mine) /\ Ruled(mine) /\ mine.graceEnd[e] = 0 /\ Lapsed(mine, now) = {}
      /\ \A k \in Entry :
             /\ mine.claims[k] = IF k \in Lapsed(registry, now) THEN NoClaim
                                 ELSE registry.claims[k]
             /\ k # e => mine.graceEnd[k] = IF k \in Lapsed(registry, now) THEN 0
                                            ELSE registry.graceEnd[k]
             /\ k \notin Lapsed(registry, now) /\ registry.claims[k] # NoClaim
                    => mine.pacer[k] = registry.pacer[k]
  BY MineRule
<1> HIDE DEF mine
<1>2. EntryBudget(e) \in 1..MaxBudget /\ EntryBudget(e) # NoClaim
  BY RegistryAssumption DEF EntryBudget, NoClaim
<1>3. /\ Sound(registry') /\ Ruled(registry') /\ registry'.graceEnd = mine.graceEnd
      /\ \A k \in Entry :
             /\ registry'.claims[k] = IF k = e THEN EntryBudget(e) ELSE mine.claims[k]
             /\ registry'.pacer[k] = IF k = e THEN "open" ELSE mine.pacer[k]
  BY <1>0, <1>1, <1>2, ClaimRule
<1>4. /\ entry'[e] = "setting_up" /\ entitled'[e] = EntryBudget(e)
      /\ \A k \in Entry \ {e} : entry'[k] = entry[k] /\ entitled'[k] = entitled[k]
  BY <1>0 DEF Inv, Typed
<1>5. \A k \in Entry \ {e} : Placed(k)'
  <2> SUFFICES ASSUME NEW k \in Entry \ {e} PROVE Placed(k)'
    OBVIOUS
  <2>1. Spared(k)
    BY <1>1, <1>3 DEF Spared
  <2>2. k \in flow' => entry[k] = "absent"
    BY <1>0 DEF Inv, Placed
  <2> QED
    BY <1>0, <1>4, <2>1, <2>2, SparedPlaced
<1>6. Placed(e)'
  <2>1. e \notin flow'
    BY <1>0 DEF Inv, Placed
  <2> QED
    BY <1>1, <1>2, <1>3, <1>4, <2>1 DEF Placed, Entitled, Departed
<1>7. Typed'
  <2>1. EntryBudget(e) \in 0..MaxBudget
    BY <1>2, RegistryAssumption
  <2>2. /\ entry' \in [Entry -> Running \cup {"absent", "not_loaded", "failed", "cancelled"}]
        /\ entitled' \in [Entry -> 0..MaxBudget]
    BY <1>0, <2>1 DEF Inv, Typed, Running
  <2> QED
    BY <1>0, <2>2 DEF Inv, Typed
<1> QED
  BY <1>3, <1>5, <1>6, <1>7 DEF Inv

(* What leaves the registry and the clock alone, and runs on or not. *)
LEMMA SwitchKeeps ==
    ASSUME Inv, NEW e \in Entry, NEW state \in {"loaded", "stuck", "cancelled"},
           entry[e] \in Running, entry' = [entry EXCEPT ![e] = state],
           UNCHANGED <<now, flow, registry, entitled>>,
           \/ leftAt' = leftAt /\ state # "cancelled"
           \/ leftAt' = [leftAt EXCEPT ![e] = now] /\ state = "cancelled"
    PROVE  Inv'
<1>1. entry'[e] = state /\ \A k \in Entry \ {e} : entry'[k] = entry[k] /\ leftAt'[k] = leftAt[k]
  BY DEF Inv, Typed
<1>2. \A k \in Entry : k \in flow' => k # e /\ entry[k] = "absent"
  BY DEF Inv, Placed, Running
<1>3. \A k \in Entry \ {e} : Placed(k)'
  BY <1>1, <1>2, UntouchedPlaced
<1>4. Placed(e)'
  <2>1. /\ registry.graceEnd[e] = 0 /\ registry.pacer[e] = "open"
        /\ registry.claims[e] = entitled[e] /\ registry.claims[e] # NoClaim
    BY DEF Inv, Placed, Entitled
  <2> QED
    BY <1>1, <1>2, <2>1 DEF Placed, Entitled, Departed
<1>5. Typed'
  BY DEF Inv, Typed, Running
<1> QED
  BY <1>3, <1>4, <1>5 DEF Inv

(* SetupFailed and Unload *)
LEMMA LeaveKeeps ==
    ASSUME Inv, NEW e \in Entry, NEW state \in {"failed", "not_loaded"},
           entry[e] \in Running, entry' = [entry EXCEPT ![e] = state],
           registry' = ScheduleRelease(registry, e, now),
           leftAt' = [leftAt EXCEPT ![e] = now], UNCHANGED <<now, flow, entitled>>
    PROVE  Inv'
<1> DEFINE fresh == Expire(registry, now)
<1>0. /\ Without(fresh, registry, Lapsed(registry, now)) /\ e \notin Lapsed(registry, now)
      /\ now \in Nat /\ Window \in Nat \ {0} /\ Lag \in Nat
      /\ registry.claims[e] # NoClaim /\ registry.claims[e] = entitled[e]
  BY Facts, ExpireRule, NotLapsed DEF Inv, Placed, Entitled
<1>1. /\ Sound(registry') /\ Ruled(registry')
      /\ registry'.claims = fresh.claims /\ registry'.pacer = fresh.pacer
      /\ \A k \in Entry :
             registry'.graceEnd[k] = IF k = e /\ fresh.claims[e] # NoClaim THEN now + Window
                                     ELSE fresh.graceEnd[k]
  BY <1>0, ScheduleRule DEF Inv
<1> HIDE DEF fresh
<1>2. registry'.claims[e] = registry.claims[e] /\ registry'.graceEnd[e] = now + Window
  BY <1>0, <1>1 DEF Without
<1>3. /\ entry'[e] = state /\ leftAt'[e] = now
      /\ \A k \in Entry \ {e} : entry'[k] = entry[k] /\ leftAt'[k] = leftAt[k]
  BY DEF Inv, Typed
<1>4. \A k \in Entry : k \in flow' => k # e /\ entry[k] = "absent"
  BY DEF Inv, Placed, Running
<1>5. \A k \in Entry \ {e} : Placed(k)'
  <2> SUFFICES ASSUME NEW k \in Entry \ {e} PROVE Placed(k)'
    OBVIOUS
  <2>1. Spared(k)
    BY <1>0, <1>1 DEF Spared, Without
  <2> QED
    BY <1>3, <1>4, <2>1, SparedPlaced
<1>6. Placed(e)'
  <2>1. /\ now + Window # 0 /\ now <= now + Window + Lag /\ now + Window <= now + Window
        /\ now # Never
    BY <1>0 DEF Never
  <2> QED
    BY <1>0, <1>2, <1>3, <1>4, <2>1 DEF Placed, Entitled, Departed, Running
<1>7. Typed'
  BY <1>0 DEF Inv, Typed
<1> QED
  BY <1>1, <1>5, <1>6, <1>7 DEF Inv

LEMMA RemoveEntryKeeps ==
    ASSUME Inv, NEW e \in Entry, RemoveEntry(e)
    PROVE  Inv'
<1> DEFINE fresh == Expire(registry, now)
<1>0. /\ UNCHANGED <<now, flow>> /\ entry' = [entry EXCEPT ![e] = "absent"]
      /\ registry' = IF fresh.claims[e] = NoClaim THEN Drop(fresh, {e})
                     ELSE ApplyMinima(Drop(fresh, {e}))
      /\ entitled' = [entitled EXCEPT ![e] = NoClaim]
      /\ leftAt' = [leftAt EXCEPT ![e] = Never]
  BY DEF RemoveEntry
<1>1. Sound(fresh) /\ Ruled(fresh) /\ Without(fresh, registry, Lapsed(registry, now))
  BY ExpireRule DEF Inv
<1> HIDE DEF fresh
<1>2. Sound(registry') /\ Ruled(registry') /\ Without(registry', fresh, {e})
  <2>1. CASE fresh.claims[e] # NoClaim
    BY <1>0, <1>1, <2>1, DropRule
  <2>2. CASE fresh.claims[e] = NoClaim
    <3> DEFINE new == Drop(fresh, {e})
    <3>1. Sound(new) /\ Without(new, fresh, {e})
      BY <1>1, DropSound
    <3>2. new.ipBudget = fresh.ipBudget /\ new.accountBudget = fresh.accountBudget
      BY DEF Drop
    <3>3. registry' = new
      BY <1>0, <2>2
    <3> HIDE DEF new
    <3>4. \A k \in Entry : new.claims[k] = fresh.claims[k]
      BY <2>2, <3>1 DEF Without
    <3>5. /\ Claimants(new) = Claimants(fresh) /\ Claims(new) = Claims(fresh)
          /\ \A a : ClaimsOn(new, a) = ClaimsOn(fresh, a)
      BY <3>4 DEF Claimants, Claims, ClaimsOn
    <3>6. new.limiters = fresh.limiters
      BY <1>1, <3>1, <3>5 DEF Sound
    <3>7. Ruled(new)
      BY <1>1, <3>2, <3>5, <3>6 DEF Ruled
    <3> QED
      BY <3>1, <3>3, <3>7
  <2> QED
    BY <2>1, <2>2
<1>3. /\ entry'[e] = "absent" /\ leftAt'[e] = Never
      /\ \A k \in Entry \ {e} : /\ entry'[k] = entry[k] /\ leftAt'[k] = leftAt[k]
                               /\ entitled'[k] = entitled[k]
  BY <1>0 DEF Inv, Typed
<1>4. \A k \in Entry \ {e} : Placed(k)'
  <2> SUFFICES ASSUME NEW k \in Entry \ {e} PROVE Placed(k)'
    OBVIOUS
  <2>1. Spared(k)
    BY <1>1, <1>2 DEF Spared, Without
  <2>2. k \in flow' => entry[k] = "absent"
    BY <1>0 DEF Inv, Placed
  <2> QED
    BY <1>0, <1>3, <2>1, <2>2, SparedPlaced
<1>5. Placed(e)'
  <2>1. registry'.claims[e] = NoClaim /\ registry'.graceEnd[e] = 0
    BY <1>2 DEF Without
  <2> QED
    BY <1>3, <2>1 DEF Placed, Entitled, Departed, Recent, Running
<1>6. Typed'
  BY <1>0, RegistryAssumption DEF Inv, Typed, NoClaim
<1> QED
  BY <1>2, <1>4, <1>5, <1>6 DEF Inv

(* The timer that comes for a claim finds it lapsed, so that it does what  *)
(* any other function of the registry would have done.                     *)
LEMMA ReleaseDueKeeps ==
    ASSUME Inv, NEW e \in Entry, ReleaseDue(e)
    PROVE  Inv'
<1> DEFINE fired == [registry EXCEPT !.timer[e] = 0]
           gone == Lapsed(registry, now)
<1>0. /\ UNCHANGED <<now, known, entry, flow, option, entitled, leftAt>>
      /\ registry' = Expire(fired, now)
  BY DEF ReleaseDue, haVars, historyVars
<1>1. e \in gone
  BY Facts DEF ReleaseDue, Lapsed
<1>2. /\ fired.claims = registry.claims /\ fired.graceEnd = registry.graceEnd
      /\ fired.limiters = registry.limiters /\ fired.pacer = registry.pacer
      /\ fired.ipBudget = registry.ipBudget /\ fired.accountBudget = registry.accountBudget
      /\ fired.timer = [registry.timer EXCEPT ![e] = 0]
  BY Facts DEF Registry
<1>3. Lapsed(fired, now) = gone
  BY <1>2 DEF Lapsed
<1>4. [k \in Entry |-> IF k \in gone THEN 0 ELSE fired.timer[k]]
          = [k \in Entry |-> IF k \in gone THEN 0 ELSE registry.timer[k]]
  <2>1. \A k \in Entry \ {e} : fired.timer[k] = registry.timer[k]
    BY <1>2, Facts DEF Registry
  <2> HIDE DEF fired, gone
  <2> QED
    BY <1>1, <2>1
<1>5. Claimants(fired) = Claimants(registry)
  BY <1>2 DEF Claimants
<1> HIDE DEF fired, gone
<1>6. Drop(fired, gone) = Drop(registry, gone)
  BY <1>2, <1>4, <1>5, Zenon DEF Drop
<1>7. registry' = Expire(registry, now)
  BY <1>0, <1>1, <1>3, <1>6 DEF Expire, gone
<1>8. \A k \in Entry : Placed(k)'
  BY <1>0, <1>7, ExpiredSpared, SparedPlaced DEF Inv, Placed
<1> QED
  BY <1>0, <1>7, <1>8, ExpiredSpared DEF Inv, Typed

LEMMA StutterKeeps ==
    ASSUME Inv, UNCHANGED <<now, entry, flow, registry, entitled, leftAt>>
    PROVE  Inv'
<1>1. \A k \in Entry : Placed(k)'
  BY UntouchedPlaced DEF Inv, Placed
<1> QED
  BY <1>1 DEF Inv, Typed

LEMMA InitInv == Init => Inv
<1> SUFFICES ASSUME Init PROVE Inv
  OBVIOUS
<1>1. /\ registry.claims = [e \in Entry |-> NoClaim] /\ registry.graceEnd = [e \in Entry |-> 0]
      /\ registry.timer = [e \in Entry |-> 0] /\ registry.limiters = {}
      /\ registry.ipBudget = DefaultBudget /\ registry \in Registry
  BY RegistryAssumption DEF Init, Registry, NoClaim
<1>2. Claimants(registry) = {} /\ Claims(registry) = {}
  BY <1>1 DEF Claimants, Claims
<1>3. Sound(registry) /\ Ruled(registry)
  BY <1>1, <1>2 DEF Sound, Ruled
<1>4. /\ now \in Nat /\ flow = {} /\ entitled \in [Entry -> 0..MaxBudget]
      /\ leftAt = [e \in Entry |-> Never]
  BY RegistryAssumption DEF Init, NoClaim
<1>5. entry \in [Entry -> {"absent", "not_loaded"}]
  <2>1. entry = [e \in Entry |-> IF e \in ToSet(known) THEN "not_loaded" ELSE "absent"]
    BY DEF Init
  <2> QED
    BY <2>1
<1>6. Typed
  BY <1>4, <1>5 DEF Typed
<1>7. \A e \in Entry : Placed(e)
  BY <1>1, <1>4, <1>5 DEF Placed, Entitled, Departed, Recent, Running
<1> QED
  BY <1>3, <1>6, <1>7 DEF Inv

LEMMA StepInv == Inv /\ [Next]_vars => Inv'
<1> SUFFICES ASSUME Inv, [Next]_vars PROVE Inv'
  OBVIOUS
<1>1. CASE Tick
  BY <1>1, TickKeeps
<1>2. ASSUME NEW e \in Entry,
             \/ FlowBegin(e) \/ FlowEnd(e) \/ SetupRefused(e) \/ SetupBegin(e)
             \/ RemoveEntry(e) \/ ReleaseDue(e)
      PROVE  Inv'
  BY <1>2, FlowBeginKeeps, FlowEndKeeps, SetupRefusedKeeps, SetupBeginKeeps,
     RemoveEntryKeeps, ReleaseDueKeeps
<1>3. ASSUME NEW e \in Entry, SetupDone(e) \/ SetupCancelled(e) \/ UnloadFailed(e)
      PROVE  Inv'
  BY <1>3, SwitchKeeps DEF SetupDone, SetupCancelled, UnloadFailed, historyVars, Running
<1>4. ASSUME NEW e \in Entry, SetupFailed(e) \/ Unload(e)
      PROVE  Inv'
  BY <1>4, LeaveKeeps DEF SetupFailed, Unload, Running
<1>5. ASSUME NEW e \in Entry, NEW budget \in Options, ChangeOptions(e, budget)
      PROVE  Inv'
  BY <1>5, StutterKeeps DEF ChangeOptions, historyVars
<1>6. CASE UNCHANGED vars
  BY <1>6, StutterKeeps DEF vars, haVars, historyVars
<1> QED
  BY <1>1, <1>2, <1>3, <1>4, <1>5, <1>6 DEF Next, Horizon

LEMMA Invariance == Spec => []Inv
BY InitInv, StepInv, PTL DEF Spec
-----------------------------------------------------------------------------
(***************************************************************************)
(* The clients of a running entry pace against the open limiter of its     *)
(* account, whatever other entries are set up, unloaded, removed or fail,  *)
(* and whatever was left of an earlier life of this one (register_entry,   *)
(* _drop, _expire_pending).                                                *)
(***************************************************************************)
THEOREM EntriesPaced == Spec => []RunningEntriesPaced
<1>1. Inv => RunningEntriesPaced
  BY DEF Inv, Placed, Entitled, Sound, Claimants, RunningEntriesPaced
<1> QED
  BY Invariance, <1>1, PTL

(***************************************************************************)
(* Never are claims of two accounts registered together, nor is there a    *)
(* limiter without a claim or a claim without one (register_entry, which   *)
(* refuses the second account).                                            *)
(***************************************************************************)
THEOREM AccountAlone == Spec => []OneAccount
<1>1. Inv => OneAccount
  BY DEF Inv, Sound, OneAccount
<1> QED
  BY Invariance, <1>1, PTL

(***************************************************************************)
(* A reload, a failed set-up or an unload never raises a gate's budget     *)
(* above what the entry asked for before a window has passed               *)
(* (schedule_release, apply_minima).                                       *)
(***************************************************************************)
THEOREM ReloadNoWindfall == Spec => []NoWindfall
<1>1. ASSUME Inv, NEW e \in Entry, entry[e] \in Running \/ Recent(e)
      PROVE  /\ registry.ipBudget <= entitled[e]
             /\ registry.accountBudget[AccountOf[e]] <= entitled[e]
  <2>1. registry \in Registry /\ Sound(registry) /\ Ruled(registry)
    BY <1>1, Facts DEF Inv
  <2>2. registry.claims[e] = entitled[e] /\ registry.claims[e] # NoClaim
    BY <1>1 DEF Inv, Placed, Entitled
  <2>3. /\ registry.claims[e] \in Claims(registry)
        /\ registry.claims[e] \in ClaimsOn(registry, AccountOf[e])
        /\ Claims(registry) \subseteq 1..MaxBudget
        /\ ClaimsOn(registry, AccountOf[e]) \subseteq 1..MaxBudget
    BY <2>1, <2>2, ClaimsInRange
  <2>4. /\ Min(Claims(registry)) <= registry.claims[e]
        /\ Min(ClaimsOn(registry, AccountOf[e])) <= registry.claims[e]
    BY <2>3, LowestOf
  <2>5. AccountOf[e] \in registry.limiters
    BY <2>1, <2>2 DEF Sound, Claimants
  <2> QED
    BY <2>1, <2>2, <2>3, <2>4, <2>5 DEF Ruled
<1>2. Inv => NoWindfall
  BY <1>1 DEF NoWindfall, Recent
<1> QED
  BY Invariance, <1>2, PTL

(***************************************************************************)
(* The budgets in force are the minima of the claims that count, after     *)
(* every way a claim can come or go (apply_minima and its callers).        *)
(***************************************************************************)
THEOREM MinimaRuling == Spec => []NoHigherThanNeeded
<1>1. Inv => NoHigherThanNeeded
  BY DEF Inv, Ruled, Claims, NoHigherThanNeeded
<1> QED
  BY Invariance, <1>1, PTL

(***************************************************************************)
(* Every claim is of an entry that runs, of one whose setup was cancelled, *)
(* or of one that was unloaded or failed no longer ago than a window and   *)
(* the time the loop is late (_release_is_due, _expire_pending); no        *)
(* removed entry has one (async_remove_entry).                             *)
(***************************************************************************)
THEOREM ClaimsEnd == Spec => []ClaimsLapse
<1>1. Inv => ClaimsLapse
  <2> SUFFICES ASSUME Inv, NEW e \in Claimants(registry),
                      entry[e] \notin Running \cup {"cancelled"}
               PROVE  entry[e] \in {"not_loaded", "failed"} /\ now <= leftAt[e] + Window + Lag
    BY DEF ClaimsLapse
  <2>1. e \in Entry /\ registry.claims[e] # NoClaim /\ Placed(e)
    BY DEF Inv, Claimants
  <2>2. entry[e] \in {"not_loaded", "failed"}
    BY <2>1 DEF Inv, Typed, Placed
  <2> QED
    BY <2>1, <2>2 DEF Placed, Departed
<1> QED
  BY Invariance, <1>1, PTL

(* An element is somewhere in a sequence. *)
Holds(s, e) == \E i \in DOMAIN s : s[i] = e

(* The configured entries are listed once each, and no others. *)
Listed ==
    /\ known \in Seq(Entry) /\ IsInjective(known)
    /\ \A e \in Entry : entry[e] # "absent" <=> Holds(known, e)
    /\ flow \subseteq Entry
    /\ option \in [Entry -> Int]

(* The sequence without one of its places lists all but that element. *)
LEMMA Removed ==
    ASSUME NEW s \in Seq(Entry), IsInjective(s), NEW at \in DOMAIN s
    PROVE  LET r == RemoveAt(s, at) IN
           /\ r \in Seq(Entry) /\ IsInjective(r)
           /\ \A e : Holds(r, e) <=> e # s[at] /\ Holds(s, e)
<1> DEFINE before == SubSeq(s, 1, at - 1)
           after == SubSeq(s, at + 1, Len(s))
           r == before \o after
           rank(i) == IF i < at THEN i ELSE i + 1
<1>1. at \in 1..Len(s) /\ at \in Nat /\ Len(s) \in Nat
  OBVIOUS
<1>2. /\ before \in Seq(Entry) /\ Len(before) = at - 1
      /\ \A i \in 1..at - 1 : before[i] = s[i]
  BY <1>1
<1>3. /\ after \in Seq(Entry) /\ Len(after) = Len(s) - at
      /\ \A i \in 1..Len(s) - at : after[i] = s[at + i]
  BY <1>1
<1> HIDE DEF before, after
<1>4. r \in Seq(Entry) /\ Len(r) = Len(s) - 1
  BY <1>1, <1>2, <1>3
<1>5. \A i \in 1..Len(s) - 1 : r[i] = s[rank(i)] /\ rank(i) \in 1..Len(s) /\ rank(i) # at
  <2> TAKE i \in 1..Len(s) - 1
  <2>1. CASE i < at
    BY <1>1, <1>2, <1>3, <2>1
  <2>2. CASE ~(i < at)
    <3>1. r[i] = after[i - (at - 1)] /\ i - (at - 1) \in 1..Len(s) - at
      BY <1>1, <1>2, <1>3, <2>2
    <3>2. at + (i - (at - 1)) = i + 1
      BY <1>1
    <3> QED
      BY <1>1, <1>3, <2>2, <3>1, <3>2
  <2> QED
    BY <2>1, <2>2
<1>6. DOMAIN r = 1..Len(s) - 1 /\ DOMAIN s = 1..Len(s)
  BY <1>4
<1>7. RemoveAt(s, at) = r
  BY DEF RemoveAt, before, after
<1> HIDE DEF r
<1>8. IsInjective(r)
  <2> SUFFICES ASSUME NEW i \in 1..Len(s) - 1, NEW j \in 1..Len(s) - 1, r[i] = r[j] PROVE i = j
    BY <1>6 DEF IsInjective
  <2>1. rank(i) = rank(j)
    BY <1>5, <1>6 DEF IsInjective
  <2> QED
    BY <1>1, <2>1
<1>9. ASSUME NEW e
      PROVE  Holds(r, e) <=> e # s[at] /\ Holds(s, e)
  <2>1. ASSUME NEW i \in DOMAIN r, r[i] = e PROVE e # s[at] /\ \E k \in DOMAIN s : s[k] = e
    <3>1. e = s[rank(i)] /\ rank(i) \in DOMAIN s /\ rank(i) # at
      BY <1>5, <1>6, <2>1
    <3> HIDE DEF rank
    <3> QED
      BY <3>1 DEF IsInjective
  <2>2. ASSUME NEW k \in DOMAIN s, s[k] = e, e # s[at] PROVE \E i \in DOMAIN r : r[i] = e
    <3> DEFINE i == IF k < at THEN k ELSE k - 1
    <3>1. k # at /\ i \in 1..Len(s) - 1 /\ rank(i) = k
      BY <1>1, <1>6, <2>2
    <3> QED
      BY <1>5, <1>6, <2>2, <3>1
  <2> QED
    BY <2>1, <2>2 DEF Holds
<1> QED
  BY <1>4, <1>7, <1>8, <1>9

(* Home Assistant starts with the entries it has stored. *)
LEMMA ListedFirst == Init => Listed
<1> SUFFICES ASSUME Init PROVE Listed
  OBVIOUS
<1>1. PICK stored \in SUBSET Entry : known \in SetToSeqs(stored)
  BY DEF Init
<1>2. Cardinality(stored) \in Nat
  BY RegistryAssumption, FS_Subset, FS_CardinalityType
<1>3. /\ known \in [1..Cardinality(stored) -> stored]
      /\ \A i, j \in 1..Cardinality(stored) : i # j => known[i] # known[j]
  BY <1>1 DEF SetToSeqs
<1>4. known \in Seq(Entry) /\ IsInjective(known)
  BY <1>2, <1>3 DEF IsInjective
<1>5. \A e \in Entry : entry[e] # "absent" <=> Holds(known, e)
  BY DEF Init, ToSet, Holds
<1>6. option \in [Entry -> Int]
  BY RegistryAssumption DEF Init
<1> QED
  BY <1>4, <1>5, <1>6 DEF Init, Listed

(* A new entry was not listed before, and one that is removed no longer is. *)
LEMMA ListedKept == Inv /\ Listed /\ [Next]_vars => Listed'
<1> SUFFICES ASSUME Inv, Listed, [Next]_vars PROVE Listed'
  OBVIOUS
<1>0. entry \in [Entry -> Running \cup {"absent", "not_loaded", "failed", "cancelled"}]
  BY DEF Inv, Typed
<1>1. ASSUME UNCHANGED <<known, option>>, flow' \subseteq Entry,
             \A e \in Entry : entry'[e] = "absent" <=> entry[e] = "absent"
      PROVE  Listed'
  BY <1>1 DEF Listed
<1>2. CASE Tick \/ Horizon \/ UNCHANGED vars
  BY <1>1, <1>2 DEF Listed, Tick, Horizon, vars, haVars
<1>3. ASSUME NEW e \in Entry,
             \/ SetupRefused(e) \/ SetupBegin(e) \/ SetupDone(e) \/ SetupFailed(e)
             \/ SetupCancelled(e) \/ Unload(e) \/ UnloadFailed(e)
      PROVE  Listed'
  <2>1. /\ UNCHANGED <<known, option, flow>> /\ entry[e] # "absent"
        /\ \E state \in {"failed", "setting_up", "loaded", "cancelled", "not_loaded", "stuck"} :
               entry' = [entry EXCEPT ![e] = state]
    BY <1>3 DEF SetupRefused, SetupBegin, SetupDone, SetupFailed, SetupCancelled, Unload,
                UnloadFailed
  <2>2. \A k \in Entry : entry'[k] = "absent" <=> entry[k] = "absent"
    BY <1>0, <2>1
  <2> QED
    BY <1>1, <2>1, <2>2 DEF Listed
<1>4. ASSUME NEW e \in Entry, FlowBegin(e) \/ ReleaseDue(e) PROVE Listed'
  BY <1>1, <1>4 DEF Listed, FlowBegin, ReleaseDue, haVars
<1>5. ASSUME NEW e \in Entry, FlowEnd(e) PROVE Listed'
  <2>0. e \in flow /\ flow' = flow \ {e} /\ entry[e] = "absent"
    BY <1>5 DEF FlowEnd, Inv, Placed
  <2>1. CASE UNCHANGED <<known, entry, option>>
    BY <1>1, <2>0, <2>1 DEF Listed
  <2>2. CASE /\ known' = Append(known, e) /\ entry' = [entry EXCEPT ![e] = "not_loaded"]
             /\ option' = [option EXCEPT ![e] = NoOption]
    <3>1. /\ known \in Seq(Entry) /\ known' \in Seq(Entry) /\ Len(known') = Len(known) + 1
          /\ \A i \in DOMAIN known : known'[i] = known[i] /\ known[i] # e
          /\ known'[Len(known) + 1] = e
          /\ DOMAIN known' = DOMAIN known \cup {Len(known) + 1}
      BY <2>0, <2>2 DEF Listed, Holds
    <3>2. IsInjective(known')
      BY <3>1 DEF Listed, IsInjective
    <3>3. \A k \in Entry : entry'[k] # "absent" <=> Holds(known', k)
      <4> TAKE k \in Entry
      <4>1. entry[k] # "absent" <=> Holds(known, k)
        BY DEF Listed
      <4>2. entry'[k] = IF k = e THEN "not_loaded" ELSE entry[k]
        BY <1>0, <2>2
      <4> QED
        BY <3>1, <4>1, <4>2 DEF Holds
    <3>4. option' \in [Entry -> Int]
      BY <2>2 DEF Listed, NoOption
    <3> QED
      BY <2>0, <3>1, <3>2, <3>3, <3>4 DEF Listed
  <2> QED
    BY <1>5, <2>1, <2>2 DEF FlowEnd
<1>6. ASSUME NEW e \in Entry, RemoveEntry(e) PROVE Listed'
  <2> DEFINE at == CHOOSE i \in DOMAIN known : known[i] = e
  <2>1. /\ known' = RemoveAt(known, at) /\ entry' = [entry EXCEPT ![e] = "absent"]
        /\ UNCHANGED <<flow, option>> /\ entry[e] # "absent"
    BY <1>6 DEF RemoveEntry
  <2>2. at \in DOMAIN known /\ known[at] = e
    BY <2>1 DEF Listed, Holds
  <2> HIDE DEF at
  <2>3. known \in Seq(Entry) /\ IsInjective(known) /\ at \in DOMAIN known
    BY <2>2 DEF Listed
  <2>4. /\ known' \in Seq(Entry) /\ IsInjective(known')
        /\ \A k : Holds(known', k) <=> k # e /\ Holds(known, k)
    BY <2>1, <2>2, <2>3, Removed
  <2>5. \A k \in Entry : entry'[k] # "absent" <=> Holds(known', k)
    <3> TAKE k \in Entry
    <3>1. entry[k] # "absent" <=> Holds(known, k)
      BY DEF Listed
    <3>2. entry'[k] = IF k = e THEN "absent" ELSE entry[k]
      BY <1>0, <2>1
    <3> QED
      BY <2>4, <3>1, <3>2
  <2> QED
    BY <2>1, <2>4, <2>5 DEF Listed
<1>7. ASSUME NEW e \in Entry, NEW budget \in Options, ChangeOptions(e, budget) PROVE Listed'
  <2>1. /\ UNCHANGED <<known, entry, flow>> /\ option' = [option EXCEPT ![e] = budget]
        /\ budget \in Int
    BY <1>7, RegistryAssumption DEF ChangeOptions
  <2>2. option' \in [Entry -> Int]
    BY <2>1 DEF Listed
  <2> QED
    BY <2>1, <2>2 DEF Listed
<1> QED
  BY <1>2, <1>3, <1>4, <1>5, <1>6, <1>7 DEF Next

(***************************************************************************)
(* Every variable has its type; above all the configured entries are       *)
(* listed once each, whatever flows add and removals take away             *)
(* (async_step_user, async_remove_entry).                                  *)
(***************************************************************************)
THEOREM TypeCorrect == Spec => []TypeOK
<1>1. Inv /\ Listed => TypeOK
  BY DEF Inv, Typed, Sound, Registry, Listed, TypeOK
<1>2. Spec => []Listed
  BY ListedFirst, ListedKept, Invariance, PTL DEF Spec
<1> QED
  BY <1>1, <1>2, Invariance, PTL
=============================================================================
