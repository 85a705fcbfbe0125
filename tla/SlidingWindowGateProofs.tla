----------------------- MODULE SlidingWindowGateProofs -----------------------
(***************************************************************************)
(* Lemmas about the operators of SlidingWindowGate: each keeps a gate a    *)
(* gate, what a gate counts is a number and never more than the ceiling,   *)
(* and a gate has room no sooner than NextAvailable says.                  *)
(***************************************************************************)
EXTENDS SlidingWindowGate, FiniteSetTheorems, FunctionTheorems, TLAPS

(* A set of naturals that is not empty has a minimum. *)
LEMMA MinOfNaturals ==
    ASSUME NEW S \in SUBSET Nat, S # {}
    PROVE  Min(S) \in S /\ \A x \in S : Min(S) <= x
<1>1. PICK m \in S : \A x \in S : ~ (<<x, m>> \in OpToRel(<, Nat))
  BY NatLessThanWellFounded, WFMin, Zenon
<1>2. \A x \in S : m <= x
  <2>1. OpToRel(<, Nat) = {ss \in Nat \X Nat : ss[1] < ss[2]}
    BY Zenon DEF OpToRel
  <2>2. \A x \in S : ~ (x < m)
    BY <1>1, <2>1
  <2> QED
    BY <2>2
<1> QED
  BY <1>2 DEF Min

(* A set of naturals that is not empty and has a bound has a maximum. *)
LEMMA MaxOfNaturals ==
    ASSUME NEW S \in SUBSET Nat, S # {}, NEW bound \in Nat, \A x \in S : x <= bound
    PROVE  Max(S) \in S /\ \A x \in S : x <= Max(S)
<1> DEFINE Bounds == {n \in Nat : \A x \in S : x <= n}
<1>1. Bounds \in SUBSET Nat /\ Bounds # {}
  OBVIOUS
<1>2. Min(Bounds) \in Bounds /\ \A n \in Bounds : Min(Bounds) <= n
  BY <1>1, MinOfNaturals
<1>3. PICK m \in Nat : m \in Bounds /\ \A n \in Bounds : m <= n
  BY <1>2
<1>4. m \in S
  <2>1. SUFFICES ASSUME m \notin S PROVE FALSE
    OBVIOUS
  <2>2. m # 0
    <3>1. PICK x \in S : TRUE
      OBVIOUS
    <3> QED
      BY <1>3, <2>1, <3>1
  <2>3. m - 1 \in Nat /\ \A x \in S : x <= m - 1
    BY <1>3, <2>1, <2>2
  <2> QED
    BY <1>3, <2>3
<1> QED
  BY <1>3, <1>4 DEF Max

-----------------------------------------------------------------------------
(* What a gate counts is finite, and a number. *)
LEMMA InWindowIsNatural ==
    ASSUME NEW R, NEW g, IsGate(g, R), NEW stamp, NEW t
    PROVE  /\ IsFiniteSet(Admitted(g, stamp, t))
           /\ IsFiniteSet(Synthetic(g, t))
           /\ Cardinality(Admitted(g, stamp, t)) \in Nat
           /\ Cardinality(Synthetic(g, t)) \in Nat
           /\ InWindow(g, stamp, t) \in Nat
<1>1. /\ Admitted(g, stamp, t) \in SUBSET g.admissions
      /\ Synthetic(g, t) \in SUBSET g.synthetic
  BY DEF Admitted, Synthetic
<1>2. IsFiniteSet(Admitted(g, stamp, t)) /\ IsFiniteSet(Synthetic(g, t))
  BY <1>1, FS_Subset DEF IsGate
<1>3. /\ Cardinality(Admitted(g, stamp, t)) \in Nat
      /\ Cardinality(Synthetic(g, t)) \in Nat
  BY <1>2, FS_CardinalityType
<1> QED
  BY <1>2, <1>3 DEF InWindow

(* The values of a function on a finite set are finitely many. *)
LEMMA FiniteImage ==
    ASSUME NEW S, IsFiniteSet(S), NEW f
    PROVE  IsFiniteSet({f[x] : x \in S})
<1> DEFINE T == {f[x] : x \in S}
           h == [x \in S |-> f[x]]
<1>1. h \in Surjection(S, T)
  BY DEF Surjection
<1> QED
  BY <1>1, FS_Surjection

LEMMA StartupHoldIsSynthetic ==
    ASSUME NEW budget \in 1..MaxBudget, NEW t \in Nat
    PROVE  /\ IsFiniteSet(StartupHold(budget, t))
           /\ StartupHold(budget, t)
                  \subseteq [why : {"hold", "server"}, at : Nat, n : Nat \ {0}]
<1> DEFINE entry == [k \in 1..HalfRoundedUp(budget) |->
                        [why |-> "hold", at |-> t, n |-> k]]
<1>1. MaxBudget \in Nat
  BY WindowAssumption
<1>2. HalfRoundedUp(budget) \in Int
  BY <1>1 DEF HalfRoundedUp
<1>3. IsFiniteSet(1..HalfRoundedUp(budget))
  BY <1>2, FS_Interval
<1>4. StartupHold(budget, t) = {entry[k] : k \in 1..HalfRoundedUp(budget)}
  BY DEF StartupHold
<1>5. IsFiniteSet({entry[k] : k \in 1..HalfRoundedUp(budget)})
  BY <1>3, FiniteImage
<1> QED
  BY <1>2, <1>4, <1>5 DEF StartupHold

LEMMA NewGateIsGate ==
    ASSUME NEW R, NEW budget \in 1..MaxBudget, NEW t \in Nat
    PROVE  IsGate(NewGate(budget, t), R)
BY StartupHoldIsSynthetic, FS_EmptySet, WindowAssumption DEF NewGate, IsGate

LEMMA RecordKeepsGate ==
    ASSUME NEW R, NEW g, IsGate(g, R), NEW r \in R, NEW stamp, NEW t
    PROVE  /\ IsGate(Record(g, r, stamp, t), R)
           /\ Record(g, r, stamp, t).admissions = Admitted(g, stamp, t) \cup {r}
           /\ Record(g, r, stamp, t).configured = g.configured
<1>1. IsFiniteSet(Admitted(g, stamp, t) \cup {r}) /\ IsFiniteSet(Synthetic(g, t))
  BY InWindowIsNatural, FS_AddElement
<1>2. /\ Admitted(g, stamp, t) \subseteq g.admissions
      /\ Synthetic(g, t) \subseteq g.synthetic
  BY DEF Admitted, Synthetic
<1> QED
  BY <1>1, <1>2 DEF IsGate, Record

LEMMA SuppressUntilKeepsGate ==
    ASSUME NEW R, NEW g, IsGate(g, R), NEW until \in Nat
    PROVE  /\ IsGate(SuppressUntil(g, until), R)
           /\ SuppressUntil(g, until).admissions = g.admissions
           /\ SuppressUntil(g, until).suppressedUntil >= until
           /\ SuppressUntil(g, until).suppressedUntil >= g.suppressedUntil
BY DEF IsGate, SuppressUntil

(* A gate may take any budget of the range and any finite set of synthetic *)
(* admissions.                                                             *)
LEMMA BudgetAndHoldAreFree ==
    ASSUME NEW R, NEW g, IsGate(g, R), NEW budget \in 1..MaxBudget,
           NEW held \in SUBSET [why : {"hold", "server"}, at : Nat, n : Nat \ {0}],
           IsFiniteSet(held)
    PROVE  IsGate([g EXCEPT !.configured = budget, !.budget = budget,
                            !.synthetic = held], R)
<1> DEFINE new == [g EXCEPT !.configured = budget, !.budget = budget,
                            !.synthetic = held]
<1>1. new \in [configured : 1..MaxBudget, budget : 1..MaxBudget, createdAt : Nat,
               admissions : SUBSET R,
               synthetic : SUBSET [why : {"hold", "server"}, at : Nat, n : Nat \ {0}],
               suppressedUntil : Nat]
  BY DEF IsGate
<1>2. new.admissions = g.admissions /\ new.synthetic = held
  BY DEF IsGate
<1>3. new.budget = budget /\ new.configured = budget
  BY DEF IsGate
<1>4. IsFiniteSet(g.admissions)
  BY DEF IsGate
<1>5. budget <= budget
  BY WindowAssumption
<1> HIDE DEF new
<1> QED
  BY <1>1, <1>2, <1>3, <1>4, <1>5, Zenon DEF IsGate, new

LEMMA ReconfigureKeepsGate ==
    ASSUME NEW R, NEW g, IsGate(g, R), NEW budget \in 1..MaxBudget
    PROVE  /\ IsGate(Reconfigure(g, budget), R)
           /\ Reconfigure(g, budget).admissions = g.admissions
           /\ Reconfigure(g, budget).suppressedUntil = g.suppressedUntil
           /\ Reconfigure(g, budget).createdAt = g.createdAt
           /\ \A e \in Reconfigure(g, budget).synthetic :
                  e \in g.synthetic \/ e.at = g.createdAt
<1> DEFINE hold == {e \in g.synthetic : e.why = "hold"}
           resized == IF hold = {} \/ g.admissions # {} THEN g.synthetic
                      ELSE (g.synthetic \ hold) \cup StartupHold(budget, g.createdAt)
<1>1. g.createdAt \in Nat
  BY DEF IsGate
<1>2. IsFiniteSet(g.synthetic \ hold)
  BY FS_Subset, g.synthetic \ hold \in SUBSET g.synthetic DEF IsGate
<1>3. IsFiniteSet((g.synthetic \ hold) \cup StartupHold(budget, g.createdAt))
  BY <1>1, <1>2, StartupHoldIsSynthetic, FS_Union
<1>4. IsFiniteSet(resized)
  BY <1>3 DEF IsGate
<1>5. resized \subseteq [why : {"hold", "server"}, at : Nat, n : Nat \ {0}]
  BY <1>1, StartupHoldIsSynthetic DEF IsGate
<1>5a. \A e \in resized : e \in g.synthetic \/ e.at = g.createdAt
  BY DEF StartupHold
<1>6. Reconfigure(g, budget) =
          IF budget = g.configured THEN g
          ELSE [g EXCEPT !.configured = budget, !.budget = budget,
                         !.synthetic = resized]
  BY DEF Reconfigure
<1> HIDE DEF hold, resized
<1>7. CASE budget = g.configured
  BY <1>6, <1>7
<1>8. CASE budget # g.configured
  <2> DEFINE new == [g EXCEPT !.configured = budget, !.budget = budget,
                              !.synthetic = resized]
  <2>1. IsGate(new, R)
    BY <1>4, <1>5, BudgetAndHoldAreFree
  <2>2. /\ new.admissions = g.admissions /\ new.suppressedUntil = g.suppressedUntil
        /\ new.createdAt = g.createdAt /\ new.synthetic = resized
    BY DEF IsGate
  <2>3. Reconfigure(g, budget) = new
    BY <1>6, <1>8, Zenon
  <2> HIDE DEF new
  <2> QED
    BY <1>5a, <2>1, <2>2, <2>3
<1> QED
  BY <1>7, <1>8

(* The smaller of two or three integers. *)
LEMMA MinOfTwo ==
    ASSUME NEW x \in Int, NEW y \in Int
    PROVE  Min({x, y}) \in Int /\ Min({x, y}) <= x /\ Min({x, y}) <= y
<1>1. PICK m \in {x, y} : \A z \in {x, y} : m <= z
  OBVIOUS
<1>2. Min({x, y}) \in {x, y} /\ \A z \in {x, y} : Min({x, y}) <= z
  BY <1>1, Zenon DEF Min
<1> QED
  BY <1>2

LEMMA MinOfThree ==
    ASSUME NEW x \in Int, NEW y \in Int, NEW z \in Int
    PROVE  /\ Min({x, y, z}) \in {x, y, z}
           /\ Min({x, y, z}) <= x /\ Min({x, y, z}) <= y /\ Min({x, y, z}) <= z
<1>1. PICK m \in {x, y, z} : \A w \in {x, y, z} : m <= w
  <2>1. CASE x <= y /\ x <= z
    BY <2>1
  <2>2. CASE y <= x /\ y <= z
    BY <2>2
  <2>3. CASE z <= x /\ z <= y
    BY <2>3
  <2> QED
    BY <2>1, <2>2, <2>3
<1>2. Min({x, y, z}) \in {x, y, z} /\ \A w \in {x, y, z} : Min({x, y, z}) <= w
  BY <1>1, Zenon DEF Min
<1> QED
  BY <1>2

(* Reconciling never raises the budget, and only adds to what is counted. *)
LEMMA ReconcileKeepsGate ==
    ASSUME NEW R, NEW g, IsGate(g, R), NEW stamp, NEW t \in Nat,
           NEW limit \in Int, NEW remaining \in Int
    PROVE  /\ IsGate(Reconcile(g, stamp, t, limit, remaining), R)
           /\ Reconcile(g, stamp, t, limit, remaining).admissions = g.admissions
           /\ Reconcile(g, stamp, t, limit, remaining).suppressedUntil = g.suppressedUntil
           /\ Reconcile(g, stamp, t, limit, remaining).configured = g.configured
           /\ Reconcile(g, stamp, t, limit, remaining).createdAt = g.createdAt
           /\ \A e \in Reconcile(g, stamp, t, limit, remaining).synthetic :
                  e \in g.synthetic \/ e.at = t
<1> DEFINE lowered == IF UsableLimit(limit) THEN Min({g.budget, g.configured, limit})
                      ELSE g.budget
           used == InWindow(g, stamp, t)
           missing == Shortfall(used, lowered, remaining)
           atOnce == {e \in g.synthetic : e.why = "server" /\ e.at = t}
           earlier == Cardinality(atOnce)
           entry == [k \in 1..missing |->
                        [why |-> "server", at |-> t, n |-> earlier + k]]
           added == {entry[k] : k \in 1..missing}
<1>1. /\ g.budget \in 1..MaxBudget /\ g.configured \in 1..MaxBudget
      /\ g.budget <= g.configured /\ MaxBudget \in Nat
  BY WindowAssumption DEF IsGate
<1>2. lowered \in 1..MaxBudget /\ lowered <= g.configured
  <2>1. CASE UsableLimit(limit)
    <3> DEFINE m == Min({g.budget, g.configured, limit})
    <3>1. m \in {g.budget, g.configured, limit} /\ m <= g.budget
      <4>1. g.budget \in Int /\ g.configured \in Int
        BY <1>1
      <4> QED
        BY <4>1, MinOfThree
    <3>2. lowered = m
      BY <2>1
    <3> HIDE DEF m, lowered
    <3> QED
      BY <1>1, <2>1, <3>1, <3>2 DEF UsableLimit
  <2>2. CASE ~UsableLimit(limit)
    BY <1>1, <2>2
  <2> QED
    BY <2>1, <2>2
<1>3. used \in Nat
  BY InWindowIsNatural
<1>4. missing \in Int
  <2> HIDE DEF lowered, used
  <2>1. lowered - used - remaining \in Int /\ MaxBudget - used \in Int
    BY <1>1, <1>2, <1>3
  <2>2. Min({lowered - used - remaining, MaxBudget - used}) \in Int
    BY <2>1, MinOfTwo
  <2> QED
    BY <2>2 DEF Shortfall
<1>5. earlier \in Nat
  BY FS_Subset, FS_CardinalityType, atOnce \in SUBSET g.synthetic DEF IsGate
<1> HIDE DEF lowered, used, missing, earlier
<1>6. IsFiniteSet(added)
  <2>1. IsFiniteSet(1..missing)
    BY <1>4, 1 \in Int, FS_Interval
  <2> HIDE DEF entry
  <2> QED
    BY <2>1, FiniteImage
<1>7. added \subseteq [why : {"hold", "server"}, at : Nat, n : Nat \ {0}]
  <2>1. SUFFICES ASSUME NEW k \in 1..missing
                 PROVE  entry[k] \in [why : {"hold", "server"}, at : Nat, n : Nat \ {0}]
    BY Zenon
  <2>2. entry[k] = [why |-> "server", at |-> t, n |-> earlier + k]
    OBVIOUS
  <2>3. earlier + k \in Nat \ {0}
    BY <1>4, <1>5
  <2> QED
    BY <2>2, <2>3, Zenon
<1> DEFINE synthetic == g.synthetic \cup added
<1>8. IsFiniteSet(synthetic)
  BY <1>6, FS_Union DEF IsGate
<1>9. added = {[why |-> "server", at |-> t, n |-> earlier + k] : k \in 1..missing}
  OBVIOUS
<1>10. Reconcile(g, stamp, t, limit, remaining) =
          [g EXCEPT !.budget = lowered, !.synthetic = synthetic]
  BY <1>9, Zenon DEF Reconcile, lowered, used, missing, earlier
<1>11. synthetic \subseteq [why : {"hold", "server"}, at : Nat, n : Nat \ {0}]
  BY <1>7 DEF IsGate
<1> HIDE DEF added, synthetic
<1> DEFINE new == [g EXCEPT !.budget = lowered, !.synthetic = synthetic]
<1>12. IsGate(new, R)
  BY <1>2, <1>8, <1>11 DEF IsGate
<1>13. /\ new.admissions = g.admissions
       /\ new.suppressedUntil = g.suppressedUntil
       /\ new.configured = g.configured
       /\ new.createdAt = g.createdAt
  BY DEF IsGate
<1>14. \A e \in new.synthetic : e \in g.synthetic \/ e.at = t
  <2>1. new.synthetic = synthetic
    BY DEF IsGate
  <2>2. \A e \in added : e.at = t
    BY <1>9
  <2> HIDE DEF new
  <2> QED
    BY <2>1, <2>2 DEF synthetic
<1> HIDE DEF new
<1> QED
  BY <1>10, <1>12, <1>13, <1>14, Zenon DEF new

-----------------------------------------------------------------------------
(* A gate that is full has room again at an instant still to come, at most *)
(* a window away.                                                          *)
LEMMA NextAvailableIsAhead ==
    ASSUME NEW R, NEW g, IsGate(g, R), NEW stamp, NEW t \in Nat,
           \A r \in g.admissions : stamp[r] \in Nat /\ stamp[r] <= t,
           \A e \in g.synthetic : e.at <= t,
           ~ CapacityAvailable(g, stamp, t)
    PROVE  /\ NextAvailable(g, stamp, t) \in Nat
           /\ NextAvailable(g, stamp, t) > t
           /\ NextAvailable(g, stamp, t) <= t + Window
<1> DEFINE real == Admitted(g, stamp, t)
           told == Synthetic(g, t)
           surplus == InWindow(g, stamp, t) - g.budget
           upTo(x) == Cardinality({r \in real : stamp[r] <= x})
                        + Cardinality({e \in told : e.at <= x})
           times == {stamp[r] : r \in real} \cup {e.at : e \in told}
           late == {x \in times : upTo(x) > surplus}
<1>1. /\ \A r \in real : stamp[r] \in Nat /\ stamp[r] <= t /\ stamp[r] > t - Window
      /\ \A e \in told : e.at \in Nat /\ e.at <= t /\ e.at > t - Window
  BY DEF Admitted, Synthetic, IsGate
<1>2. /\ InWindow(g, stamp, t) \in Nat /\ g.budget \in Nat \ {0}
      /\ InWindow(g, stamp, t) >= g.budget
  <2>1. InWindow(g, stamp, t) \in Nat
    BY InWindowIsNatural
  <2>2. g.budget \in Nat \ {0}
    BY WindowAssumption DEF IsGate
  <2> QED
    BY <2>1, <2>2 DEF CapacityAvailable
<1>3. times \in SUBSET Nat /\ (\A x \in times : x <= t /\ x > t - Window)
  BY <1>1
<1>4. times # {}
  <2>1. SUFFICES ASSUME real = {}, told = {} PROVE FALSE
    OBVIOUS
  <2>2. InWindow(g, stamp, t) = 0
    BY <2>1, FS_EmptySet DEF InWindow
  <2> QED
    BY <1>2, <2>2
<1> HIDE DEF times
<1>5. PICK last \in times : \A x \in times : x <= last
  BY <1>3, <1>4, MaxOfNaturals
<1>6. upTo(last) = InWindow(g, stamp, t)
  <2>1. {r \in real : stamp[r] <= last} = real
    BY <1>5 DEF times
  <2>2. {e \in told : e.at <= last} = told
    BY <1>5 DEF times
  <2> QED
    BY <2>1, <2>2 DEF InWindow
<1>7. last \in late
  BY <1>2, <1>5, <1>6
<1>8. Min(late) \in late
  <2>1. late \in SUBSET Nat
    BY <1>3
  <2> HIDE DEF late
  <2> QED
    BY <1>7, <2>1, MinOfNaturals
<1>9. Min(late) \in Nat /\ Min(late) > t - Window /\ Min(late) <= t
  BY <1>3, <1>8
<1>10. NextAvailable(g, stamp, t) = Window + Min(late)
  BY DEF NextAvailable, times
<1> QED
  BY <1>9, <1>10, WindowAssumption

-----------------------------------------------------------------------------
(* Why a gate never counts more than the ceiling: as long as the startup   *)
(* hold is resized, it leaves what the server reported room for a hold of  *)
(* any size.                                                               *)
Held(g) == {e \in g.synthetic : e.why = "hold"}
Reported(g, t) == {e \in Synthetic(g, t) : e.why = "server"}

HoldFits(g, t) ==
    /\ \A e \in Held(g) : e.at = g.createdAt
    /\ g.admissions = {} =>
           /\ Held(g) = StartupHold(g.configured, g.createdAt)
           /\ g.createdAt > t - Window =>
                  Cardinality(Reported(g, t)) + HalfRoundedUp(MaxBudget) <= MaxBudget

Occupied(g, stamp, t) == HoldFits(g, t) /\ InWindow(g, stamp, t) <= MaxBudget

LEMMA HalfOfBudget ==
    ASSUME NEW n \in 1..MaxBudget
    PROVE  /\ HalfRoundedUp(n) \in Nat \ {0} /\ HalfRoundedUp(n) <= n
           /\ HalfRoundedUp(MaxBudget) \in Nat /\ HalfRoundedUp(n) <= HalfRoundedUp(MaxBudget)
           /\ n - HalfRoundedUp(n) <= MaxBudget - HalfRoundedUp(MaxBudget)
<1>1. MaxBudget \in Nat /\ n \in Nat /\ n >= 1 /\ n <= MaxBudget
  BY WindowAssumption
<1> QED
  BY <1>1 DEF HalfRoundedUp

LEMMA HoldSize ==
    ASSUME NEW budget \in 1..MaxBudget, NEW t \in Nat
    PROVE  Cardinality(StartupHold(budget, t)) = HalfRoundedUp(budget)
<1> DEFINE n == HalfRoundedUp(budget)
           entry == [k \in 1..n |-> [why |-> "hold", at |-> t, n |-> k]]
           S == StartupHold(budget, t)
<1>1. n \in Nat \ {0}
  BY HalfOfBudget
<1>2. entry \in Surjection(1..n, S)
  BY DEF Surjection, StartupHold
<1>3. entry \in Injection(1..n, S)
  <2>1. \A k \in 1..n : entry[k].n = k
    OBVIOUS
  <2>2. entry \in [1..n -> S]
    BY <1>2 DEF Surjection
  <2> HIDE DEF entry
  <2> QED
    BY <2>1, <2>2 DEF Injection, IsInjective
<1>4. IsFiniteSet(1..n) /\ Cardinality(1..n) = n
  <2> HIDE DEF n
  <2> QED
    BY <1>1, FS_Interval
<1> HIDE DEF entry, S, n
<1>5. Cardinality(S) = n
  BY <1>2, <1>3, <1>4, FS_Surjection
<1> QED
  BY <1>5 DEF S, n

(* What is counted once at the most, of the requests and of the synthetic  *)
(* admissions.                                                             *)
LEMMA CountedParts ==
    ASSUME NEW R, NEW g, IsGate(g, R), NEW stamp, NEW t \in Nat
    PROVE  /\ IsFiniteSet(Reported(g, t)) /\ Cardinality(Reported(g, t)) \in Nat
           /\ Cardinality(Reported(g, t)) <= Cardinality(Synthetic(g, t))
           /\ g.admissions = {} /\ HoldFits(g, t) /\ g.createdAt > t - Window =>
                  InWindow(g, stamp, t)
                      = Cardinality(Reported(g, t)) + HalfRoundedUp(g.configured)
<1>1. IsFiniteSet(Synthetic(g, t)) /\ Cardinality(Synthetic(g, t)) \in Nat
  BY InWindowIsNatural
<1>2. /\ IsFiniteSet(Reported(g, t)) /\ Cardinality(Reported(g, t)) \in Nat
      /\ Cardinality(Reported(g, t)) <= Cardinality(Synthetic(g, t))
  <2>1. Reported(g, t) \in SUBSET Synthetic(g, t)
    BY DEF Reported
  <2> QED
    BY <1>1, <2>1, FS_Subset, FS_CardinalityType
<1>3. ASSUME g.admissions = {}, HoldFits(g, t), g.createdAt > t - Window
      PROVE  InWindow(g, stamp, t) = Cardinality(Reported(g, t)) + HalfRoundedUp(g.configured)
  <2> DEFINE hold == StartupHold(g.configured, g.createdAt)
  <2>1. /\ Held(g) = hold /\ g.configured \in 1..MaxBudget /\ g.createdAt \in Nat
    BY <1>3 DEF HoldFits, IsGate
  <2>2. Cardinality(hold) = HalfRoundedUp(g.configured) /\ IsFiniteSet(hold)
    BY <2>1, HoldSize, StartupHoldIsSynthetic
  <2>3. \A e \in g.synthetic : e.why = "hold" \/ e.why = "server"
    BY DEF IsGate
  <2>4. /\ Synthetic(g, t) = Reported(g, t) \cup hold
        /\ Reported(g, t) \cap hold = {}
    <3>1. \A e \in hold : e \in Synthetic(g, t)
      BY <1>3, <2>1 DEF Held, Synthetic, HoldFits
    <3>2. \A e \in Synthetic(g, t) : e \in hold \/ e \in Reported(g, t)
      BY <2>1, <2>3 DEF Held, Synthetic, Reported
    <3>3. \A e \in hold : e.why = "hold"
      BY <2>1 DEF Held
    <3> HIDE DEF hold
    <3> QED
      BY <3>1, <3>2, <3>3 DEF Reported
  <2> HIDE DEF hold
  <2>5. Cardinality(Synthetic(g, t)) = Cardinality(Reported(g, t)) + Cardinality(hold)
    <3>1. Cardinality(Reported(g, t) \cap hold) = 0
      BY <2>4, FS_EmptySet
    <3>2. Cardinality(hold) \in Nat
      BY <2>2, FS_CardinalityType
    <3> QED
      BY <1>2, <2>2, <2>4, <3>1, <3>2, FS_Union
  <2>6. Cardinality(Admitted(g, stamp, t)) = 0
    <3>1. Admitted(g, stamp, t) = {}
      BY <1>3 DEF Admitted
    <3> QED
      BY <3>1, FS_EmptySet
  <2> QED
    BY <1>1, <2>2, <2>5, <2>6 DEF InWindow
<1> QED
  BY <1>2, <1>3

(* Occupied is about the counted admissions and the synthetic ones only. *)
LEMMA SameCount ==
    ASSUME NEW g, NEW h, NEW stamp, NEW later, NEW t,
           h.admissions = g.admissions, h.synthetic = g.synthetic,
           h.createdAt = g.createdAt, h.configured = g.configured,
           \A r \in g.admissions : later[r] = stamp[r],
           Occupied(g, stamp, t)
    PROVE  Occupied(h, later, t)
<1>1. Admitted(h, later, t) = Admitted(g, stamp, t) /\ Synthetic(h, t) = Synthetic(g, t)
  BY DEF Admitted, Synthetic
<1>2. Held(h) = Held(g) /\ Reported(h, t) = Reported(g, t)
  BY <1>1 DEF Held, Reported
<1> QED
  BY <1>1, <1>2 DEF Occupied, HoldFits, InWindow

LEMMA NewGateOccupied ==
    ASSUME NEW budget \in 1..MaxBudget, NEW stamp, NEW t \in Nat
    PROVE  Occupied(NewGate(budget, t), stamp, t)
<1> DEFINE g == NewGate(budget, t)
<1>1. IsGate(g, {})
  BY NewGateIsGate
<1>2. /\ g.admissions = {} /\ g.createdAt = t /\ g.configured = budget
      /\ g.synthetic = StartupHold(budget, t)
  BY DEF NewGate
<1> HIDE DEF g
<1>3. \A e \in g.synthetic : e.why = "hold" /\ e.at = t
  BY <1>2 DEF StartupHold
<1>4. Held(g) = StartupHold(budget, t) /\ Reported(g, t) = {}
  BY <1>2, <1>3 DEF Held, Reported, Synthetic
<1>5. Cardinality(Reported(g, t)) = 0
  BY <1>4, FS_EmptySet
<1>6. /\ HalfRoundedUp(MaxBudget) \in Nat /\ HalfRoundedUp(MaxBudget) <= MaxBudget
      /\ HalfRoundedUp(budget) \in Nat /\ HalfRoundedUp(budget) <= MaxBudget
  <2>1. MaxBudget \in 1..MaxBudget /\ MaxBudget \in Nat
    BY WindowAssumption
  <2> QED
    BY <2>1, HalfOfBudget
<1>7. HoldFits(g, t)
  BY <1>2, <1>3, <1>4, <1>5, <1>6 DEF HoldFits, Held
<1>8. g.createdAt > t - Window
  BY <1>2, WindowAssumption
<1>9. InWindow(g, stamp, t) = 0 + HalfRoundedUp(budget)
  BY <1>1, <1>2, <1>5, <1>7, <1>8, CountedParts
<1> QED
  BY <1>6, <1>7, <1>9 DEF Occupied, g

(* The window moves on: nothing is counted that was not counted before. *)
LEMMA LaterOccupied ==
    ASSUME NEW R, NEW g, IsGate(g, R), NEW stamp, NEW t \in Nat, NEW later \in Nat,
           t <= later, \A r \in g.admissions : stamp[r] \in Int, Occupied(g, stamp, t)
    PROVE  Occupied(g, stamp, later)
<1>1. Window \in Nat /\ MaxBudget \in Nat /\ g.createdAt \in Nat
  BY WindowAssumption DEF IsGate
<1>2. \A e \in g.synthetic : e.at \in Nat
  BY DEF IsGate
<1>3. /\ Admitted(g, stamp, later) \in SUBSET Admitted(g, stamp, t)
      /\ Synthetic(g, later) \in SUBSET Synthetic(g, t)
  BY <1>1, <1>2 DEF Admitted, Synthetic
<1>4. Reported(g, later) \in SUBSET Reported(g, t)
  BY <1>3 DEF Reported
<1>5. /\ Cardinality(Admitted(g, stamp, later)) <= Cardinality(Admitted(g, stamp, t))
      /\ Cardinality(Synthetic(g, later)) <= Cardinality(Synthetic(g, t))
      /\ Cardinality(Reported(g, later)) <= Cardinality(Reported(g, t))
  BY <1>3, <1>4, InWindowIsNatural, CountedParts, FS_Subset
<1>6. /\ Cardinality(Admitted(g, stamp, later)) \in Nat
      /\ Cardinality(Synthetic(g, later)) \in Nat
      /\ Cardinality(Reported(g, later)) \in Nat
      /\ Cardinality(Admitted(g, stamp, t)) \in Nat
      /\ Cardinality(Synthetic(g, t)) \in Nat
      /\ Cardinality(Reported(g, t)) \in Nat
  BY InWindowIsNatural, CountedParts
<1>7. InWindow(g, stamp, later) <= MaxBudget
  BY <1>1, <1>5, <1>6 DEF Occupied, InWindow
<1>8. g.createdAt > later - Window => g.createdAt > t - Window
  BY <1>1
<1>9. HalfRoundedUp(MaxBudget) \in Nat
  BY WindowAssumption DEF HalfRoundedUp
<1>10. HoldFits(g, later)
  BY <1>1, <1>5, <1>6, <1>8, <1>9 DEF Occupied, HoldFits
<1> QED
  BY <1>7, <1>10 DEF Occupied

(* A gate records an admission only while it counts less than its budget. *)
LEMMA RecordOccupied ==
    ASSUME NEW R, NEW g, IsGate(g, R), NEW r \in R, NEW stamp, NEW later, NEW t \in Nat,
           \A q \in g.admissions : q = r \/ later[q] = stamp[q],
           Occupied(g, stamp, t), CapacityAvailable(g, stamp, t)
    PROVE  Occupied(Record(g, r, stamp, t), later, t)
<1> DEFINE h == Record(g, r, stamp, t)
           real == Admitted(g, stamp, t)
<1>1. /\ h.admissions = real \cup {r} /\ h.synthetic = Synthetic(g, t)
      /\ h.createdAt = g.createdAt
  BY DEF Record, IsGate
<1> HIDE DEF h
<1>2. /\ IsFiniteSet(real) /\ Cardinality(real) \in Nat
      /\ Cardinality(Synthetic(g, t)) \in Nat
  BY InWindowIsNatural
<1>3. Synthetic(h, t) = Synthetic(g, t)
  BY <1>1 DEF Synthetic
<1>4. Admitted(h, later, t) \in SUBSET (real \cup {r})
  BY <1>1 DEF Admitted
<1>5. /\ IsFiniteSet(real \cup {r})
      /\ Cardinality(real \cup {r}) \in Nat /\ Cardinality(real \cup {r}) <= Cardinality(real) + 1
  <2> HIDE DEF real
  <2>1. /\ IsFiniteSet(real \cup {r})
        /\ Cardinality(real \cup {r})
              = IF r \in real THEN Cardinality(real) ELSE Cardinality(real) + 1
    BY <1>2, FS_AddElement
  <2> QED
    BY <1>2, <2>1
<1>6. /\ Cardinality(Admitted(h, later, t)) \in Nat
      /\ Cardinality(Admitted(h, later, t)) <= Cardinality(real \cup {r})
  BY <1>4, <1>5, FS_Subset, FS_CardinalityType
<1>7. /\ Cardinality(real) + Cardinality(Synthetic(g, t)) < g.budget
      /\ g.budget \in Nat /\ g.budget <= MaxBudget /\ MaxBudget \in Nat
  BY WindowAssumption DEF CapacityAvailable, InWindow, IsGate
<1> HIDE DEF real
<1>8. InWindow(h, later, t) <= MaxBudget
  BY <1>2, <1>3, <1>5, <1>6, <1>7 DEF InWindow
<1>9. \A e \in Held(h) : e \in Held(g)
  BY <1>1 DEF Held, Synthetic
<1>10. HoldFits(h, t)
  BY <1>1, <1>9 DEF Occupied, HoldFits
<1> QED
  BY <1>8, <1>10 DEF Occupied, h

(* A hold that is resized leaves what the server reported as it was.       *)
LEMMA ReconfigureOccupied ==
    ASSUME NEW R, NEW g, IsGate(g, R), NEW budget \in 1..MaxBudget,
           NEW stamp, NEW t \in Nat, Occupied(g, stamp, t)
    PROVE  Occupied(Reconfigure(g, budget), stamp, t)
<1> DEFINE h == Reconfigure(g, budget)
           hold == StartupHold(budget, g.createdAt)
<1>1. CASE budget = g.configured
  BY <1>1 DEF Reconfigure
<1>2. CASE budget # g.configured /\ g.admissions # {}
  <2>1. h = [g EXCEPT !.configured = budget, !.budget = budget, !.synthetic = g.synthetic]
    BY <1>2 DEF Reconfigure
  <2>2. /\ h.admissions = g.admissions /\ h.synthetic = g.synthetic
        /\ h.createdAt = g.createdAt
    BY <2>1 DEF IsGate
  <2> HIDE DEF h
  <2>3. /\ Admitted(h, stamp, t) = Admitted(g, stamp, t)
        /\ Synthetic(h, t) = Synthetic(g, t) /\ Held(h) = Held(g)
    BY <2>2 DEF Admitted, Synthetic, Held
  <2>4. Occupied(h, stamp, t)
    BY <1>2, <2>2, <2>3 DEF Occupied, HoldFits, InWindow
  <2> QED
    BY <2>4 DEF h
<1>3. CASE budget # g.configured /\ g.admissions = {}
  <2>1. /\ g.configured \in 1..MaxBudget /\ g.createdAt \in Nat
        /\ \A e \in g.synthetic : e.why = "hold" \/ e.why = "server"
    BY DEF IsGate
  <2>2. Held(g) = StartupHold(g.configured, g.createdAt)
    BY <1>3 DEF Occupied, HoldFits
  <2>3. Held(g) # {}
    <3>1. 1 \in 1..HalfRoundedUp(g.configured)
      BY <2>1, HalfOfBudget
    <3> QED
      BY <2>2, <3>1 DEF StartupHold
  <2>4. h = [g EXCEPT !.configured = budget, !.budget = budget,
                      !.synthetic = (g.synthetic \ Held(g)) \cup hold]
    BY <1>3, <2>3 DEF Reconfigure, Held
  <2>5. /\ h.admissions = {} /\ h.synthetic = (g.synthetic \ Held(g)) \cup hold
        /\ h.createdAt = g.createdAt /\ h.configured = budget
    BY <1>3, <2>4 DEF IsGate
  <2>6. IsGate(h, R)
    BY ReconfigureKeepsGate
  <2>7. \A e \in hold : e.why = "hold" /\ e.at = g.createdAt
    BY DEF StartupHold
  <2> HIDE DEF h, hold
  <2>8. Held(h) = hold /\ Reported(h, t) = Reported(g, t)
    BY <2>1, <2>5, <2>7 DEF Held, Reported, Synthetic
  <2>9. HoldFits(h, t)
    BY <1>3, <2>5, <2>7, <2>8 DEF HoldFits, Occupied, hold
  <2>10. /\ Cardinality(Reported(g, t)) \in Nat
         /\ Cardinality(Synthetic(g, t)) \in Nat
         /\ Cardinality(Reported(g, t)) <= Cardinality(Synthetic(g, t))
    BY CountedParts, InWindowIsNatural
  <2>11. CASE g.createdAt > t - Window
    <3>1. InWindow(h, stamp, t) = Cardinality(Reported(g, t)) + HalfRoundedUp(budget)
      BY <2>5, <2>6, <2>8, <2>9, <2>11, CountedParts
    <3>2. Cardinality(Reported(g, t)) + HalfRoundedUp(MaxBudget) <= MaxBudget
      BY <1>3, <2>11 DEF Occupied, HoldFits
    <3>3. /\ HalfRoundedUp(budget) \in Nat /\ HalfRoundedUp(MaxBudget) \in Nat
          /\ HalfRoundedUp(budget) <= HalfRoundedUp(MaxBudget) /\ MaxBudget \in Nat
      BY HalfOfBudget, WindowAssumption
    <3>4. InWindow(h, stamp, t) <= MaxBudget
      BY <2>10, <3>1, <3>2, <3>3
    <3> QED
      BY <2>9, <3>4 DEF Occupied, h
  <2>12. CASE ~(g.createdAt > t - Window)
    <3>1. Synthetic(h, t) = Reported(g, t)
      BY <2>1, <2>2, <2>5, <2>7, <2>8, <2>12 DEF Synthetic, Reported, Held
    <3>2. Admitted(h, stamp, t) = Admitted(g, stamp, t)
      BY <1>3, <2>5 DEF Admitted
    <3>3. Cardinality(Admitted(g, stamp, t)) \in Nat /\ MaxBudget \in Nat
      BY InWindowIsNatural, WindowAssumption
    <3>4. InWindow(h, stamp, t) <= MaxBudget
      BY <2>10, <3>1, <3>2, <3>3 DEF InWindow, Occupied
    <3> QED
      BY <2>9, <3>4 DEF Occupied, h
  <2> QED
    BY <2>11, <2>12
<1> QED
  BY <1>1, <1>2, <1>3

(* Reconciling adds no more than the operator's budget leaves room for. *)
LEMMA ReconcileAdds ==
    ASSUME NEW R, NEW g, IsGate(g, R), NEW stamp, NEW t \in Nat,
           NEW limit \in Int, NEW remaining \in Int
    PROVE  \E added :
               /\ Reconcile(g, stamp, t, limit, remaining).budget <= g.budget
               /\ Reconcile(g, stamp, t, limit, remaining).synthetic = g.synthetic \cup added
               /\ IsFiniteSet(added) /\ Cardinality(added) \in Nat
               /\ \A e \in added : e.why = "server" /\ e.at = t
               /\ added # {} => InWindow(g, stamp, t) + Cardinality(added) <= g.configured
<1> DEFINE lowered == IF UsableLimit(limit) THEN Min({g.budget, g.configured, limit})
                      ELSE g.budget
           used == InWindow(g, stamp, t)
           missing == Shortfall(used, lowered, remaining)
           earlier == Cardinality({e \in g.synthetic : e.why = "server" /\ e.at = t})
           entry == [k \in 1..missing |->
                        [why |-> "server", at |-> t, n |-> earlier + k]]
           added == {[why |-> "server", at |-> t, n |-> earlier + k] : k \in 1..missing}
<1>1. /\ g.budget \in Int /\ g.configured \in Int /\ g.budget <= g.configured
      /\ MaxBudget \in Int
  BY WindowAssumption DEF IsGate
<1>2. lowered \in Int /\ lowered <= g.configured /\ lowered <= g.budget
  <2>1. CASE UsableLimit(limit)
    <3> DEFINE m == Min({g.budget, g.configured, limit})
    <3>1. /\ m \in {g.budget, g.configured, limit}
          /\ m <= g.configured /\ m <= g.budget
      BY <1>1, MinOfThree
    <3>2. lowered = m
      BY <2>1
    <3> HIDE DEF m, lowered
    <3> QED
      BY <1>1, <3>1, <3>2
  <2>2. CASE ~UsableLimit(limit)
    BY <1>1, <2>2
  <2> QED
    BY <2>1, <2>2
<1>3. used \in Nat
  BY InWindowIsNatural
<1>4. missing \in Int /\ (missing > 0 => used + missing <= g.configured)
  <2> HIDE DEF lowered, used
  <2> DEFINE m == Min({lowered - used - remaining, MaxBudget - used})
  <2>1. lowered - used - remaining \in Int /\ MaxBudget - used \in Int
    BY <1>1, <1>2, <1>3
  <2>2. m \in Int /\ m <= lowered - used - remaining
    BY <2>1, MinOfTwo
  <2>3. missing = IF remaining >= 0 THEN m ELSE 0
    BY DEF Shortfall
  <2> HIDE DEF m, missing
  <2> QED
    BY <1>1, <1>2, <1>3, <2>2, <2>3
<1>5. /\ Reconcile(g, stamp, t, limit, remaining).synthetic = g.synthetic \cup added
      /\ Reconcile(g, stamp, t, limit, remaining).budget = lowered
  <2>1. Reconcile(g, stamp, t, limit, remaining) =
            [g EXCEPT !.budget = lowered, !.synthetic = @ \cup added]
    BY Zenon DEF Reconcile
  <2> HIDE DEF added, lowered
  <2> QED
    BY <2>1 DEF IsGate
<1> HIDE DEF lowered, used, missing, earlier
<1>6. \A e \in added : e.why = "server" /\ e.at = t
  OBVIOUS
<1>7. added # {} => missing > 0
  BY <1>4
<1>8. /\ IsFiniteSet(added) /\ Cardinality(added) \in Nat
      /\ missing > 0 => Cardinality(added) <= missing
  <2>1. entry \in Surjection(1..missing, added)
    BY DEF Surjection
  <2>2. /\ IsFiniteSet(1..missing)
        /\ missing > 0 => Cardinality(1..missing) = missing
    <3>1. IsFiniteSet(1..missing)
      BY <1>4, 1 \in Int, FS_Interval
    <3>2. ASSUME missing > 0 PROVE Cardinality(1..missing) = missing
      <4>1. Cardinality(1..missing) = missing - 1 + 1
        BY <1>4, <3>2, 1 \in Int, FS_Interval
      <4> QED
        BY <1>4, <4>1
    <3> QED
      BY <3>1, <3>2
  <2> HIDE DEF entry, added
  <2>3. IsFiniteSet(added) /\ Cardinality(added) <= Cardinality(1..missing)
    BY <2>1, <2>2, FS_Surjection
  <2> QED
    BY <2>2, <2>3, FS_CardinalityType
<1> HIDE DEF added
<1>9. added # {} => used + Cardinality(added) <= g.configured
  BY <1>1, <1>3, <1>4, <1>7, <1>8
<1> QED
  BY <1>2, <1>5, <1>6, <1>8, <1>9 DEF used

(* What the server reports never takes the room of the hold. *)
LEMMA ReconcileOccupied ==
    ASSUME NEW R, NEW g, IsGate(g, R), NEW stamp, NEW t \in Nat,
           NEW limit \in Int, NEW remaining \in Int, Occupied(g, stamp, t)
    PROVE  Occupied(Reconcile(g, stamp, t, limit, remaining), stamp, t)
<1> DEFINE h == Reconcile(g, stamp, t, limit, remaining)
           used == InWindow(g, stamp, t)
<1>1. PICK added :
          /\ h.budget <= g.budget
          /\ h.synthetic = g.synthetic \cup added
          /\ IsFiniteSet(added) /\ Cardinality(added) \in Nat
          /\ \A e \in added : e.why = "server" /\ e.at = t
          /\ added # {} => used + Cardinality(added) <= g.configured
  BY ReconcileAdds
<1>2. /\ h.admissions = g.admissions /\ h.configured = g.configured
      /\ h.createdAt = g.createdAt
  BY DEF Reconcile, IsGate
<1> HIDE DEF h
<1>3. t > t - Window
  BY WindowAssumption
<1>4. /\ Synthetic(h, t) = Synthetic(g, t) \cup added
      /\ Reported(h, t) = Reported(g, t) \cup added
      /\ Held(h) = Held(g)
      /\ Admitted(h, stamp, t) = Admitted(g, stamp, t)
  BY <1>1, <1>2, <1>3 DEF Synthetic, Reported, Held, Admitted
<1>5. /\ used \in Nat /\ used <= MaxBudget
      /\ g.configured \in Nat /\ g.configured <= MaxBudget /\ MaxBudget \in Nat
  BY InWindowIsNatural, WindowAssumption DEF Occupied, IsGate
<1>6. CASE added = {}
  <2>1. h.synthetic = g.synthetic
    BY <1>1, <1>6
  <2>2. Occupied(h, stamp, t)
    BY <1>2, <2>1, SameCount
  <2> QED
    BY <2>2 DEF h
<1>7. CASE added # {}
  <2> DEFINE a == Cardinality(added)
             told == Cardinality(Synthetic(g, t))
             reported == Cardinality(Reported(g, t))
  <2>1. a \in Nat /\ used + a <= g.configured
    BY <1>1, <1>7
  <2>2. /\ IsFiniteSet(Synthetic(g, t)) /\ told \in Nat
        /\ IsFiniteSet(Reported(g, t)) /\ reported \in Nat
        /\ Cardinality(Admitted(g, stamp, t)) \in Nat
    BY InWindowIsNatural, CountedParts
  <2>3. /\ Cardinality(Synthetic(h, t)) \in Nat /\ Cardinality(Synthetic(h, t)) <= told + a
        /\ Cardinality(Reported(h, t)) \in Nat
        /\ Cardinality(Reported(h, t)) <= reported + a
    <3>1. ASSUME NEW S, IsFiniteSet(S)
          PROVE  Cardinality(S \cup added) \in Nat /\ Cardinality(S \cup added) <= Cardinality(S) + a
      <4>1. /\ IsFiniteSet(S \cup added)
            /\ Cardinality(S \cup added) = Cardinality(S) + a - Cardinality(S \cap added)
        BY <1>1, <3>1, FS_Union
      <4>2. Cardinality(S \cap added) \in Nat /\ Cardinality(S) \in Nat
        BY <3>1, FS_Intersection, FS_CardinalityType
      <4>3. Cardinality(S \cup added) \in Nat
        BY <4>1, FS_CardinalityType
      <4> HIDE DEF a
      <4> QED
        BY <2>1, <4>1, <4>2, <4>3
    <3> QED
      BY <1>4, <2>2, <3>1
  <2>4. used = Cardinality(Admitted(g, stamp, t)) + told
    BY DEF InWindow
  <2>5. InWindow(h, stamp, t) = Cardinality(Admitted(g, stamp, t)) + Cardinality(Synthetic(h, t))
    BY <1>4 DEF InWindow
  <2>6. ASSUME g.admissions = {}, g.createdAt > t - Window
        PROVE  Cardinality(Reported(h, t)) + HalfRoundedUp(MaxBudget) <= MaxBudget
    <3>1. used = reported + HalfRoundedUp(g.configured)
      BY <2>6, CountedParts DEF Occupied
    <3>2. /\ g.configured - HalfRoundedUp(g.configured) <= MaxBudget - HalfRoundedUp(MaxBudget)
          /\ HalfRoundedUp(g.configured) \in Nat /\ HalfRoundedUp(MaxBudget) \in Nat
      <4>1. g.configured \in 1..MaxBudget
        BY DEF IsGate
      <4> QED
        BY <4>1, HalfOfBudget
    <3> HIDE DEF a, told, reported, used
    <3> QED
      BY <1>5, <2>1, <2>2, <2>3, <3>1, <3>2
  <2> HIDE DEF a, told, reported, used
  <2>7. InWindow(h, stamp, t) <= MaxBudget
    BY <1>5, <2>1, <2>2, <2>3, <2>4, <2>5
  <2>8. HoldFits(h, t)
    BY <1>2, <1>4, <2>6 DEF HoldFits, Occupied
  <2> QED
    BY <2>7, <2>8 DEF Occupied, h
<1> QED
  BY <1>6, <1>7

-----------------------------------------------------------------------------
(* Why no wake-up is lost: until it is told to, a gate has room no sooner. *)
LEMMA CapacityShrinks ==
    ASSUME NEW R, NEW g, IsGate(g, R), NEW h, IsGate(h, R), NEW stamp, NEW later, NEW t,
           Admitted(g, stamp, t) \subseteq Admitted(h, later, t),
           Synthetic(g, t) \subseteq Synthetic(h, t),
           h.budget <= g.budget, CapacityAvailable(h, later, t)
    PROVE  CapacityAvailable(g, stamp, t)
<1>1. /\ IsFiniteSet(Admitted(h, later, t)) /\ IsFiniteSet(Synthetic(h, t))
      /\ Cardinality(Admitted(h, later, t)) \in Nat /\ Cardinality(Synthetic(h, t)) \in Nat
  BY InWindowIsNatural
<1>2. /\ Cardinality(Admitted(g, stamp, t)) \in Nat /\ Cardinality(Synthetic(g, t)) \in Nat
  BY InWindowIsNatural
<1>3. Cardinality(Admitted(g, stamp, t)) <= Cardinality(Admitted(h, later, t))
  <2>1. Admitted(g, stamp, t) \in SUBSET Admitted(h, later, t)
    OBVIOUS
  <2> QED
    BY <1>1, <2>1, FS_Subset
<1>4. Cardinality(Synthetic(g, t)) <= Cardinality(Synthetic(h, t))
  <2>1. Synthetic(g, t) \in SUBSET Synthetic(h, t)
    OBVIOUS
  <2> QED
    BY <1>1, <2>1, FS_Subset
<1>5. g.budget \in Nat /\ h.budget \in Nat
  BY DEF IsGate
<1> QED
  BY <1>1, <1>2, <1>3, <1>4, <1>5 DEF CapacityAvailable, InWindow

LEMMA RecordLeavesLess ==
    ASSUME NEW R, NEW g, IsGate(g, R), NEW r \in R, NEW stamp, NEW later,
           NEW t \in Nat, NEW x \in Nat, x >= t,
           \A q \in g.admissions : stamp[q] \in Nat /\ stamp[q] <= t,
           \A q \in g.admissions \ {r} : later[q] = stamp[q],
           later[r] = t,
           CapacityAvailable(Record(g, r, stamp, t), later, x)
    PROVE  CapacityAvailable(g, stamp, x)
<1> DEFINE h == Record(g, r, stamp, t)
<1>1. IsGate(h, R)
  BY RecordKeepsGate
<1>2. /\ h.admissions = Admitted(g, stamp, t) \cup {r} /\ h.synthetic = Synthetic(g, t)
      /\ h.budget = g.budget
  BY DEF Record, IsGate
<1> HIDE DEF h
<1>3. Window \in Nat /\ g.budget \in Nat /\ \A e \in g.synthetic : e.at \in Nat
  BY WindowAssumption DEF IsGate
<1>4. Admitted(g, stamp, x) \subseteq Admitted(h, later, x)
  BY <1>2, <1>3 DEF Admitted
<1>5. Synthetic(g, x) \subseteq Synthetic(h, x)
  BY <1>2, <1>3 DEF Synthetic
<1>6. CapacityAvailable(h, later, x) /\ h.budget <= g.budget
  BY <1>2, <1>3 DEF h
<1> QED
  BY <1>1, <1>4, <1>5, <1>6, CapacityShrinks

LEMMA ReconcileLeavesLess ==
    ASSUME NEW R, NEW g, IsGate(g, R), NEW stamp, NEW t \in Nat, NEW x,
           NEW limit \in Int, NEW remaining \in Int,
           CapacityAvailable(Reconcile(g, stamp, t, limit, remaining), stamp, x)
    PROVE  CapacityAvailable(g, stamp, x)
<1> DEFINE h == Reconcile(g, stamp, t, limit, remaining)
<1>1. IsGate(h, R)
  BY ReconcileKeepsGate
<1>2. h.budget <= g.budget /\ g.synthetic \subseteq h.synthetic
  <2>1. PICK added :
            /\ h.budget <= g.budget
            /\ h.synthetic = g.synthetic \cup added
            /\ IsFiniteSet(added) /\ Cardinality(added) \in Nat
            /\ \A e \in added : e.why = "server" /\ e.at = t
            /\ added # {} => InWindow(g, stamp, t) + Cardinality(added) <= g.configured
    BY ReconcileAdds
  <2> QED
    BY <2>1
<1>3. h.admissions = g.admissions
  BY DEF Reconcile, IsGate
<1>4. CapacityAvailable(h, stamp, x)
  OBVIOUS
<1> HIDE DEF h
<1>5. /\ Admitted(g, stamp, x) \subseteq Admitted(h, stamp, x)
      /\ Synthetic(g, x) \subseteq Synthetic(h, x)
  BY <1>2, <1>3 DEF Admitted, Synthetic
<1> QED
  BY <1>1, <1>2, <1>4, <1>5, CapacityShrinks

(* A finite set splits into what has expired and what has not. *)
LEMMA Split ==
    ASSUME NEW S, IsFiniteSet(S), NEW A, NEW B, S = A \cup B, A \cap B = {}
    PROVE  /\ Cardinality(A) \in Nat /\ Cardinality(B) \in Nat
           /\ Cardinality(S) = Cardinality(A) + Cardinality(B)
<1>1. A \in SUBSET S /\ B \in SUBSET S
  OBVIOUS
<1>2. /\ IsFiniteSet(A) /\ IsFiniteSet(B)
      /\ Cardinality(A) \in Nat /\ Cardinality(B) \in Nat
  BY <1>1, FS_Subset, FS_CardinalityType
<1>3. Cardinality(A \cap B) = 0
  BY FS_EmptySet
<1>4. Cardinality(A \cup B) = Cardinality(A) + Cardinality(B) - Cardinality(A \cap B)
  BY <1>2, FS_Union
<1> QED
  BY <1>2, <1>3, <1>4

(* A full gate has no room before the instant it names. *)
LEMMA NextAvailableIsFirst ==
    ASSUME NEW R, NEW g, IsGate(g, R), NEW stamp, NEW t \in Nat,
           \A r \in g.admissions : stamp[r] \in Nat /\ stamp[r] <= t,
           \A e \in g.synthetic : e.at <= t,
           ~ CapacityAvailable(g, stamp, t),
           NEW x \in Nat, x >= t, CapacityAvailable(g, stamp, x)
    PROVE  NextAvailable(g, stamp, t) <= x
<1> DEFINE real == Admitted(g, stamp, t)
           told == Synthetic(g, t)
           surplus == InWindow(g, stamp, t) - g.budget
           upTo(y) == Cardinality({r \in real : stamp[r] <= y})
                        + Cardinality({e \in told : e.at <= y})
           times == {stamp[r] : r \in real} \cup {e.at : e \in told}
           late == {y \in times : upTo(y) > surplus}
           expired == {y \in times : y <= x - Window}
<1>1. /\ \A r \in real : stamp[r] \in Nat
      /\ \A e \in told : e.at \in Nat
      /\ IsFiniteSet(real) /\ IsFiniteSet(told)
      /\ Window \in Nat /\ g.budget \in Nat
  <2>1. IsFiniteSet(real) /\ IsFiniteSet(told)
    BY InWindowIsNatural
  <2> QED
    BY <2>1, WindowAssumption DEF Admitted, Synthetic, IsGate
<1>2. InWindow(g, stamp, t) \in Nat /\ InWindow(g, stamp, t) >= g.budget
  <2>1. InWindow(g, stamp, t) \in Nat
    BY InWindowIsNatural
  <2> QED
    BY <1>1, <2>1 DEF CapacityAvailable
<1>3. times \in SUBSET Nat
  <2>1. \A e \in told : e.at \in Nat
    BY DEF Synthetic, IsGate
  <2>2. \A r \in real : stamp[r] \in Nat
    BY DEF Admitted
  <2> QED
    BY <2>1, <2>2
<1>4. /\ Admitted(g, stamp, x) = {r \in real : stamp[r] > x - Window}
      /\ Synthetic(g, x) = {e \in told : e.at > x - Window}
  <2>1. \A e \in g.synthetic : e.at \in Nat
    BY DEF IsGate
  <2> QED
    BY <1>1, <2>1 DEF Admitted, Synthetic
<1>5. x - Window \in Int
  BY <1>1
<1>6. /\ Cardinality({r \in real : stamp[r] > x - Window}) \in Nat
      /\ Cardinality({r \in real : stamp[r] <= x - Window}) \in Nat
      /\ Cardinality(real) = Cardinality({r \in real : stamp[r] > x - Window})
                               + Cardinality({r \in real : stamp[r] <= x - Window})
  <2> DEFINE A == {r \in real : stamp[r] > x - Window}
             B == {r \in real : stamp[r] <= x - Window}
  <2> HIDE DEF real
  <2>1. IsFiniteSet(real) /\ real = A \cup B /\ A \cap B = {}
    BY <1>1, <1>5
  <2> HIDE DEF A, B, upTo, surplus, times
  <2>2. /\ Cardinality(A) \in Nat /\ Cardinality(B) \in Nat
        /\ Cardinality(real) = Cardinality(A) + Cardinality(B)
    BY <2>1, Split
  <2> QED
    BY <2>2 DEF A, B
<1>7. /\ Cardinality({e \in told : e.at > x - Window}) \in Nat
      /\ Cardinality({e \in told : e.at <= x - Window}) \in Nat
      /\ Cardinality(told) = Cardinality({e \in told : e.at > x - Window})
                               + Cardinality({e \in told : e.at <= x - Window})
  <2> DEFINE A == {e \in told : e.at > x - Window}
             B == {e \in told : e.at <= x - Window}
  <2> HIDE DEF told
  <2>1. IsFiniteSet(told) /\ told = A \cup B /\ A \cap B = {}
    BY <1>1, <1>5
  <2> HIDE DEF A, B, upTo, surplus, times
  <2>2. /\ Cardinality(A) \in Nat /\ Cardinality(B) \in Nat
        /\ Cardinality(told) = Cardinality(A) + Cardinality(B)
    BY <2>1, Split
  <2> QED
    BY <2>2 DEF A, B
<1>8. upTo(x - Window) > surplus
  <2>1. InWindow(g, stamp, t) = Cardinality(real) + Cardinality(told)
    BY DEF InWindow
  <2>2. InWindow(g, stamp, x) = Cardinality({r \in real : stamp[r] > x - Window})
                                  + Cardinality({e \in told : e.at > x - Window})
    BY <1>4 DEF InWindow
  <2>3. InWindow(g, stamp, x) < g.budget
    BY DEF CapacityAvailable
  <2> HIDE DEF real, told
  <2> QED
    BY <1>1, <1>2, <1>6, <1>7, <2>1, <2>2, <2>3
<1>9. expired # {}
  <2>1. SUFFICES ASSUME expired = {} PROVE FALSE
    OBVIOUS
  <2>2. {r \in real : stamp[r] <= x - Window} = {} /\ {e \in told : e.at <= x - Window} = {}
    BY <2>1
  <2>3. upTo(x - Window) = 0
    BY <2>2, FS_EmptySet
  <2> HIDE DEF upTo
  <2> QED
    BY <1>1, <1>2, <1>8, <2>3
<1>10. PICK last \in expired : \A y \in expired : y <= last
  <2>1. expired \in SUBSET Nat
    BY <1>3
  <2>2. x - Window \in Nat /\ \A y \in expired : y <= x - Window
    <3>1. \A y \in expired : y \in Nat /\ y <= x - Window
      BY <1>3
    <3> HIDE DEF expired
    <3>2. PICK y \in expired : TRUE
      BY <1>9
    <3> QED
      BY <1>5, <3>1, <3>2
  <2> HIDE DEF expired
  <2> QED
    BY <1>9, <2>1, <2>2, MaxOfNaturals
<1>11. upTo(last) = upTo(x - Window)
  <2>1. last \in Nat /\ last <= x - Window
    BY <1>3, <1>10
  <2>2. {r \in real : stamp[r] <= last} = {r \in real : stamp[r] <= x - Window}
    <3>1. ASSUME NEW r \in real PROVE stamp[r] <= last <=> stamp[r] <= x - Window
      <4>1. stamp[r] \in times
        OBVIOUS
      <4>2. stamp[r] <= x - Window => stamp[r] \in expired
        BY <4>1
      <4> HIDE DEF real, expired
      <4> QED
        BY <1>1, <1>5, <1>10, <2>1, <4>2
    <3> QED
      BY <3>1
  <2>3. {e \in told : e.at <= last} = {e \in told : e.at <= x - Window}
    <3>1. ASSUME NEW e \in told PROVE e.at <= last <=> e.at <= x - Window
      <4>1. e.at \in times
        OBVIOUS
      <4>2. e.at <= x - Window => e.at \in expired
        BY <4>1
      <4> HIDE DEF told, expired
      <4> QED
        BY <1>1, <1>5, <1>10, <2>1, <4>2
    <3> QED
      BY <3>1
  <2> QED
    BY <2>2, <2>3
<1>12. last \in late
  BY <1>8, <1>10, <1>11
<1>13. Min(late) \in Nat /\ Min(late) <= last
  <2>1. late \in SUBSET Nat
    BY <1>3
  <2> HIDE DEF late
  <2> QED
    BY <1>12, <2>1, MinOfNaturals
<1>14. NextAvailable(g, stamp, t) = Window + Min(late)
  BY DEF NextAvailable
<1>15. last \in Nat /\ last <= x - Window
  BY <1>3, <1>10
<1> HIDE DEF late
<1> QED
  BY <1>1, <1>13, <1>14, <1>15
=============================================================================
