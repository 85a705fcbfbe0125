--------------------- MODULE CustomFieldDiscoveryProofs ---------------------
(***************************************************************************)
(* Proofs about CustomFieldDiscovery and the modules it is made of.        *)
(*                                                                         *)
(* ListingKeys: one more allocation keeps all keys apart; a least-counter- *)
(* example argument carries that through the loop of AllocateAll.          *)
(*                                                                         *)
(* DefinitionRefresh: what a fetch nobody disturbed has read is the first  *)
(* pages of the catalog, and until definitions have loaded something is    *)
(* always on its way to load them.                                         *)
(*                                                                         *)
(* CustomFieldDiscovery: the allocation in use has the key of every entity *)
(* that is registered or about to be, whence no two of them share one.     *)
(***************************************************************************)
EXTENDS CustomFieldDiscovery, SequenceTheorems, FiniteSetTheorems, WellFoundedInduction, TLAPS

(* What every allocation satisfies. *)
Sound(a) ==
    /\ a = [keys |-> a.keys, reserved |-> a.reserved]
    /\ IsFiniteSet(a.reserved) /\ KeysDiffer(a)
-----------------------------------------------------------------------------
(* A set of numbers has a least one.                                       *)
LEMMA LeastNumber ==
    ASSUME NEW T \in SUBSET Nat, T # {}
    PROVE  \E n \in T : \A m \in T : n <= m
<1>1. \E n \in T : \A m \in T : ~(<<m, n>> \in OpToRel(<, Nat))
  BY NatLessThanWellFounded, WFMin, Zenon
<1>2. PICK n \in T : \A m \in T : ~(<<m, n>> \in OpToRel(<, Nat))
  BY <1>1
<1>3. \A m \in T : ~(m < n)
  BY <1>2, Zenon DEF OpToRel
<1> QED
  BY <1>3

(* The definition that counts is one of those with that id. *)
LEMMA SlugType ==
    ASSUME NEW defs \in Seq(Definition), NEW f \in Nat, Known(defs, f) # {}
    PROVE  Slug(defs, f) \in Seq(Nat)
<1>1. Known(defs, f) \in SUBSET Nat
  BY DEF Known
<1>2. \E i \in Known(defs, f) : \A j \in Known(defs, f) : i <= j
  BY <1>1, LeastNumber
<1> DEFINE i == CHOOSE i \in Known(defs, f) : \A j \in Known(defs, f) : i <= j
<1>3. i \in Known(defs, f)
  BY <1>2
<1>4. defs[i] \in Definition
  BY <1>3 DEF Known
<1> QED
  BY <1>4 DEF Slug, Definition

(* The key a field would like is a sequence of words.                      *)
LEMMA CandidateType ==
    ASSUME NEW defs \in Seq(Definition), NEW f \in Nat, FieldWord \in Nat
    PROVE  CandidateKey(f, defs) \in Seq(Nat)
<1>1. <<FieldWord, f>> \in Seq(Nat) /\ <<f>> \in Seq(Nat)
  OBVIOUS
<1>2. CASE Known(defs, f) = {}
  BY <1>1, <1>2 DEF CandidateKey
<1>3. CASE Known(defs, f) # {}
  <2>1. Slug(defs, f) \in Seq(Nat) /\ Slug(defs, f) \o <<f>> \in Seq(Nat)
    BY <1>1, <1>3, SlugType
  <2> QED
    BY <1>1, <2>1 DEF CandidateKey
<1> QED
  BY <1>2, <1>3

(* Among one more numbers than there are reserved keys, one gives a key    *)
(* that is not reserved: the loop of _reserve_available_key() ends.        *)
LEMMA SomeSuffixFree ==
    ASSUME NEW reserved, IsFiniteSet(reserved), NEW base \in Seq(Nat)
    PROVE  \E n \in 2..Cardinality(reserved) + 2 : base \o <<n>> \notin reserved
<1> DEFINE N == 2..Cardinality(reserved) + 2
           g == [n \in N |-> base \o <<n>>]
<1>1. Cardinality(reserved) \in Nat
  BY FS_CardinalityType
<1>2. IsFiniteSet(N) /\ Cardinality(N) = Cardinality(reserved) + 1
  <2> DEFINE last == Cardinality(reserved) + 2
  <2>1. last \in Int /\ ~(2 > last) /\ last - 2 + 1 = Cardinality(reserved) + 1
    BY <1>1
  <2>2. IsFiniteSet(2..last) /\ Cardinality(2..last) = IF 2 > last THEN 0 ELSE last - 2 + 1
    <3> HIDE DEF last
    <3> QED
      BY <2>1, FS_Interval
  <2> QED
    BY <2>1, <2>2
<1>3. SUFFICES ASSUME \A n \in N : base \o <<n>> \in reserved PROVE FALSE
  OBVIOUS
<1>4. g \in [N -> reserved]
  BY <1>3
<1>5. Cardinality(reserved) < Cardinality(N)
  BY <1>1, <1>2
<1>6. PICK m \in N, n \in N : m # n /\ g[m] = g[n]
  <2> HIDE DEF g, N
  <2> QED
    BY <1>2, <1>4, <1>5, FS_PigeonHole
<1>7. base \o <<m>> = base \o <<n>>
  BY <1>6
<1>8. (base \o <<m>>)[Len(base) + 1] = m /\ (base \o <<n>>)[Len(base) + 1] = n
  BY <1>1
<1> QED
  BY <1>6, <1>7, <1>8

(* The key it gets is not reserved yet.                                    *)
LEMMA AvailableKeyFree ==
    ASSUME NEW reserved, IsFiniteSet(reserved), NEW key \in Seq(Nat), NEW f \in Nat
    PROVE  AvailableKey(key, f, reserved) \notin reserved
<1> DEFINE base == key \o <<f>>
           suffixes == {n \in 2..Cardinality(reserved) + 2 : base \o <<n>> \notin reserved}
<1>1. base \in Seq(Nat)
  OBVIOUS
<1>2. suffixes # {}
  BY <1>1, SomeSuffixFree
<1>3. suffixes \in SUBSET Nat
  BY FS_CardinalityType
<1>4. \E n \in suffixes : \A m \in suffixes : n <= m
  <2> HIDE DEF suffixes
  <2> QED
    BY <1>2, <1>3, LeastNumber
<1>5. (CHOOSE n \in suffixes : \A m \in suffixes : n <= m) \in suffixes
  BY <1>4
<1>6. AvailableKey(key, f, reserved) =
        IF key \notin reserved THEN key
        ELSE IF base \notin reserved THEN base
        ELSE base \o <<CHOOSE n \in suffixes : \A m \in suffixes : n <= m>>
  BY DEF AvailableKey
<1> QED
  BY <1>5, <1>6

(* A field that gets a key gets one of its own, and nobody else's key      *)
(* changes: not when definitions appear, are renamed or collide            *)
(* (ListingCustomFieldKeyAllocation.allocate; FR-011).                     *)
THEOREM AllocateKeepsKeys ==
    ASSUME NEW a, Sound(a), NEW f \in Nat, NEW defs \in Seq(Definition), FieldWord \in Nat
    PROVE  LET b == Allocate(a, f, defs) IN
           /\ Sound(b)
           /\ DOMAIN b.keys = DOMAIN a.keys \cup {f}
           /\ \A g \in DOMAIN a.keys : b.keys[g] = a.keys[g]
<1>1. CASE f \in DOMAIN a.keys
  BY <1>1 DEF Allocate
<1>2. CASE f \notin DOMAIN a.keys
  <2> DEFINE key == AvailableKey(CandidateKey(f, defs), f, a.reserved)
             keys == [g \in DOMAIN a.keys \cup {f} |-> IF g = f THEN key ELSE a.keys[g]]
             b == [keys |-> keys, reserved |-> a.reserved \cup {key}]
  <2>1. Allocate(a, f, defs) = b
    BY <1>2 DEF Allocate
  <2>2. key \notin a.reserved
    BY CandidateType, AvailableKeyFree DEF Sound
  <2>3. IsFiniteSet(b.reserved)
    BY FS_AddElement DEF Sound
  <2>4. KeysDiffer(b)
    <3> HIDE DEF key
    <3> QED
      BY <1>2, <2>2 DEF Sound, KeysDiffer
  <2>5. /\ DOMAIN b.keys = DOMAIN a.keys \cup {f}
        /\ \A g \in DOMAIN a.keys : b.keys[g] = a.keys[g]
    BY <1>2
  <2>6. b = [keys |-> b.keys, reserved |-> b.reserved]
    OBVIOUS
  <2> HIDE DEF b
  <2> QED
    BY <2>1, <2>3, <2>4, <2>5, <2>6 DEF Sound
<1> QED
  BY <1>1, <1>2
(* h is what the loop of AllocateAll has made of a after each field. *)
Loop(h, a, v, seen, defs) ==
    h = [i \in 0..Len(v) |-> IF i = 0 THEN a
                             ELSE IF v[i] \in seen THEN h[i - 1]
                             ELSE Allocate(h[i - 1], v[i], defs)]

(* The loop over a sequence is well defined. *)
LEMMA LoopDefined ==
    ASSUME NEW a, NEW v \in Seq(Nat), NEW seen, NEW defs
    PROVE  \E h : Loop(h, a, v, seen, defs)
<1> DEFINE Turn(x, i) == IF v[i] \in seen THEN x ELSE Allocate(x, v[i], defs)
           Upto(n, h) == h = [i \in 0..n |-> IF i = 0 THEN a ELSE Turn(h[i - 1], i)]
           T == {n \in 0..Len(v) : ~ \E h : Upto(n, h)}
<1>1. SUFFICES T = {}
  <2>1. Len(v) \in 0..Len(v)
    OBVIOUS
  <2>2. ASSUME T = {} PROVE \E h : Upto(Len(v), h)
    BY <2>1, <2>2
  <2>3. ASSUME NEW h, Upto(Len(v), h) PROVE Loop(h, a, v, seen, defs)
    BY <2>3 DEF Loop
  <2> HIDE DEF T, Upto
  <2> QED
    BY <2>2, <2>3
<1> SUFFICES ASSUME T # {} PROVE FALSE
  OBVIOUS
<1>2. PICK n \in T : \A m \in T : n <= m
  <2>1. T \in SUBSET Nat
    OBVIOUS
  <2> HIDE DEF T
  <2> QED
    BY <2>1, LeastNumber
<1>3. n \in 0..Len(v) /\ n \in Nat /\ ~ \E h : Upto(n, h)
  OBVIOUS
<1>4. CASE n = 0
  <2> DEFINE h == [i \in 0..0 |-> a]
  <2>1. Upto(0, h)
    OBVIOUS
  <2> QED
    BY <1>3, <1>4, <2>1
<1>5. CASE n # 0
  <2>1. n - 1 \in 0..Len(v) /\ n - 1 \notin T
    <3>1. n - 1 \in 0..Len(v) /\ ~(n <= n - 1)
      <4> HIDE DEF T
      <4> QED
        BY <1>3, <1>5
    <3>2. n - 1 \in T => n <= n - 1
      <4> HIDE DEF T
      <4> QED
        BY <1>2
    <3> QED
      BY <3>1, <3>2
  <2>2. PICK h : Upto(n - 1, h)
    BY <2>1
  <2> HIDE DEF Turn, T
  <2> DEFINE k == [i \in 0..n |-> IF i = n THEN Turn(h[n - 1], n) ELSE h[i]]
  <2>3. h[0] = a /\ \A i \in 1..n - 1 : h[i] = Turn(h[i - 1], i)
    BY <1>3, <1>5, <2>2
  <2>4. \A i \in 0..n : k[i] = IF i = 0 THEN a ELSE Turn(k[i - 1], i)
    <3> SUFFICES ASSUME NEW i \in 0..n PROVE k[i] = IF i = 0 THEN a ELSE Turn(k[i - 1], i)
      OBVIOUS
    <3>1. CASE i = 0
      BY <1>3, <1>5, <2>3, <3>1
    <3>2. CASE i # 0
      <4>1. i - 1 \in 0..n /\ i - 1 # n /\ k[i - 1] = h[i - 1]
        BY <1>3, <3>2
      <4> QED
        BY <1>3, <2>3, <3>2, <4>1
    <3> QED
      BY <3>1, <3>2
  <2>5. Upto(n, k)
    <3> DEFINE w == [i \in 0..n |-> IF i = 0 THEN a ELSE Turn(k[i - 1], i)]
    <3>1. DOMAIN k = 0..n /\ DOMAIN w = 0..n /\ \A i \in 0..n : k[i] = w[i]
      BY <2>4
    <3>2. k = [i \in DOMAIN k |-> k[i]] /\ w = [i \in DOMAIN w |-> w[i]]
      OBVIOUS
    <3> HIDE DEF k, w
    <3>3. k = w
      BY <3>1, <3>2
    <3> QED
      BY <3>3 DEF w
  <2> QED
    BY <1>3, <2>5
<1> QED
  BY <1>4, <1>5

(* b has every key that a has. *)
Keeps(a, b) ==
    /\ DOMAIN a.keys \subseteq DOMAIN b.keys
    /\ \A g \in DOMAIN a.keys : b.keys[g] = a.keys[g]

(* The fields the loop has passed after its i-th turn. *)
Passed(v, i) == {v[j] : j \in 1..i}

(* What the loop has done after its i-th field, whatever it began with.    *)
LEMMA LoopKeeps ==
    ASSUME NEW a, Sound(a), NEW v \in Seq(Nat), NEW seen, NEW defs \in Seq(Definition),
           FieldWord \in Nat, NEW after, Loop(after, a, v, seen, defs)
    PROVE  \A i \in 0..Len(v) :
               /\ Sound(after[i])
               /\ Keeps(a, after[i])
               /\ DOMAIN after[i].keys = DOMAIN a.keys \cup (Passed(v, i) \ seen)
<1> DEFINE Good(i) == /\ Sound(after[i])
                      /\ Keeps(a, after[i])
                      /\ DOMAIN after[i].keys = DOMAIN a.keys \cup (Passed(v, i) \ seen)
           T == {i \in 0..Len(v) : ~Good(i)}
<1>0. /\ after[0] = a
      /\ \A i \in 1..Len(v) : after[i] = IF v[i] \in seen THEN after[i - 1]
                                         ELSE Allocate(after[i - 1], v[i], defs)
  <2> DEFINE w == [i \in 0..Len(v) |-> IF i = 0 THEN a
                                       ELSE IF v[i] \in seen THEN after[i - 1]
                                       ELSE Allocate(after[i - 1], v[i], defs)]
  <2>1. after = w
    BY DEF Loop
  <2>2. \A i \in 0..Len(v) : w[i] = IF i = 0 THEN a
                                    ELSE IF v[i] \in seen THEN after[i - 1]
                                    ELSE Allocate(after[i - 1], v[i], defs)
    OBVIOUS
  <2> HIDE DEF w
  <2>3. \A i \in 0..Len(v) : after[i] = IF i = 0 THEN a
                                    ELSE IF v[i] \in seen THEN after[i - 1]
                                    ELSE Allocate(after[i - 1], v[i], defs)
    BY <2>1, <2>2
  <2> QED
    BY <2>3
<1>1. SUFFICES ASSUME T # {} PROVE FALSE
  OBVIOUS
<1>2. PICK n \in T : \A m \in T : n <= m
  <2>1. T \in SUBSET Nat
    OBVIOUS
  <2> HIDE DEF T
  <2> QED
    BY <1>1, <2>1, LeastNumber
<1>3. n \in 0..Len(v) /\ ~Good(n)
  OBVIOUS
<1>4. n # 0
  <2>1. Good(0)
    <3>1. Passed(v, 0) = {}
      BY DEF Passed
    <3> QED
      BY <1>0, <3>1 DEF Keeps
  <2> QED
    BY <1>3, <2>1
<1>5. Good(n - 1)
  <2> HIDE DEF Good
  <2>1. n - 1 \in 0..Len(v) /\ ~(n <= n - 1)
    <3> HIDE DEF T
    <3> QED
      BY <1>3, <1>4
  <2>2. n - 1 \in T => n <= n - 1
    <3> HIDE DEF T
    <3> QED
      BY <1>2
  <2> QED
    BY <2>1, <2>2
<1> HIDE DEF T
<1>6. n \in 1..Len(v) /\ v[n] \in Nat /\ Passed(v, n) = Passed(v, n - 1) \cup {v[n]}
  <2>1. n \in 1..Len(v) /\ v[n] \in Nat /\ 1..n = (1..n - 1) \cup {n}
    BY <1>3, <1>4
  <2> QED
    BY <2>1 DEF Passed
<1>7. CASE v[n] \in seen
  BY <1>0, <1>3, <1>5, <1>6, <1>7
<1>8. CASE v[n] \notin seen
  <2> DEFINE b == after[n - 1]
  <2>1. after[n] = Allocate(b, v[n], defs)
    BY <1>0, <1>6, <1>8
  <2>2. Sound(b) /\ Keeps(a, b)
    BY <1>5
  <2>3. DOMAIN b.keys = DOMAIN a.keys \cup (Passed(v, n - 1) \ seen)
    BY <1>5
  <2> HIDE DEF b
  <2>4. /\ Sound(after[n])
        /\ DOMAIN after[n].keys = DOMAIN b.keys \cup {v[n]}
        /\ \A g \in DOMAIN b.keys : after[n].keys[g] = b.keys[g]
    BY <1>6, <2>1, <2>2, AllocateKeepsKeys
  <2>5. Keeps(a, after[n])
    BY <2>2, <2>4 DEF Keeps
  <2>6. DOMAIN after[n].keys = DOMAIN a.keys \cup (Passed(v, n) \ seen)
    BY <1>6, <1>8, <2>3, <2>4
  <2> QED
    BY <1>3, <2>4, <2>5, <2>6
<1> QED
  BY <1>7, <1>8

(* The loop of extend_custom_field_entities(), and of the preview, keeps   *)
(* every key that was there, adds one for each field not seen before, and  *)
(* keeps all of them apart.                                                *)
LEMMA AllocateAllKeeps ==
    ASSUME NEW a, Sound(a), NEW v \in Seq(Nat), NEW seen, NEW defs \in Seq(Definition),
           FieldWord \in Nat
    PROVE  LET b == AllocateAll(a, v, seen, defs) IN
           /\ Sound(b)
           /\ Keeps(a, b)
           /\ DOMAIN b.keys = DOMAIN a.keys \cup (Range(v) \ seen)
<1> DEFINE after == CHOOSE h : Loop(h, a, v, seen, defs)
<1>1. \E h : Loop(h, a, v, seen, defs)
  BY LoopDefined
<1>2. Loop(after, a, v, seen, defs)
  BY <1>1
<1>3. AllocateAll(a, v, seen, defs) = after[Len(v)]
  BY DEF AllocateAll, Loop
<1> HIDE DEF after
<1>4. \A i \in 0..Len(v) :
         /\ Sound(after[i])
         /\ Keeps(a, after[i])
         /\ DOMAIN after[i].keys = DOMAIN a.keys \cup (Passed(v, i) \ seen)
  BY <1>2, LoopKeeps
<1>5. Len(v) \in 0..Len(v) /\ Range(v) = Passed(v, Len(v))
  BY DEF Range, Passed
<1> QED
  BY <1>3, <1>4, <1>5
-----------------------------------------------------------------------------
(* A refresher's fetch. *)
Fetch == [busy : BOOLEAN, offset : Nat, got : Seq(Definition), moved : BOOLEAN]

(* The types of DefinitionRefresh's variables. *)
Typed ==
    /\ catalog \in Catalogs /\ paging \in Pagings /\ stage \in {"loaded", "off"}
    /\ definitions \in Seq(Definition)
    /\ succeeded \in BOOLEAN /\ loaded \in BOOLEAN /\ armed \in BOOLEAN /\ timer \in BOOLEAN
    /\ retries \in 0..MaxRetries
    /\ armed => retries > 0
    /\ fetch \in [Refresher -> Fetch]

(* o is a number of whole pages. *)
WholePages(o) == \E k \in Nat : o = PageLimit * k

(* A retry that runs has been counted, and fetches go on page by page. *)
Counted ==
    \A r \in Refresher :
        /\ r \in 1..MaxRetries /\ fetch[r].busy => r <= retries
        /\ WholePages(fetch[r].offset)

(* What an undisturbed fetch of pages as requested has is the beginning of *)
(* the catalog.                                                            *)
Undisturbed ==
    \A r \in Refresher :
        /\ fetch[r].moved => fetch[r].offset > 0
        /\ AsRequested /\ ~fetch[r].moved =>
              /\ fetch[r].offset <= Len(catalog)
              /\ fetch[r].got = SubSeq(catalog, 1, fetch[r].offset)

(* The inductive invariant of DefinitionRefresh. *)
Refreshing == Typed /\ Counted /\ Undisturbed /\ RetriedWhileNeeded

(* What a step of CustomFieldDiscovery is for the definitions. *)
RefreshStep == RefreshNext \/ SetUpRefresh \/ UnloadRefresh \/ UNCHANGED refreshVars

(* Every step is one of the definitions, or leaves them alone.             *)
LEMMA StepsRefresh == [Next]_vars => RefreshStep
BY DEF Next, RefreshStep, vars, SetUp, ListingRefreshed, Registers, Deletes, Unload

(* The refreshers apart: the scheduled one is no retry.                    *)
LEMMA Numbers ==
    /\ PageLimit \in Nat /\ PageLimit > 0 /\ MaxRetries \in Nat
    /\ Initial \in Retaining /\ Scheduled \in Refresher /\ Scheduled \notin Retaining
    /\ Retaining \subseteq Refresher
    /\ 1..MaxRetries \subseteq Retaining /\ 0 \notin 1..MaxRetries
    /\ Initial = 0
    /\ Scheduled \notin 1..MaxRetries
    /\ \A p \in Pagings : p.size \in Nat /\ p.size > 0 /\ p.limit \in Nat
BY RefreshAssumption DEF Initial, Scheduled, Refresher, Retaining

(* A fetch that has ended or just begun.                                   *)
LEMMA FetchTypes ==
    /\ Idle \in Fetch /\ Begun \in Fetch
    /\ ~Idle.busy /\ Begun.busy
    /\ Idle.offset = 0 /\ Begun.offset = 0
    /\ Idle.got = <<>> /\ Begun.got = <<>>
    /\ Idle.moved = FALSE /\ Begun.moved = FALSE
    /\ NoFetch \in [Refresher -> Fetch]
    /\ \A r \in Refresher : NoFetch[r] = Idle
<1>1. <<>> \in Seq(Definition)
  OBVIOUS
<1> QED
  BY <1>1 DEF Idle, Begun, NoFetch, Fetch

(* Nothing has been read before the first page.                            *)
LEMMA NothingRead ==
    \A c \in Catalogs : SubSeq(c, 1, 0) = <<>> /\ Len(c) \in Nat /\ c \in Seq(Definition)
BY DiscoveryAssumption

(* No fetch in progress disagrees with the catalog.                        *)
LEMMA IdleUndisturbed ==
    \A c \in Catalogs : /\ ~Idle.moved /\ Idle.offset <= Len(c)
                        /\ Idle.got = SubSeq(c, 1, Idle.offset)
<1> TAKE c \in Catalogs
<1>1. Idle.got = SubSeq(c, 1, 0) /\ 0 <= Len(c)
  BY FetchTypes, NothingRead
<1> QED
  BY <1>1, FetchTypes

(* The page that begins at an offset. *)
LEMMA PageType ==
    ASSUME catalog \in Catalogs, paging \in Pagings, NEW o \in Nat
    PROVE  Page(o) \in Seq(Definition)
<1> DEFINE n == IF o + paging.size < Len(catalog) THEN o + paging.size ELSE Len(catalog)
<1>1. catalog \in Seq(Definition) /\ o + 1 \in Nat /\ n \in Nat /\ n <= Len(catalog) /\ o + 1 >= 1
  BY Numbers, NothingRead
<1>2. Page(o) = SubSeq(catalog, o + 1, n)
  BY DEF Page
<1> HIDE DEF n
<1>3. \A i \in o + 1..n : catalog[i] \in Definition
  BY <1>1
<1>4. SubSeq(catalog, o + 1, n) \in Seq(Definition)
  BY <1>1
<1> QED
  BY <1>2, <1>4

(* A page, put behind those before it, gives a longer beginning of the     *)
(* catalog.                                                                *)
LEMMA PageFollows ==
    ASSUME catalog \in Catalogs, AsRequested, NEW o \in Nat, o <= Len(catalog)
    PROVE  LET n == IF o + PageLimit < Len(catalog) THEN o + PageLimit ELSE Len(catalog) IN
           /\ n \in Nat /\ o <= n /\ n <= Len(catalog)
           /\ Len(Page(o)) = n - o
           /\ SubSeq(catalog, 1, o) \o Page(o) = SubSeq(catalog, 1, n)
<1> DEFINE n == IF o + PageLimit < Len(catalog) THEN o + PageLimit ELSE Len(catalog)
<1>1. /\ catalog \in Seq(Definition) /\ Len(catalog) \in Nat
      /\ n \in Nat /\ n <= Len(catalog) /\ o <= n
  BY Numbers, NothingRead
<1>2. Page(o) = SubSeq(catalog, o + 1, n)
  BY DEF Page, AsRequested
<1> HIDE DEF n
<1>3. SubSeq(catalog, 1, o) \in Seq(Definition) /\ Len(SubSeq(catalog, 1, o)) = o
  BY <1>1
<1>4. SubSeq(catalog, o + 1, n) \in Seq(Definition) /\ Len(SubSeq(catalog, o + 1, n)) = n - o
  BY <1>1
<1>5. SubSeq(catalog, 1, n) \in Seq(Definition) /\ Len(SubSeq(catalog, 1, n)) = n
  BY <1>1
<1>6. SubSeq(catalog, 1, o) \o Page(o) = SubSeq(catalog, 1, n)
  <2> DEFINE l == SubSeq(catalog, 1, o) \o SubSeq(catalog, o + 1, n)
  <2>1. l \in Seq(Definition) /\ Len(l) = n
    BY <1>1, <1>3, <1>4
  <2>2. \A i \in 1..n : l[i] = SubSeq(catalog, 1, n)[i]
    <3> SUFFICES ASSUME NEW i \in 1..n PROVE l[i] = SubSeq(catalog, 1, n)[i]
      OBVIOUS
    <3>1. CASE i <= o
      BY <1>1, <1>3, <1>4, <3>1
    <3>2. CASE ~(i <= o)
      <4>1. i - o \in 1..n - o /\ (o + 1) + (i - o) - 1 = i
        BY <1>1, <3>2
      <4>2. l[i] = SubSeq(catalog, o + 1, n)[i - o]
        BY <1>1, <1>3, <1>4, <3>2
      <4>3. SubSeq(catalog, o + 1, n)[i - o] = catalog[i]
        BY <1>1, <4>1
      <4> QED
        BY <1>1, <4>2, <4>3
    <3> QED
      BY <3>1, <3>2
  <2> HIDE DEF l
  <2>3. l = SubSeq(catalog, 1, n)
    BY <1>5, <2>1, <2>2, SeqEqual
  <2> QED
    BY <1>2, <2>3 DEF l
<1> QED
  BY <1>1, <1>2, <1>4, <1>6 DEF n

(* Whole pages add up.                                                     *)
LEMMA OffsetsCount ==
    /\ WholePages(0)
    /\ \A o : WholePages(o) => WholePages(o + PageLimit) /\ o % PageLimit = 0
<1>1. PageLimit * 0 = 0
  BY RefreshAssumption, SMT
<1>2. \A k \in Nat : /\ PageLimit * k + PageLimit = PageLimit * (k + 1)
                     /\ k + 1 \in Nat
                     /\ (PageLimit * k) % PageLimit = 0
  <2> TAKE k \in Nat
  <2>1. PageLimit * k + PageLimit = PageLimit * (k + 1)
    BY RefreshAssumption, SMT
  <2>2. (PageLimit * k) % PageLimit = 0
    BY RefreshAssumption, SMTT(30)
  <2> QED
    BY <2>1, <2>2
<1>3. WholePages(0)
  BY <1>1 DEF WholePages
<1>4. ASSUME NEW o, WholePages(o) PROVE WholePages(o + PageLimit) /\ o % PageLimit = 0
  <2>1. PICK k \in Nat : o = PageLimit * k
    BY <1>4 DEF WholePages
  <2>2. k + 1 \in Nat /\ o + PageLimit = PageLimit * (k + 1)
    BY <1>2, <2>1
  <2>3. o % PageLimit = 0
    BY <1>2, <2>1
  <2> QED
    BY <2>2, <2>3 DEF WholePages
<1> QED
  BY <1>3, <1>4

(* A fetch that begins or ends has read nothing.                           *)
LEMMA Emptied ==
    ASSUME Refreshing, NEW r \in Refresher, NEW x \in {Idle, Begun},
           fetch' = [fetch EXCEPT ![r] = x],
           r \in 1..MaxRetries /\ x.busy => r <= retries',
           retries' \in 0..MaxRetries, retries <= retries',
           UNCHANGED serverVars
    PROVE  /\ fetch' \in [Refresher -> Fetch]
           /\ Counted' /\ Undisturbed'
           /\ \A q \in Refresher \ {r} : fetch'[q] = fetch[q]
           /\ fetch'[r] = x
<1>1. /\ fetch' \in [Refresher -> Fetch]
      /\ \A q \in Refresher \ {r} : fetch'[q] = fetch[q]
      /\ fetch'[r] = x
  BY FetchTypes DEF Refreshing, Typed
<1>2. x.offset = 0 /\ x.got = <<>> /\ x.moved = FALSE
  BY FetchTypes
<1>3. Counted'
  <2> SUFFICES ASSUME NEW q \in Refresher
               PROVE  /\ q \in 1..MaxRetries /\ fetch'[q].busy => q <= retries'
                      /\ WholePages(fetch'[q].offset)
    BY DEF Counted
  <2>1. CASE q = r
    BY <1>1, <1>2, <2>1, OffsetsCount
  <2>2. CASE q # r
    <3>1. /\ q \in 1..MaxRetries /\ fetch[q].busy => q <= retries
          /\ WholePages(fetch[q].offset)
      BY DEF Refreshing, Counted
    <3>2. retries \in Nat /\ retries' \in Nat
      BY Numbers DEF Refreshing, Typed
    <3>3. q \in 1..MaxRetries /\ fetch'[q].busy => q <= retries'
      BY <1>1, <2>2, <3>1, <3>2
    <3> QED
      BY <1>1, <2>2, <3>1, <3>3
  <2> QED
    BY <2>1, <2>2
<1>4. Undisturbed'
  <2>0. catalog' = catalog /\ AsRequested' = AsRequested
    BY DEF serverVars, AsRequested, Reported
  <2>1. Len(catalog) \in Nat /\ SubSeq(catalog, 1, 0) = <<>>
    BY NothingRead DEF Refreshing, Typed
  <2> SUFFICES ASSUME NEW q \in Refresher
               PROVE  /\ fetch'[q].moved => fetch'[q].offset > 0
                      /\ AsRequested /\ ~fetch'[q].moved =>
                            /\ fetch'[q].offset <= Len(catalog)
                            /\ fetch'[q].got = SubSeq(catalog, 1, fetch'[q].offset)
    BY <2>0 DEF Undisturbed
  <2>2. CASE q = r
    <3>1. x.got = SubSeq(catalog, 1, 0) /\ 0 <= Len(catalog)
      BY <1>2, <2>1
    <3>2. x.got = SubSeq(catalog, 1, x.offset) /\ x.offset <= Len(catalog) /\ ~x.moved
      BY <1>2, <3>1
    <3>3. fetch'[q] = x
      BY <1>1, <2>2
    <3> QED
      BY <3>2, <3>3
  <2>3. CASE q # r
    BY <1>1, <2>3 DEF Refreshing, Undisturbed
  <2> QED
    BY <2>2, <2>3
<1> QED
  BY <1>1, <1>3, <1>4

(* The invariant of the definitions holds at first,                        *)
LEMMA RefreshBegins == RefreshInit => Refreshing
<1> SUFFICES ASSUME RefreshInit PROVE Refreshing
  OBVIOUS
<1>1. Typed
  <2>1. definitions \in Seq(Definition) /\ retries \in 0..MaxRetries
    BY Numbers DEF RefreshInit
  <2>2. fetch \in [Refresher -> Fetch]
    BY FetchTypes DEF RefreshInit
  <2> QED
    BY <2>1, <2>2 DEF RefreshInit, Typed
<1>2. Counted
  <2> SUFFICES ASSUME NEW r \in Refresher
               PROVE  /\ r \in 1..MaxRetries /\ fetch[r].busy => r <= retries
                      /\ WholePages(fetch[r].offset)
    BY DEF Counted
  <2>1. fetch[r] = Idle
    BY FetchTypes DEF RefreshInit
  <2> QED
    BY <2>1, FetchTypes, OffsetsCount
<1>3. Undisturbed
  <2> SUFFICES ASSUME NEW r \in Refresher
               PROVE  /\ fetch[r].moved => fetch[r].offset > 0
                      /\ ~fetch[r].moved =>
                            /\ fetch[r].offset <= Len(catalog)
                            /\ fetch[r].got = SubSeq(catalog, 1, fetch[r].offset)
    BY DEF Undisturbed
  <2>1. fetch[r] = Idle /\ catalog \in Catalogs
    BY FetchTypes DEF RefreshInit
  <2> QED
    BY <2>1, IdleUndisturbed
<1>4. RetriedWhileNeeded
  BY DEF RefreshInit, RetriedWhileNeeded
<1> QED
  BY <1>1, <1>2, <1>3, <1>4 DEF Refreshing

(* _schedule_definition_retry() counts a retry for every one it arms, and  *)
(* where one is due leaves it armed, unless there are none left.           *)
LEMMA Schedules ==
    ASSUME Refreshing, ScheduleRetry
    PROVE  /\ retries' \in 0..MaxRetries /\ retries <= retries'
           /\ armed' \in BOOLEAN
           /\ armed' => retries' > 0
           /\ armed => armed'
           /\ stage = "off" => armed' = armed
           /\ stage = "loaded" => armed' \/ retries' = MaxRetries
BY Numbers DEF ScheduleRetry, Refreshing, Typed

(* and every step keeps it.                                                *)
LEMMA RefreshKept == Refreshing /\ RefreshStep => Refreshing'
<1> SUFFICES ASSUME Refreshing, RefreshStep PROVE Refreshing'
  OBVIOUS
<1> USE Numbers
<1>0. Typed /\ retries \in Nat
  BY DEF Refreshing, Typed
<1>1. CASE SetUpRefresh
  <2>1. Typed'
    BY <1>0, <1>1 DEF SetUpRefresh, serverVars, Typed
  <2>2. Counted' /\ Undisturbed'
    BY <1>1, FetchTypes DEF SetUpRefresh, serverVars, Refreshing, Counted,
       Undisturbed, AsRequested, Reported
  <2>3. RetriedWhileNeeded'
    BY <1>1 DEF SetUpRefresh, RetriedWhileNeeded
  <2> QED
    BY <2>1, <2>2, <2>3 DEF Refreshing
<1>2. CASE TimerFires
  <2>1. /\ fetch' \in [Refresher -> Fetch] /\ Counted' /\ Undisturbed'
        /\ fetch'[Initial] = Begun
    <3>1. fetch' = [fetch EXCEPT ![Initial] = Begun] /\ UNCHANGED <<serverVars, retries>>
      BY <1>2 DEF TimerFires, coordinatorVars
    <3>2. /\ Initial \in Refresher /\ (Initial \in 1..MaxRetries /\ Begun.busy => Initial <= retries')
          /\ retries' \in 0..MaxRetries /\ retries <= retries'
          /\ UNCHANGED serverVars
      BY <1>0, <3>1 DEF Typed
    <3> QED
      BY <3>1, <3>2, Emptied
  <2>2. Typed'
    BY <1>0, <1>2, <2>1 DEF TimerFires, coordinatorVars, serverVars, Typed
  <2>3. RetriedWhileNeeded'
    BY <1>2, <2>1, FetchTypes DEF TimerFires, coordinatorVars, Refreshing, RetriedWhileNeeded
  <2> QED
    BY <2>1, <2>2, <2>3 DEF Refreshing
<1>3. CASE IntervalElapses
  <2>1. /\ fetch' \in [Refresher -> Fetch] /\ Counted' /\ Undisturbed'
        /\ \A q \in Refresher \ {Scheduled} : fetch'[q] = fetch[q]
    <3>1. fetch' = [fetch EXCEPT ![Scheduled] = Begun] /\ UNCHANGED <<serverVars, retries>>
      BY <1>3 DEF IntervalElapses, coordinatorVars
    <3>2. /\ Scheduled \in 1..MaxRetries /\ Begun.busy => Scheduled <= retries'
          /\ retries' \in 0..MaxRetries /\ retries <= retries'
          /\ UNCHANGED serverVars
      BY <1>0, <3>1 DEF Typed
    <3> QED
      BY <3>1, <3>2, Emptied
  <2>2. Typed'
    BY <1>0, <1>3, <2>1 DEF IntervalElapses, coordinatorVars, serverVars, Typed
  <2>3. RetriedWhileNeeded'
    BY <1>3, <2>1 DEF IntervalElapses, coordinatorVars, Refreshing, RetriedWhileNeeded
  <2> QED
    BY <2>1, <2>2, <2>3 DEF Refreshing
<1>4. CASE RetryFires
  <2>0. retries \in 1..MaxRetries
    BY <1>0, <1>4 DEF RetryFires, Typed
  <2>1. /\ fetch' \in [Refresher -> Fetch] /\ Counted' /\ Undisturbed'
        /\ fetch'[retries] = Begun
    <3>1. fetch' = [fetch EXCEPT ![retries] = Begun] /\ UNCHANGED <<serverVars, retries>>
      BY <1>4 DEF RetryFires
    <3>2. /\ retries \in Refresher /\ retries <= retries'
          /\ retries' \in 0..MaxRetries
          /\ UNCHANGED serverVars
      BY <1>0, <2>0, <3>1 DEF Typed
    <3> QED
      BY <3>1, <3>2, Emptied
  <2>2. Typed'
    BY <1>0, <1>4, <2>1 DEF RetryFires, serverVars, Typed
  <2>3. RetriedWhileNeeded'
    BY <1>4, <2>0, <2>1, FetchTypes DEF RetryFires, RetriedWhileNeeded
  <2> QED
    BY <2>1, <2>2, <2>3 DEF Refreshing
<1>5. ASSUME NEW r \in Refresher, Fails(r) PROVE Refreshing'
  <2>0. /\ fetch' = [fetch EXCEPT ![r] = Idle] /\ UNCHANGED serverVars
        /\ retries' \in 0..MaxRetries /\ retries <= retries'
        /\ armed' \in BOOLEAN
        /\ armed' => retries' > 0
        /\ armed => armed'
        /\ stage = "off" => armed' = armed
        /\ ~loaded /\ r \in Retaining /\ stage = "loaded" => armed' \/ retries' = MaxRetries
        /\ loaded => armed' = armed
        /\ retries = MaxRetries => retries' = MaxRetries
    <3>1. CASE r \in Retaining /\ ~loaded
      BY <1>0, <1>5, <3>1, Schedules DEF Fails, Typed
    <3>2. CASE ~(r \in Retaining /\ ~loaded)
      BY <1>0, <1>5, <3>2 DEF Fails, Typed
    <3> QED
      BY <3>1, <3>2
  <2>1. /\ fetch' \in [Refresher -> Fetch] /\ Counted' /\ Undisturbed'
        /\ \A q \in Refresher \ {r} : fetch'[q] = fetch[q]
    BY <2>0, Emptied, FetchTypes
  <2>2. Typed'
    BY <1>0, <1>5, <2>0, <2>1 DEF Fails, serverVars, Typed
  <2>3. RetriedWhileNeeded'
    BY <1>0, <1>5, <2>0, <2>1 DEF Fails, Refreshing, RetriedWhileNeeded, Typed
  <2> QED
    BY <2>1, <2>2, <2>3 DEF Refreshing
<1>6. ASSUME NEW r \in Refresher, Sheds(r) PROVE Refreshing'
  <2>0. /\ fetch' = [fetch EXCEPT ![r] = Idle] /\ UNCHANGED serverVars
        /\ retries' \in 0..MaxRetries /\ retries <= retries'
        /\ armed' \in BOOLEAN
        /\ armed' => retries' > 0
        /\ armed => armed'
        /\ stage = "off" => armed' = armed
        /\ ~loaded /\ stage = "loaded" => armed' \/ retries' = MaxRetries
        /\ loaded => armed' = armed
        /\ retries = MaxRetries => retries' = MaxRetries
    <3>1. CASE ~loaded
      BY <1>0, <1>6, <3>1, Schedules DEF Sheds, Typed
    <3>2. CASE loaded
      BY <1>0, <1>6, <3>2 DEF Sheds, Typed
    <3> QED
      BY <1>0, <3>1, <3>2 DEF Typed
  <2>1. /\ fetch' \in [Refresher -> Fetch] /\ Counted' /\ Undisturbed'
        /\ \A q \in Refresher \ {r} : fetch'[q] = fetch[q]
    BY <2>0, Emptied, FetchTypes
  <2>2. Typed'
    BY <1>0, <1>6, <2>0, <2>1 DEF Sheds, serverVars, Typed
  <2>3. RetriedWhileNeeded'
    BY <1>0, <1>6, <2>0, <2>1 DEF Sheds, Refreshing, RetriedWhileNeeded, Typed
  <2> QED
    BY <2>1, <2>2, <2>3 DEF Refreshing
<1>7. ASSUME NEW r \in Refresher, Answered(r) PROVE Refreshing'
  <2> DEFINE all == fetch[r].got \o Page(fetch[r].offset)
  <2>0. all \in Seq(Definition) /\ fetch[r] \in Fetch
    <3>1. fetch[r].got \in Seq(Definition) /\ fetch[r].offset \in Nat /\ fetch[r] \in Fetch
      BY <1>0 DEF Typed, Fetch
    <3>2. Page(fetch[r].offset) \in Seq(Definition)
      BY <1>0, <3>1, PageType DEF Typed
    <3> QED
      BY <3>1, <3>2
  <2>1. PICK last \in LastPage(fetch[r].offset) :
           \/ last /\ Loads(r, all)
           \/ /\ ~last
              /\ fetch' = [fetch EXCEPT ![r].got = all, ![r].offset = @ + PageLimit]
              /\ UNCHANGED <<serverVars, coordinatorVars, timer, stage>>
    BY <1>7 DEF Answered
  <2> HIDE DEF all
  <2>2. CASE Loads(r, all)
    <3>1. /\ fetch' \in [Refresher -> Fetch] /\ Counted' /\ Undisturbed'
      <4>1. fetch' = [fetch EXCEPT ![r] = Idle] /\ UNCHANGED <<serverVars, retries>>
        BY <2>2 DEF Loads
      <4> QED
        BY <1>0, <4>1, Emptied, FetchTypes DEF Typed
    <3>2. Typed'
      BY <1>0, <2>0, <2>2, <3>1 DEF Loads, serverVars, Typed
    <3>3. RetriedWhileNeeded'
      BY <2>2 DEF Loads, RetriedWhileNeeded
    <3> QED
      BY <3>1, <3>2, <3>3 DEF Refreshing
  <2>3. CASE /\ ~last
             /\ fetch' = [fetch EXCEPT ![r].got = all, ![r].offset = @ + PageLimit]
             /\ UNCHANGED <<serverVars, coordinatorVars, timer, stage>>
    <3> DEFINE o == fetch[r].offset
    <3>1. o \in Nat /\ o + PageLimit \in Nat
      BY <2>0 DEF Fetch
    <3>2. /\ fetch' \in [Refresher -> Fetch]
          /\ \A q \in Refresher \ {r} : fetch'[q] = fetch[q]
          /\ fetch'[r].offset = o + PageLimit /\ fetch'[r].got = all
          /\ fetch'[r].busy = fetch[r].busy /\ fetch'[r].moved = fetch[r].moved
      BY <1>0, <2>0, <2>3, <3>1 DEF Typed, Fetch
    <3>3. UNCHANGED <<catalog, paging, definitions, succeeded, loaded, retries, armed, timer, stage>>
      BY <2>3 DEF serverVars, coordinatorVars
    <3>4. Typed'
      BY <1>0, <3>2, <3>3 DEF Typed
    <3>5. Counted'
      <4> SUFFICES ASSUME NEW q \in Refresher
                   PROVE  /\ q \in 1..MaxRetries /\ fetch'[q].busy => q <= retries'
                          /\ WholePages(fetch'[q].offset)
        BY DEF Counted
      <4>1. q \in 1..MaxRetries /\ fetch'[q].busy => q <= retries'
        BY <3>2, <3>3 DEF Refreshing, Counted
      <4>2. WholePages(fetch[q].offset) /\ WholePages(fetch[q].offset + PageLimit)
        BY OffsetsCount DEF Refreshing, Counted
      <4>4. CASE q = r
        BY <3>2, <4>1, <4>2, <4>4
      <4>5. CASE q # r
        BY <3>2, <4>1, <4>2, <4>5
      <4> QED
        BY <4>1, <4>4, <4>5
    <3>6. Undisturbed'
      <4>0. \A q \in Refresher : fetch'[q].moved => fetch'[q].offset > 0
        <5> SUFFICES ASSUME NEW q \in Refresher, fetch'[q].moved
                     PROVE  fetch'[q].offset > 0
          OBVIOUS
        <5>1. CASE q = r
          BY <3>1, <3>2, <5>1
        <5>2. CASE q # r
          BY <3>2, <5>2 DEF Refreshing, Undisturbed
        <5> QED
          BY <5>1, <5>2
      <4> SUFFICES ASSUME NEW q \in Refresher, AsRequested, ~fetch'[q].moved
                   PROVE  /\ fetch'[q].offset <= Len(catalog)
                          /\ fetch'[q].got = SubSeq(catalog, 1, fetch'[q].offset)
        BY <3>3, <4>0 DEF Undisturbed, AsRequested, Reported
      <4>1. CASE q # r
        BY <3>2, <4>1 DEF Refreshing, Undisturbed
      <4>2. CASE q = r
        <5>1. o <= Len(catalog) /\ fetch[r].got = SubSeq(catalog, 1, o)
          BY <3>2, <4>2 DEF Refreshing, Undisturbed
        <5> DEFINE n == IF o + PageLimit < Len(catalog) THEN o + PageLimit ELSE Len(catalog)
        <5>2. /\ n \in Nat /\ o <= n /\ n <= Len(catalog) /\ Len(Page(o)) = n - o
              /\ SubSeq(catalog, 1, o) \o Page(o) = SubSeq(catalog, 1, n)
          BY <1>0, <3>1, <5>1, PageFollows DEF Typed
        <5>3. n = o + PageLimit
          <6>1. ~(o + PageLimit >= Len(catalog)) \/ ~(Len(Page(o)) < PageLimit)
            BY <2>1, <2>3 DEF LastPage, AsRequested
          <6>2. Len(catalog) \in Nat
            BY <1>0, NothingRead DEF Typed
          <6> QED
            BY <3>1, <5>1, <5>2, <6>1, <6>2
        <5> HIDE DEF n
        <5> QED
          BY <3>2, <4>2, <5>1, <5>2, <5>3 DEF all
      <4> QED
        BY <4>1, <4>2
    <3>7. RetriedWhileNeeded'
      BY <3>2, <3>3 DEF Refreshing, RetriedWhileNeeded
    <3> QED
      BY <3>4, <3>5, <3>6, <3>7 DEF Refreshing
  <2> QED
    BY <2>1, <2>2, <2>3
<1>8. CASE UnloadRefresh
  <2>1. Typed'
    BY <1>0, <1>8 DEF UnloadRefresh, serverVars, Typed
  <2>2. Counted' /\ Undisturbed'
    BY <1>8 DEF UnloadRefresh, serverVars, Refreshing, Counted, Undisturbed,
       AsRequested, Reported
  <2>3. RetriedWhileNeeded'
    BY <1>8 DEF UnloadRefresh, RetriedWhileNeeded
  <2> QED
    BY <2>1, <2>2, <2>3 DEF Refreshing
<1>9. CASE TasksCancelled
  <2>0. stage = "off" /\ fetch' = NoFetch
        /\ UNCHANGED <<serverVars, definitions, succeeded, loaded, retries, armed, timer, stage>>
    BY <1>9 DEF TasksCancelled, coordinatorVars
  <2>1. Typed'
    BY <1>0, <2>0, FetchTypes DEF serverVars, Typed
  <2>2. Counted'
    <3> SUFFICES ASSUME NEW r \in Refresher
                 PROVE  /\ r \in 1..MaxRetries /\ fetch'[r].busy => r <= retries'
                        /\ WholePages(fetch'[r].offset)
      BY DEF Counted
    <3>1. fetch'[r] = Idle
      BY <2>0, FetchTypes
    <3> QED
      BY <3>1, FetchTypes, OffsetsCount
  <2>3. Undisturbed'
    <3> SUFFICES ASSUME NEW r \in Refresher
                 PROVE  /\ fetch'[r].moved => fetch'[r].offset > 0
                        /\ ~fetch'[r].moved =>
                              /\ fetch'[r].offset <= Len(catalog')
                              /\ fetch'[r].got = SubSeq(catalog', 1, fetch'[r].offset)
      BY DEF Undisturbed
    <3>1. fetch'[r] = Idle /\ catalog' \in Catalogs
      BY <1>0, <2>0, FetchTypes DEF serverVars, Typed
    <3> QED
      BY <3>1, IdleUndisturbed
  <2>4. RetriedWhileNeeded'
    BY <2>0 DEF Refreshing, RetriedWhileNeeded
  <2> QED
    BY <2>1, <2>2, <2>3, <2>4 DEF Refreshing
<1>10. CASE CatalogChanges
  <2>0. /\ catalog' \in Catalogs
        /\ UNCHANGED <<paging, definitions, succeeded, loaded, retries, armed, timer, stage>>
    BY <1>10 DEF CatalogChanges, coordinatorVars
  <2>1. \A r \in Refresher :
           fetch'[r] = [fetch[r] EXCEPT !.moved =
                           fetch[r].offset > 0 /\ (@ \/ ~Prefix(catalog, catalog'))]
    BY <1>10 DEF CatalogChanges
  <2>2. ASSUME NEW r \in Refresher
        PROVE  /\ fetch'[r] \in Fetch
               /\ fetch'[r].busy = fetch[r].busy /\ fetch'[r].offset = fetch[r].offset
               /\ fetch'[r].got = fetch[r].got
               /\ fetch'[r].moved => fetch[r].offset > 0
               /\ ~fetch'[r].moved => \/ ~(fetch[r].offset > 0)
                                      \/ ~fetch[r].moved /\ Prefix(catalog, catalog')
    <3>1. fetch[r] \in Fetch
      BY <1>0 DEF Typed
    <3> DEFINE m == fetch[r].offset > 0 /\ (fetch[r].moved \/ ~Prefix(catalog, catalog'))
    <3>2. fetch'[r] = [fetch[r] EXCEPT !.moved = m] /\ m \in BOOLEAN
      BY <2>1
    <3> HIDE DEF m
    <3>3. /\ fetch'[r] \in Fetch
          /\ fetch'[r].busy = fetch[r].busy /\ fetch'[r].offset = fetch[r].offset
          /\ fetch'[r].got = fetch[r].got
          /\ fetch'[r].moved = m
      BY <3>1, <3>2 DEF Fetch
    <3> QED
      BY <3>3 DEF m
  <2>3. fetch' \in [Refresher -> Fetch]
    <3>1. fetch' = [r \in Refresher |->
                      [fetch[r] EXCEPT !.moved =
                          fetch[r].offset > 0 /\ (@ \/ ~Prefix(catalog, catalog'))]]
      BY <1>10 DEF CatalogChanges
    <3>2. DOMAIN fetch' = Refresher /\ fetch' = [r \in DOMAIN fetch' |-> fetch'[r]]
      BY <3>1
    <3> QED
      BY <2>2, <3>2
  <2>4. Typed'
    BY <1>0, <2>0, <2>3 DEF Typed
  <2>5. Counted'
    BY <2>0, <2>2 DEF Refreshing, Counted
  <2>6. Undisturbed'
    <3>0. \A r \in Refresher : fetch'[r].moved => fetch'[r].offset > 0
      BY <2>2
    <3> SUFFICES ASSUME NEW r \in Refresher, AsRequested, ~fetch'[r].moved
                 PROVE  /\ fetch'[r].offset <= Len(catalog')
                        /\ fetch'[r].got = SubSeq(catalog', 1, fetch'[r].offset)
      BY <2>0, <3>0 DEF Undisturbed, AsRequested, Reported
    <3> DEFINE o == fetch[r].offset
    <3>1. o \in Nat /\ fetch[r].moved \in BOOLEAN
      BY <1>0 DEF Typed, Fetch
    <3>2. /\ catalog \in Seq(Definition) /\ catalog' \in Seq(Definition)
          /\ SubSeq(catalog, 1, 0) = <<>> /\ SubSeq(catalog', 1, 0) = <<>>
          /\ Len(catalog) \in Nat /\ Len(catalog') \in Nat
      BY <1>0, <2>0, NothingRead DEF Typed
    <3>3. CASE o = 0
      <4>1. fetch[r].got = <<>>
        <5>1. fetch[r].moved \/ fetch[r].got = SubSeq(catalog, 1, 0)
          BY <3>3 DEF Refreshing, Undisturbed
        <5>2. ~fetch[r].moved
          BY <3>3 DEF Refreshing, Undisturbed
        <5> QED
          BY <3>2, <5>1, <5>2
      <4> QED
        <5>1. fetch[r].got = SubSeq(catalog', 1, 0) /\ 0 <= Len(catalog')
          BY <3>2, <4>1
        <5>2. fetch'[r].offset = 0 /\ fetch'[r].got = fetch[r].got
          BY <2>2, <3>3
        <5> QED
          BY <5>1, <5>2
    <3>4. CASE o # 0
      <4>1. ~fetch[r].moved /\ Prefix(catalog, catalog')
        BY <2>2, <3>1, <3>4
      <4>2. o <= Len(catalog) /\ fetch[r].got = SubSeq(catalog, 1, o)
        BY <4>1 DEF Refreshing, Undisturbed
      <4>3. Len(catalog) <= Len(catalog') /\ catalog = SubSeq(catalog', 1, Len(catalog))
        BY <4>1 DEF Prefix
      <4>4. SubSeq(catalog, 1, o) = SubSeq(catalog', 1, o)
        <5>1. /\ SubSeq(catalog, 1, o) \in Seq(Definition) /\ Len(SubSeq(catalog, 1, o)) = o
              /\ SubSeq(catalog', 1, o) \in Seq(Definition) /\ Len(SubSeq(catalog', 1, o)) = o
          BY <3>1, <3>2, <4>2, <4>3
        <5>2. \A i \in 1..o : SubSeq(catalog, 1, o)[i] = SubSeq(catalog', 1, o)[i]
          <6> SUFFICES ASSUME NEW i \in 1..o
                       PROVE  SubSeq(catalog, 1, o)[i] = SubSeq(catalog', 1, o)[i]
            OBVIOUS
          <6>1. SubSeq(catalog, 1, o)[i] = catalog[i] /\ SubSeq(catalog', 1, o)[i] = catalog'[i]
            BY <3>1, <3>2, <4>2, <4>3
          <6>2. SubSeq(catalog', 1, Len(catalog))[i] = catalog'[i]
            BY <3>1, <3>2, <4>2, <4>3
          <6> QED
            BY <4>3, <6>1, <6>2
        <5> QED
          BY <5>1, <5>2, SeqEqual
      <4> QED
        <5>1. o <= Len(catalog')
          BY <3>1, <3>2, <4>2, <4>3
        <5>2. fetch'[r].offset = o /\ fetch'[r].got = fetch[r].got
          BY <2>2
        <5> QED
          BY <4>2, <4>4, <5>1, <5>2
    <3> QED
      BY <3>3, <3>4
  <2>7. RetriedWhileNeeded'
    BY <2>0, <2>2 DEF Refreshing, RetriedWhileNeeded
  <2> QED
    BY <2>4, <2>5, <2>6, <2>7 DEF Refreshing
<1>11. CASE UNCHANGED refreshVars
  BY <1>11 DEF refreshVars, serverVars, coordinatorVars, Refreshing, Typed, Counted,
               Undisturbed, AsRequested, Reported, RetriedWhileNeeded
<1> QED
  BY <1>1, <1>2, <1>3, <1>4, <1>5, <1>6, <1>7, <1>8, <1>9, <1>10, <1>11
     DEF RefreshStep, RefreshNext
-----------------------------------------------------------------------------
(* The field of the entity e has e's key in the allocation a. *)
HasKey(e, a) == e[1] \in DOMAIN a.keys /\ a.keys[e[1]] = e[2]

Keyed(entities, a) == \A e \in entities : HasKey(e, a)

(* Two entities are of one field just when they have one key. *)
Matched(entities) == \A e, h \in entities : e[1] = h[1] <=> e[2] = h[2]

(* What the platform then has been handed, of it waiting before.           *)
HandedOver(waiting, v, seen, all) == waiting \cup {<<f, all.keys[f]>> : f \in Range(v) \ seen}

(* What a function makes of a finite set is finite.                        *)
LEMMA ImageFinite ==
    ASSUME NEW S, IsFiniteSet(S), NEW h
    PROVE  IsFiniteSet({h[x] : x \in S})
<1> DEFINE T == {h[x] : x \in S}
           g == [x \in S |-> h[x]]
<1>1. g \in Surjection(S, T)
  BY DEF Surjection
<1> QED
  BY <1>1, FS_Surjection

(* An allocation without keys is sound.                                    *)
LEMMA NothingSound ==
    Sound(NothingAllocated) /\ DOMAIN NothingAllocated.keys = {}
BY FS_EmptySet DEF Sound, NothingAllocated, KeysDiffer

(* What from_entity_registry() makes of entities that have one key each.   *)
LEMMA RegistrySound ==
    ASSUME NEW entities, IsFiniteSet(entities), Matched(entities)
    PROVE  /\ Sound(FromEntityRegistry(entities))
           /\ \A e \in entities : HasKey(e, FromEntityRegistry(entities))
<1> DEFINE a == FromEntityRegistry(entities)
           fields == {e[1] : e \in entities}
           keys == {e[2] : e \in entities}
<1>1. /\ a = [keys |-> a.keys, reserved |-> a.reserved]
      /\ DOMAIN a.keys = fields /\ a.reserved = keys
      /\ \A f \in fields : a.keys[f] = (CHOOSE e \in entities : e[1] = f)[2]
  BY DEF FromEntityRegistry
<1>2. IsFiniteSet(keys)
  <2> DEFINE second == [e \in entities |-> e[2]]
  <2>1. keys = {second[e] : e \in entities}
    OBVIOUS
  <2> HIDE DEF keys, second
  <2> QED
    BY <2>1, ImageFinite
<1> HIDE DEF a
<1>3. ASSUME NEW e \in entities PROVE e[1] \in fields /\ e[2] \in keys /\ a.keys[e[1]] = e[2]
  <2> DEFINE h == CHOOSE h \in entities : h[1] = e[1]
  <2>1. h \in entities /\ h[1] = e[1]
    OBVIOUS
  <2>2. e[1] \in fields /\ e[2] \in keys
    OBVIOUS
  <2>3. a.keys[e[1]] = h[2]
    BY <1>1, <2>2
  <2> HIDE DEF h
  <2> QED
    BY <2>1, <2>2, <2>3 DEF Matched
<1>4. KeysDiffer(a)
  <2>1. \A f \in fields : \E e \in entities : e[1] = f
    OBVIOUS
  <2> HIDE DEF fields, keys
  <2>2. ASSUME NEW f \in fields, NEW g \in fields, a.keys[f] = a.keys[g] PROVE f = g
    <3>1. PICK e \in entities : e[1] = f
      BY <2>1
    <3>2. PICK h \in entities : h[1] = g
      BY <2>1
    <3>3. e[2] = h[2]
      BY <1>3, <2>2, <3>1, <3>2
    <3> QED
      BY <3>1, <3>2, <3>3 DEF Matched
  <2>3. \A f \in fields : a.keys[f] \in keys
    BY <1>3, <2>1
  <2> QED
    BY <1>1, <2>2, <2>3 DEF KeysDiffer
<1>5. \A e \in entities : HasKey(e, a)
  BY <1>1, <1>3 DEF HasKey
<1> QED
  BY <1>1, <1>2, <1>4, <1>5 DEF Sound, a

(* The allocation a has the key of every entity, registered (old) or       *)
(* handed over before (waiting); the latter are of fields seen.            *)
Covers(a, seen, old, waiting) ==
    /\ Sound(a) /\ IsFiniteSet(waiting)
    /\ seen \subseteq DOMAIN a.keys
    /\ Keyed(old, a) /\ Keyed(waiting, a)
    /\ \A e \in waiting : e[1] \in seen

(* extend_custom_field_entities() leaves it like that, for one more        *)
(* sequence of fields.                                                     *)
LEMMA ExtendingKeeps ==
    ASSUME NEW base, NEW seen, NEW old, NEW waiting, Covers(base, seen, old, waiting),
           NEW v \in Seq(Nat), NEW defs \in Seq(Definition)
    PROVE  LET all == AllocateAll(base, v, seen, defs) IN
           /\ Covers(all, seen \cup Range(v), old, HandedOver(waiting, v, seen, all))
           /\ Matched(old \cup HandedOver(waiting, v, seen, all))
<1> DEFINE all == AllocateAll(base, v, seen, defs)
           handed == HandedOver(waiting, v, seen, all)
<1>0. /\ Sound(base) /\ IsFiniteSet(waiting) /\ seen \subseteq DOMAIN base.keys
      /\ \A e \in old \cup waiting : HasKey(e, base)
      /\ \A e \in waiting : e[1] \in seen
  BY DEF Covers, Keyed
<1>1. /\ Sound(all) /\ Keeps(base, all)
      /\ DOMAIN all.keys = DOMAIN base.keys \cup (Range(v) \ seen)
  BY <1>0, AllocateAllKeeps, DiscoveryAssumption
<1> HIDE DEF all
<1> DEFINE new == {<<f, all.keys[f]>> : f \in Range(v) \ seen}
<1>2. IsFiniteSet(handed)
  <2>1. IsFiniteSet(Range(v))
    <3>1. IsFiniteSet(1..Len(v)) /\ Range(v) = {v[i] : i \in 1..Len(v)}
      BY FS_Interval DEF Range
    <3> QED
      BY <3>1, ImageFinite
  <2>2. IsFiniteSet(Range(v) \ seen)
    BY <2>1, FS_Subset
  <2>3. IsFiniteSet(new)
    <3> DEFINE entity == [f \in Range(v) \ seen |-> <<f, all.keys[f]>>]
    <3>1. new = {entity[f] : f \in Range(v) \ seen}
      OBVIOUS
    <3> HIDE DEF new, entity
    <3> QED
      BY <2>2, <3>1, ImageFinite
  <2>4. handed = waiting \cup new
    BY DEF HandedOver
  <2> HIDE DEF new
  <2> HIDE DEF handed
  <2> QED
    BY <1>0, <2>3, <2>4, FS_Union
<1>3. seen \cup Range(v) \subseteq DOMAIN all.keys
  BY <1>0, <1>1 DEF Keeps
<1>4. \A e \in new : e[1] \in Range(v) \ seen /\ e[2] = all.keys[e[1]]
  OBVIOUS
<1>5. handed = waiting \cup new
  BY DEF HandedOver
<1> HIDE DEF new, handed
<1>6. \A e \in handed : e[1] \in seen \cup Range(v)
  BY <1>0, <1>4, <1>5
<1>7. \A e \in old \cup handed : HasKey(e, all)
  <2>1. \A e \in old \cup waiting : HasKey(e, all)
    BY <1>0, <1>1 DEF HasKey, Keeps
  <2>2. \A e \in new : HasKey(e, all)
    BY <1>3, <1>4 DEF HasKey
  <2> QED
    BY <1>5, <2>1, <2>2
<1>8. Matched(old \cup handed)
  BY <1>1, <1>7 DEF Matched, HasKey, Sound, KeysDiffer
<1> QED
  BY <1>1, <1>2, <1>3, <1>6, <1>7, <1>8 DEF Covers, Keyed, all, handed

(* The inductive invariant of the sensors.  The allocation may be nothing  *)
(* while entities are registered: between reloads it is rebuilt from them. *)
Kept ==
    /\ Sound(allocation)
    /\ IsFiniteSet(registered) /\ IsFiniteSet(pending)
    /\ values \in Collections \cup {<<>>}
    /\ known \subseteq DOMAIN allocation.keys
    /\ \A e \in pending : HasKey(e, allocation) /\ e[1] \in known
    /\ allocation # NothingAllocated => \A e \in registered : HasKey(e, allocation)
    /\ OneKeyPerField

(* The allocation that is gone on with has the key of every entity.        *)
LEMMA GoesOn ==
    ASSUME Kept
    PROVE  LET base == Allocation(allocation, registered) IN
           /\ Sound(base)
           /\ DOMAIN allocation.keys \subseteq DOMAIN base.keys
           /\ \A e \in registered \cup pending : HasKey(e, base)
<1>1. Matched(registered)
  BY DEF Kept, OneKeyPerField, Matched
<1>2. Sound(FromEntityRegistry(registered))
      /\ \A e \in registered : HasKey(e, FromEntityRegistry(registered))
  BY <1>1, RegistrySound DEF Kept
<1>3. CASE allocation = NothingAllocated
  <2>1. DOMAIN allocation.keys = {} /\ pending = {}
    BY <1>3, NothingSound DEF Kept, HasKey
  <2>2. Allocation(allocation, registered) = FromEntityRegistry(registered)
    BY <1>3 DEF Allocation
  <2> QED
    BY <1>2, <2>1, <2>2
<1>4. CASE allocation # NothingAllocated
  BY <1>4 DEF Allocation, Kept
<1> QED
  BY <1>3, <1>4

(* The invariant of the sensors holds at first,                            *)
LEMMA KeysBegin == Init => Kept
<1> SUFFICES ASSUME Init PROVE Kept
  OBVIOUS
<1>1. PICK v \in Collections :
         LET all == AllocateAll(NothingAllocated, v, {}, <<>>) IN
         /\ values = v /\ allocation = all /\ known = Range(v)
         /\ pending = {<<f, all.keys[f]>> : f \in Range(v)}
  BY DEF Init
<1>2. v \in Seq(Nat) /\ <<>> \in Seq(Definition)
  BY DiscoveryAssumption
<1>3. registered = {} /\ IsFiniteSet({})
  BY FS_EmptySet DEF Init
<1>4. pending = HandedOver({}, v, {}, allocation)
  BY <1>1 DEF HandedOver
<1>5. Covers(NothingAllocated, {}, {}, {})
  BY <1>3, NothingSound DEF Covers, Keyed
<1>6. Covers(allocation, {} \cup Range(v), {}, pending) /\ Matched({} \cup pending)
  <2>1. PICK none, defs : none = {} /\ defs = <<>>
    OBVIOUS
  <2>2. /\ defs \in Seq(Definition)
        /\ allocation = AllocateAll(NothingAllocated, v, none, defs)
        /\ pending = HandedOver(none, v, none, allocation)
        /\ Covers(NothingAllocated, none, none, none)
    BY <1>1, <1>2, <1>4, <1>5, <2>1
  <2>3. Covers(allocation, none \cup Range(v), none, pending) /\ Matched(none \cup pending)
    BY <1>2, <2>2, ExtendingKeeps
  <2> QED
    BY <2>1, <2>3
<1> QED
  BY <1>1, <1>3, <1>6 DEF Kept, OneKeyPerField, Covers, Matched, Keyed

(* an extension leaves it true, if the allocation gone on with covers the  *)
(* entities there are,                                                     *)
LEMMA ExtendsKeeps ==
    ASSUME NEW v \in Collections, NEW a, NEW seen, NEW waiting, NEW defs \in Seq(Definition),
           Extends(v, a, seen, waiting, defs),
           IsFiniteSet(registered'),
           Covers(Allocation(a, registered'), seen, registered', waiting)
    PROVE  Kept'
<1>1. /\ values' = v
      /\ allocation' = AllocateAll(Allocation(a, registered'), v, seen, defs)
      /\ known' = seen \cup Range(v)
      /\ pending' = HandedOver(waiting, v, seen, allocation')
  BY DEF Extends, HandedOver
<1>2. v \in Seq(Nat)
  BY DiscoveryAssumption
<1>3. /\ Covers(allocation', seen \cup Range(v), registered', pending')
      /\ Matched(registered' \cup pending')
  BY <1>1, <1>2, ExtendingKeeps
<1> QED
  BY <1>1, <1>3 DEF Kept, OneKeyPerField, Covers, Matched, Keyed
-----------------------------------------------------------------------------
(* The inductive invariant of the whole. *)
Promised == Refreshing /\ Kept

(* and every step keeps it.                                                *)
LEMMA SensorsKept == Promised /\ Refreshing' /\ [Next]_vars => Kept'
<1> SUFFICES ASSUME Promised, Refreshing', [Next]_vars PROVE Kept'
  OBVIOUS
<1>0. Kept /\ definitions \in Seq(Definition) /\ definitions' \in Seq(Definition)
  BY DEF Promised, Refreshing, Typed
<1>1. CASE UNCHANGED sensorVars
  BY <1>0, <1>1 DEF sensorVars, Kept, OneKeyPerField
<1>2. CASE SetUp
  <2>1. registered' = registered
    BY <1>2 DEF SetUp
  <2>2. PICK v \in Collections : Extends(v, NothingAllocated, {}, {}, definitions')
    BY <1>2 DEF SetUp
  <2>3. Allocation(NothingAllocated, registered') = FromEntityRegistry(registered)
    BY <2>1 DEF Allocation
  <2>4. IsFiniteSet(registered) /\ Matched(registered)
    BY <1>0 DEF Kept, OneKeyPerField, Matched
  <2>5. Covers(FromEntityRegistry(registered), {}, registered, {})
    BY <2>4, RegistrySound, FS_EmptySet DEF Covers, Keyed
  <2>6. PICK none, fresh : none = {} /\ fresh = NothingAllocated
    OBVIOUS
  <2>7. /\ Extends(v, fresh, none, none, definitions')
        /\ IsFiniteSet(registered')
        /\ Covers(Allocation(fresh, registered'), none, registered', none)
    BY <2>1, <2>2, <2>3, <2>4, <2>5, <2>6
  <2> QED
    BY <1>0, <2>7, ExtendsKeeps
<1>3. CASE ListingRefreshed
  <2>1. registered' = registered
    BY <1>3 DEF ListingRefreshed
  <2>2. PICK v \in Collections : Extends(v, allocation, known, pending, definitions)
    BY <1>3 DEF ListingRefreshed
  <2>3. Covers(Allocation(allocation, registered), known, registered, pending)
    BY <1>0, GoesOn DEF Kept, Covers, Keyed
  <2>4. IsFiniteSet(registered')
    BY <1>0, <2>1 DEF Kept
  <2> QED
    BY <1>0, <2>1, <2>2, <2>3, <2>4, ExtendsKeeps
<1>4. ASSUME NEW e \in pending, Registers(e) PROVE Kept'
  <2>1. /\ pending' = pending \ {e} /\ registered' = registered \cup {e}
        /\ UNCHANGED <<values, allocation, known>>
    BY <1>4 DEF Registers
  <2>2. IsFiniteSet(pending') /\ IsFiniteSet(registered')
    BY <1>0, <2>1, FS_AddElement, FS_RemoveElement DEF Kept
  <2>3. OneKeyPerField'
    BY <1>0, <2>1 DEF Kept, OneKeyPerField
  <2> QED
    BY <1>0, <2>1, <2>2, <2>3 DEF Kept
<1>5. ASSUME NEW e \in registered, Deletes(e) PROVE Kept'
  <2>1. registered' = registered \ {e} /\ UNCHANGED <<values, allocation, known, pending>>
    BY <1>5 DEF Deletes
  <2>2. IsFiniteSet(registered')
    BY <1>0, <2>1, FS_RemoveElement DEF Kept
  <2>3. OneKeyPerField'
    BY <1>0, <2>1 DEF Kept, OneKeyPerField
  <2> QED
    BY <1>0, <2>1, <2>2, <2>3 DEF Kept
<1>6. CASE Unload
  <2>1. PICK added \in SUBSET pending : registered' = registered \cup added
    BY <1>6 DEF Unload
  <2>2. values' = <<>> /\ allocation' = NothingAllocated /\ known' = {} /\ pending' = {}
    BY <1>6 DEF Unload
  <2>3. IsFiniteSet(registered') /\ IsFiniteSet(pending')
    BY <1>0, <2>1, <2>2, FS_Subset, FS_Union, FS_EmptySet DEF Kept
  <2>4. OneKeyPerField'
    BY <1>0, <2>1, <2>2 DEF Kept, OneKeyPerField
  <2> QED
    BY <2>2, <2>3, <2>4, NothingSound DEF Kept
<1> QED
  BY <1>1, <1>2, <1>3, <1>4, <1>5, <1>6 DEF Next, vars

(* The invariant of the whole.                                             *)
LEMMA AlwaysPromised == Spec => []Promised
<1>1. Init => Promised
  BY RefreshBegins, KeysBegin DEF Init, Promised
<1>2. Promised /\ [Next]_vars => Promised'
  BY StepsRefresh, RefreshKept, SensorsKept DEF Promised
<1> QED
  BY <1>1, <1>2, PTL DEF Spec

(* Every variable has its type, a fetch goes on in whole pages, a retry    *)
(* that runs was counted (_schedule_definition_retry), and every field the *)
(* platform knows has a key (extend_custom_field_entities).                *)
THEOREM TypeCorrect == Spec => []TypeOK
<1>1. Promised => TypeOK
  <2> SUFFICES ASSUME Promised PROVE TypeOK
    OBVIOUS
  <2>1. Typed /\ Counted /\ Kept
    BY DEF Promised, Refreshing
  <2>2. ASSUME NEW r \in Refresher
        PROVE  /\ fetch[r].busy \in BOOLEAN /\ fetch[r].offset % PageLimit = 0
               /\ r \in 1..MaxRetries /\ fetch[r].busy => r <= retries
    <3>1. fetch[r].busy \in BOOLEAN
      BY <2>1 DEF Typed, Fetch
    <3> QED
      BY <2>1, <3>1, OffsetsCount DEF Counted
  <2> QED
    BY <2>1, <2>2 DEF TypeOK, Typed, Kept
<1> QED
  BY <1>1, AlwaysPromised, PTL

(* Until definitions have loaded once a further attempt is on its way,     *)
(* unless the retries are used up, and afterwards, or once the entry is    *)
(* unloaded, no retry is armed (coordinator.py:                            *)
(* async_refresh_retaining_stale, _schedule_definition_retry), whatever    *)
(* the number of retries and however the refreshes overlap.                *)
THEOREM Retried == Spec => []RetriedWhileNeeded
<1>1. Promised => RetriedWhileNeeded
  BY DEF Promised, Refreshing
<1> QED
  BY <1>1, AlwaysPromised, PTL

(* A field has one key, its own, in the entity registry and among the      *)
(* entities handed to the platform: for any catalogs and any listings,     *)
(* whatever is renamed, reloaded or deleted (sensor/custom_fields.py:      *)
(* extend_custom_field_entities, from_entity_registry; FR-011).            *)
THEOREM KeysStay == Spec => []OneKeyPerField
<1>1. Promised => OneKeyPerField
  BY DEF Promised, Kept
<1> QED
  BY <1>1, AlwaysPromised, PTL

(* The step that ends an undisturbed fetch with new definitions.           *)
LEMMA PublishesWhole ==
    ASSUME Refreshing, RefreshStep, NEW r \in Refresher,
           fetch[r].busy, ~fetch'[r].busy, ~fetch[r].moved, AsRequested,
           definitions' # definitions
    PROVE  definitions' = catalog
<1> USE Numbers
<1>0. Typed
  BY DEF Refreshing
<1>1. ~SetUpRefresh
  BY FetchTypes DEF SetUpRefresh
<1>2. \E q \in Refresher : Answered(q)
  BY <1>1 DEF RefreshStep, RefreshNext, TimerFires, IntervalElapses, RetryFires, Fails, Sheds,
     TasksCancelled, CatalogChanges, UnloadRefresh, refreshVars, coordinatorVars
<1>3. PICK q \in Refresher : Answered(q)
  BY <1>2
<1> DEFINE all == fetch[q].got \o Page(fetch[q].offset)
<1>4. PICK last \in LastPage(fetch[q].offset) : last /\ Loads(q, all)
  BY <1>3 DEF Answered, coordinatorVars
<1>5. definitions' = all /\ fetch' = [fetch EXCEPT ![q] = Idle]
  BY <1>4 DEF Loads
<1>6. q = r
  BY <1>0, <1>5 DEF Typed
<1> DEFINE o == fetch[r].offset
           n == IF o + PageLimit < Len(catalog) THEN o + PageLimit ELSE Len(catalog)
<1>7. /\ o \in Nat /\ o <= Len(catalog) /\ fetch[r].got = SubSeq(catalog, 1, o)
      /\ catalog \in Catalogs
  BY <1>0 DEF Refreshing, Undisturbed, Typed, Fetch
<1>8. /\ n \in Nat /\ o <= n /\ n <= Len(catalog)
      /\ Len(Page(o)) = n - o
      /\ SubSeq(catalog, 1, o) \o Page(o) = SubSeq(catalog, 1, n)
  BY <1>7, PageFollows
<1>9. n = Len(catalog)
  <2>1. o + PageLimit >= Len(catalog) \/ Len(Page(o)) < PageLimit
    BY <1>4, <1>6 DEF LastPage, AsRequested
  <2>2. Len(catalog) \in Nat
    BY <1>7, NothingRead
  <2> QED
    BY <1>7, <1>8, <2>1, <2>2
<1> HIDE DEF n
<1>10. SubSeq(catalog, 1, Len(catalog)) = catalog
  <2>1. catalog \in Seq(Definition)
    BY <1>7, NothingRead
  <2> QED
    BY <2>1
<1> QED
  BY <1>5, <1>6, <1>7, <1>8, <1>9, <1>10

(* What is published after an undisturbed fetch of pages as requested is   *)
(* the catalog, for any page limit and any catalogs, whether the answers   *)
(* report that limit, one that cannot be used or none                      *)
(* (fetch_custom_field_definitions, _is_last_definition_page; FR-002).     *)
THEOREM FetchesWhole == Spec => FetchedWhole
<1>1. Promised /\ [Next]_vars =>
        [\A r \in Refresher :
            /\ fetch[r].busy /\ ~fetch'[r].busy /\ ~fetch[r].moved
            /\ AsRequested
            /\ definitions' # definitions
            => definitions' = catalog]_refreshVars
  BY StepsRefresh, PublishesWhole DEF Promised
<1> QED
  BY <1>1, AlwaysPromised, PTL DEF Spec, FetchedWhole

(* The fields in ascending order are a sequence: each place has one.       *)
LEMMA AscendingType ==
    ASSUME NEW fields \in SUBSET Nat, IsFiniteSet(fields)
    PROVE  Ascending(fields) \in Seq(Nat)
<1> DEFINE N == Cardinality(fields)
           Upto(f) == {g \in fields : g <= f}
           rank == [f \in fields |-> Cardinality(Upto(f))]
<1>1. N \in Nat
  BY FS_CardinalityType
<1>2. ASSUME NEW f \in fields PROVE rank[f] \in 1..N
  <2>1. Upto(f) \in SUBSET fields /\ f \in Upto(f)
    OBVIOUS
  <2> HIDE DEF Upto
  <2>2. IsFiniteSet(Upto(f)) /\ Cardinality(Upto(f)) <= N
    BY <2>1, FS_Subset
  <2>3. Cardinality(Upto(f)) \in Nat /\ Cardinality(Upto(f)) # 0
    BY <2>1, <2>2, FS_CardinalityType, FS_EmptySet
  <2> QED
    BY <1>1, <2>2, <2>3
<1>3. ASSUME NEW f \in fields, NEW g \in fields, f < g PROVE rank[f] # rank[g]
  <2>1. /\ Upto(g) \in SUBSET fields /\ Upto(f) \in SUBSET Upto(g) /\ Upto(f) # Upto(g)
    <3>1. g \in Upto(g) /\ g \notin Upto(f)
      BY <1>3
    <3>2. \A h \in Upto(f) : h \in Upto(g)
      BY <1>3
    <3> QED
      BY <3>1, <3>2
  <2> HIDE DEF Upto
  <2>2. IsFiniteSet(Upto(g))
    BY <2>1, FS_Subset
  <2>3. Cardinality(Upto(g)) # Cardinality(Upto(f))
    BY <2>1, <2>2, FS_Subset
  <2> QED
    BY <2>3
<1>4. ASSUME NEW f \in fields, NEW g \in fields, f # g PROVE rank[f] # rank[g]
  <2>1. f < g \/ g < f
    BY <1>4
  <2> HIDE DEF rank
  <2> QED
    BY <1>3, <2>1
<1>5. ASSUME NEW i \in 1..N PROVE \E f \in fields : rank[f] = i
  <2> SUFFICES ASSUME \A f \in fields : rank[f] # i PROVE FALSE
    OBVIOUS
  <2> DEFINE rest == (1..N) \ {i}
  <2> HIDE DEF rank
  <2>1. IsFiniteSet(1..N) /\ Cardinality(1..N) = N
    <3> HIDE DEF N
    <3> QED
      BY <1>1, FS_Interval
  <2>2. IsFiniteSet(rest) /\ Cardinality(rest) = N - 1
    BY <2>1, FS_RemoveElement
  <2>3. rank \in [fields -> rest]
    BY <1>2 DEF rank
  <2>4. Cardinality(rest) < Cardinality(fields)
    BY <1>1, <2>2
  <2> HIDE DEF rest
  <2>5. \E f, g \in fields : f # g /\ rank[f] = rank[g]
    BY <2>2, <2>3, <2>4, FS_PigeonHole
  <2> QED
    BY <1>4, <2>5
<1>6. ASSUME NEW i \in 1..N
      PROVE  (CHOOSE f \in fields : Cardinality({g \in fields : g <= f}) = i) \in Nat
  <2>1. \E f \in fields : Cardinality({g \in fields : g <= f}) = i
    BY <1>5
  <2> QED
    BY <2>1
<1>7. Ascending(fields) = [i \in 1..N |->
         CHOOSE f \in fields : Cardinality({g \in fields : g <= f}) = i]
  BY DEF Ascending
<1>8. Ascending(fields) \in [1..N -> Nat]
  BY <1>6, <1>7
<1> HIDE DEF N
<1> QED
  BY <1>1, <1>8

(* The preview goes on with the same allocation, on a copy.                *)
LEMMA Previews ==
    ASSUME Promised
    PROVE  PreviewAgrees
<1> DEFINE fields == Range(values) \cup {definitions[i].id : i \in DOMAIN definitions}
           base == Allocation(allocation, registered)
           all == AllocateAll(base, Ascending(fields), {}, definitions)
<1>1. Kept /\ definitions \in Seq(Definition)
  BY DEF Promised, Refreshing, Typed
<1>2. values \in Seq(Nat)
  <2>1. values \in Collections \/ values = <<>>
    BY <1>1 DEF Kept
  <2>2. <<>> \in Seq(Nat)
    OBVIOUS
  <2> QED
    BY <2>1, <2>2, DiscoveryAssumption
<1>3. fields \in SUBSET Nat
  <2>1. \A i \in DOMAIN definitions : definitions[i].id \in Nat
    <3> TAKE i \in DOMAIN definitions
    <3>1. definitions[i] \in Definition
      BY <1>1
    <3> QED
      BY <3>1 DEF Definition
  <2> QED
    BY <1>2, <2>1 DEF Range
<1>4. IsFiniteSet(fields)
  <2> DEFINE ids == [i \in DOMAIN definitions |-> definitions[i].id]
  <2>1. /\ IsFiniteSet(1..Len(values)) /\ Range(values) = {values[i] : i \in 1..Len(values)}
        /\ IsFiniteSet(1..Len(definitions)) /\ DOMAIN definitions = 1..Len(definitions)
    BY <1>1, <1>2, FS_Interval DEF Range
  <2>2. {definitions[i].id : i \in DOMAIN definitions} = {ids[i] : i \in DOMAIN definitions}
    OBVIOUS
  <2>3. IsFiniteSet(Range(values))
    BY <2>1, ImageFinite
  <2> HIDE DEF ids
  <2>4. IsFiniteSet({ids[i] : i \in DOMAIN definitions})
    BY <2>1, ImageFinite
  <2> QED
    BY <2>2, <2>3, <2>4, FS_Union
<1> HIDE DEF fields
<1>5. Ascending(fields) \in Seq(Nat)
  BY <1>3, <1>4, AscendingType
<1>6. Sound(base) /\ Keyed(registered \cup pending, base)
  BY <1>1, GoesOn DEF Keyed
<1> HIDE DEF base
<1>7. Sound(all) /\ Keeps(base, all)
  BY <1>1, <1>5, <1>6, AllocateAllKeeps, DiscoveryAssumption
<1>8. Previewed = all.keys
  BY DEF Previewed, base, fields
<1> HIDE DEF all
<1>9. \A e \in registered \cup pending : all.keys[e[1]] = e[2]
  BY <1>6, <1>7 DEF Keyed, HasKey, Keeps
<1> QED
  BY <1>7, <1>8, <1>9 DEF PreviewAgrees, Sound, KeysDiffer

(* The preview of get_custom_field_values gives every field a key of its   *)
(* own, and the fields that have a sensor the key of that sensor           *)
(* (_listing_allocation_preview, FR-024).                                  *)
THEOREM PreviewsAgree == Spec => []PreviewAgrees
<1>1. Promised => PreviewAgrees
  BY Previews
<1> QED
  BY <1>1, AlwaysPromised, PTL
=============================================================================
