------------------------ MODULE CustomFieldWriteProofs ------------------------
(***************************************************************************)
(* Proofs about CustomFieldWrite, for every set of calls, edits, targets,  *)
(* coordinators and fields and every bound: the verdict of a call is true, *)
(* no refresh undoes a verified write, no write takes back what it could   *)
(* have read, every other entry of an array passes through a write as it   *)
(* was, and every variable has its type.                                   *)
(***************************************************************************)
EXTENDS CustomFieldWrite, SequenceTheorems, FiniteSetTheorems, WellFoundedInduction, TLAPS

(* Who has written by now, and the objects that may exist.                 *)
Written == {w \in Writer : effects[w] = 1}
Known == Written \cup Edit \cup {"null", NoValue}
Honest == [fields : CollectionOf(Known), rest : {"rest"} \cup collateral, version : Nat]

CallField == {"pc", "target", "field", "life", "attempt", "base", "seen", "since", "outcome"}
IsCall(j) == DOMAIN j = CallField /\ j = [x \in CallField |-> j[x]]

BeforeAnswer == {"new", "waiting", "reading", "sending", "backoff"}

CallTyped(w) ==
    /\ IsCall(job[w])
    /\ job[w].pc \in BeforeAnswer \cup {"checking", "checked", "done"}
    /\ job[w].pc # "done" => job[w].outcome = None
    /\ job[w].pc # "new" => job[w].target \in Target /\ job[w].field \in Field
    /\ job[w].pc \in {"sending", "checking", "checked"} => job[w].base \in Honest
    /\ job[w].pc = "checked" => job[w].seen \in Honest
    /\ limbo[w] # None => limbo[w] \in CollectionOf(Known \cup {w})

(* Nothing is stored for a call before it sent, after its only request was *)
(* stored, or when it was refused.                                         *)
SentOnce(w) ==
    /\ job[w].pc \in BeforeAnswer => effects[w] = 0 /\ limbo[w] = None
    /\ limbo[w] # None => effects[w] = 0

(* A change beside the requested one shows in what is read back.           *)
ChangeShows(w) ==
    w \in collateral =>
        /\ job[w].pc = "checking" => server[job[w].target].rest # job[w].base.rest
        /\ job[w].pc = "checked" /\ Stored(job[w].seen.fields, job[w].field) = w
               => job[w].seen.rest # job[w].base.rest

VerdictTrue(w) ==
    /\ job[w].outcome = "success" =>
           effects[w] = 1 /\ limbo[w] = None /\ w \notin collateral
    /\ job[w].outcome = "refused" => effects[w] = 0 /\ limbo[w] = None

CallOK(w) == CallTyped(w) /\ SentOnce(w) /\ ChangeShows(w) /\ VerdictTrue(w)

WorldOK ==
    /\ server \in [Target -> Honest]
    /\ effects \in [Writer -> {0, 1}] /\ collateral \subseteq Written
    /\ DOMAIN job = Writer /\ job = [w \in Writer |-> job[w]]
    /\ limbo = [w \in Writer |-> limbo[w]]

VerdictInv == WorldOK /\ \A w \in Writer : CallOK(w)
-----------------------------------------------------------------------------
LEMMA CollectionGrows ==
    ASSUME NEW U, NEW V, U \subseteq V
    PROVE  CollectionOf(U) \subseteq CollectionOf(V)
<1> DEFINE Entry(W) == [field : Field \cup {NoField}, value : W]
<1>1. Entry(U) \subseteq Entry(V)
  OBVIOUS
<1>2. \A s \in Seq(Entry(U)) : s \in Seq(Entry(V))
  BY <1>1, SeqMonotonic
<1> QED
  BY <1>2 DEF CollectionOf

LEMMA HonestGrows ==
    ASSUME Written \subseteq Written', collateral \subseteq collateral'
    PROVE  /\ Honest \subseteq Honest'
           /\ \A w : CollectionOf(Known \cup {w}) \subseteq CollectionOf(Known \cup {w})'
<1>1. Known \subseteq Known'
  BY DEF Known
<1>2. CollectionOf(Known) \subseteq CollectionOf(Known')
  BY <1>1, CollectionGrows
<1>3. \A w : CollectionOf(Known \cup {w}) \subseteq CollectionOf(Known' \cup {w})
  BY <1>1, CollectionGrows
<1> QED
  BY <1>2, <1>3 DEF Honest

LEMMA EntriesType ==
    ASSUME NEW V, NEW fields \in CollectionOf(V)
    PROVE  /\ fields.entries \in Seq([field : Field \cup {NoField}, value : V])
           /\ DOMAIN fields.entries = 1..Len(fields.entries)
           /\ Len(fields.entries) \in Nat
           /\ \A i \in DOMAIN fields.entries :
                  fields.entries[i] \in [field : Field \cup {NoField}, value : V]
<1> DEFINE Entry == [field : Field \cup {NoField}, value : V]
<1>1. fields.entries \in Seq(Entry)
  BY DEF CollectionOf
<1> HIDE DEF Entry
<1>2. /\ DOMAIN fields.entries = 1..Len(fields.entries) /\ Len(fields.entries) \in Nat
      /\ \A i \in DOMAIN fields.entries : fields.entries[i] \in Entry
  BY <1>1
<1> QED
  BY <1>1, <1>2 DEF Entry

LEMMA MergedType ==
    ASSUME NEW V, NEW fields \in CollectionOf(V), NEW f \in Field, NEW v \in V
    PROVE  /\ Merged(fields.entries, f, v) \in Seq([field : Field \cup {NoField}, value : V])
           /\ [state |-> "present", entries |-> Merged(fields.entries, f, v)]
                  \in CollectionOf(V)
<1> DEFINE Entry == [field : Field \cup {NoField}, value : V]
<1>1. fields.entries \in Seq(Entry)
  BY EntriesType
<1>2. [field |-> f, value |-> v] \in Entry
  OBVIOUS
<1>3. Append(fields.entries, [field |-> f, value |-> v]) \in Seq(Entry)
  <2> HIDE DEF Entry
  <2> QED
    BY <1>1, <1>2
<1> DEFINE replaced == [i \in DOMAIN fields.entries |->
                       IF fields.entries[i].field = f THEN [fields.entries[i] EXCEPT !.value = v]
                       ELSE fields.entries[i]]
<1>4. replaced \in [1..Len(fields.entries) -> Entry]
  <2>1. ASSUME NEW e \in Entry PROVE [e EXCEPT !.value = v] \in Entry
    OBVIOUS
  <2>2. \A i \in DOMAIN fields.entries : replaced[i] \in Entry
    BY <2>1, EntriesType
  <2> HIDE DEF Entry
  <2> QED
    BY <2>2, EntriesType
<1>5. replaced \in Seq(Entry)
  <2> HIDE DEF Entry, replaced
  <2> QED
    BY <1>4, EntriesType, SeqDef
<1>6. Merged(fields.entries, f, v) \in Seq(Entry)
  BY <1>3, <1>5 DEF Merged
<1> HIDE DEF Entry
<1>7. \A e \in Seq(Entry) : [state |-> "present", entries |-> e]
            \in [state : {"present", "missing", "null", "invalid"}, entries : Seq(Entry)]
  OBVIOUS
<1>8. CollectionOf(V) = [state : {"present", "missing", "null", "invalid"},
                         entries : Seq(Entry)]
  BY DEF CollectionOf, Entry
<1> QED
  BY <1>6, <1>7, <1>8 DEF Entry

LEMMA LeastPosition ==
    ASSUME NEW T \in SUBSET Nat, T # {}
    PROVE  \E n \in T : \A m \in T : n <= m
<1>1. \E n \in T : \A m \in T : ~(<<m, n>> \in OpToRel(<, Nat))
  BY NatLessThanWellFounded, WFMin, Zenon
<1>2. PICK n \in T : \A m \in T : ~(<<m, n>> \in OpToRel(<, Nat))
  BY <1>1
<1>3. \A m \in T : ~(m < n)
  BY <1>2, Zenon DEF OpToRel
<1> QED
  BY <1>3

LEMMA StoredType ==
    ASSUME NEW V, NEW fields \in CollectionOf(V), NEW f
    PROVE  Stored(fields, f) \in V \cup {"null"}
<1> DEFINE found == Addressed(fields.entries, f)
<1>1. CASE fields.state # "present" \/ found = {}
  BY <1>1 DEF Stored
<1>2. CASE ~(fields.state # "present" \/ found = {})
  <2>1. found \subseteq DOMAIN fields.entries
    BY DEF Addressed
  <2>2. found \in SUBSET Nat
    BY <2>1, EntriesType
  <2>3. \E i \in found : \A j \in found : i <= j
    BY <1>2, <2>2, LeastPosition
  <2> DEFINE i == CHOOSE i \in found : \A j \in found : i <= j
  <2>4. i \in DOMAIN fields.entries
    BY <2>1, <2>3
  <2>5. fields.entries[i].value \in V
    BY EntriesType, <2>4
  <2> QED
    BY <1>2, <2>5 DEF Stored
<1> QED
  BY <1>1, <1>2

(* Nobody finds the value of a call that has not written.                  *)
LEMMA StoredByWriters ==
    ASSUME NEW w \in Writer, NEW object \in Honest, NEW f, Stored(object.fields, f) = w
    PROVE  w \in Written
<1>1. object.fields \in CollectionOf(Known)
  BY DEF Honest
<1>2. w \in Known \cup {"null"}
  BY <1>1, StoredType
<1> QED
  BY <1>2, AuthorAssumption DEF Known
-----------------------------------------------------------------------------
(* What a step leaves alone stays as the invariant says, as long as no     *)
(* object's rest returns to an earlier state.                              *)
LEMMA CallKept ==
    ASSUME VerdictInv, NEW u \in Writer,
           job'[u] = job[u], limbo'[u] = limbo[u], effects'[u] = effects[u],
           u \in collateral' => u \in collateral,
           Written \subseteq Written', collateral \subseteq collateral',
           \A t \in Target : \/ server'[t].rest = server[t].rest
                             \/ server'[t].rest \in Writer \ Written
    PROVE  CallOK(u)'
<1>1. CallOK(u)
  BY DEF VerdictInv
<1>2. /\ Honest \subseteq Honest'
      /\ CollectionOf(Known \cup {u}) \subseteq CollectionOf(Known \cup {u})'
  BY HonestGrows
<1>3. CallTyped(u)'
  BY <1>1, <1>2 DEF CallOK, CallTyped
<1>4. SentOnce(u)' /\ VerdictTrue(u)'
  BY <1>1 DEF CallOK, SentOnce, VerdictTrue
<1>5. ChangeShows(u)'
  <2> SUFFICES ASSUME u \in collateral, job[u].pc = "checking"
               PROVE  server'[job[u].target].rest # job[u].base.rest
    BY <1>1 DEF CallOK, ChangeShows
  <2>1. job[u].target \in Target /\ job[u].base \in Honest
    BY <1>1 DEF CallOK, CallTyped
  <2>2. job[u].base.rest \in {"rest"} \cup collateral
    BY <2>1 DEF Honest
  <2>3. job[u].base.rest \notin Writer \ Written
    BY <2>2, AuthorAssumption DEF VerdictInv, WorldOK
  <2> QED
    BY <1>1, <2>1, <2>3 DEF CallOK, ChangeShows
<1> QED
  BY <1>3, <1>4, <1>5 DEF CallOK

LEMMA EndedType ==
    ASSUME NEW j, NEW outcome
    PROVE  LET e == Ended(j, outcome) IN
           /\ IsCall(e) /\ e.pc = "done" /\ e.outcome = outcome
           /\ e.target = j.target /\ e.field = j.field
  BY DEF Ended, IsCall, CallField

(* A call may end with an outcome that is true.                            *)
LEMMA EndedOK ==
    ASSUME VerdictInv, NEW w \in Writer, NEW outcome, job[w].pc # "new",
           job'[w] = Ended(job[w], outcome), UNCHANGED <<server, effects, collateral>>,
           limbo'[w] # None => effects[w] = 0 /\ limbo'[w] \in CollectionOf(Known \cup {w}),
           outcome = "refused" => effects[w] = 0 /\ limbo'[w] = None,
           outcome = "success" => effects[w] = 1 /\ limbo'[w] = None /\ w \notin collateral
    PROVE  CallOK(w)'
<1>1. /\ IsCall(job'[w]) /\ job'[w].pc = "done" /\ job'[w].outcome = outcome
      /\ job'[w].target = job[w].target /\ job'[w].field = job[w].field
  BY EndedType
<1>2. job[w].target \in Target /\ job[w].field \in Field
  BY DEF VerdictInv, CallOK, CallTyped
<1>3. Known' = Known
  BY DEF Known, Written
<1>4. CallTyped(w)'
  BY <1>1, <1>2, <1>3 DEF CallTyped, BeforeAnswer
<1>5. SentOnce(w)' /\ ChangeShows(w)' /\ VerdictTrue(w)'
  BY <1>1 DEF SentOnce, ChangeShows, VerdictTrue, BeforeAnswer
<1> QED
  BY <1>4, <1>5 DEF CallOK

(* A call enters the section under the lock.                               *)
LEMMA AttemptOK ==
    ASSUME VerdictInv, NEW u \in Writer, NEW j, IsCall(j), job'[u] = Attempting(j),
           j.target \in Target, j.field \in Field, j.outcome = None,
           effects[u] = 0, limbo[u] = None, limbo'[u] = limbo[u],
           UNCHANGED <<server, effects, collateral>>
    PROVE  CallOK(u)'
<1>1. /\ IsCall(job'[u]) /\ job'[u].pc = "reading" /\ job'[u].outcome = None
      /\ job'[u].target = j.target /\ job'[u].field = j.field
  BY DEF Attempting, IsCall, CallField
<1> QED
  BY <1>1, AuthorAssumption
     DEF CallOK, CallTyped, SentOnce, ChangeShows, VerdictTrue, BeforeAnswer

(* Leaving ends one call and at most starts the next one's attempt.        *)
LEMMA LeaveStep ==
    ASSUME VerdictInv, NEW w \in Writer, NEW outcome, Leave(w, outcome),
           UNCHANGED <<server, effects, collateral>>,
           \A u \in Writer \ {w} : limbo'[u] = limbo[u]
    PROVE  /\ DOMAIN job' = Writer /\ job' = [u \in Writer |-> job'[u]]
           /\ job'[w] = Ended(job[w], outcome)
           /\ \A u \in Writer \ {w} : CallOK(u)'
<1>1. /\ DOMAIN job' = Writer /\ job' = [u \in Writer |-> job'[u]]
      /\ job'[w] = Ended(job[w], outcome)
      /\ \A u \in Writer \ {w} : \/ job'[u] = job[u]
                                 \/ job[u].pc = "waiting" /\ job'[u] = Attempting(job[u])
  BY DEF Leave
<1>2. ASSUME NEW u \in Writer \ {w} PROVE CallOK(u)'
  <2>1. CASE job'[u] = job[u]
    BY <2>1, CallKept DEF Written
  <2>2. CASE job[u].pc = "waiting" /\ job'[u] = Attempting(job[u])
    <3>1. CallTyped(u) /\ SentOnce(u)
      BY DEF VerdictInv, CallOK
    <3>2. /\ IsCall(job[u]) /\ job[u].target \in Target /\ job[u].field \in Field
          /\ job[u].outcome = None /\ effects[u] = 0 /\ limbo[u] = None
      BY <2>2, <3>1 DEF CallTyped, SentOnce, BeforeAnswer
    <3> QED
      BY <2>2, <3>2, AttemptOK
  <2> QED
    BY <1>1, <2>1, <2>2
<1> QED
  BY <1>1, <1>2
-----------------------------------------------------------------------------
(* A step of the call w alone.  Its own part of the invariant is what is   *)
(* left to show.                                                           *)
LEMMA OthersKept ==
    ASSUME VerdictInv, NEW w \in Writer, NEW j, job' = [job EXCEPT ![w] = j],
           UNCHANGED <<server, effects, collateral>>,
           \/ UNCHANGED limbo
           \/ \E fields : limbo' = [limbo EXCEPT ![w] = fields],
           CallOK(w)'
    PROVE  VerdictInv'
<1>1. /\ DOMAIN job' = Writer /\ job' = [u \in Writer |-> job'[u]]
      /\ limbo' = [u \in Writer |-> limbo'[u]]
      /\ \A u \in Writer \ {w} : job'[u] = job[u] /\ limbo'[u] = limbo[u]
  BY DEF VerdictInv, WorldOK
<1>2. WorldOK'
  BY <1>1 DEF VerdictInv, WorldOK, Honest, Known, Written
<1>3. \A u \in Writer \ {w} : CallOK(u)'
  BY <1>1, CallKept DEF Written
<1> QED
  BY <1>2, <1>3 DEF VerdictInv

LEMMA StartStep ==
    ASSUME VerdictInv, NEW w \in Writer, NEW t \in Target, NEW f \in Field, Start(w, t, f)
    PROVE  VerdictInv'
<1> DEFINE called == [job[w] EXCEPT !.pc = "waiting", !.target = t, !.field = f,
                                    !.life = life]
<1>1. CallTyped(w) /\ SentOnce(w) /\ job[w].pc = "new"
  BY DEF VerdictInv, CallOK, Start
<1>2. /\ IsCall(called) /\ called.target = t /\ called.field = f
      /\ called.pc = "waiting" /\ called.outcome = None
      /\ effects[w] = 0 /\ limbo[w] = None
  BY <1>1 DEF CallTyped, SentOnce, IsCall, CallField, BeforeAnswer
<1> HIDE DEF called
<1>3. /\ UNCHANGED <<server, effects, collateral, limbo>>
      /\ \/ job' = [job EXCEPT ![w] = Attempting(called)]
         \/ job' = [job EXCEPT ![w] = called]
  BY DEF Start, serverVars, called
<1>4. CASE job' = [job EXCEPT ![w] = Attempting(called)]
  <2>1. job'[w] = Attempting(called)
    BY <1>4 DEF VerdictInv, WorldOK
  <2>2. CallOK(w)'
    BY <1>2, <1>3, <2>1, AttemptOK
  <2> QED
    BY <1>3, <1>4, <2>2, OthersKept
<1>5. CASE job' = [job EXCEPT ![w] = called]
  <2>1. job'[w] = called
    BY <1>5 DEF VerdictInv, WorldOK
  <2>2. CallOK(w)'
    BY <1>2, <1>3, <2>1, AuthorAssumption
       DEF CallOK, CallTyped, SentOnce, ChangeShows, VerdictTrue, BeforeAnswer
  <2> QED
    BY <1>3, <1>5, <2>2, OthersKept
<1> QED
  BY <1>3, <1>4, <1>5

(* A call that ends, with a verdict that is true.                          *)
LEMMA LeaveOK ==
    ASSUME VerdictInv, NEW w \in Writer, NEW outcome, Leave(w, outcome), job[w].pc # "new",
           UNCHANGED <<server, effects, collateral>>,
           \/ UNCHANGED limbo
           \/ /\ \E fields : limbo' = [limbo EXCEPT ![w] = fields]
              /\ effects[w] = 0 /\ limbo'[w] \in CollectionOf(Known \cup {w})
              /\ outcome = "cancelled",
           outcome = "refused" => job[w].pc \in BeforeAnswer,
           outcome = "success" => effects[w] = 1 /\ limbo[w] = None /\ w \notin collateral
    PROVE  VerdictInv'
<1>1. CallTyped(w) /\ SentOnce(w)
  BY DEF VerdictInv, CallOK
<1>2. limbo' = [u \in Writer |-> limbo'[u]] /\ \A u \in Writer \ {w} : limbo'[u] = limbo[u]
  BY DEF VerdictInv, WorldOK
<1>3. /\ DOMAIN job' = Writer /\ job' = [u \in Writer |-> job'[u]]
      /\ job'[w] = Ended(job[w], outcome)
      /\ \A u \in Writer \ {w} : CallOK(u)'
  BY <1>2, LeaveStep
<1>4. CallOK(w)'
  BY <1>1, <1>3, EndedOK DEF CallTyped, SentOnce
<1>5. WorldOK'
  BY <1>2, <1>3 DEF VerdictInv, WorldOK, Honest, Known, Written
<1> QED
  BY <1>3, <1>4, <1>5 DEF VerdictInv

LEMMA RefusedStep ==
    ASSUME VerdictInv, NEW w \in Writer, ReadFails(w) \/ Rejected(w) \/ ReadBackFails(w)
    PROVE  VerdictInv'
<1>1. \/ Leave(w, "refused") /\ job[w].pc \in BeforeAnswer
      \/ Leave(w, "unverified")
  BY DEF ReadFails, Rejected, ReadBackFails, BeforeAnswer
<1>2. UNCHANGED <<server, effects, collateral, limbo>> /\ job[w].pc # "new"
  BY DEF ReadFails, Rejected, ReadBackFails, serverVars
<1> QED
  BY <1>1, <1>2, LeaveOK

LEMMA PayloadType ==
    ASSUME VerdictInv, NEW w \in Writer, job[w].pc = "sending"
    PROVE  /\ Payload(w) \in CollectionOf(Known \cup {w})
           /\ effects[w] = 0 /\ limbo[w] = None /\ w \notin collateral
           /\ job[w].target \in Target /\ job[w].field \in Field /\ job[w].base \in Honest
           /\ job[w].outcome = None /\ IsCall(job[w])
<1>1. CallTyped(w) /\ SentOnce(w)
  BY DEF VerdictInv, CallOK
<1>2. /\ effects[w] = 0 /\ limbo[w] = None
      /\ job[w].target \in Target /\ job[w].field \in Field /\ job[w].base \in Honest
      /\ job[w].outcome = None /\ IsCall(job[w])
  BY <1>1 DEF CallTyped, SentOnce, BeforeAnswer
<1>3. w \notin collateral
  BY <1>2 DEF VerdictInv, WorldOK, Written
<1>4. job[w].base.fields \in CollectionOf(Known \cup {w})
  <2>1. job[w].base.fields \in CollectionOf(Known)
    BY <1>2 DEF Honest
  <2> QED
    BY <2>1, CollectionGrows
<1>5. Payload(w) \in CollectionOf(Known \cup {w})
  BY <1>2, <1>4, MergedType DEF Payload
<1> QED
  BY <1>2, <1>3, <1>5

LEMMA CancelStep ==
    ASSUME VerdictInv, NEW w \in Writer, Cancel(w)
    PROVE  VerdictInv'
<1>1. /\ Leave(w, "cancelled") /\ UNCHANGED <<server, effects, collateral>>
      /\ job[w].pc # "new"
  BY DEF Cancel, serverVars
<1>2. CASE UNCHANGED limbo
  BY <1>1, <1>2, LeaveOK
<1>3. CASE job[w].pc = "sending" /\ limbo' = [limbo EXCEPT ![w] = Payload(w)]
  <2>1. limbo'[w] \in CollectionOf(Known \cup {w}) /\ effects[w] = 0
    BY <1>3, PayloadType DEF VerdictInv, WorldOK
  <2> QED
    BY <1>1, <1>3, <2>1, LeaveOK
<1> QED
  BY <1>2, <1>3 DEF Cancel

LEMMA ReadBeforeStep ==
    ASSUME VerdictInv, NEW w \in Writer, ReadBefore(w)
    PROVE  VerdictInv'
<1> DEFINE now == server[job[w].target]
<1>1. CallTyped(w) /\ SentOnce(w) /\ job[w].pc = "reading"
  BY DEF VerdictInv, CallOK, ReadBefore
<1>2. now \in Honest
  BY <1>1 DEF CallTyped, VerdictInv, WorldOK
<1>3. UNCHANGED <<server, effects, collateral, limbo>>
  BY DEF ReadBefore, serverVars
<1>4. CASE job' = [job EXCEPT ![w].pc = "sending", ![w].base = now]
  <2> HIDE DEF now
  <2> DEFINE j == [job[w] EXCEPT !.pc = "sending", !.base = now]
  <2>1. job' = [job EXCEPT ![w] = j] /\ job'[w] = j
    BY <1>1, <1>4 DEF VerdictInv, WorldOK, CallTyped, IsCall, CallField
  <2>2. /\ IsCall(j) /\ j.pc = "sending" /\ j.base = now /\ j.target = job[w].target
        /\ j.field = job[w].field /\ j.outcome = job[w].outcome
    BY <1>1 DEF CallTyped, IsCall, CallField
  <2> HIDE DEF j
  <2>3. Honest' = Honest
    BY <1>3 DEF Honest, Known, Written
  <2>4. CallOK(w)'
    BY <1>1, <1>2, <1>3, <2>1, <2>2, <2>3, AuthorAssumption
       DEF CallOK, CallTyped, SentOnce, ChangeShows, VerdictTrue, BeforeAnswer
  <2> QED
    BY <1>3, <2>1, <2>4, OthersKept
<1>5. CASE Leave(w, "refused")
  BY <1>1, <1>3, <1>5, LeaveOK DEF BeforeAnswer
<1> QED
  BY <1>4, <1>5 DEF ReadBefore

(* The request is under way, was lost or was limited.                      *)
LEMMA UnansweredStep ==
    ASSUME VerdictInv, NEW w \in Writer, Vanished(w) \/ Delayed(w) \/ Limited(w)
    PROVE  VerdictInv'
<1>1. CallTyped(w) /\ SentOnce(w) /\ job[w].pc = "sending"
  BY DEF VerdictInv, CallOK, Vanished, Delayed, Limited
<1>2. PICK pc \in {"checking", "backoff"} : job' = [job EXCEPT ![w].pc = pc]
  BY DEF Vanished, Delayed, Limited
<1>3. /\ UNCHANGED <<server, effects, collateral>>
      /\ \/ UNCHANGED limbo
         \/ limbo' = [limbo EXCEPT ![w] = Payload(w)] /\ pc = "checking"
  BY <1>1, <1>2 DEF Vanished, Delayed, Limited, serverVars, VerdictInv, WorldOK, CallTyped,
                    IsCall, CallField
<1> DEFINE j == [job[w] EXCEPT !.pc = pc]
<1>4. job' = [job EXCEPT ![w] = j] /\ job'[w] = j
  BY <1>2 DEF VerdictInv, WorldOK
<1>5. /\ IsCall(j) /\ j.pc = pc /\ j.base = job[w].base /\ j.target = job[w].target
      /\ j.field = job[w].field /\ j.outcome = job[w].outcome
  BY <1>1 DEF CallTyped, IsCall, CallField
<1> HIDE DEF j
<1>6. Honest' = Honest /\ Known' = Known
  BY <1>3 DEF Honest, Known, Written
<1>7. limbo'[w] = None \/ (limbo'[w] = Payload(w) /\ pc = "checking")
  BY <1>1, <1>3, PayloadType DEF VerdictInv, WorldOK
<1>8. CallOK(w)'
  BY <1>1, <1>3, <1>4, <1>5, <1>6, <1>7, PayloadType, AuthorAssumption
     DEF CallOK, CallTyped, SentOnce, ChangeShows, VerdictTrue, BeforeAnswer
<1> QED
  BY <1>3, <1>4, <1>8, OthersKept

LEMMA AgainStep ==
    ASSUME VerdictInv, NEW w \in Writer, Again(w)
    PROVE  VerdictInv'
<1> DEFINE j == [Attempting(job[w]) EXCEPT !.attempt = @ + 1, !.base = None]
<1>1. CallTyped(w) /\ SentOnce(w) /\ job[w].pc = "backoff"
  BY DEF VerdictInv, CallOK, Again
<1>2. UNCHANGED <<server, effects, collateral, limbo>> /\ job' = [job EXCEPT ![w] = j]
  <2>1. UNCHANGED <<server, effects, collateral, limbo>>
    BY DEF Again, serverVars
  <2>2. job' = [job EXCEPT ![w] = j]
    BY DEF Again
  <2> QED
    BY <2>1, <2>2
<1>3. /\ IsCall(j) /\ j.pc = "reading" /\ j.target = job[w].target
      /\ j.field = job[w].field /\ j.outcome = job[w].outcome
  BY <1>1 DEF CallTyped, IsCall, CallField, Attempting
<1> HIDE DEF j
<1>4. job'[w] = j
  BY <1>2 DEF VerdictInv, WorldOK
<1>5. CallOK(w)'
  BY <1>1, <1>2, <1>3, <1>4, AuthorAssumption
     DEF CallOK, CallTyped, SentOnce, ChangeShows, VerdictTrue, BeforeAnswer
<1> QED
  BY <1>2, <1>5, OthersKept

(* What is read back shows a change of the rest, if the call made one.     *)
LEMMA ReadBackStep ==
    ASSUME VerdictInv, NEW w \in Writer, ReadBack(w)
    PROVE  VerdictInv'
<1> DEFINE now == server[job[w].target]
           j == [job[w] EXCEPT !.pc = "checked", !.seen = now]
<1>1. CallTyped(w) /\ SentOnce(w) /\ ChangeShows(w) /\ job[w].pc = "checking"
  BY DEF VerdictInv, CallOK, ReadBack
<1>2. UNCHANGED <<server, effects, collateral, limbo>> /\ job' = [job EXCEPT ![w] = j]
  BY DEF ReadBack, serverVars, VerdictInv, WorldOK
<1>3. now \in Honest
  BY <1>1 DEF CallTyped, VerdictInv, WorldOK
<1>4. w \in collateral => now.rest # job[w].base.rest
  BY <1>1 DEF ChangeShows
<1> HIDE DEF now
<1>5. /\ IsCall(j) /\ j.pc = "checked" /\ j.target = job[w].target /\ j.seen = now
      /\ j.field = job[w].field /\ j.outcome = job[w].outcome /\ j.base = job[w].base
  BY <1>1 DEF CallTyped, IsCall, CallField
<1> HIDE DEF j
<1>6. job'[w] = j /\ Honest' = Honest /\ Known' = Known
  BY <1>2 DEF VerdictInv, WorldOK, Honest, Known, Written
<1>7. CallOK(w)'
  BY <1>1, <1>2, <1>3, <1>4, <1>5, <1>6, AuthorAssumption
     DEF CallOK, CallTyped, SentOnce, ChangeShows, VerdictTrue, BeforeAnswer
<1> QED
  BY <1>2, <1>7, OthersKept

LEMMA VerifyStep ==
    ASSUME VerdictInv, NEW w \in Writer, Verify(w)
    PROVE  VerdictInv'
<1>1. CallTyped(w) /\ SentOnce(w) /\ ChangeShows(w) /\ job[w].pc = "checked"
  BY DEF VerdictInv, CallOK, Verify
<1>2. UNCHANGED <<server, effects, collateral, limbo>>
  BY DEF Verify, serverVars
<1>3. CASE Verified(w) /\ Leave(w, "success")
  <2>1. /\ job[w].seen \in Honest /\ Stored(job[w].seen.fields, job[w].field) = w
        /\ job[w].seen.rest = job[w].base.rest
    <3>1. [job[w].base EXCEPT !.fields = Payload(w)].rest = job[w].base.rest
      BY <1>1 DEF CallTyped, Honest
    <3> QED
      BY <1>1, <1>3, <3>1 DEF Verified, SameSnapshot, CallTyped
  <2>2. w \in Written /\ w \notin collateral
    BY <1>1, <2>1, StoredByWriters DEF ChangeShows
  <2>3. effects[w] = 1 /\ limbo[w] = None
    BY <1>1, <2>2 DEF Written, SentOnce
  <2> QED
    BY <1>1, <1>2, <1>3, <2>2, <2>3, LeaveOK
<1>4. CASE Leave(w, "unverified")
  BY <1>1, <1>2, <1>4, LeaveOK
<1> QED
  BY <1>3, <1>4 DEF Verify

LEMMA ObjectStored ==
    ASSUME NEW F, NEW R, NEW o \in [fields : F, rest : R, version : Nat],
           NEW fields \in F, NEW next \in Nat
    PROVE  LET stored == [o EXCEPT !.fields = fields, !.version = next] IN
           /\ stored \in [fields : F, rest : R, version : Nat]
           /\ stored.fields = fields /\ stored.rest = o.rest /\ stored.version = next
           /\ \A r \in R : LET changed == [stored EXCEPT !.rest = r] IN
                 /\ changed \in [fields : F, rest : R, version : Nat]
                 /\ changed.rest = r /\ changed.version = next
<1> DEFINE stored == [o EXCEPT !.fields = fields, !.version = next]
<1>1. /\ stored \in [fields : F, rest : R, version : Nat]
      /\ stored.fields = fields /\ stored.rest = o.rest /\ stored.version = next
  OBVIOUS
<1> HIDE DEF stored
<1>2. \A r \in R : LET changed == [stored EXCEPT !.rest = r] IN
         /\ changed \in [fields : F, rest : R, version : Nat]
         /\ changed.rest = r /\ changed.version = next
  BY <1>1
<1> QED
  BY <1>1, <1>2 DEF stored

(* The server stores a payload of w, the first.                            *)
LEMMA EffectStep ==
    ASSUME VerdictInv, NEW w \in Writer, NEW fields \in CollectionOf(Known \cup {w}),
           TakesEffect(w, fields), effects[w] = 0, job[w].target \in Target
    PROVE  /\ effects' \in [Writer -> {0, 1}] /\ effects'[w] = 1
           /\ Written' = Written \cup {w} /\ collateral' \subseteq Written'
           /\ server' \in [Target -> Honest']
           /\ w \in collateral' => server'[job[w].target].rest = w
           /\ \A u \in Writer \ {w} : effects'[u] = effects[u]
           /\ Honest \subseteq Honest' /\ Known \subseteq Known'
           /\ \A u : CollectionOf(Known \cup {u}) \subseteq CollectionOf(Known \cup {u})'
           /\ collateral \subseteq collateral' /\ collateral' \subseteq collateral \cup {w}
           /\ \A t \in Target : \/ server'[t].rest = server[t].rest
                                \/ server'[t].rest \in Writer \ Written
<1> DEFINE t == job[w].target
           next == server[t].version + 1
           stored == [server[t] EXCEPT !.fields = fields, !.version = next]
           changed == [stored EXCEPT !.rest = w]
<1>1. /\ effects' = [effects EXCEPT ![w] = effects[w] + 1]
      /\ \/ server' = [server EXCEPT ![t] = stored] /\ collateral' = collateral
         \/ server' = [server EXCEPT ![t] = changed] /\ collateral' = collateral \cup {w}
  BY DEF TakesEffect
<1>2. /\ effects \in [Writer -> {0, 1}] /\ collateral \subseteq Written
      /\ server \in [Target -> Honest]
  BY DEF VerdictInv, WorldOK
<1>3. /\ effects' \in [Writer -> {0, 1}] /\ effects'[w] = 1
      /\ \A u \in Writer \ {w} : effects'[u] = effects[u]
  BY <1>1, <1>2
<1>4. Written' = Written \cup {w} /\ w \notin Written
  BY <1>3 DEF Written
<1>5. /\ collateral \subseteq collateral' /\ collateral' \subseteq collateral \cup {w}
      /\ collateral' \subseteq Written'
  BY <1>1, <1>2, <1>4
<1>6. Known' = Known \cup {w}
  BY <1>4 DEF Known
<1>7. /\ Honest \subseteq Honest'
      /\ \A u : CollectionOf(Known \cup {u}) \subseteq CollectionOf(Known \cup {u})'
  BY <1>4, <1>5, HonestGrows
<1>8. server[t] \in Honest
  BY <1>2
<1>9. server[t] \in Honest' /\ next \in Nat /\ fields \in CollectionOf(Known')
  BY <1>6, <1>7, <1>8 DEF Honest
<1>10. /\ stored \in Honest' /\ stored.rest = server[t].rest
       /\ w \in collateral' => changed \in Honest' /\ changed.rest = w
  <2> HIDE DEF next, stored
  <2> DEFINE R == {"rest"} \cup collateral'
  <2>1. Honest' = [fields : CollectionOf(Known'), rest : R, version : Nat]
    BY DEF Honest
  <2>2. w \in collateral' => w \in R
    OBVIOUS
  <2> HIDE DEF R
  <2> QED
    BY <1>9, <2>1, <2>2, ObjectStored DEF stored
<1> HIDE DEF stored, changed, next
<1>11. server' \in [Target -> Honest']
  BY <1>1, <1>2, <1>7, <1>10
<1>12. w \in collateral' => server'[t].rest = w
  BY <1>1, <1>2, <1>4, <1>10
<1>13. \A u \in Target : \/ server'[u].rest = server[u].rest
                         \/ server'[u].rest \in Writer \ Written
  BY <1>1, <1>2, <1>4, <1>10
<1>14. Known \subseteq Known'
  BY <1>6
<1> QED
  BY <1>3, <1>4, <1>5, <1>7, <1>11, <1>12, <1>13, <1>14

LEMMA AppliedStep ==
    ASSUME VerdictInv, NEW w \in Writer, Applied(w)
    PROVE  VerdictInv'
<1> DEFINE j == [job[w] EXCEPT !.pc = "checking"]
<1>1. /\ job[w].pc = "sending" /\ TakesEffect(w, Payload(w))
      /\ job' = [job EXCEPT ![w] = j] /\ UNCHANGED limbo
  BY DEF Applied, VerdictInv, WorldOK
<1>2. /\ Payload(w) \in CollectionOf(Known \cup {w})
      /\ effects[w] = 0 /\ limbo[w] = None /\ w \notin collateral
      /\ job[w].target \in Target /\ job[w].field \in Field /\ job[w].base \in Honest
      /\ job[w].outcome = None /\ IsCall(job[w])
  BY <1>1, PayloadType
<1>3. /\ IsCall(j) /\ j.pc = "checking" /\ j.target = job[w].target /\ j.base = job[w].base
      /\ j.field = job[w].field /\ j.outcome = None
  BY <1>2 DEF IsCall, CallField
<1> HIDE DEF j
<1>4. /\ DOMAIN job' = Writer /\ job' = [u \in Writer |-> job'[u]] /\ job'[w] = j
      /\ \A u \in Writer \ {w} : job'[u] = job[u]
  BY <1>1 DEF VerdictInv, WorldOK
<1>5. CallOK(w)'
  <2>1. w \in collateral' => server'[job[w].target].rest # job[w].base.rest
    <3>1. job[w].base.rest \in {"rest"} \cup collateral
      BY <1>2 DEF Honest
    <3>2. job[w].base.rest # w
      BY <1>2, <3>1, AuthorAssumption
    <3> QED
      BY <1>1, <1>2, <3>2, EffectStep
  <2>2. j.base \in Honest'
    BY <1>1, <1>2, <1>3, EffectStep
  <2>3. CallTyped(w)'
    BY <1>1, <1>2, <1>3, <1>4, <2>2 DEF CallTyped, BeforeAnswer
  <2>4. SentOnce(w)' /\ ChangeShows(w)' /\ VerdictTrue(w)'
    BY <1>1, <1>2, <1>3, <1>4, <2>1, AuthorAssumption
       DEF SentOnce, ChangeShows, VerdictTrue, BeforeAnswer
  <2> QED
    BY <2>3, <2>4 DEF CallOK
<1>6. ASSUME NEW u \in Writer \ {w} PROVE CallOK(u)'
  <2>1. /\ effects'[u] = effects[u] /\ (u \in collateral' => u \in collateral)
        /\ Written \subseteq Written' /\ collateral \subseteq collateral'
        /\ \A t \in Target : \/ server'[t].rest = server[t].rest
                             \/ server'[t].rest \in Writer \ Written
    BY <1>1, <1>2, EffectStep
  <2> QED
    BY <1>1, <1>4, <2>1, CallKept
<1>7. WorldOK'
  <2>1. /\ server' \in [Target -> Honest'] /\ effects' \in [Writer -> {0, 1}]
        /\ collateral' \subseteq Written'
    BY <1>1, <1>2, EffectStep
  <2> QED
    BY <1>1, <1>4, <2>1 DEF VerdictInv, WorldOK
<1> QED
  BY <1>5, <1>6, <1>7 DEF VerdictInv

LEMMA ArrivesStep ==
    ASSUME VerdictInv, NEW w \in Writer, Arrives(w)
    PROVE  VerdictInv'
<1>1. /\ limbo[w] # None /\ limbo' = [limbo EXCEPT ![w] = None]
      /\ TakesEffect(w, limbo[w]) /\ UNCHANGED job
  BY DEF Arrives
<1>2. CallOK(w)
  BY DEF VerdictInv
<1>3. /\ limbo[w] \in CollectionOf(Known \cup {w}) /\ effects[w] = 0 /\ w \notin collateral
      /\ job[w].pc \notin BeforeAnswer
      /\ job[w].target \in Target /\ job[w].field \in Field
      /\ job[w].outcome \notin {"success", "refused"}
  BY <1>1, <1>2
     DEF CallOK, CallTyped, SentOnce, VerdictTrue, VerdictInv, WorldOK, Written, BeforeAnswer
<1>4. /\ limbo' = [u \in Writer |-> limbo'[u]] /\ limbo'[w] = None
      /\ \A u \in Writer \ {w} : limbo'[u] = limbo[u]
  BY <1>1 DEF VerdictInv, WorldOK
<1>5. /\ effects'[w] = 1 /\ Honest \subseteq Honest'
      /\ w \in collateral' => server'[job[w].target].rest = w
      /\ server' \in [Target -> Honest'] /\ effects' \in [Writer -> {0, 1}]
      /\ collateral' \subseteq Written'
  BY <1>1, <1>3, EffectStep
<1>6. ASSUME job[w].pc = "checking" PROVE w # job[w].base.rest
  <2>1. job[w].base.rest \in {"rest"} \cup collateral
    BY <1>2, <1>6 DEF CallOK, CallTyped, Honest
  <2> QED
    BY <1>3, <2>1, AuthorAssumption
<1>7. ASSUME job[w].pc = "checked" PROVE Stored(job[w].seen.fields, job[w].field) # w
  <2>1. job[w].seen \in Honest
    BY <1>2, <1>7 DEF CallOK, CallTyped
  <2> QED
    BY <1>3, <2>1, StoredByWriters DEF Written
<1>8. CallOK(w)'
  <2>1. CallTyped(w)'
    BY <1>1, <1>2, <1>4, <1>5 DEF CallOK, CallTyped
  <2>2. SentOnce(w)' /\ ChangeShows(w)' /\ VerdictTrue(w)'
    BY <1>1, <1>3, <1>4, <1>5, <1>6, <1>7 DEF SentOnce, ChangeShows, VerdictTrue
  <2> QED
    BY <2>1, <2>2 DEF CallOK
<1>9. ASSUME NEW u \in Writer \ {w} PROVE CallOK(u)'
  <2>1. /\ effects'[u] = effects[u] /\ (u \in collateral' => u \in collateral)
        /\ Written \subseteq Written' /\ collateral \subseteq collateral'
        /\ \A t \in Target : \/ server'[t].rest = server[t].rest
                             \/ server'[t].rest \in Writer \ Written
    BY <1>1, <1>3, EffectStep
  <2> QED
    BY <1>1, <1>4, <2>1, CallKept
<1>10. WorldOK'
  BY <1>1, <1>4, <1>5 DEF VerdictInv, WorldOK
<1> QED
  BY <1>8, <1>9, <1>10 DEF VerdictInv

LEMMA EntriesReplaced ==
    ASSUME NEW S, NEW E, NEW R, NEW sent \in E, NEW next \in Nat,
           NEW o \in [fields : [state : S, entries : E], rest : R, version : Nat]
    PROVE  LET now == [o EXCEPT !.fields.entries = sent, !.version = next] IN
           /\ now \in [fields : [state : S, entries : E], rest : R, version : Nat]
           /\ now.rest = o.rest
<1> DEFINE fields == [o.fields EXCEPT !.entries = sent]
<1>1. fields \in [state : S, entries : E]
  OBVIOUS
<1> HIDE DEF fields
<1>2. LET now == [o EXCEPT !.fields = fields, !.version = next] IN
      /\ now \in [fields : [state : S, entries : E], rest : R, version : Nat]
      /\ now.rest = o.rest
  BY <1>1
<1> QED
  BY <1>2 DEF fields

(* An edit stores values everybody may know of and leaves the rest alone.  *)
LEMMA EditStep ==
    ASSUME VerdictInv, NEW e \in Edit, NEW t \in Target, NEW f \in Field, EditField(e, t, f)
    PROVE  VerdictInv'
<1> DEFINE was == server[t]
           sent == Merged(was.fields.entries, f, e)
           now == [was EXCEPT !.fields.entries = sent, !.version = was.version + 1]
           E == Seq([field : Field \cup {NoField}, value : Known])
           S == {"present", "missing", "null", "invalid"}
           R == {"rest"} \cup collateral
<1>1. was \in Honest /\ was.fields \in CollectionOf(Known) /\ was.version + 1 \in Nat
  BY DEF VerdictInv, WorldOK, Honest
<1>2. sent \in E
  BY <1>1, MergedType DEF Known
<1>3. Honest = [fields : [state : S, entries : E], rest : R, version : Nat]
  BY DEF Honest, CollectionOf
<1>4. now \in Honest /\ now.rest = was.rest
  <2> HIDE DEF sent, E, S, R, was
  <2> QED
    BY <1>1, <1>2, <1>3, EntriesReplaced
<1>5. server' = [server EXCEPT ![t] = now]
  BY DEF EditField
<1>6. /\ server' \in [Target -> Honest] /\ \A u \in Target : server'[u].rest = server[u].rest
  <2> HIDE DEF now
  <2> QED
    BY <1>4, <1>5 DEF VerdictInv, WorldOK
<1>7. UNCHANGED <<job, limbo, effects, collateral>>
  BY DEF EditField, callVars
<1>8. Written' = Written /\ Honest' = Honest
  BY <1>7 DEF Written, Honest, Known
<1>9. WorldOK'
  BY <1>6, <1>7, <1>8 DEF VerdictInv, WorldOK
<1>10. \A u \in Writer : CallOK(u)'
  BY <1>6, <1>7, <1>8, CallKept
<1> QED
  BY <1>9, <1>10 DEF VerdictInv

(* What refreshes and reloads change, no call relies on.                   *)
LEMMA QuietStep ==
    ASSUME VerdictInv, UNCHANGED <<job, limbo, server, effects, collateral>>
    PROVE  VerdictInv'
<1>1. Written' = Written /\ Honest' = Honest
  BY DEF Written, Honest, Known
<1>2. WorldOK'
  BY <1>1 DEF VerdictInv, WorldOK
<1>3. \A u \in Writer : CallOK(u)'
  BY <1>1, CallKept
<1> QED
  BY <1>2, <1>3 DEF VerdictInv

LEMMA InitVerdict == Init => VerdictInv
<1> SUFFICES ASSUME Init PROVE VerdictInv
  OBVIOUS
<1>1. CollectionOf({"null", NoValue}) \subseteq CollectionOf(Known)
  BY CollectionGrows DEF Known
<1>2. Collections \subseteq CollectionOf(Known)
  BY <1>1, AuthorAssumption
<1>3. [fields : Collections, rest : {"rest"}, version : {1}] \subseteq Honest
  BY <1>2 DEF Honest
<1>4. server \in [Target -> Honest]
  BY <1>3 DEF Init
<1>5. WorldOK
  BY <1>4 DEF WorldOK, Init
<1>6. ASSUME NEW w \in Writer PROVE CallOK(w)
  <2>1. job[w] = NewCall /\ limbo[w] = None /\ effects[w] = 0 /\ collateral = {}
    BY DEF Init
  <2>2. IsCall(NewCall) /\ NewCall.pc = "new" /\ NewCall.outcome = None
    BY DEF NewCall, IsCall, CallField
  <2> QED
    BY <2>1, <2>2, AuthorAssumption
       DEF CallOK, CallTyped, SentOnce, ChangeShows, VerdictTrue, BeforeAnswer
<1> QED
  BY <1>5, <1>6 DEF VerdictInv

LEMMA VerdictStep == VerdictInv /\ [Next]_vars => VerdictInv'
<1> SUFFICES ASSUME VerdictInv, [Next]_vars PROVE VerdictInv'
  OBVIOUS
<1>1. ASSUME NEW w \in Writer, NEW t \in Target, NEW f \in Field, Start(w, t, f)
      PROVE  VerdictInv'
  BY <1>1, StartStep
<1>2. ASSUME NEW w \in Writer, Proceeds(w) PROVE VerdictInv'
  <2>1. CASE ReadBefore(w)
    BY <2>1, ReadBeforeStep
  <2>2. CASE ReadFails(w) \/ Rejected(w) \/ ReadBackFails(w)
    BY <2>2, RefusedStep
  <2>3. CASE Applied(w)
    BY <2>3, AppliedStep
  <2>4. CASE Vanished(w) \/ Delayed(w) \/ Limited(w)
    BY <2>4, UnansweredStep
  <2>5. CASE Again(w)
    BY <2>5, AgainStep
  <2>6. CASE ReadBack(w)
    BY <2>6, ReadBackStep
  <2>7. CASE Verify(w)
    BY <2>7, VerifyStep
  <2> QED
    BY <1>2, <2>1, <2>2, <2>3, <2>4, <2>5, <2>6, <2>7 DEF Proceeds
<1>3. ASSUME NEW w \in Writer, Arrives(w) PROVE VerdictInv'
  BY <1>3, ArrivesStep
<1>4. ASSUME NEW w \in Writer, Cancel(w) PROVE VerdictInv'
  BY <1>4, CancelStep
<1>5. ASSUME NEW e \in Edit, NEW t \in Target, NEW f \in Field, EditField(e, t, f)
      PROVE  VerdictInv'
  BY <1>5, EditStep
<1>6. ASSUME NEW k \in Kind, Refreshes(k) PROVE VerdictInv'
  <2>1. UNCHANGED <<callVars, serverVars>>
    BY <1>6 DEF Refreshes, Begin, Serve, Land, Dropped
  <2> QED
    BY <2>1, QuietStep DEF callVars, serverVars
<1>7. CASE Reload
  BY <1>7, QuietStep DEF Reload, callVars, serverVars
<1>8. CASE UNCHANGED vars
  BY <1>8, QuietStep DEF vars, callVars, serverVars
<1> QED
  BY <1>1, <1>2, <1>3, <1>4, <1>5, <1>6, <1>7, <1>8 DEF Next

LEMMA VerdictAlways == Spec => []VerdictInv
  BY InitVerdict, VerdictStep, PTL DEF Spec

(* The verdict of a call is true, whatever the server does with what it is *)
(* sent and whenever it does it, with any number of calls, edits, refreshes *)
(* and reloads: what succeeded was stored, once, and changed nothing else; *)
(* what was refused is never stored (_write_custom_field,                  *)
(* _verify_post_write_readback).                                           *)
THEOREM VerdictsCorrect == Spec => []VerdictsTrue
<1>1. VerdictInv => VerdictsTrue
  BY DEF VerdictInv, WorldOK, CallOK, VerdictTrue, VerdictsTrue
<1> QED
  BY <1>1, VerdictAlways, PTL
-----------------------------------------------------------------------------
RefreshField == {"phase", "registry", "captured", "served"}
IsRefresh(r) == DOMAIN r = RefreshField /\ r = [x \in RefreshField |-> r[x]]

(* A call belongs to this set-up only once that is loaded, and what it     *)
(* read back is not ahead of the server.                                   *)
CallPlaced(w) ==
    /\ job[w].pc # "new" =>
           /\ job[w].life \in Nat /\ job[w].life <= life
           /\ job[w].life = life => stage = "loaded"
    /\ job[w].pc = "checked" => job[w].seen.version <= server[job[w].target].version

(* In a loaded entry a refresh under way has the registry and has noted no *)
(* later generation than the current one; in a set-up there is only one.   *)
RefreshPlaced(k) ==
    /\ refresh[k].phase \in {"idle", "asked", "served"} /\ IsRefresh(refresh[k])
    /\ refresh[k].phase # "idle" =>
           /\ stage = "loaded" => refresh[k].registry
           /\ stage = "listings" => k = "listing"
           /\ stage = "reservations" => k = "reservation"
           /\ DOMAIN refresh[k].captured \subseteq Target
           /\ \A t \in DOMAIN refresh[k].captured :
                  refresh[k].captured[t] \in Nat /\ refresh[k].captured[t] <= generation[t]

(* What has been served and will be published is not too old.              *)
ServedOK(k) ==
    refresh[k].phase = "served" =>
        \A t \in Of(k) :
            refresh[k].served[t] = None \/ (Changed(k, t) /\ published[t] # None)
            \/ refresh[k].served[t].version >= floor[t]

Placed ==
    /\ life \in Nat /\ stage \in {"listings", "reservations", "loaded"}
    /\ generation \in [Target -> Nat] /\ floor \in [Target -> Nat]
    /\ published = [t \in Target |-> published[t]]
    /\ refresh = [k \in Kind |-> refresh[k]]
    /\ \A t \in Target : /\ floor[t] <= server[t].version
                         /\ stage # "loaded" => floor[t] = 0

RefreshInv ==
    /\ Placed /\ VerifiedNotUndone
    /\ \A w \in Writer : CallPlaced(w)
    /\ \A k \in Kind : RefreshPlaced(k) /\ ServedOK(k)
-----------------------------------------------------------------------------
LEMMA HonestObject ==
    ASSUME VerdictInv, NEW object \in Honest
    PROVE  object \in Object /\ object # None /\ object.version \in Nat
<1>1. Known \subseteq Values
  BY DEF Known, Values, Written
<1>2. CollectionOf(Known) \subseteq CollectionOf(Values)
  BY <1>1, CollectionGrows
<1> QED
  BY <1>2, AuthorAssumption DEF VerdictInv, WorldOK, Written, Honest, Object
-----------------------------------------------------------------------------
(* What a step of the calls does to the call u.                            *)
Section == {"reading", "sending", "backoff", "checking", "checked"}
Outcomes == {"success", "refused", "unverified", "cancelled"}
SameCall(u) == /\ job'[u].life = job[u].life /\ job'[u].target = job[u].target
               /\ job'[u].field = job[u].field

Called(u) == /\ job[u].pc = "new" /\ stage = "loaded" /\ job'[u].life = life
             /\ job'[u].target \in Target
Waits(u) == Called(u) /\ job'[u].pc = "waiting"
Enters(u) ==
    /\ job'[u].pc = "reading" /\ job'[u].since = server[job'[u].target].version
    /\ Called(u) \/ (job[u].pc \in {"waiting", "backoff"} /\ SameCall(u))
Reads(u) ==
    /\ job[u].pc = "reading" /\ job'[u].pc = "sending" /\ SameCall(u)
    /\ job'[u].since = job[u].since /\ job'[u].base = server[job[u].target]
    /\ Mergeable(job'[u].base.fields, job[u].field)
GoesOn(u) ==
    /\ job[u].pc \in Section /\ job'[u].pc \in {"backoff", "checking", "checked"} /\ SameCall(u)
    /\ job'[u].since = job[u].since
    /\ job'[u].pc = "checked" => job'[u].seen = server[job[u].target]
Ends(u) ==
    /\ job[u].pc \notin {"new", "done"} /\ job'[u].pc = "done" /\ SameCall(u)
    /\ job'[u].outcome \in Outcomes

Moved(u) ==
    job'[u] = job[u] \/ Waits(u) \/ Enters(u) \/ Reads(u) \/ GoesOn(u) \/ Ends(u)

ServerGrows == \A t \in Target : server'[t].version >= server[t].version

LEMMA AttemptMoved ==
    ASSUME NEW j, IsCall(j)
    PROVE  LET a == Attempting(j) IN
           /\ IsCall(a) /\ a.pc = "reading" /\ a.since = server[j.target].version
           /\ a.life = j.life /\ a.target = j.target /\ a.field = j.field
  BY DEF Attempting, IsCall, CallField

(* The writers other than w move only when w hands over its lock.          *)
LEMMA LeaveMoved ==
    ASSUME VerdictInv, NEW w \in Writer, NEW outcome \in Outcomes, Leave(w, outcome),
           job[w].pc \notin {"new", "done"}
    PROVE  /\ \A u \in Writer : Moved(u)
           /\ Ends(w)
           /\ LET q == Without(queue[job[w].life][job[w].target], w) IN
              /\ queue' = [queue EXCEPT ![job[w].life][job[w].target] = q]
              /\ \A u \in Writer \ {w} :
                     job'[u] = job[u] \/ (q # <<>> /\ u = Head(q) /\ Enters(u) /\ SameCall(u))
<1> DEFINE q == Without(queue[job[w].life][job[w].target], w)
<1>1. /\ job'[w] = Ended(job[w], outcome)
      /\ queue' = [queue EXCEPT ![job[w].life][job[w].target] = q]
  BY DEF Leave
<1>2. Ends(w)
  BY <1>1 DEF Ended, Ends, SameCall
<1>3. ASSUME NEW u \in Writer \ {w}
      PROVE  job'[u] = job[u] \/ (q # <<>> /\ u = Head(q) /\ Enters(u) /\ SameCall(u))
  <2>1. \/ job'[u] = job[u]
        \/ /\ q # <<>> /\ u = Head(q)
           /\ job[u].pc = "waiting" /\ job'[u] = Attempting(job[u])
    BY DEF Leave
  <2>2. IsCall(job[u])
    BY DEF VerdictInv, CallOK, CallTyped
  <2> HIDE DEF q
  <2> QED
    BY <2>1, <2>2, AttemptMoved DEF Enters, SameCall
<1> QED
  BY <1>1, <1>2, <1>3 DEF Moved

(* The steps of a call that keep its place in the section.                 *)
StaysIn(w) ==
    /\ UNCHANGED queue /\ job[w].pc \in Section
    /\ \A u \in Writer \ {w} : job'[u] = job[u]
    /\ (Enters(w) /\ job[w].pc = "backoff") \/ Reads(w) \/ GoesOn(w)

LEMMA ReadBeforeMoved ==
    ASSUME VerdictInv, NEW w \in Writer, ReadBefore(w)
    PROVE  StaysIn(w) \/ \E outcome \in Outcomes : Leave(w, outcome)
<1> DEFINE j == [job[w] EXCEPT !.pc = "sending", !.base = server[job[w].target]]
<1>1. IsCall(job[w]) /\ DOMAIN job = Writer
  BY DEF VerdictInv, WorldOK, CallOK, CallTyped
<1>2. /\ j.pc = "sending" /\ j.life = job[w].life /\ j.target = job[w].target
      /\ j.field = job[w].field /\ j.since = job[w].since /\ j.base = server[job[w].target]
  BY <1>1 DEF IsCall, CallField
<1>3. /\ job[w].pc = "reading"
      /\ \/ /\ job' = [job EXCEPT ![w] = j] /\ UNCHANGED queue
            /\ Mergeable(server[job[w].target].fields, job[w].field)
         \/ Leave(w, "refused")
  BY <1>1 DEF ReadBefore
<1> HIDE DEF j
<1> QED
  BY <1>1, <1>2, <1>3 DEF StaysIn, Reads, SameCall, Section, Outcomes

LEMMA ReadBackMoved ==
    ASSUME VerdictInv, NEW w \in Writer, ReadBack(w)
    PROVE  StaysIn(w)
<1> DEFINE j == [job[w] EXCEPT !.pc = "checked", !.seen = server[job[w].target]]
<1>1. IsCall(job[w]) /\ DOMAIN job = Writer
  BY DEF VerdictInv, WorldOK, CallOK, CallTyped
<1>2. /\ j.pc = "checked" /\ j.life = job[w].life /\ j.target = job[w].target
      /\ j.field = job[w].field /\ j.since = job[w].since /\ j.seen = server[job[w].target]
  BY <1>1 DEF IsCall, CallField
<1>3. job[w].pc = "checking" /\ job' = [job EXCEPT ![w] = j] /\ UNCHANGED queue
  BY <1>1 DEF ReadBack
<1> HIDE DEF j
<1> QED
  BY <1>1, <1>2, <1>3 DEF StaysIn, GoesOn, SameCall, Section

LEMMA AnswerMoved ==
    ASSUME VerdictInv, NEW w \in Writer,
           Applied(w) \/ Vanished(w) \/ Delayed(w) \/ Limited(w)
    PROVE  StaysIn(w)
<1> DEFINE j(pc) == [job[w] EXCEPT !.pc = pc]
<1>1. IsCall(job[w]) /\ DOMAIN job = Writer
  BY DEF VerdictInv, WorldOK, CallOK, CallTyped
<1>2. \A pc \in {"checking", "backoff"} :
         /\ j(pc).pc = pc /\ j(pc).life = job[w].life /\ j(pc).target = job[w].target
         /\ j(pc).field = job[w].field /\ j(pc).since = job[w].since
  BY <1>1 DEF IsCall, CallField
<1>3. /\ job[w].pc = "sending" /\ UNCHANGED queue
      /\ \E pc \in {"checking", "backoff"} : job' = [job EXCEPT ![w] = j(pc)]
  BY <1>1 DEF Applied, Vanished, Delayed, Limited
<1> HIDE DEF j
<1> QED
  BY <1>1, <1>2, <1>3 DEF StaysIn, GoesOn, SameCall, Section

LEMMA AgainMoved ==
    ASSUME VerdictInv, NEW w \in Writer, Again(w)
    PROVE  StaysIn(w)
<1> DEFINE i == Attempting(job[w])
           j == [i EXCEPT !.attempt = @ + 1, !.base = None]
<1>1. IsCall(job[w]) /\ DOMAIN job = Writer
  BY DEF VerdictInv, WorldOK, CallOK, CallTyped
<1>2. job[w].pc = "backoff" /\ job' = [job EXCEPT ![w] = j] /\ UNCHANGED queue
  BY <1>1 DEF Again
<1>3. /\ IsCall(i) /\ i.pc = "reading" /\ i.since = server[job[w].target].version
      /\ i.life = job[w].life /\ i.target = job[w].target /\ i.field = job[w].field
  BY <1>1, AttemptMoved
<1> HIDE DEF i
<1>4. /\ j.pc = "reading" /\ j.since = i.since
      /\ j.life = i.life /\ j.target = i.target /\ j.field = i.field
  BY <1>3 DEF IsCall, CallField
<1> HIDE DEF j
<1> QED
  BY <1>1, <1>2, <1>3, <1>4 DEF StaysIn, Enters, SameCall, Section

LEMMA ProceedsPlace ==
    ASSUME VerdictInv, NEW w \in Writer, Proceeds(w)
    PROVE  /\ job[w].pc \in Section
           /\ StaysIn(w) \/ \E outcome \in Outcomes : Leave(w, outcome)
<1>1. CASE ReadFails(w) \/ Rejected(w) \/ ReadBackFails(w) \/ Verify(w)
  BY <1>1 DEF ReadFails, Rejected, ReadBackFails, Verify, Section, Outcomes
<1> QED
  BY <1>1, ReadBeforeMoved, ReadBackMoved, AnswerMoved, AgainMoved
     DEF Proceeds, StaysIn, ReadBefore, Section

LEMMA ProceedsMoved ==
    ASSUME VerdictInv, NEW w \in Writer, Proceeds(w)
    PROVE  \A u \in Writer : Moved(u)
<1>1. job[w].pc \in Section /\ (StaysIn(w) \/ \E outcome \in Outcomes : Leave(w, outcome))
  BY ProceedsPlace
<1>2. CASE StaysIn(w)
  BY <1>2 DEF StaysIn, Moved
<1> QED
  BY <1>1, <1>2, LeaveMoved DEF Section

LEMMA StartMoved ==
    ASSUME VerdictInv, NEW w \in Writer, NEW t \in Target, NEW f \in Field, Start(w, t, f)
    PROVE  /\ \A u \in Writer : Moved(u)
           /\ \A u \in Writer \ {w} : job'[u] = job[u]
           /\ job'[w].target = t /\ job[w].pc = "new"
           /\ IF queue[life][t] = <<>> THEN Enters(w) ELSE Waits(w)
           /\ Called(w)
<1> DEFINE called == [job[w] EXCEPT !.pc = "waiting", !.target = t, !.field = f,
                                    !.life = life]
<1>1. IsCall(job[w]) /\ DOMAIN job = Writer
  BY DEF VerdictInv, WorldOK, CallOK, CallTyped
<1>2. IsCall(called) /\ called.pc = "waiting" /\ called.life = life /\ called.target = t
  BY <1>1 DEF IsCall, CallField
<1> HIDE DEF called
<1>3. /\ stage = "loaded" /\ job[w].pc = "new"
      /\ job' = [job EXCEPT ![w] = IF queue[life][t] = <<>> THEN Attempting(called)
                                   ELSE called]
  BY DEF Start, called
<1>4. /\ \A u \in Writer \ {w} : job'[u] = job[u]
      /\ job'[w].target = t /\ Called(w)
      /\ IF queue[life][t] = <<>> THEN Enters(w) ELSE Waits(w)
  BY <1>1, <1>2, <1>3, AttemptMoved DEF Called, Enters, Waits
<1> QED
  BY <1>3, <1>4 DEF Moved

LEMMA CancelMoved ==
    ASSUME VerdictInv, NEW w \in Writer, Cancel(w)
    PROVE  \A u \in Writer : Moved(u)
  BY LeaveMoved DEF Cancel, Outcomes

LEMMA EffectGrows ==
    ASSUME VerdictInv, NEW w \in Writer, NEW fields, TakesEffect(w, fields),
           job[w].target \in Target
    PROVE  ServerGrows
<1> DEFINE t == job[w].target
           next == server[t].version + 1
           stored == [server[t] EXCEPT !.fields = fields, !.version = next]
           changed == [stored EXCEPT !.rest = w]
<1>1. server' = [server EXCEPT ![t] = stored] \/ server' = [server EXCEPT ![t] = changed]
  BY DEF TakesEffect
<1>2. server \in [Target -> Honest] /\ \A u \in Target : server[u].version \in Nat
  BY DEF VerdictInv, WorldOK, Honest
<1>3. stored.version = next /\ changed.version = next
  <2>1. server[t] \in [fields : CollectionOf(Known), rest : {"rest"} \cup collateral,
                       version : Nat]
    BY <1>2 DEF Honest
  <2> HIDE DEF next
  <2> QED
    BY <2>1
<1> HIDE DEF stored, changed
<1> QED
  BY <1>1, <1>2, <1>3 DEF ServerGrows

LEMMA CallsGrow ==
    ASSUME VerdictInv, NEW w \in Writer,
           \/ \E t \in Target, f \in Field : Start(w, t, f)
           \/ Proceeds(w) \/ Arrives(w) \/ Cancel(w)
    PROVE  ServerGrows
<1>1. CASE Applied(w)
  <2>1. job[w].target \in Target
    BY <1>1 DEF Applied, VerdictInv, CallOK, CallTyped
  <2> QED
    BY <1>1, <2>1, EffectGrows DEF Applied
<1>2. CASE Arrives(w)
  <2>1. job[w].pc # "new"
    BY <1>2 DEF Arrives, VerdictInv, CallOK, SentOnce, BeforeAnswer
  <2>2. job[w].target \in Target
    BY <2>1 DEF VerdictInv, CallOK, CallTyped
  <2> QED
    BY <1>2, <2>2, EffectGrows DEF Arrives
<1>3. CASE UNCHANGED server
  BY <1>3 DEF ServerGrows, VerdictInv, WorldOK, Honest
<1> QED
  BY <1>1, <1>2, <1>3
     DEF Start, Proceeds, ReadBefore, ReadFails, Vanished, Delayed, Limited, Rejected, Again,
         ReadBack, ReadBackFails, Verify, Cancel, serverVars
-----------------------------------------------------------------------------
LEMMA CallsPlaced ==
    ASSUME VerdictInv, RefreshInv, \A u \in Writer : Moved(u), ServerGrows, VerdictInv',
           UNCHANGED <<life, stage>>
    PROVE  \A u \in Writer : CallPlaced(u)'
<1> SUFFICES ASSUME NEW u \in Writer PROVE CallPlaced(u)'
  OBVIOUS
<1>1. CallPlaced(u) /\ Moved(u) /\ life \in Nat
  BY DEF RefreshInv, Placed
<1>2. \A t \in Target : server[t].version \in Nat /\ server'[t].version \in Nat
                        /\ server'[t].version >= server[t].version
  BY DEF VerdictInv, WorldOK, Honest, ServerGrows
<1>3. CASE job'[u] = job[u]
  <2>1. job[u].pc = "checked" => job[u].target \in Target /\ job[u].seen.version \in Nat
    BY DEF VerdictInv, CallOK, CallTyped, Honest
  <2> QED
    BY <1>1, <1>2, <1>3, <2>1 DEF CallPlaced
<1>4. job[u].pc # "new" => job[u].target \in Target
  BY DEF VerdictInv, CallOK, CallTyped
<1> QED
  BY <1>1, <1>2, <1>3, <1>4
     DEF CallPlaced, Moved, Waits, Enters, Called, Reads, GoesOn, Ends, SameCall, Section

LEMMA ServerAhead ==
    ASSUME VerdictInv, VerdictInv', RefreshInv, ServerGrows, floor' = floor
    PROVE  \A t \in Target : floor'[t] <= server'[t].version
<1>1. \A t \in Target : /\ server[t].version \in Nat /\ server'[t].version \in Nat
                        /\ server'[t].version >= server[t].version
                        /\ floor[t] \in Nat /\ floor[t] <= server[t].version
  BY DEF VerdictInv, WorldOK, Honest, ServerGrows, RefreshInv, Placed
<1> QED
  BY <1>1

(* A step of the calls or of the server that publishes nothing.            *)
LEMMA UnpublishedStep ==
    ASSUME VerdictInv, VerdictInv', RefreshInv, \A u \in Writer : Moved(u), ServerGrows,
           UNCHANGED <<entryVars, floor>>
    PROVE  RefreshInv'
<1>1. UNCHANGED <<published, generation, refresh, stage, life, floor>>
  BY DEF entryVars
<1>2. \A u \in Writer : CallPlaced(u)'
  BY <1>1, CallsPlaced
<1>3. Placed'
  BY <1>1, ServerAhead DEF RefreshInv, Placed
<1>4. VerifiedNotUndone' /\ \A k \in Kind : RefreshPlaced(k)' /\ ServedOK(k)'
  BY <1>1 DEF RefreshInv, VerifiedNotUndone, RefreshPlaced, ServedOK, Changed
<1> QED
  BY <1>2, <1>3, <1>4 DEF RefreshInv

(* A verified write is published and noticed by every refresh under way.   *)
LEMMA PatchStep ==
    ASSUME VerdictInv, VerdictInv', RefreshInv, NEW w \in Writer, Verify(w)
    PROVE  RefreshInv'
<1> DEFINE t == job[w].target
           seen == job[w].seen
<1>1. /\ job[w].pc = "checked" /\ UNCHANGED <<refresh, stage, life, server>>
  BY DEF Verify, serverVars
<1>2. (\A u \in Writer : Moved(u)) /\ ServerGrows
  BY ProceedsMoved, CallsGrow DEF Proceeds
<1>3. \A u \in Writer : CallPlaced(u)'
  BY <1>1, <1>2, CallsPlaced
<1>4. CASE UNCHANGED <<published, generation, floor>>
  BY <1>1, <1>2, <1>4, UnpublishedStep DEF entryVars
<1>5. CASE job[w].life = life /\ Patch(w)
  <2>1. /\ t \in Target /\ seen \in Honest /\ stage = "loaded"
        /\ seen.version <= server[t].version
    BY <1>1, <1>5 DEF VerdictInv, CallOK, CallTyped, RefreshInv, CallPlaced
  <2>2. seen # None /\ seen.version \in Nat
    BY <2>1, HonestObject
  <2>3. /\ generation \in [Target -> Nat] /\ floor \in [Target -> Nat]
        /\ published = [x \in Target |-> published[x]]
    BY DEF RefreshInv, Placed
  <2>4. /\ generation' \in [Target -> Nat] /\ floor' \in [Target -> Nat]
        /\ published' = [x \in Target |-> published'[x]]
        /\ generation'[t] = generation[t] + 1
        /\ \A x \in Target \ {t} : /\ generation'[x] = generation[x]
                                   /\ floor'[x] = floor[x] /\ published'[x] = published[x]
        /\ \/ floor'[t] = seen.version /\ published'[t] = seen
           \/ floor'[t] = floor[t] /\ published'[t] = published[t] /\ published[t] = None
    BY <1>5, <2>1, <2>2, <2>3 DEF Patch
  <2> HIDE DEF t, seen
  <2>5. Placed'
    BY <1>1, <2>1, <2>4 DEF RefreshInv, Placed
  <2>6. VerifiedNotUndone'
    BY <2>2, <2>4 DEF RefreshInv, VerifiedNotUndone
  <2>7. ASSUME NEW k \in Kind PROVE RefreshPlaced(k)' /\ ServedOK(k)'
    <3>1. RefreshPlaced(k) /\ ServedOK(k)
      BY DEF RefreshInv
    <3>2. \A x \in Target : generation'[x] \in Nat /\ generation[x] \in Nat
                            /\ generation'[x] >= generation[x]
      BY <2>1, <2>3, <2>4
    <3>3. RefreshPlaced(k)'
      BY <1>1, <3>1, <3>2 DEF RefreshPlaced
    <3>4. ASSUME NEW x \in Of(k), refresh[k].phase = "served"
          PROVE  \/ refresh[k].served[x] = None \/ (Changed(k, x)' /\ published'[x] # None)
                 \/ refresh[k].served[x].version >= floor'[x]
      <4>1. x \in Target
        BY DEF Of, Target
      <4>2. CASE x # t
        BY <1>1, <2>4, <3>1, <3>4, <4>1, <4>2 DEF ServedOK, Changed
      <4>3. CASE x = t
        <5>1. Changed(k, x)'
          <6>1. generation'[x] \notin {0} /\ \A n \in Nat : n <= generation[x] => generation'[x] # n
            BY <2>1, <2>3, <2>4, <4>3
          <6>2. refresh[k].registry
            BY <2>1, <3>1, <3>4 DEF RefreshPlaced
          <6> QED
            BY <1>1, <3>1, <3>4, <6>1, <6>2 DEF Changed, RefreshPlaced
        <5> QED
          BY <2>2, <2>4, <3>1, <3>4, <4>3, <5>1 DEF ServedOK
      <4> QED
        BY <4>2, <4>3
    <3>5. ServedOK(k)'
      BY <1>1, <3>4 DEF ServedOK
    <3> QED
      BY <3>3, <3>5
  <2> QED
    BY <1>3, <2>5, <2>6, <2>7 DEF RefreshInv
<1> QED
  BY <1>4, <1>5 DEF Verify, Patch

(* The server's answer is not older than what has been verified.           *)
LEMMA ServeStep ==
    ASSUME VerdictInv, RefreshInv, NEW k \in Kind, Serve(k)
    PROVE  RefreshInv'
<1>1. /\ UNCHANGED <<published, generation, stage, life, job, server, floor>>
      /\ refresh[k].phase = "asked"
  BY DEF Serve, callVars, serverVars
<1>2. PICK got \in Fetches(Of(k)) :
          refresh' = [refresh EXCEPT ![k].phase = "served", ![k].served = got]
  BY DEF Serve
<1>3. /\ IsRefresh(refresh[k]) /\ refresh = [i \in Kind |-> refresh[i]]
  BY DEF RefreshInv, RefreshPlaced, Placed
<1>4. /\ IsRefresh(refresh'[k]) /\ refresh' = [i \in Kind |-> refresh'[i]]
      /\ refresh'[k].phase = "served" /\ refresh'[k].served = got
      /\ refresh'[k].registry = refresh[k].registry
      /\ refresh'[k].captured = refresh[k].captured
      /\ \A i \in Kind \ {k} : refresh'[i] = refresh[i]
  BY <1>2, <1>3 DEF IsRefresh, RefreshField
<1>5. \A t \in Of(k) : got[t] = None \/ got[t].version >= floor[t]
  <2>1. \A t \in Of(k) : t \in Target /\ (got[t] = None \/ got[t] = server[t])
    BY DEF Fetches, Of, Target
  <2>2. \A t \in Target : /\ server[t].version \in Nat /\ floor[t] \in Nat
                          /\ floor[t] <= server[t].version
    BY DEF VerdictInv, WorldOK, Honest, RefreshInv, Placed
  <2> QED
    BY <2>1, <2>2
<1>6. RefreshPlaced(k)' /\ ServedOK(k)'
  BY <1>1, <1>4, <1>5 DEF RefreshInv, RefreshPlaced, ServedOK
<1>7. \A i \in Kind \ {k} : RefreshPlaced(i)' /\ ServedOK(i)'
  BY <1>1, <1>4 DEF RefreshInv, RefreshPlaced, ServedOK, Changed
<1>8. Placed' /\ VerifiedNotUndone' /\ \A u \in Writer : CallPlaced(u)'
  BY <1>1, <1>4 DEF RefreshInv, Placed, VerifiedNotUndone, CallPlaced
<1> QED
  BY <1>6, <1>7, <1>8 DEF RefreshInv

LEMMA IdleRefresh ==
    IsRefresh(Idle) /\ Idle.phase = "idle"
  BY DEF Idle, IsRefresh, RefreshField

LEMMA BeginStep ==
    ASSUME VerdictInv, RefreshInv, NEW k \in Kind, Begin(k)
    PROVE  RefreshInv'
<1> DEFINE noted == IF stage # "loaded" THEN {}
                    ELSE IF k = "listing" THEN Selected
                    ELSE {t \in Reservation : published[t] # None}
           begun == [Idle EXCEPT !.phase = "asked", !.registry = (stage = "loaded"),
                                 !.captured = [t \in noted |-> generation[t]]]
<1>1. /\ UNCHANGED <<published, generation, stage, life, job, server, floor>>
      /\ refresh' = [refresh EXCEPT ![k] = begun]
      /\ stage = "loaded" \/ (stage = "listings" /\ k = "listing")
                          \/ (stage = "reservations" /\ k = "reservation")
  BY DEF Begin, callVars, serverVars
<1>2. /\ IsRefresh(begun) /\ begun.phase = "asked" /\ (stage = "loaded" => begun.registry)
      /\ begun.captured = [t \in noted |-> generation[t]]
  BY DEF Idle, IsRefresh, RefreshField
<1>3. noted \subseteq Target /\ \A t \in noted : generation[t] \in Nat
  BY WriteAssumption DEF Target, RefreshInv, Placed
<1> HIDE DEF begun, noted
<1>4. /\ refresh' = [i \in Kind |-> refresh'[i]] /\ refresh'[k] = begun
      /\ \A i \in Kind \ {k} : refresh'[i] = refresh[i]
  BY <1>1 DEF RefreshInv, Placed
<1>5. RefreshPlaced(k)' /\ ServedOK(k)'
  <2>1. \A t \in DOMAIN begun.captured :
           begun.captured[t] \in Nat /\ begun.captured[t] <= generation[t]
    BY <1>2, <1>3
  <2> QED
    BY <1>1, <1>2, <1>3, <1>4, <2>1 DEF RefreshPlaced, ServedOK
<1>6. \A i \in Kind \ {k} : RefreshPlaced(i)' /\ ServedOK(i)'
  BY <1>1, <1>4 DEF RefreshInv, RefreshPlaced, ServedOK, Changed
<1>7. Placed' /\ VerifiedNotUndone' /\ \A u \in Writer : CallPlaced(u)'
  BY <1>1, <1>4 DEF RefreshInv, Placed, VerifiedNotUndone, CallPlaced
<1> QED
  BY <1>5, <1>6, <1>7 DEF RefreshInv
(* Two refreshes are under way only in a loaded entry.                     *)
LEMMA SetUpAlone ==
    ASSUME RefreshInv, NEW k \in Kind, NEW i \in Kind \ {k},
           refresh[k].phase # "idle", refresh[i].phase # "idle"
    PROVE  stage = "loaded"
  BY WriteAssumption DEF RefreshInv, Placed, RefreshPlaced

LEMMA LandStep ==
    ASSUME VerdictInv, RefreshInv, NEW k \in Kind, Land(k)
    PROVE  RefreshInv'
<1>1. /\ UNCHANGED <<generation, life, job, server, floor>>
      /\ refresh[k].phase = "served" /\ refresh' = [refresh EXCEPT ![k] = Idle]
      /\ stage' = IF stage = "listings" THEN "reservations" ELSE "loaded"
      /\ published' = [t \in Target |->
                        IF t \notin Of(k) \/ (Changed(k, t) /\ published[t] # None)
                        THEN published[t] ELSE refresh[k].served[t]]
  BY DEF Land, callVars, serverVars
<1>2. /\ refresh' = [i \in Kind |-> refresh'[i]] /\ refresh'[k] = Idle
      /\ \A i \in Kind \ {k} : refresh'[i] = refresh[i]
  BY <1>1 DEF RefreshInv, Placed
<1>3. Placed'
  BY <1>1, <1>2 DEF RefreshInv, Placed
<1>4. VerifiedNotUndone'
  BY <1>1 DEF RefreshInv, VerifiedNotUndone, ServedOK
<1>5. \A u \in Writer : CallPlaced(u)'
  BY <1>1 DEF RefreshInv, CallPlaced
<1>6. RefreshPlaced(k)' /\ ServedOK(k)'
  BY <1>2, IdleRefresh DEF RefreshPlaced, ServedOK
<1>7. ASSUME NEW i \in Kind \ {k} PROVE RefreshPlaced(i)' /\ ServedOK(i)'
  <2>1. RefreshPlaced(i) /\ ServedOK(i) /\ refresh'[i] = refresh[i]
        /\ (refresh[i].phase # "idle" => stage = "loaded")
    BY <1>1, <1>2, SetUpAlone DEF RefreshInv
  <2>2. RefreshPlaced(i)'
    BY <1>1, <2>1 DEF RefreshPlaced
  <2>3. \A t \in Of(i) : published'[t] = published[t]
    BY <1>1, WriteAssumption DEF Of, Target
  <2>4. ServedOK(i)'
    BY <1>1, <2>1, <2>3 DEF ServedOK, Changed
  <2> QED
    BY <2>2, <2>4
<1> QED
  BY <1>3, <1>4, <1>5, <1>6, <1>7 DEF RefreshInv

LEMMA DroppedStep ==
    ASSUME VerdictInv, RefreshInv, NEW k \in Kind, Dropped(k)
    PROVE  RefreshInv'
<1>1. /\ UNCHANGED <<generation, life, job, server, floor>>
      /\ refresh[k].phase # "idle" /\ refresh' = [refresh EXCEPT ![k] = Idle]
      /\ stage' = IF stage = "loaded" THEN "loaded" ELSE "listings"
      /\ published' = IF stage = "loaded" THEN published ELSE [t \in Target |-> None]
  BY DEF Dropped, callVars, serverVars
<1>2. /\ refresh' = [i \in Kind |-> refresh'[i]] /\ refresh'[k] = Idle
      /\ \A i \in Kind \ {k} : refresh'[i] = refresh[i]
  BY <1>1 DEF RefreshInv, Placed
<1>3. Placed'
  BY <1>1, <1>2 DEF RefreshInv, Placed
<1>4. VerifiedNotUndone'
  BY <1>1 DEF RefreshInv, VerifiedNotUndone
<1>5. \A u \in Writer : CallPlaced(u)'
  BY <1>1 DEF RefreshInv, CallPlaced
<1>6. RefreshPlaced(k)' /\ ServedOK(k)'
  BY <1>2, IdleRefresh DEF RefreshPlaced, ServedOK
<1>7. ASSUME NEW i \in Kind \ {k} PROVE RefreshPlaced(i)' /\ ServedOK(i)'
  <2>1. RefreshPlaced(i) /\ ServedOK(i) /\ refresh'[i] = refresh[i]
        /\ (refresh[i].phase # "idle" => stage = "loaded")
    BY <1>1, <1>2, SetUpAlone DEF RefreshInv
  <2> QED
    BY <1>1, <2>1 DEF RefreshPlaced, ServedOK, Changed
<1> QED
  BY <1>3, <1>4, <1>5, <1>6, <1>7 DEF RefreshInv

(* A reload: the calls under way belong to an earlier set-up.              *)
LEMMA ReloadStep ==
    ASSUME VerdictInv, RefreshInv, Reload
    PROVE  RefreshInv'
<1>1. /\ stage' = "listings" /\ life' = life + 1 /\ UNCHANGED <<job, server>>
      /\ published' = [t \in Target |-> None] /\ generation' = [t \in Target |-> 0]
      /\ refresh' = [k \in Kind |-> Idle] /\ floor' = [t \in Target |-> 0]
  BY DEF Reload, callVars, serverVars
<1>2. \A t \in Target : server[t].version \in Nat
  BY DEF VerdictInv, WorldOK, Honest
<1>3. Placed' /\ VerifiedNotUndone'
  BY <1>1, <1>2 DEF RefreshInv, Placed, VerifiedNotUndone
<1>4. \A u \in Writer : CallPlaced(u)'
  BY <1>1 DEF RefreshInv, Placed, CallPlaced
<1>5. \A k \in Kind : RefreshPlaced(k)' /\ ServedOK(k)'
  BY <1>1, IdleRefresh DEF RefreshPlaced, ServedOK
<1> QED
  BY <1>3, <1>4, <1>5 DEF RefreshInv

LEMMA EditGrows ==
    ASSUME VerdictInv, NEW e \in Edit, NEW t \in Target, NEW f \in Field, EditField(e, t, f)
    PROVE  ServerGrows
<1> DEFINE fields == [server[t].fields EXCEPT !.entries = Merged(@, f, e)]
           now == [server[t] EXCEPT !.fields = fields, !.version = server[t].version + 1]
<1>1. server' = [server EXCEPT ![t] = now]
  BY DEF EditField
<1>2. /\ server[t] \in [fields : CollectionOf(Known), rest : {"rest"} \cup collateral,
                       version : Nat]
      /\ server \in [Target -> Honest] /\ \A u \in Target : server[u].version \in Nat
  BY DEF VerdictInv, WorldOK, Honest
<1>3. now.version = server[t].version + 1
  <2> HIDE DEF fields
  <2> QED
    BY <1>2
<1> HIDE DEF now
<1> QED
  BY <1>1, <1>2, <1>3 DEF ServerGrows

LEMMA EditUnpublished ==
    ASSUME VerdictInv, VerdictInv', RefreshInv, NEW e \in Edit, NEW t \in Target,
           NEW f \in Field, EditField(e, t, f)
    PROVE  RefreshInv'
<1>1. /\ UNCHANGED <<entryVars, floor>>
      /\ \A u \in Writer : Moved(u)
  BY DEF EditField, callVars, Moved
<1> QED
  BY <1>1, EditGrows, UnpublishedStep

LEMMA InitRefresh == Init => RefreshInv
<1> SUFFICES ASSUME Init PROVE RefreshInv
  OBVIOUS
<1>1. \A t \in Target : server[t].version = 1
  BY DEF Init
<1>2. published \in [Target -> {None} \cup {server[t] : t \in Target}]
  BY DEF Init, Fetches
<1>3. \A t \in Target : published[t] = None \/ published[t].version = 1
  BY <1>1, <1>2
<1>4. Placed
  BY <1>1, <1>2 DEF Init, Placed
<1>5. VerifiedNotUndone
  BY <1>3 DEF Init, VerifiedNotUndone
<1>6. \A w \in Writer : CallPlaced(w)
  BY DEF Init, CallPlaced, NewCall
<1>7. \A k \in Kind : RefreshPlaced(k) /\ ServedOK(k)
  BY IdleRefresh DEF Init, RefreshPlaced, ServedOK
<1> QED
  BY <1>4, <1>5, <1>6, <1>7 DEF RefreshInv

LEMMA RefreshStep ==
    ASSUME VerdictInv, VerdictInv', RefreshInv, [Next]_vars
    PROVE  RefreshInv'
<1>1. ASSUME NEW w \in Writer, NEW t \in Target, NEW f \in Field, Start(w, t, f)
      PROVE  RefreshInv'
  <2>1. UNCHANGED <<entryVars, floor>>
    BY <1>1 DEF Start
  <2> QED
    BY <1>1, <2>1, StartMoved, CallsGrow, UnpublishedStep
<1>2. ASSUME NEW w \in Writer, Proceeds(w) PROVE RefreshInv'
  <2>1. CASE Verify(w)
    BY <2>1, PatchStep
  <2>2. CASE ~Verify(w)
    <3>1. UNCHANGED <<entryVars, floor>>
      BY <1>2, <2>2 DEF Proceeds, ReadBefore, ReadFails, Applied, Vanished, Delayed, Limited,
                        Rejected, Again, ReadBack, ReadBackFails
    <3> QED
      BY <1>2, <3>1, ProceedsMoved, CallsGrow, UnpublishedStep
  <2> QED
    BY <2>1, <2>2
<1>3. ASSUME NEW w \in Writer, Arrives(w) PROVE RefreshInv'
  <2>1. UNCHANGED <<entryVars, floor>> /\ \A u \in Writer : Moved(u)
    BY <1>3 DEF Arrives, Moved
  <2> QED
    BY <1>3, <2>1, CallsGrow, UnpublishedStep
<1>4. ASSUME NEW w \in Writer, Cancel(w) PROVE RefreshInv'
  <2>1. UNCHANGED <<entryVars, floor>> /\ Leave(w, "cancelled") /\ job[w].pc # "new"
    BY <1>4 DEF Cancel
  <2> QED
    BY <1>4, <2>1, CancelMoved, CallsGrow, UnpublishedStep
<1>5. ASSUME NEW e \in Edit, NEW t \in Target, NEW f \in Field, EditField(e, t, f)
      PROVE  RefreshInv'
  BY <1>5, EditUnpublished
<1>6. ASSUME NEW k \in Kind, Refreshes(k) PROVE RefreshInv'
  BY <1>6, BeginStep, ServeStep, LandStep, DroppedStep DEF Refreshes
<1>7. CASE Reload
  BY <1>7, ReloadStep
<1>8. CASE UNCHANGED vars
  <2>1. UNCHANGED <<entryVars, floor, server>> /\ \A u \in Writer : Moved(u)
    BY <1>8 DEF vars, callVars, serverVars, Moved
  <2>2. ServerGrows
    BY <2>1 DEF ServerGrows, VerdictInv, WorldOK, Honest
  <2> QED
    BY <2>1, <2>2, UnpublishedStep
<1> QED
  BY <1>1, <1>2, <1>3, <1>4, <1>5, <1>6, <1>7, <1>8 DEF Next

(* What a verified write made Home Assistant show is never replaced by     *)
(* something older, with any number of targets, writes, edits, refreshes   *)
(* under way and reloads (_generation_changed,                             *)
(* _preserve_changed_reservations, _advance_generation).                   *)
THEOREM VerifiedStays == Spec => []VerifiedNotUndone
<1>1. VerdictInv /\ VerdictInv' /\ RefreshInv /\ [Next]_vars => RefreshInv'
  BY RefreshStep
<1>2. RefreshInv => VerifiedNotUndone
  BY DEF RefreshInv
<1> QED
  BY <1>1, <1>2, InitRefresh, VerdictAlways, PTL DEF Spec
-----------------------------------------------------------------------------
(* Who is in the section is the first in the queue of its lock; everybody  *)
(* who waits or is in it is in that queue.                                 *)
Lock(u) == queue[job[u].life][job[u].target]
LockPlaced(u) ==
    /\ job[u].pc # "new" => job[u].life \in 1..MaxLives /\ job[u].target \in Target
    /\ job[u].pc \notin {"new", "done"} => \E i \in DOMAIN Lock(u) : Lock(u)[i] = u
    /\ job[u].pc \in Section => Lock(u)[1] = u

LockInv ==
    /\ life \in 1..MaxLives
    /\ queue \in [1..MaxLives -> [Target -> Seq(Writer)]]
    /\ \A l \in 1..MaxLives, t \in Target : \A i \in DOMAIN queue[l][t] :
           LET v == queue[l][t][i] IN
           job[v].pc # "new" /\ job[v].life = l /\ job[v].target = t
    /\ \A u \in Writer : LockPlaced(u)

(* Two calls in the section have different locks.                          *)
LEMMA Exclusive ==
    ASSUME LockInv, NEW u \in Writer, NEW v \in Writer,
           job[u].pc \in Section, job[v].pc \in Section,
           job[u].life = job[v].life, job[u].target = job[v].target
    PROVE  u = v
  BY DEF LockInv, LockPlaced, Lock

LEMMA WithoutType ==
    ASSUME NEW q \in Seq(Writer), NEW w \in Writer, NEW i \in DOMAIN q, q[i] = w
    PROVE  LET rest == Without(q, w) IN
           /\ rest \in Seq(Writer) /\ Len(rest) = Len(q) - 1 /\ DOMAIN rest = 1..Len(q) - 1
           /\ \A j \in DOMAIN rest : \E k \in DOMAIN q : rest[j] = q[k]
           /\ \A u \in Writer \ {w} :
                  /\ (\E k \in DOMAIN q : q[k] = u) => \E j \in DOMAIN rest : rest[j] = u
                  /\ q[1] = u => rest[1] = u
           /\ rest # <<>> => Head(rest) = rest[1]
<1> DEFINE at == CHOOSE k \in DOMAIN q : q[k] = w
           rest == Without(q, w)
<1>1. at \in DOMAIN q /\ q[at] = w
  OBVIOUS
<1>2. DOMAIN q = 1..Len(q) /\ Len(q) \in Nat
  OBVIOUS
<1>3. rest = [k \in 1..Len(q) - 1 |-> IF k < at THEN q[k] ELSE q[k + 1]]
  BY DEF Without
<1> HIDE DEF at, rest
<1>4. \A k \in 1..Len(q) - 1 : k \in DOMAIN q /\ k + 1 \in DOMAIN q
  BY <1>2
<1>5. rest \in [1..Len(q) - 1 -> Writer]
  BY <1>3, <1>4, ElementOfSeq, <1>2
<1>6. Len(q) - 1 \in Nat
  BY <1>1, <1>2
<1>7. rest \in Seq(Writer) /\ Len(rest) = Len(q) - 1 /\ DOMAIN rest = 1..Len(q) - 1
  BY <1>5, <1>6, SeqDef
<1>8. \A j \in DOMAIN rest : \E k \in DOMAIN q : rest[j] = q[k]
  BY <1>3, <1>4, <1>7
<1>9. ASSUME NEW u \in Writer \ {w}, NEW k \in DOMAIN q, q[k] = u
      PROVE  \E j \in DOMAIN rest : rest[j] = u
  <2>1. CASE k < at
    <3>1. k \in 1..Len(q) - 1
      BY <1>1, <1>2, <2>1
    <3> QED
      BY <1>3, <1>7, <1>9, <2>1, <3>1
  <2>2. CASE k > at
    <3>1. k - 1 \in 1..Len(q) - 1 /\ ~(k - 1 < at) /\ (k - 1) + 1 = k
      BY <1>1, <1>2, <2>2
    <3> QED
      BY <1>3, <1>7, <1>9, <3>1
  <2> QED
    BY <1>1, <1>2, <1>9, <2>1, <2>2
<1>10. ASSUME NEW u \in Writer \ {w}, q[1] = u PROVE rest[1] = u
  <2>1. 1 < at /\ 1 \in 1..Len(q) - 1
    BY <1>1, <1>2, <1>10
  <2> QED
    BY <1>3, <1>10, <2>1
<1>11. rest # <<>> => Head(rest) = rest[1]
  BY <1>7
<1> QED
  BY <1>7, <1>8, <1>9, <1>10, <1>11 DEF rest

LEMMA StartLock ==
    ASSUME VerdictInv, LockInv, NEW w \in Writer, NEW t \in Target, NEW f \in Field,
           Start(w, t, f)
    PROVE  LockInv'
<1> DEFINE q == queue[life][t]
<1>1. /\ \A u \in Writer \ {w} : job'[u] = job[u]
      /\ job'[w].target = t /\ job[w].pc = "new" /\ job'[w].life = life
      /\ job'[w].pc = IF q = <<>> THEN "reading" ELSE "waiting"
  BY StartMoved DEF Called, Enters, Waits
<1>2. /\ life' = life /\ queue' = [queue EXCEPT ![life][t] = Append(q, w)]
      /\ life \in 1..MaxLives /\ queue \in [1..MaxLives -> [Target -> Seq(Writer)]]
  BY DEF Start, entryVars, LockInv
<1>3. q \in Seq(Writer)
  BY <1>2
<1>4. /\ Append(q, w) \in Seq(Writer) /\ Append(q, w)[Len(q) + 1] = w
      /\ DOMAIN Append(q, w) = 1..Len(q) + 1 /\ DOMAIN q = 1..Len(q) /\ Len(q) \in Nat
      /\ \A i \in DOMAIN q : Append(q, w)[i] = q[i]
      /\ q = <<>> => Append(q, w)[1] = w
      /\ q # <<>> => 1 \in DOMAIN q
  BY <1>3
<1>5. /\ queue' \in [1..MaxLives -> [Target -> Seq(Writer)]] /\ queue'[life][t] = Append(q, w)
      /\ \A l \in 1..MaxLives, x \in Target : l # life \/ x # t => queue'[l][x] = queue[l][x]
  <2> HIDE DEF q
  <2> QED
    BY <1>2, <1>4
<1> HIDE DEF q
<1>6. ASSUME NEW l \in 1..MaxLives, NEW x \in Target, NEW i \in DOMAIN queue'[l][x]
      PROVE  LET v == queue'[l][x][i] IN
             job'[v].pc # "new" /\ job'[v].life = l /\ job'[v].target = x
  <2>1. CASE i \in DOMAIN queue[l][x] /\ queue'[l][x][i] = queue[l][x][i]
    <3> DEFINE v == queue[l][x][i]
    <3>1. v \in Writer
      BY <1>2, <2>1
    <3>2. job[v].pc # "new" /\ job[v].life = l /\ job[v].target = x
      BY <2>1 DEF LockInv
    <3> HIDE DEF v
    <3>3. job'[v] = job[v]
      BY <1>1, <3>1, <3>2
    <3> QED
      BY <2>1, <3>2, <3>3 DEF v
  <2>2. CASE l = life /\ x = t /\ i = Len(q) + 1
    BY <1>1, <1>4, <1>5, <2>2
  <2> QED
    BY <1>4, <1>5, <2>1, <2>2 DEF q
<1>7. ASSUME NEW u \in Writer PROVE LockPlaced(u)'
  <2>1. CASE u = w
    <3>1. Lock(w)' = Append(q, w)
      BY <1>1, <1>5 DEF Lock
    <3>2. Len(q) + 1 \in 1..Len(q) + 1
      BY <1>4
    <3> QED
      BY <1>1, <1>2, <1>4, <2>1, <3>1, <3>2 DEF LockPlaced, Section
  <2>2. CASE u # w
    <3>1. LockPlaced(u) /\ job'[u] = job[u]
      BY <1>1, <2>2 DEF LockInv
    <3>2. CASE job[u].life = life /\ job[u].target = t
      <4>1. Lock(u) = q /\ Lock(u)' = Append(q, w)
        BY <1>5, <3>1, <3>2 DEF Lock, q
      <4>2. ASSUME NEW i \in DOMAIN q, q[i] = u
            PROVE  /\ \E j \in DOMAIN Append(q, w) : Append(q, w)[j] = u
                   /\ q[1] = u => Append(q, w)[1] = u
        BY <1>4, <4>2
      <4>3. job[u].pc \in Section => job[u].pc \notin {"new", "done"}
        BY DEF Section
      <4> QED
        BY <3>1, <4>1, <4>2, <4>3 DEF LockPlaced
    <3>3. CASE job[u].pc # "new" /\ (job[u].life # life \/ job[u].target # t)
      <4>1. Lock(u)' = Lock(u)
        BY <1>5, <3>1, <3>3 DEF LockPlaced, Lock
      <4> QED
        BY <3>1, <4>1 DEF LockPlaced
    <3>4. CASE job[u].pc = "new"
      BY <3>1, <3>4 DEF LockPlaced, Section
    <3> QED
      BY <3>2, <3>3, <3>4
  <2> QED
    BY <2>1, <2>2
<1> QED
  BY <1>2, <1>5, <1>6, <1>7 DEF LockInv
LEMMA StaysLock ==
    ASSUME LockInv, NEW w \in Writer, StaysIn(w), life' = life
    PROVE  LockInv'
<1>1. /\ queue' = queue /\ job[w].pc \in Section /\ job'[w].pc \in Section /\ SameCall(w)
      /\ \A u \in Writer \ {w} : job'[u] = job[u]
  BY DEF StaysIn, Enters, Called, Reads, GoesOn, Section
<1>2. ASSUME NEW u \in Writer PROVE LockPlaced(u)'
  <2>1. LockPlaced(u)
    BY DEF LockInv
  <2>2. CASE u # w
    BY <1>1, <2>1, <2>2 DEF LockPlaced, Lock
  <2>3. CASE u = w
    BY <1>1, <2>1, <2>3 DEF LockPlaced, Lock, SameCall, Section
  <2> QED
    BY <2>2, <2>3
<1>3. \A u \in Writer : /\ job[u].pc # "new" => job'[u].pc # "new"
                        /\ job'[u].life = job[u].life /\ job'[u].target = job[u].target
  BY <1>1 DEF SameCall, Section
<1>4. \A l \in 1..MaxLives, t \in Target : \A i \in DOMAIN queue[l][t] :
          queue[l][t][i] \in Writer
  BY DEF LockInv
<1> QED
  BY <1>1, <1>2, <1>3, <1>4 DEF LockInv

LEMMA LeaveLock ==
    ASSUME VerdictInv, LockInv, NEW w \in Writer, NEW outcome \in Outcomes,
           Leave(w, outcome), job[w].pc \notin {"new", "done"}, life' = life
    PROVE  LockInv'
<1> DEFINE l == job[w].life
           t == job[w].target
           q == queue[l][t]
           rest == Without(q, w)
<1>1. /\ l \in 1..MaxLives /\ t \in Target /\ \E i \in DOMAIN q : q[i] = w
      /\ queue \in [1..MaxLives -> [Target -> Seq(Writer)]]
  BY DEF LockInv, LockPlaced, Lock
<1>2. q \in Seq(Writer)
  BY <1>1
<1>3. /\ rest \in Seq(Writer)
      /\ \A j \in DOMAIN rest : \E k \in DOMAIN q : rest[j] = q[k]
      /\ \A u \in Writer \ {w} :
             /\ (\E k \in DOMAIN q : q[k] = u) => \E j \in DOMAIN rest : rest[j] = u
             /\ q[1] = u => rest[1] = u
      /\ rest # <<>> => Head(rest) = rest[1]
  <2> HIDE DEF q, rest
  <2> QED
    BY <1>1, <1>2, WithoutType DEF rest
<1>4. /\ queue' = [queue EXCEPT ![l][t] = rest] /\ Ends(w)
      /\ \A u \in Writer \ {w} :
             job'[u] = job[u] \/ (rest # <<>> /\ u = Head(rest) /\ Enters(u) /\ SameCall(u))
  BY LeaveMoved
<1>5. /\ queue' \in [1..MaxLives -> [Target -> Seq(Writer)]] /\ queue'[l][t] = rest
      /\ \A m \in 1..MaxLives, x \in Target : m # l \/ x # t => queue'[m][x] = queue[m][x]
  <2> HIDE DEF l, t, rest
  <2> QED
    BY <1>1, <1>3, <1>4
<1> HIDE DEF q, rest
<1>6. \A u \in Writer : /\ job[u].pc # "new" => job'[u].pc # "new"
                        /\ job[u].pc # "new" => SameCall(u)
  BY <1>4 DEF Ends, Enters, SameCall
<1>7. ASSUME NEW m \in 1..MaxLives, NEW x \in Target, NEW i \in DOMAIN queue'[m][x]
      PROVE  LET v == queue'[m][x][i] IN
             job'[v].pc # "new" /\ job'[v].life = m /\ job'[v].target = x
  <2>1. PICK k \in DOMAIN queue[m][x] : queue'[m][x][i] = queue[m][x][k]
    BY <1>3, <1>5 DEF q
  <2> DEFINE v == queue[m][x][k]
  <2>2. v \in Writer
    BY <1>1
  <2>3. job[v].pc # "new" /\ job[v].life = m /\ job[v].target = x
    BY DEF LockInv
  <2> HIDE DEF v
  <2>4. job'[v].pc # "new" /\ job'[v].life = m /\ job'[v].target = x
    BY <1>6, <2>2, <2>3 DEF SameCall
  <2> QED
    BY <2>1, <2>4 DEF v
<1>8. rest # <<>> =>
         LET v == Head(rest) IN job[v].pc # "new" /\ job[v].life = l /\ job[v].target = t
  <2> SUFFICES ASSUME rest # <<>>
               PROVE  LET v == rest[1] IN
                      job[v].pc # "new" /\ job[v].life = l /\ job[v].target = t
    BY <1>3
  <2>1. 1 \in DOMAIN rest
    BY <1>3
  <2>2. PICK k \in DOMAIN q : rest[1] = q[k]
    BY <1>3, <2>1
  <2>3. job[q[k]].pc # "new" /\ job[q[k]].life = l /\ job[q[k]].target = t
    BY <1>1, <2>2 DEF LockInv, q
  <2> QED
    BY <2>2, <2>3
<1>9. ASSUME NEW u \in Writer PROVE LockPlaced(u)'
  <2>1. LockPlaced(u)
    BY DEF LockInv
  <2>2. CASE u = w
    <3>1. job'[w].pc = "done" /\ job'[w].life = l /\ job'[w].target = t
      BY <1>4 DEF Ends, SameCall
    <3> QED
      BY <1>1, <2>2, <3>1 DEF LockPlaced, Section
  <2>3. CASE u # w /\ job[u].pc = "new"
    <3>1. job'[u] = job[u]
      BY <1>4, <1>8, <2>3
    <3> QED
      BY <2>3, <3>1 DEF LockPlaced, Section
  <2>4. CASE u # w /\ job[u].pc # "new" /\ (job[u].life # l \/ job[u].target # t)
    <3>1. job'[u] = job[u]
      BY <1>4, <1>8, <2>4
    <3>2. Lock(u)' = Lock(u)
      BY <1>5, <2>1, <2>4, <3>1 DEF Lock, LockPlaced
    <3> QED
      BY <2>1, <3>1, <3>2 DEF LockPlaced
  <2>5. CASE u # w /\ job[u].pc # "new" /\ job[u].life = l /\ job[u].target = t
    <3>1. Lock(u) = q /\ Lock(u)' = rest /\ SameCall(u)
      BY <1>5, <1>6, <2>5 DEF Lock, SameCall, q
    <3>2. job[u].pc \in Section => job[u].pc \notin {"new", "done"}
      BY DEF Section
    <3>3. CASE job'[u] = job[u]
      <4>1. job[u].pc # "done" => \E k \in DOMAIN q : q[k] = u
        BY <2>1, <2>5, <3>1 DEF LockPlaced
      <4>2. job[u].pc # "done" => \E j \in DOMAIN rest : rest[j] = u
        BY <1>3, <2>5, <4>1
      <4>3. q[1] = u => rest[1] = u
        BY <1>3, <2>5
      <4> QED
        BY <2>1, <2>5, <3>1, <3>3, <4>2, <4>3 DEF LockPlaced
    <3>4. CASE rest # <<>> /\ u = Head(rest) /\ Enters(u)
      <4>1. rest[1] = u /\ 1 \in DOMAIN rest
        BY <1>3, <3>4
      <4> QED
        BY <1>1, <2>5, <3>1, <4>1 DEF LockPlaced, SameCall
    <3> QED
      BY <1>4, <2>5, <3>3, <3>4
  <2> QED
    BY <2>2, <2>3, <2>4, <2>5
<1> QED
  BY <1>5, <1>7, <1>9 DEF LockInv

LEMMA LockStep ==
    ASSUME VerdictInv, LockInv, [Next]_vars
    PROVE  LockInv'
<1>1. CASE UNCHANGED <<queue, job, life>>
  BY <1>1 DEF LockInv, LockPlaced, Lock
<1>2. ASSUME NEW w \in Writer, NEW t \in Target, NEW f \in Field, Start(w, t, f)
      PROVE  LockInv'
  BY <1>2, StartLock
<1>3. ASSUME NEW w \in Writer, Proceeds(w) PROVE LockInv'
  <2>1. life' = life
    BY <1>3 DEF Proceeds, ReadBefore, ReadFails, Applied, Vanished, Delayed, Limited, Rejected,
                Again, ReadBack, ReadBackFails, Verify, entryVars
  <2>2. job[w].pc \in Section /\ (StaysIn(w) \/ \E outcome \in Outcomes : Leave(w, outcome))
    BY <1>3, ProceedsPlace
  <2> QED
    BY <2>1, <2>2, StaysLock, LeaveLock DEF Section
<1>4. ASSUME NEW w \in Writer, Cancel(w) PROVE LockInv'
  BY <1>4, LeaveLock DEF Cancel, entryVars, Outcomes
<1>5. CASE Reload
  <2>1. queue' = queue /\ job' = job /\ life' = life + 1 /\ life' \in 1..MaxLives
    BY <1>5, WriteAssumption DEF Reload, callVars, LockInv
  <2> QED
    BY <2>1 DEF LockInv, LockPlaced, Lock
<1>6. CASE \/ \E w \in Writer : Arrives(w)
           \/ \E e \in Edit, t \in Target, f \in Field : EditField(e, t, f)
           \/ \E k \in Kind : Refreshes(k)
           \/ UNCHANGED vars
  BY <1>1, <1>6 DEF Arrives, EditField, Refreshes, Begin, Serve, Land, Dropped, vars, entryVars,
                    callVars
<1> QED
  BY <1>2, <1>3, <1>4, <1>5, <1>6 DEF Next

LEMMA InitLock == Init => LockInv
<1> SUFFICES ASSUME Init PROVE LockInv
  OBVIOUS
<1>1. /\ life = 1 /\ life \in 1..MaxLives
      /\ queue = [l \in 1..MaxLives |-> [t \in Target |-> <<>>]]
      /\ \A w \in Writer : job[w].pc = "new"
  BY WriteAssumption DEF Init, NewCall
<1> QED
  BY <1>1 DEF LockInv, LockPlaced, Section
-----------------------------------------------------------------------------
(* What a write makes of the entries of the other fields, and of values    *)
(* that are not its own.                                                   *)
LEMMA MergedKeeps ==
    ASSUME NEW V, NEW fields \in CollectionOf(V), NEW f \in Field, NEW v \in V
    PROVE  LET s == fields.entries
               m == Merged(s, f, v) IN
           /\ \A i \in DOMAIN s : s[i].field # f => i \in DOMAIN m /\ m[i] = s[i]
           /\ \A i \in DOMAIN m : m[i].value # v =>
                  i \in DOMAIN s /\ m[i].value = s[i].value /\ m[i].field = s[i].field
<1> DEFINE s == fields.entries
           Entry == [field : Field \cup {NoField}, value : V]
<1>1. s \in Seq(Entry) /\ DOMAIN s = 1..Len(s) /\ Len(s) \in Nat
      /\ \A i \in DOMAIN s : s[i] \in Entry
  BY EntriesType
<1>2. CASE Addressed(s, f) = {}
  <2> DEFINE own == [field |-> f, value |-> v]
  <2>1. own \in Entry /\ own.value = v
    OBVIOUS
  <2>2. Merged(s, f, v) = Append(s, own)
    BY <1>2 DEF Merged
  <2> HIDE DEF s, Entry, own
  <2>3. /\ DOMAIN Append(s, own) = 1..Len(s) + 1 /\ Append(s, own)[Len(s) + 1] = own
        /\ \A i \in DOMAIN s : Append(s, own)[i] = s[i]
    BY <1>1, <2>1
  <2>4. \A i \in DOMAIN Append(s, own) : i \in DOMAIN s \/ Append(s, own)[i].value = v
    BY <1>1, <2>1, <2>3
  <2>5. \A i \in DOMAIN s : i \in DOMAIN Append(s, own)
    BY <1>1, <2>3
  <2> QED
    BY <2>2, <2>3, <2>4, <2>5 DEF s
<1>3. CASE Addressed(s, f) # {}
  <2> DEFINE m == [i \in DOMAIN s |->
                      IF s[i].field = f THEN [s[i] EXCEPT !.value = v] ELSE s[i]]
  <2>1. Merged(s, f, v) = m
    BY <1>3 DEF Merged
  <2>2. \A x \in Entry : [x EXCEPT !.value = v].value = v
    OBVIOUS
  <2>3. \A i \in DOMAIN s : m[i].value # v => m[i] = s[i]
    BY <1>1, <2>2
  <2> QED
    BY <2>1, <2>3 DEF m
<1> QED
  BY <1>2, <1>3

(* What a step of the server makes of the object and of changedAt.         *)
LEMMA EffectStored ==
    ASSUME VerdictInv, NEW w \in Writer, NEW fields \in CollectionOf(Known \cup {w}),
           TakesEffect(w, fields), job[w].target \in Target
    PROVE  LET t == job[w].target IN
           /\ server'[t].fields = fields
           /\ \A x \in Target \ {t} : server'[x] = server[x]
           /\ changedAt' = [changedAt EXCEPT ![w] = server[t].version + 1]
           /\ effects' = [effects EXCEPT ![w] = @ + 1]
<1> DEFINE t == job[w].target
           next == server[t].version + 1
           stored == [server[t] EXCEPT !.fields = fields, !.version = next]
           changed == [stored EXCEPT !.rest = w]
           F == CollectionOf(Known \cup {w})
           R == {"rest"} \cup collateral
<1>1. server' = [server EXCEPT ![t] = stored] \/ server' = [server EXCEPT ![t] = changed]
  BY DEF TakesEffect
<1>2. /\ server[t] \in [fields : F, rest : R, version : Nat]
      /\ server \in [Target -> Honest] /\ next \in Nat
  <2>1. CollectionOf(Known) \subseteq F
    BY CollectionGrows
  <2>2. server \in [Target -> Honest] /\ server[t] \in Honest
    BY DEF VerdictInv, WorldOK
  <2> HIDE DEF F
  <2> QED
    BY <2>1, <2>2 DEF Honest
<1>3. stored.fields = fields /\ changed.fields = fields
  <2> HIDE DEF F, R, next
  <2> QED
    BY <1>2
<1> HIDE DEF stored, changed
<1> QED
  BY <1>1, <1>2, <1>3 DEF TakesEffect

LEMMA EditStored ==
    ASSUME VerdictInv, NEW e \in Edit, NEW t \in Target, NEW f \in Field, EditField(e, t, f)
    PROVE  /\ server'[t].fields.entries = Merged(server[t].fields.entries, f, e)
           /\ \A x \in Target \ {t} : server'[x] = server[x]
<1> DEFINE fields == [server[t].fields EXCEPT !.entries = Merged(@, f, e)]
           now == [server[t] EXCEPT !.fields = fields, !.version = server[t].version + 1]
           C == CollectionOf(Known)
           R == {"rest"} \cup collateral
<1>1. server' = [server EXCEPT ![t] = now]
  BY DEF EditField
<1>2. server[t] \in [fields : C, rest : R, version : Nat] /\ server \in [Target -> Honest]
  BY DEF VerdictInv, WorldOK, Honest
<1>3. now.fields = fields
  <2> HIDE DEF fields, C, R
  <2> QED
    BY <1>2
<1>4. fields.entries = Merged(server[t].fields.entries, f, e)
  BY <1>2 DEF CollectionOf
<1> HIDE DEF fields, now
<1> QED
  BY <1>1, <1>2, <1>3, <1>4
-----------------------------------------------------------------------------
(* Whose values an attempt of w has to carry along.                        *)
Rest(w) == (Writer \ {w}) \cup {e \in Edit : changedAt[e] <= job[w].since}

(* What the server has of them in the other fields, the payload that is    *)
(* about to be sent has too, but for intruders.                            *)
BaseKept(w) ==
    job[w].pc = "sending" =>
        \/ Intruded(w)
        \/ \A a \in Rest(w) : Holds(server[job[w].target], a, job[w].field)
                                 => Holds(job[w].base, a, job[w].field)

Dated(w) ==
    /\ job[w].pc \in Section =>
           job[w].since \in Nat /\ job[w].since <= server[job[w].target].version
    /\ job[w].pc = "done" => job[w].outcome \in Outcomes
    /\ effects[w] = 0 => changedAt[w] = 0

HistInv ==
    /\ changedAt \in [Writer \cup Edit -> Nat]
    /\ \A w \in Writer : Dated(w) /\ BaseKept(w)

(* An intruder stays one as long as the attempt lasts.                     *)
LEMMA IntrudedStays ==
    ASSUME VerdictInv, HistInv, \A u \in Writer : Moved(u),
           \A u \in Writer : changedAt'[u] \in Nat /\ changedAt'[u] >= changedAt[u],
           NEW w \in Writer, job[w].pc = "sending", job'[w] = job[w], Intruded(w)
    PROVE  Intruded(w)'
<1>1. PICK v \in Writer : /\ job[v].target = job[w].target /\ changedAt[v] > job[w].since
                          /\ job[v].life # job[w].life
                             \/ job[v].outcome \in {"unverified", "cancelled"}
  BY DEF Intruded
<1>2. job[w].since \in Nat /\ changedAt[v] \in Nat
  BY DEF HistInv, Dated, Section
<1>3. changedAt'[v] > job'[w].since
  BY <1>1, <1>2
<1>4. effects[v] # 0
  BY <1>1, <1>2 DEF HistInv, Dated
<1>5. job[v].pc \notin BeforeAnswer
  BY <1>4 DEF VerdictInv, CallOK, SentOnce
<1>6. job'[v].life = job[v].life /\ job'[v].target = job[v].target
  BY <1>5 DEF Moved, Waits, Enters, Called, Reads, GoesOn, Ends, SameCall, BeforeAnswer
<1>7. job[v].outcome \in {"unverified", "cancelled"} => job'[v] = job[v]
  <2>1. job[v].outcome \in {"unverified", "cancelled"} => job[v].pc = "done"
    BY AuthorAssumption DEF VerdictInv, CallOK, CallTyped
  <2> QED
    BY <2>1 DEF Moved, Waits, Enters, Called, Reads, GoesOn, Ends, Section
<1> QED
  BY <1>1, <1>3, <1>6, <1>7 DEF Intruded

(* A step that leaves the server alone.                                    *)
LEMMA QuietHist ==
    ASSUME VerdictInv, HistInv, \A u \in Writer : Moved(u), UNCHANGED serverVars
    PROVE  HistInv'
<1>1. UNCHANGED <<server, effects, changedAt>> /\ \A u \in Writer : changedAt[u] \in Nat
  BY DEF serverVars, HistInv
<1>2. ASSUME NEW w \in Writer PROVE Dated(w)'
  <2>1. Moved(w) /\ Dated(w) /\ \A t \in Target : server[t].version \in Nat
    BY DEF HistInv, VerdictInv, WorldOK, Honest
  <2>2. job[w].pc # "new" => job[w].target \in Target
    BY DEF VerdictInv, CallOK, CallTyped
  <2> QED
    BY <1>1, <2>1, <2>2 DEF Dated, Moved, Waits, Enters, Called, Reads, GoesOn, Ends,
                            SameCall, Section
<1>3. ASSUME NEW w \in Writer, job'[w].pc = "sending" PROVE BaseKept(w)'
  <2>1. job'[w] = job[w] \/ Reads(w)
    BY <1>3 DEF Moved, Waits, Enters, GoesOn, Ends
  <2>2. CASE Reads(w)
    BY <1>1, <2>2 DEF Reads, SameCall, BaseKept
  <2>3. CASE job'[w] = job[w]
    <3>1. BaseKept(w)
      BY DEF HistInv
    <3>2. Rest(w)' = Rest(w)
      BY <1>1, <2>3 DEF Rest
    <3>3. Intruded(w) => Intruded(w)'
      BY <1>1, <1>3, <2>3, IntrudedStays
    <3> QED
      BY <1>1, <1>3, <2>3, <3>1, <3>2, <3>3 DEF BaseKept
  <2> QED
    BY <2>1, <2>2, <2>3
<1> QED
  BY <1>1, <1>2, <1>3 DEF HistInv, BaseKept

(* The payload of v is stored: the other attempts at its target see an     *)
(* intruder, as the lock of v keeps out those of its own set-up.           *)
LEMMA StoreHist ==
    ASSUME VerdictInv, VerdictInv', LockInv, HistInv, NEW v \in Writer,
           NEW fields \in CollectionOf(Known \cup {v}), TakesEffect(v, fields),
           \A u \in Writer : Moved(u), \A u \in Writer \ {v} : job'[u] = job[u],
           job'[v].pc # "sending", job[v].pc # "new", effects[v] = 0,
           \/ job[v].pc \in Section
           \/ job[v].outcome \in {"unverified", "cancelled"}
    PROVE  HistInv'
<1> DEFINE t == job[v].target
           next == server[t].version + 1
<1>1. /\ t \in Target /\ \A x \in Target : server[x].version \in Nat
      /\ changedAt \in [Writer \cup Edit -> Nat] /\ effects \in [Writer -> {0, 1}]
      /\ \A u \in Writer : job[u].pc # "new" => job[u].target \in Target
  BY DEF VerdictInv, WorldOK, CallOK, CallTyped, Honest, HistInv
<1>2. /\ \A x \in Target \ {t} : server'[x] = server[x]
      /\ changedAt' = [changedAt EXCEPT ![v] = next]
      /\ effects' = [effects EXCEPT ![v] = @ + 1]
  BY <1>1, EffectStored
<1>3. ServerGrows /\ next \in Nat
  BY <1>1, EffectGrows
<1>4. /\ changedAt' \in [Writer \cup Edit -> Nat] /\ changedAt'[v] = next
      /\ \A a \in (Writer \cup Edit) \ {v} : changedAt'[a] = changedAt[a]
      /\ \A u \in Writer \ {v} : effects'[u] = effects[u]
      /\ effects'[v] = 1
  <2> HIDE DEF next
  <2> QED
    BY <1>1, <1>2, <1>3
<1>5. changedAt[v] = 0
  BY DEF HistInv, Dated
<1>6. \A u \in Writer : changedAt'[u] \in Nat /\ changedAt'[u] >= changedAt[u]
  BY <1>1, <1>3, <1>4, <1>5
<1>7. v \notin Edit
  BY AuthorAssumption
<1>8. ASSUME NEW w \in Writer PROVE Dated(w)'
  <2>1. /\ Moved(w) /\ Dated(w)
        /\ \A x \in Target : /\ server[x].version \in Nat /\ server'[x].version \in Nat
                             /\ server'[x].version >= server[x].version
    BY <1>3 DEF HistInv, VerdictInv, WorldOK, Honest, ServerGrows
  <2>2. CASE w # v
    BY <1>1, <1>4, <2>1, <2>2 DEF Dated, Section
  <2>3. CASE w = v
    BY <1>1, <1>3, <1>4, <2>1, <2>3
       DEF Dated, Moved, Waits, Enters, Called, Reads, GoesOn, Ends, SameCall, Section
  <2> QED
    BY <2>2, <2>3
<1>9. ASSUME NEW w \in Writer, job'[w].pc = "sending" PROVE BaseKept(w)'
  <2>1. w # v /\ job'[w] = job[w] /\ BaseKept(w) /\ job[w].target \in Target
    BY <1>1, <1>9 DEF HistInv
  <2>2. Rest(w)' = Rest(w)
    BY <1>4, <1>7, <2>1 DEF Rest
  <2>3. CASE job[w].target # t
    <3>1. server'[job[w].target] = server[job[w].target]
      BY <1>2, <2>1, <2>3
    <3>2. Intruded(w) => Intruded(w)'
      BY <1>6, <1>9, <2>1, IntrudedStays
    <3> QED
      BY <1>9, <2>1, <2>2, <3>1, <3>2 DEF BaseKept
  <2>4. CASE job[w].target = t
    <3>1. changedAt'[v] > job'[w].since
      BY <1>1, <1>3, <1>4, <1>9, <2>1, <2>4 DEF HistInv, Dated, Section
    <3>2. job'[v].target = t /\ job'[v].life = job[v].life
      BY DEF Moved, Waits, Enters, Called, Reads, GoesOn, Ends, SameCall
    <3>3. job[v].pc \in Section => job[v].life # job[w].life
      BY <1>9, <2>1, <2>4, Exclusive DEF Section
    <3>4. job[v].outcome \in {"unverified", "cancelled"} => job'[v] = job[v]
      <4>1. job[v].outcome \in {"unverified", "cancelled"} => job[v].pc = "done"
        BY AuthorAssumption DEF VerdictInv, CallOK, CallTyped
      <4> QED
        BY <4>1 DEF Moved, Waits, Enters, Called, Reads, GoesOn, Ends, Section
    <3>5. Intruded(w)'
      BY <2>1, <2>4, <3>1, <3>2, <3>3, <3>4 DEF Intruded
    <3> QED
      BY <3>5 DEF BaseKept
  <2> QED
    BY <2>3, <2>4
<1> QED
  BY <1>4, <1>8, <1>9 DEF HistInv, BaseKept

LEMMA AppliedHist ==
    ASSUME VerdictInv, VerdictInv', LockInv, HistInv, NEW w \in Writer, Applied(w)
    PROVE  HistInv'
<1>1. job[w].pc = "sending" /\ TakesEffect(w, Payload(w))
  BY DEF Applied
<1>2. /\ Payload(w) \in CollectionOf(Known \cup {w}) /\ effects[w] = 0
  BY <1>1, PayloadType
<1>3. StaysIn(w)
  BY AnswerMoved
<1>4. job'[w].pc # "sending"
  BY <1>1, <1>3 DEF StaysIn, Enters, Reads, GoesOn
<1>5. \A u \in Writer : Moved(u)
  BY <1>3 DEF StaysIn, Moved
<1> QED
  BY <1>1, <1>2, <1>3, <1>4, <1>5, StoreHist DEF StaysIn, Section

LEMMA ArrivesHist ==
    ASSUME VerdictInv, VerdictInv', LockInv, HistInv, NEW w \in Writer, Arrives(w)
    PROVE  HistInv'
<1>1. limbo[w] # None /\ TakesEffect(w, limbo[w]) /\ UNCHANGED job
  BY DEF Arrives
<1>2. /\ limbo[w] \in CollectionOf(Known \cup {w}) /\ effects[w] = 0
      /\ job[w].pc \notin BeforeAnswer
  BY <1>1 DEF VerdictInv, CallOK, CallTyped, SentOnce, WorldOK
<1>3. job[w].pc \in Section \/ job[w].outcome \in {"unverified", "cancelled"}
  BY <1>1, <1>2 DEF VerdictInv, CallOK, CallTyped, VerdictTrue, HistInv, Dated, Section,
                    Outcomes, BeforeAnswer
<1> QED
  BY <1>1, <1>2, <1>3, StoreHist DEF Moved, BeforeAnswer

LEMMA EditHist ==
    ASSUME VerdictInv, VerdictInv', HistInv, NEW e \in Edit, NEW t \in Target, NEW f \in Field,
           EditField(e, t, f)
    PROVE  HistInv'
<1> DEFINE next == server[t].version + 1
<1>1. /\ changedAt[e] = 0 /\ changedAt' = [changedAt EXCEPT ![e] = next]
      /\ UNCHANGED <<job, effects>>
  BY DEF EditField, callVars
<1>2. /\ server'[t].fields.entries = Merged(server[t].fields.entries, f, e)
      /\ \A x \in Target \ {t} : server'[x] = server[x]
  BY EditStored
<1>3. /\ changedAt \in [Writer \cup Edit -> Nat]
      /\ \A x \in Target : server[x].version \in Nat /\ server'[x].version \in Nat
      /\ server[t].fields \in CollectionOf(Known) /\ e \in Known
      /\ \A u \in Writer : job[u].pc # "new" => job[u].target \in Target
  BY DEF VerdictInv, WorldOK, CallOK, CallTyped, Honest, Known, HistInv
<1>4. /\ changedAt' \in [Writer \cup Edit -> Nat] /\ changedAt'[e] = next /\ next \in Nat
      /\ \A a \in (Writer \cup Edit) \ {e} : changedAt'[a] = changedAt[a]
  BY <1>1, <1>3
<1>5. e \notin Writer
  BY AuthorAssumption
<1>6. ServerGrows
  BY EditGrows
<1>7. \A u \in Writer : Dated(u)'
  BY <1>1, <1>3, <1>4, <1>5, <1>6 DEF HistInv, Dated, ServerGrows, Section
<1>8. ASSUME NEW w \in Writer, job'[w].pc = "sending" PROVE BaseKept(w)'
  <2>1. /\ job'[w] = job[w] /\ BaseKept(w) /\ job[w].target \in Target
        /\ job[w].since \in Nat /\ job[w].since <= server[job[w].target].version
    BY <1>1, <1>3, <1>8 DEF HistInv, Dated, Section
  <2>2. Intruded(w) => Intruded(w)'
    BY <1>1, <1>4, <1>5, <1>8, <2>1 DEF Intruded
  <2>3. Rest(w)' \subseteq Rest(w)
    BY <1>1, <1>3, <1>4, <1>5, <2>1 DEF Rest
  <2>4. CASE job[w].target # t
    <3>1. server'[job[w].target] = server[job[w].target]
      BY <1>2, <2>1, <2>4
    <3> QED
      BY <1>8, <2>1, <2>2, <2>3, <3>1 DEF BaseKept
  <2>5. CASE job[w].target = t
    <3>1. e \notin Rest(w)'
      BY <1>3, <1>4, <1>5, <2>1, <2>5 DEF Rest
    <3>2. \A a : a # e /\ Holds(server'[t], a, job[w].field) => Holds(server[t], a, job[w].field)
      <4> SUFFICES ASSUME NEW a, a # e, Holds(server'[t], a, job[w].field)
                   PROVE  Holds(server[t], a, job[w].field)
        OBVIOUS
      <4> DEFINE was == server[t].fields.entries
                 m == Merged(was, f, e)
      <4>1. PICK i \in DOMAIN m : m[i].value = a /\ m[i].field # job[w].field
        BY <1>2 DEF Holds
      <4>2. i \in DOMAIN was /\ m[i].value = was[i].value /\ m[i].field = was[i].field
        <5>1. m[i].value # e
          BY <4>1
        <5> QED
          BY <1>3, <5>1, MergedKeeps
      <4> QED
        BY <4>1, <4>2 DEF Holds
    <3> QED
      BY <1>8, <2>1, <2>2, <2>3, <2>5, <3>1, <3>2 DEF BaseKept
  <2> QED
    BY <2>4, <2>5
<1> QED
  BY <1>4, <1>7, <1>8 DEF HistInv, BaseKept

LEMMA HistStep ==
    ASSUME VerdictInv, VerdictInv', LockInv, HistInv, [Next]_vars
    PROVE  HistInv'
<1>1. ASSUME NEW w \in Writer, NEW t \in Target, NEW f \in Field, Start(w, t, f)
      PROVE  HistInv'
  BY <1>1, StartMoved, QuietHist DEF Start
<1>2. ASSUME NEW w \in Writer, Proceeds(w) PROVE HistInv'
  <2>1. CASE Applied(w)
    BY <2>1, AppliedHist
  <2>2. CASE ~Applied(w)
    <3>1. UNCHANGED serverVars
      BY <1>2, <2>2 DEF Proceeds, ReadBefore, ReadFails, Vanished, Delayed, Limited, Rejected,
                        Again, ReadBack, ReadBackFails, Verify
    <3> QED
      BY <1>2, <3>1, ProceedsMoved, QuietHist
  <2> QED
    BY <2>1, <2>2
<1>3. ASSUME NEW w \in Writer, Arrives(w) PROVE HistInv'
  BY <1>3, ArrivesHist
<1>4. ASSUME NEW w \in Writer, Cancel(w) PROVE HistInv'
  BY <1>4, CancelMoved, QuietHist DEF Cancel
<1>5. ASSUME NEW e \in Edit, NEW t \in Target, NEW f \in Field, EditField(e, t, f)
      PROVE  HistInv'
  BY <1>5, EditHist
<1>6. CASE (\E k \in Kind : Refreshes(k)) \/ Reload \/ UNCHANGED vars
  <2>1. UNCHANGED <<job, serverVars>>
    BY <1>6 DEF Refreshes, Begin, Serve, Land, Dropped, Reload, vars, callVars
  <2> QED
    BY <2>1, QuietHist DEF Moved
<1> QED
  BY <1>1, <1>2, <1>3, <1>4, <1>5, <1>6 DEF Next

LEMMA InitHist == Init => HistInv
<1> SUFFICES ASSUME Init PROVE HistInv
  OBVIOUS
<1>1. /\ changedAt = [a \in Writer \cup Edit |-> 0]
      /\ \A w \in Writer : job[w].pc = "new"
  BY DEF Init, NewCall
<1> QED
  BY <1>1 DEF HistInv, Dated, BaseKept, Section

UndoInv == VerdictInv /\ LockInv /\ HistInv

LEMMA UndoAlways == Spec => []UndoInv
<1>1. Init => LockInv /\ HistInv
  BY InitLock, InitHist
<1>2. VerdictInv /\ VerdictInv' /\ LockInv /\ HistInv /\ [Next]_vars => LockInv' /\ HistInv'
  BY LockStep, HistStep
<1> QED
  BY <1>1, <1>2, VerdictAlways, PTL DEF Spec, UndoInv

(* What w stores has the values of the others that it had to carry along.  *)
LEMMA StoresKept ==
    ASSUME UndoInv, [Next]_vars, NEW w \in Writer, NEW a \in Rest(w), Reverts(w, a)
    PROVE  Intruded(w)
<1> DEFINE t == job[w].target
           f == job[w].field
           was == job[w].base.fields
<1>1. /\ job[w].pc = "sending" /\ effects'[w] # effects[w]
      /\ Holds(server[t], a, f) /\ ~Holds(server'[t], a, f)
  BY DEF Reverts, Stores
<1>2. Applied(w)
  <2>1. ASSUME NEW v \in Writer, TakesEffect(v, limbo[v]) \/ TakesEffect(v, Payload(v))
        PROVE  v = w
    BY <1>1, <2>1 DEF TakesEffect, UndoInv, VerdictInv, WorldOK
  <2>2. ~Arrives(w)
    BY <1>1 DEF Arrives, UndoInv, VerdictInv, CallOK, SentOnce, BeforeAnswer
  <2>3. effects' # effects
    BY <1>1
  <2>4. \E v \in Writer : Applied(v) \/ Arrives(v)
    BY <2>3 DEF Next, Proceeds, Refreshes, Start, ReadBefore, ReadFails, Vanished, Delayed,
                Limited, Rejected, Again, ReadBack, ReadBackFails, Verify, Cancel, EditField,
                Begin, Serve, Land, Dropped, Reload, vars, serverVars
  <2> QED
    BY <2>1, <2>2, <2>4 DEF Applied, Arrives
<1>3. /\ Payload(w) \in CollectionOf(Known \cup {w}) /\ t \in Target /\ f \in Field
      /\ was \in CollectionOf(Known) /\ TakesEffect(w, Payload(w))
  <2>1. Payload(w) \in CollectionOf(Known \cup {w}) /\ t \in Target /\ f \in Field
        /\ job[w].base \in Honest
    BY <1>1, PayloadType DEF UndoInv
  <2> QED
    BY <1>2, <2>1 DEF Honest, Applied
<1>4. server'[t].fields.entries = Merged(was.entries, f, w)
  BY <1>3, EffectStored DEF UndoInv, Payload
<1>5. ~Holds(job[w].base, a, f)
  <2> SUFFICES ASSUME Holds(job[w].base, a, f) PROVE FALSE
    OBVIOUS
  <2>1. PICK i \in DOMAIN was.entries : was.entries[i].value = a /\ was.entries[i].field # f
    BY DEF Holds
  <2> DEFINE V == Known \cup {w}
  <2>2. was \in CollectionOf(V) /\ w \in V
    BY <1>3, CollectionGrows
  <2> HIDE DEF V, was
  <2>3. LET m == Merged(was.entries, f, w) IN i \in DOMAIN m /\ m[i] = was.entries[i]
    BY <1>3, <2>1, <2>2, MergedKeeps
  <2> QED
    BY <1>1, <1>4, <2>1, <2>3 DEF Holds, was
<1> QED
  BY <1>1, <1>5 DEF UndoInv, HistInv, BaseKept

(* One write takes back what another one stored and was told "success" for *)
(* only after a payload that no lock of its set-up could keep out          *)
(* (_write_lock around the read, the write and the read-back).             *)
THEOREM SuccessesStay == Spec => SuccessesKept
<1>1. ASSUME UndoInv, [Next]_vars, NEW w \in Writer, NEW u \in Writer,
             job[u].outcome = "success", Reverts(w, u)
      PROVE  Intruded(w)
  <2>1. job[w].pc = "sending"
    BY <1>1 DEF Reverts, Stores
  <2>2. u # w
    BY <1>1, <2>1, AuthorAssumption DEF UndoInv, VerdictInv, CallOK, CallTyped
  <2> QED
    BY <1>1, <2>2, StoresKept DEF Rest
<1>2. UndoInv /\ [Next]_vars
      => \A w, u \in Writer : /\ job[u].outcome = "success" /\ job[u].life = job[w].life
                              /\ Reverts(w, u)
                              => Intruded(w)
  BY <1>1
<1> QED
  BY <1>2, UndoAlways, PTL DEF Spec, SuccessesKept

(* A write takes back an edit made before its last attempt began only      *)
(* after such a payload (the loop of _write_custom_field reads again).     *)
THEOREM EditsStay == Spec => OnlyRacedEditsLost
<1>1. ASSUME UndoInv, [Next]_vars, NEW w \in Writer, NEW e \in Edit, Reverts(w, e)
      PROVE  changedAt[e] > job[w].since \/ Intruded(w)
  <2>1. changedAt[e] \in Nat /\ job[w].since \in Nat
    BY <1>1 DEF Reverts, Stores, UndoInv, HistInv, Dated, Section
  <2> QED
    BY <1>1, <2>1, StoresKept DEF Rest
<1>2. UndoInv /\ [Next]_vars
      => \A w \in Writer, e \in Edit :
             Reverts(w, e) => changedAt[e] > job[w].since \/ Intruded(w)
  BY <1>1
<1> QED
  BY <1>2, UndoAlways, PTL DEF Spec, OnlyRacedEditsLost
-----------------------------------------------------------------------------
LEMMA AtMostOne ==
    ASSUME NEW n \in Nat, NEW S \in SUBSET (1..n), Cardinality(S) <= 1
    PROVE  S = {} \/ \E i \in S : S = {i}
<1>1. IsFiniteSet(S) /\ Cardinality(S) \in Nat
  <2>1. IsFiniteSet(1..n)
    BY FS_Interval
  <2>2. IsFiniteSet(S)
    BY <2>1, FS_Subset
  <2> QED
    BY <2>2, FS_CardinalityType
<1>2. Cardinality(S) = 0 \/ Cardinality(S) = 1
  BY <1>1
<1> QED
  BY <1>1, <1>2, FS_EmptySet, FS_Singleton

OneChanged(s, m, f) ==
    \E own \in 1..Len(s) + 1 :
        /\ own \in DOMAIN s => WellFormed(s[own]) /\ s[own].field = f
        /\ DOMAIN m = DOMAIN s \cup {own}
        /\ \A i \in DOMAIN s \ {own} : m[i] = s[i]

(* A merge changes one entry, its own, of an array it may be made in.      *)
LEMMA MergedOwn ==
    ASSUME NEW V, NEW fields \in CollectionOf(V), NEW f \in Field, NEW v \in V,
           Mergeable(fields, f)
    PROVE  OneChanged(fields.entries, Merged(fields.entries, f, v), f)
<1> DEFINE s == fields.entries
           Entry == [field : Field \cup {NoField}, value : V]
<1>1. s \in Seq(Entry) /\ DOMAIN s = 1..Len(s) /\ Len(s) \in Nat
  BY EntriesType
<1>2. CASE Addressed(s, f) = {}
  <2> DEFINE own == [field |-> f, value |-> v]
  <2>1. own \in Entry
    OBVIOUS
  <2>2. Merged(s, f, v) = Append(s, own)
    BY <1>2 DEF Merged
  <2> HIDE DEF s, Entry, own
  <2>3. /\ DOMAIN Append(s, own) = 1..Len(s) + 1
        /\ \A i \in DOMAIN s : Append(s, own)[i] = s[i]
    BY <1>1, <2>1
  <2>4. /\ Len(s) + 1 \notin DOMAIN s /\ Len(s) + 1 \in 1..Len(s) + 1
        /\ 1..Len(s) + 1 = DOMAIN s \cup {Len(s) + 1}
    BY <1>1
  <2> QED
    BY <2>2, <2>3, <2>4 DEF s, OneChanged
<1>3. CASE Addressed(s, f) # {}
  <2> DEFINE m == [i \in DOMAIN s |->
                      IF s[i].field = f THEN [s[i] EXCEPT !.value = v] ELSE s[i]]
  <2>1. Merged(s, f, v) = m
    BY <1>3 DEF Merged
  <2>2. PICK own \in Addressed(s, f) : Addressed(s, f) = {own}
    BY <1>1, <1>3, AtMostOne DEF Mergeable, Addressed
  <2>3. /\ own \in DOMAIN s /\ WellFormed(s[own]) /\ s[own].field = f
        /\ \A i \in DOMAIN s \ {own} : s[i].field # f
    BY <2>2 DEF Mergeable, Addressed
  <2>4. own \in 1..Len(s) + 1 /\ DOMAIN s \cup {own} = DOMAIN s
    BY <1>1, <2>3
  <2>5. DOMAIN m = DOMAIN s /\ \A i \in DOMAIN s \ {own} : m[i] = s[i]
    BY <2>3
  <2> HIDE DEF m
  <2> QED
    BY <2>1, <2>3, <2>4, <2>5 DEF OneChanged
<1> QED
  BY <1>2, <1>3

BaseMergeable ==
    \A w \in Writer : job[w].pc = "sending" => Mergeable(job[w].base.fields, job[w].field)

LEMMA MergeableStep ==
    ASSUME VerdictInv, BaseMergeable, [Next]_vars
    PROVE  BaseMergeable'
<1>1. \A u \in Writer : Moved(u)
  <2>1. CASE \/ \E w \in Writer : Arrives(w)
             \/ \E e \in Edit, t \in Target, f \in Field : EditField(e, t, f)
             \/ \E k \in Kind : Refreshes(k)
             \/ Reload \/ UNCHANGED vars
    BY <2>1 DEF Arrives, EditField, Refreshes, Begin, Serve, Land, Dropped, Reload, vars,
                callVars, Moved
  <2> QED
    BY <2>1, StartMoved, ProceedsMoved, CancelMoved DEF Next
<1>2. ASSUME NEW u \in Writer, job'[u].pc = "sending"
      PROVE  Mergeable(job'[u].base.fields, job'[u].field)
  <2>1. job'[u] = job[u] \/ Reads(u)
    BY <1>1, <1>2 DEF Moved, Waits, Enters, GoesOn, Ends
  <2> QED
    BY <1>2, <2>1 DEF Reads, SameCall, BaseMergeable
<1> QED
  BY <1>2 DEF BaseMergeable

(* What a write sends differs from the array it read in one entry, which   *)
(* is added or was a well-formed value of its field, however many entries  *)
(* there are and however malformed (build_custom_field_values_payload).    *)
THEOREM OthersPass == Spec => []OthersPassThrough
<1>1. Init => BaseMergeable
  BY DEF Init, NewCall, BaseMergeable
<1>2. VerdictInv /\ BaseMergeable /\ [Next]_vars => BaseMergeable'
  BY MergeableStep
<1>3. ASSUME VerdictInv, BaseMergeable, NEW w \in Writer, job[w].pc = "sending"
      PROVE  OneChanged(job[w].base.fields.entries, Payload(w).entries, job[w].field)
  <2> DEFINE fields == job[w].base.fields
             V == Known \cup {w}
  <2>1. job[w].base \in Honest /\ job[w].field \in Field /\ Mergeable(fields, job[w].field)
    BY <1>3 DEF VerdictInv, CallOK, CallTyped, BaseMergeable
  <2>2. fields \in CollectionOf(V) /\ w \in V
    BY <2>1, CollectionGrows DEF Honest
  <2>3. Payload(w).entries = Merged(fields.entries, job[w].field, w)
    BY DEF Payload
  <2> HIDE DEF fields, V
  <2>4. OneChanged(fields.entries, Merged(fields.entries, job[w].field, w), job[w].field)
    BY <2>1, <2>2, MergedOwn
  <2> QED
    BY <2>3, <2>4 DEF fields
<1>4. VerdictInv /\ BaseMergeable => OthersPassThrough
  BY <1>3 DEF OthersPassThrough, OneChanged
<1> QED
  BY <1>1, <1>2, <1>4, VerdictAlways, PTL DEF Spec
-----------------------------------------------------------------------------
(* A call tries at most MaxAttempts times, and pauses only between two.    *)
Tries(j) ==
    /\ j.attempt \in Nat /\ j.attempt < MaxAttempts
    /\ j.pc = "backoff" => j.attempt + 1 < MaxAttempts
    /\ j.pc = "done" => j.outcome \in Outcomes

(* What is published or about to be is an object, and a refresh has noted  *)
(* the generations of its own targets.                                     *)
IsShown(x) == x = None \/ x \in Object
Shown(k) ==
    /\ refresh[k].phase = "served" => \A t \in Of(k) : IsShown(refresh[k].served[t])
    /\ DOMAIN refresh[k].captured \subseteq Of(k)

TypeInv ==
    /\ \A w \in Writer : Tries(job[w])
    /\ \A t \in Target : IsShown(published[t])
    /\ \A k \in Kind : Shown(k)

LEMMA EndedTries ==
    ASSUME NEW j, NEW outcome \in Outcomes
    PROVE  Tries(Ended(j, outcome))
  BY WriteAssumption DEF Ended, Tries

(* Entering the section is not an attempt more: only the pause counts.     *)
LEMMA AttemptTries ==
    ASSUME NEW j, IsCall(j), Tries(j)
    PROVE  /\ Tries(Attempting(j)) /\ IsCall(Attempting(j))
           /\ Attempting(j).attempt = j.attempt
  BY DEF Attempting, Tries, IsCall, CallField

(* Neither the call that ends nor the one it hands the lock to tries more. *)
LEMMA LeaveTries ==
    ASSUME VerdictInv, \A u \in Writer : Tries(job[u]), NEW w \in Writer,
           NEW outcome \in Outcomes, Leave(w, outcome)
    PROVE  \A u \in Writer : Tries(job'[u])
<1> TAKE u \in Writer
<1>1. \/ job'[u] = job[u]
      \/ job'[u] = Ended(job[u], outcome)
      \/ job'[u] = Attempting(job[u])
  BY DEF Leave
<1>2. IsCall(job[u])
  BY DEF VerdictInv, CallOK, CallTyped
<1> QED
  BY <1>1, <1>2, EndedTries, AttemptTries

(* A step that changes the call w alone.                                   *)
LEMMA AloneTries ==
    ASSUME VerdictInv, \A u \in Writer : Tries(job[u]), NEW w \in Writer, NEW j,
           job' = [job EXCEPT ![w] = j], Tries(j)
    PROVE  \A u \in Writer : Tries(job'[u])
  BY DEF VerdictInv, WorldOK

LEMMA StartTries ==
    ASSUME VerdictInv, \A u \in Writer : Tries(job[u]), NEW w \in Writer, NEW t \in Target,
           NEW f \in Field, Start(w, t, f)
    PROVE  \A u \in Writer : Tries(job'[u])
<1> DEFINE called == [job[w] EXCEPT !.pc = "waiting", !.target = t, !.field = f,
                                    !.life = life]
<1>1. IsCall(job[w]) /\ Tries(job[w])
  BY DEF VerdictInv, CallOK, CallTyped
<1>2. IsCall(called) /\ Tries(called)
  BY <1>1 DEF IsCall, CallField, Tries
<1>3. job' = [job EXCEPT ![w] = IF queue[life][t] = <<>> THEN Attempting(called) ELSE called]
  BY DEF Start
<1> HIDE DEF called
<1>4. Tries(Attempting(called))
  BY <1>2, AttemptTries
<1> QED
  BY <1>2, <1>3, <1>4, AloneTries

LEMMA ProceedsTries ==
    ASSUME VerdictInv, \A u \in Writer : Tries(job[u]), NEW w \in Writer, Proceeds(w)
    PROVE  \A u \in Writer : Tries(job'[u])
<1>0. IsCall(job[w]) /\ Tries(job[w]) /\ DOMAIN job = Writer
  BY DEF VerdictInv, WorldOK, CallOK, CallTyped
<1>1. CASE \E outcome \in Outcomes : Leave(w, outcome)
  BY <1>1, LeaveTries
<1>2. CASE ReadBefore(w)
  <2> DEFINE j == [job[w] EXCEPT !.pc = "sending", !.base = server[job[w].target]]
  <2>1. Tries(j)
    BY <1>0 DEF Tries, IsCall, CallField
  <2>2. job' = [job EXCEPT ![w] = j] \/ Leave(w, "refused")
    BY <1>0, <1>2 DEF ReadBefore
  <2> HIDE DEF j
  <2> QED
    BY <1>1, <2>1, <2>2, AloneTries DEF Outcomes
<1>3. CASE Applied(w) \/ Vanished(w) \/ Delayed(w)
  <2> DEFINE j == [job[w] EXCEPT !.pc = "checking"]
  <2>1. Tries(j)
    BY <1>0 DEF Tries, IsCall, CallField
  <2>2. job' = [job EXCEPT ![w] = j]
    BY <1>0, <1>3 DEF Applied, Vanished, Delayed
  <2> HIDE DEF j
  <2> QED
    BY <2>1, <2>2, AloneTries
<1>4. CASE Limited(w)
  <2> DEFINE j == [job[w] EXCEPT !.pc = "backoff"]
  <2>1. Tries(j)
    BY <1>0, <1>4 DEF Limited, Tries, IsCall, CallField
  <2>2. job' = [job EXCEPT ![w] = j]
    BY <1>0, <1>4 DEF Limited
  <2> HIDE DEF j
  <2> QED
    BY <2>1, <2>2, AloneTries
<1>5. CASE Again(w)
  <2> DEFINE i == Attempting(job[w])
             j == [i EXCEPT !.attempt = @ + 1, !.base = None]
  <2>1. IsCall(i) /\ i.attempt = job[w].attempt /\ i.pc = "reading"
    BY <1>0, AttemptMoved, AttemptTries
  <2>2. job[w].pc = "backoff" /\ job' = [job EXCEPT ![w] = j]
    BY <1>0, <1>5 DEF Again
  <2>3. Tries(j)
    <3> HIDE DEF i
    <3>1. j.attempt = job[w].attempt + 1 /\ j.pc = "reading"
      BY <2>1 DEF IsCall, CallField
    <3> HIDE DEF j
    <3> QED
      BY <1>0, <2>2, <3>1 DEF Tries
  <2> HIDE DEF j
  <2> QED
    BY <2>2, <2>3, AloneTries
<1>6. CASE ReadBack(w)
  <2> DEFINE j == [job[w] EXCEPT !.pc = "checked", !.seen = server[job[w].target]]
  <2>1. Tries(j)
    BY <1>0 DEF Tries, IsCall, CallField
  <2>2. job' = [job EXCEPT ![w] = j]
    BY <1>0, <1>6 DEF ReadBack
  <2> HIDE DEF j
  <2> QED
    BY <2>1, <2>2, AloneTries
<1>7. CASE ReadFails(w) \/ Rejected(w) \/ ReadBackFails(w) \/ Verify(w)
  BY <1>1, <1>7 DEF ReadFails, Rejected, ReadBackFails, Verify, Outcomes
<1> QED
  BY <1>2, <1>3, <1>4, <1>5, <1>6, <1>7 DEF Proceeds

(* What is patched in was read back, what lands was served.                *)
LEMMA ShownStep ==
    ASSUME VerdictInv, RefreshInv, TypeInv, [Next]_vars
    PROVE  /\ \A t \in Target : IsShown(published'[t])
           /\ \A k \in Kind : Shown(k)'
<1>0. /\ \A t \in Target : IsShown(published[t]) /\ server[t] \in Object
      /\ \A k \in Kind : Shown(k)
      /\ published = [t \in Target |-> published[t]]
      /\ refresh = [k \in Kind |-> refresh[k]]
      /\ \A k \in Kind : IsRefresh(refresh[k])
      /\ \A k : Of(k) \subseteq Target
  BY HonestObject DEF VerdictInv, WorldOK, RefreshInv, Placed, RefreshPlaced, TypeInv, Of, Target
<1>1. CASE UNCHANGED <<published, refresh>>
  BY <1>0, <1>1 DEF Shown
<1>2. ASSUME NEW w \in Writer, Verify(w), ~UNCHANGED <<published, refresh>>
      PROVE  (\A t \in Target : IsShown(published'[t])) /\ \A k \in Kind : Shown(k)'
  <2>1. /\ Patch(w) /\ UNCHANGED refresh /\ job[w].pc = "checked"
    BY <1>2 DEF Verify
  <2>2. job[w].seen \in Object
    BY <2>1, HonestObject DEF VerdictInv, CallOK, CallTyped
  <2>3. \A t \in Target : published'[t] = published[t] \/ published'[t] = job[w].seen
    BY <1>0, <2>1 DEF Patch
  <2> QED
    BY <1>0, <2>1, <2>2, <2>3 DEF Shown, IsShown
<1>3. ASSUME NEW k \in Kind, Refreshes(k)
      PROVE  (\A t \in Target : IsShown(published'[t])) /\ \A i \in Kind : Shown(i)'
  <2>1. CASE Begin(k)
    <3> DEFINE noted == IF stage # "loaded" THEN {}
                        ELSE IF k = "listing" THEN Selected
                        ELSE {t \in Reservation : published[t] # None}
               begun == [Idle EXCEPT !.phase = "asked", !.registry = (stage = "loaded"),
                                     !.captured = [t \in noted |-> generation[t]]]
    <3>1. UNCHANGED published /\ refresh' = [refresh EXCEPT ![k] = begun]
      BY <2>1 DEF Begin
    <3>2. begun.phase = "asked" /\ DOMAIN begun.captured = noted
      BY DEF Idle
    <3>3. noted \subseteq Of(k)
      BY WriteAssumption DEF Of
    <3> HIDE DEF noted, begun
    <3>4. Shown(k)' /\ \A i \in Kind \ {k} : refresh'[i] = refresh[i]
      BY <1>0, <3>1, <3>2, <3>3 DEF Shown
    <3> QED
      BY <1>0, <3>1, <3>4 DEF Shown
  <2>2. CASE Serve(k)
    <3>1. PICK got \in Fetches(Of(k)) :
              refresh' = [refresh EXCEPT ![k].phase = "served", ![k].served = got]
      BY <2>2 DEF Serve
    <3>2. \A t \in Of(k) : IsShown(got[t])
      BY <1>0 DEF Fetches, IsShown
    <3>3. refresh'[k].served = got /\ refresh'[k].captured = refresh[k].captured
      BY <1>0, <3>1 DEF IsRefresh, RefreshField
    <3>4. Shown(k)' /\ (\A i \in Kind \ {k} : refresh'[i] = refresh[i]) /\ UNCHANGED published
      BY <1>0, <2>2, <3>1, <3>2, <3>3 DEF Shown, Serve
    <3> QED
      BY <1>0, <3>4 DEF Shown
  <2>3. CASE Land(k) \/ Dropped(k)
    <3>1. /\ refresh' = [refresh EXCEPT ![k] = Idle]
          /\ \/ UNCHANGED published
             \/ published' = [t \in Target |-> None]
             \/ /\ refresh[k].phase = "served"
                /\ published' = [t \in Target |->
                        IF t \notin Of(k) \/ (Changed(k, t) /\ published[t] # None)
                        THEN published[t] ELSE refresh[k].served[t]]
      BY <2>3 DEF Land, Dropped
    <3>2. Shown(k)' /\ \A i \in Kind \ {k} : refresh'[i] = refresh[i]
      BY <1>0, <3>1 DEF Shown, Idle
    <3>3. \A t \in Target : IsShown(published'[t])
      BY <1>0, <3>1 DEF Shown, IsShown
    <3> QED
      BY <1>0, <3>2, <3>3 DEF Shown
  <2> QED
    BY <1>3, <2>1, <2>2, <2>3 DEF Refreshes
<1>4. CASE Reload
  <2>1. published' = [t \in Target |-> None] /\ refresh' = [k \in Kind |-> Idle]
    BY <1>4 DEF Reload
  <2> QED
    BY <2>1 DEF IsShown, Shown, Idle
<1> QED
  BY <1>1, <1>2, <1>3, <1>4
     DEF Next, Start, Proceeds, ReadBefore, ReadFails, Applied, Vanished, Delayed, Limited,
         Rejected, Again, ReadBack, ReadBackFails, Arrives, Cancel, EditField, vars, entryVars

LEMMA TypeStep ==
    ASSUME VerdictInv, RefreshInv, TypeInv, [Next]_vars
    PROVE  TypeInv'
<1>1. \A u \in Writer : Tries(job'[u])
  <2>1. \A u \in Writer : Tries(job[u])
    BY DEF TypeInv
  <2>2. ASSUME NEW w \in Writer, Cancel(w) PROVE \A u \in Writer : Tries(job'[u])
    BY <2>1, <2>2, LeaveTries DEF Cancel, Outcomes
  <2>3. CASE UNCHANGED job
    BY <2>1, <2>3
  <2> QED
    BY <2>1, <2>2, <2>3, StartTries, ProceedsTries
       DEF Next, Arrives, EditField, Refreshes, Begin, Serve, Land, Dropped, Reload, vars,
           callVars
<1> QED
  BY <1>1, ShownStep DEF TypeInv

LEMMA InitType == Init => TypeInv
<1> SUFFICES ASSUME Init PROVE TypeInv
  OBVIOUS
<1>1. \A w \in Writer : Tries(job[w])
  BY WriteAssumption DEF Init, NewCall, Tries
<1>2. \A t \in Target : server[t] \in Object
  BY InitVerdict, HonestObject DEF VerdictInv, WorldOK
<1>3. \A t \in Target : IsShown(published[t])
  BY <1>2 DEF Init, Fetches, IsShown
<1>4. \A k \in Kind : Shown(k)
  BY DEF Init, Shown, Idle
<1> QED
  BY <1>1, <1>3, <1>4 DEF TypeInv

(***************************************************************************)
(* Every variable has its type, with any number of writes, reloads and     *)
(* refreshes: above all, no call makes more attempts than the loop allows  *)
(* (_write_custom_field, range(2)), whatever is published is an object the *)
(* server had (_patch_local_state, _async_fetch_data), and what a write is *)
(* built from has been read.                                               *)
(***************************************************************************)
THEOREM TypeCorrect == Spec => []TypeOK
<1>1. VerdictInv /\ RefreshInv /\ LockInv /\ TypeInv => TypeOK
  <2> SUFFICES ASSUME VerdictInv, RefreshInv, LockInv, TypeInv PROVE TypeOK
    OBVIOUS
  <2>1. \A t \in Target : /\ server[t] \in Object
                          /\ published[t] = None \/ published[t] \in Object
                          /\ generation[t] \in Nat /\ floor[t] \in Nat
    BY HonestObject DEF VerdictInv, WorldOK, RefreshInv, Placed, TypeInv, IsShown
  <2>2. \A k \in Kind : /\ refresh[k].phase \in {"idle", "asked", "served"}
                        /\ DOMAIN refresh[k].captured \subseteq Of(k)
    BY DEF RefreshInv, RefreshPlaced, TypeInv, Shown
  <2>3. stage \in {"listings", "reservations", "loaded"} /\ life \in 1..MaxLives
    BY DEF RefreshInv, Placed, LockInv
  <2>4. ASSUME NEW w \in Writer
        PROVE  /\ job[w].pc \in {"new", "waiting", "reading", "sending", "backoff",
                                 "checking", "checked", "done"}
               /\ job[w].attempt < MaxAttempts
               /\ job[w].pc = "done" => job[w].outcome \in
                      {"success", "refused", "unverified", "cancelled"}
               /\ job[w].pc \in {"sending", "checking", "checked"} => job[w].base \in Object
    <3>1. CallTyped(w) /\ Tries(job[w])
      BY DEF VerdictInv, CallOK, TypeInv
    <3> QED
      BY <3>1, HonestObject DEF CallTyped, Tries, BeforeAnswer, Outcomes
  <2> QED
    BY <2>1, <2>2, <2>3, <2>4 DEF TypeOK
<1>2. VerdictInv /\ RefreshInv /\ TypeInv /\ [Next]_vars => TypeInv'
  BY TypeStep
<1>3. VerdictInv /\ VerdictInv' /\ RefreshInv /\ [Next]_vars => RefreshInv'
  BY RefreshStep
<1>4. UndoInv => VerdictInv /\ LockInv
  BY DEF UndoInv
<1> QED
  BY <1>1, <1>2, <1>3, <1>4, InitRefresh, InitType, UndoAlways, PTL DEF Spec
=============================================================================
