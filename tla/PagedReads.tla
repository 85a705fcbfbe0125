----------------------------- MODULE PagedReads -----------------------------
(***************************************************************************)
(* Reading all reservations of one listing, page by page                   *)
(* (fetch_all_reservations, api/reservations.py), while guests book and    *)
(* cancel.  A page asked for with afterId holds the reservations that      *)
(* follow it, in the order of their ids; the server may also answer        *)
(* something else.                                                         *)
(***************************************************************************)
EXTENDS Naturals, FiniteSets, TLAPS

CONSTANTS
    Limit,      \* DEFAULT_PAGE_LIMIT
    Malformed,  \* the records from_api_response() does not accept
    NoCursor    \* those among them without a usable id

VARIABLES
    server,  \* the reservations at Hostaway
    after,   \* after_id, 0 for None
    got,     \* reservations
    pc,      \* "reading", then "done" or "cut": it stopped for want of a cursor
    steady,  \* history: what was there from the first page on
    twice,   \* history: what was returned twice
    strange, \* history: some answer was not what was asked for
    pages    \* history: how many pages led to another one

historyVars == <<steady, twice, strange, pages>>
vars == <<server, after, got, pc, historyVars>>

ReservationId == Nat \ {0}
-----------------------------------------------------------------------------
Init ==
    /\ server \in SUBSET ReservationId /\ steady = server
    /\ after = 0 /\ got = {} /\ pc = "reading"
    /\ twice = {} /\ strange = FALSE /\ pages = 0

(* The answer to a request with this afterId. *)
Following == {i \in server : i > after}
Full(page) == Cardinality(page) >= Limit
Expected(page) ==
    /\ page \subseteq Following
    /\ \A i \in page, j \in Following : j < i => j \in page
    /\ Full(page) \/ page = Following

(* parse_reservations() *)
Parsed(page) == page \ (Malformed \cup NoCursor)
Extended(page) ==
    /\ got' = got \cup Parsed(page)
    /\ twice' = twice \cup (got \cap Parsed(page))

(* reservation_page_cursor(): the last usable id of the page, in its order. *)
Cursors(page) ==
    {c \in page \ NoCursor : Expected(page) => \A i \in page \ NoCursor : i <= c}

LastPage(page) ==
    /\ ~Full(page) /\ Extended(page)
    /\ pc' = "done" /\ UNCHANGED <<after, pages>>

PageWithoutCursor(page) ==
    /\ Full(page) /\ page \subseteq NoCursor /\ Extended(page)
    /\ pc' = "cut" /\ UNCHANGED <<after, pages>>

(* The cursor did not advance: what the page holds is dropped. *)
RepeatedPage(page) ==
    /\ Full(page) /\ \E c \in Cursors(page) : c <= after
    /\ pc' = "cut" /\ UNCHANGED <<after, got, twice, pages>>

OnePage(page) ==
    /\ Full(page) /\ Extended(page)
    /\ \E c \in Cursors(page) : c > after /\ after' = c
    /\ pages' = pages + 1 /\ UNCHANGED pc

Answer(page) ==
    /\ pc = "reading"
    /\ strange' = (strange \/ ~Expected(page))
    /\ LastPage(page) \/ PageWithoutCursor(page) \/ RepeatedPage(page) \/ OnePage(page)
    /\ UNCHANGED <<server, steady>>

Booked(i) ==
    /\ server' = server \cup {i}
    /\ UNCHANGED <<after, got, pc, historyVars>>

Gone(i) ==
    /\ server' = server \ {i} /\ steady' = steady \ {i}
    /\ UNCHANGED <<after, got, pc, twice, strange, pages>>

Next ==
    \/ \E page \in SUBSET ReservationId : Answer(page)
    \/ \E i \in ReservationId : Booked(i) \/ Gone(i)

Spec == Init /\ [][Next]_vars
-----------------------------------------------------------------------------
(* A read that was not cut short has every well-formed reservation that    *)
(* was there all along, whatever came and went between the pages.          *)
NothingSkipped ==
    pc = "done" /\ ~strange => Parsed(steady) \subseteq got

(* It has none of them twice. *)
NothingDoubled == ~strange => twice = {}

(* And it comes to an end, even if the server ignores afterId: every page  *)
(* but the last brings the cursor forward.                                 *)
PagesBounded == pages <= after

(* While the read is under way, what it has got is what comes up to the    *)
(* cursor.                                                                 *)
UpToCursor ==
    pc = "reading" /\ ~strange =>
        /\ \A i \in got : i <= after
        /\ \A i \in Parsed(steady) : i <= after => i \in got

ReadInv ==
    /\ server \subseteq ReservationId /\ steady \subseteq server
    /\ got \subseteq ReservationId /\ after \in Nat /\ pages \in Nat
    /\ UpToCursor /\ NothingSkipped /\ NothingDoubled /\ PagesBounded
-----------------------------------------------------------------------------
LEMMA AnswerKeepsReadInv ==
    ASSUME ReadInv, NEW page \in SUBSET ReservationId, Answer(page)
    PROVE  ReadInv'
<1>1. /\ server' = server /\ steady' = steady /\ pc = "reading"
      /\ ~strange' => ~strange /\ Expected(page)
  BY DEF Answer
<1>2. /\ server \subseteq Nat /\ steady \subseteq server /\ got \subseteq Nat /\ after \in Nat
      /\ page \subseteq Nat /\ Parsed(page) \subseteq page /\ pages \in Nat /\ pages <= after
  BY DEF ReadInv, ReservationId, Parsed, PagesBounded
<1>3. /\ server' \subseteq ReservationId /\ steady' \subseteq server'
      /\ Parsed(page) \subseteq ReservationId
  BY <1>1 DEF ReadInv, Parsed
<1>4. ASSUME ~strange', NEW j \in page PROVE j > after /\ j \in server
  BY <1>1, <1>4 DEF Expected, Following
<1>5. ASSUME ~strange', NEW j \in got PROVE j <= after
  BY <1>1, <1>5 DEF ReadInv, UpToCursor
<1>6. ~strange' => got \cap Parsed(page) = {}
  <2> SUFFICES ASSUME ~strange', NEW j \in got, j \in Parsed(page) PROVE FALSE
    OBVIOUS
  <2>1. j \in page /\ j \in Nat /\ after \in Nat
    BY <1>2
  <2>2. j > after /\ j <= after
    BY <1>4, <1>5, <2>1
  <2> QED
    BY <2>1, <2>2
<1>7. ~strange' => twice = {}
  BY <1>1 DEF ReadInv, NothingDoubled
<1>8. CASE LastPage(page)
  <2>1. ASSUME ~strange', NEW i \in Parsed(steady) PROVE i \in got'
    <3>1. i \in Nat /\ i \in server /\ i \notin Malformed \cup NoCursor
      BY <1>2 DEF Parsed
    <3>2. i <= after => i \in got
      BY <1>1, <2>1 DEF ReadInv, UpToCursor
    <3>3. i > after => i \in page
      BY <1>1, <1>8, <2>1, <3>1 DEF LastPage, Expected, Following
    <3> QED
      BY <1>2, <1>8, <3>1, <3>2, <3>3 DEF LastPage, Extended, Parsed
  <2>2. Parsed(steady)' = Parsed(steady)
    BY <1>1 DEF Parsed
  <2> QED
    BY <1>2, <1>3, <1>6, <1>7, <1>8, <2>1, <2>2 DEF LastPage, Extended, ReadInv, UpToCursor,
       NothingSkipped, NothingDoubled, PagesBounded, ReservationId
<1>9. CASE PageWithoutCursor(page)
  <2>1. Parsed(page) = {}
    BY <1>9 DEF PageWithoutCursor, Parsed
  <2> QED
    BY <1>1, <1>2, <1>3, <1>7, <1>9, <2>1 DEF PageWithoutCursor, Extended, ReadInv, UpToCursor,
       NothingSkipped, NothingDoubled, PagesBounded
<1>10. CASE RepeatedPage(page)
  BY <1>1, <1>2, <1>3, <1>7, <1>10 DEF RepeatedPage, ReadInv, UpToCursor, NothingSkipped,
     NothingDoubled, PagesBounded
<1>11. CASE OnePage(page)
  <2>1. PICK c \in Cursors(page) : c > after /\ after' = c
    BY <1>11 DEF OnePage
  <2>2. c \in Nat /\ c \in page
    BY <1>2, <2>1 DEF Cursors
  <2>3. got' = got \cup Parsed(page) /\ pc' = "reading" /\ pages' = pages + 1
    BY <1>1, <1>11 DEF OnePage, Extended
  <2>4. ASSUME ~strange', NEW i \in got' PROVE i <= c
    <3>1. CASE i \in got
      BY <1>2, <1>5, <2>1, <2>2, <2>4, <3>1
    <3>2. CASE i \in Parsed(page)
      BY <1>1, <2>1, <2>4, <3>2 DEF Cursors, Parsed
    <3> QED
      BY <2>3, <2>4, <3>1, <3>2
  <2>5. ASSUME ~strange', NEW i \in Parsed(steady), i <= c PROVE i \in got'
    <3>1. i \in Nat /\ i \in server /\ i \notin Malformed \cup NoCursor
      BY <1>2 DEF Parsed
    <3>2. i <= after => i \in got
      BY <1>1, <2>5 DEF ReadInv, UpToCursor
    <3>3. i > after => i \in page
      <4>1. CASE i = c
        BY <2>2, <4>1
      <4>2. CASE i < c /\ i > after
        BY <1>1, <2>2, <2>5, <3>1, <4>2 DEF Expected, Following
      <4> QED
        BY <2>2, <2>5, <3>1, <4>1, <4>2
    <3> QED
      BY <1>2, <2>3, <3>1, <3>2, <3>3 DEF Parsed
  <2>6. Parsed(steady)' = Parsed(steady)
    BY <1>1 DEF Parsed
  <2>7. pages' \in Nat /\ pages' <= after' /\ after' \in Nat
    BY <1>2, <2>1, <2>2, <2>3
  <2>8. UpToCursor'
    BY <2>1, <2>4, <2>5, <2>6 DEF UpToCursor
  <2>9. NothingDoubled' /\ NothingSkipped'
    BY <1>6, <1>7, <1>11, <2>3 DEF OnePage, Extended, NothingDoubled, NothingSkipped
  <2>10. got' \subseteq ReservationId
    BY <1>3, <2>3 DEF ReadInv
  <2> QED
    BY <1>3, <2>7, <2>8, <2>9, <2>10 DEF ReadInv, PagesBounded
<1> QED
  BY <1>8, <1>9, <1>10, <1>11 DEF Answer

LEMMA ReadInvariant == Spec => []ReadInv
<1>1. Init => ReadInv
  BY DEF Init, ReadInv, ReservationId, UpToCursor, NothingSkipped, NothingDoubled,
     PagesBounded, Parsed
<1>2. ReadInv /\ [Next]_vars => ReadInv'
  <2> SUFFICES ASSUME ReadInv, [Next]_vars PROVE ReadInv'
    OBVIOUS
  <2>1. ASSUME NEW page \in SUBSET ReservationId, Answer(page) PROVE ReadInv'
    BY <2>1, AnswerKeepsReadInv
  <2>2. ASSUME NEW i \in ReservationId, Booked(i) PROVE ReadInv'
    BY <2>2 DEF Booked, historyVars, ReadInv, UpToCursor, NothingSkipped, NothingDoubled,
       PagesBounded, Parsed
  <2>3. ASSUME NEW i \in ReservationId, Gone(i) PROVE ReadInv'
    BY <2>3 DEF Gone, ReadInv, UpToCursor, NothingSkipped, NothingDoubled, PagesBounded, Parsed
  <2>4. CASE UNCHANGED vars
    BY <2>4 DEF vars, historyVars, ReadInv, UpToCursor, NothingSkipped, NothingDoubled,
       PagesBounded, Parsed
  <2> QED
    BY <2>1, <2>2, <2>3, <2>4 DEF Next
<1> QED
  BY <1>1, <1>2, PTL DEF Spec

(* Cursor pagination skips no reservation that is there throughout the     *)
(* read, returns none twice and makes no more requests than there are ids  *)
(* (fetch_all_reservations, reservation_page_cursor).                      *)
THEOREM CursorReadCorrect == Spec => [](NothingSkipped /\ NothingDoubled /\ PagesBounded)
<1>1. ReadInv => NothingSkipped /\ NothingDoubled /\ PagesBounded
  BY DEF ReadInv
<1> QED
  BY <1>1, ReadInvariant, PTL
=============================================================================
