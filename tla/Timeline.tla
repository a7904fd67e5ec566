------------------------------ MODULE Timeline ------------------------------
(***************************************************************************)
(* A client of GET /api/changes following the cursors of a timeline, page  *)
(* by page, while a collector appends to the store and prunes it           *)
(* (internal/api/changes.go, internal/store/page.go, lookup.go).           *)
(***************************************************************************)
EXTENDS Collecting

CONSTANT Limit  \* changes to a page

ASSUME TimelineAssumption == Limit \in Nat \ {0}

VARIABLES
    cursor,  \* the cursor of the next page; 0 before the first one
    listed,  \* the entries of the pages so far
    first,   \* history: the changes stored when the first page was read
    over     \* the last page offered no cursor

timeline == <<cursor, listed, first, over>>

InitTimeline == cursor = 0 /\ listed = <<>> /\ first = {} /\ over = FALSE

\* The n with the largest ids, all of them if there are fewer.
Newest(entries, n) == {t \in entries : Cardinality({u \in entries : u.id > t.id}) < n}

NewestFirst(entries) ==
    [k \in 1 .. Cardinality(entries) |->
        CHOOSE t \in entries : Cardinality({u \in entries : u.id > t.id}) = k - 1]

PageLimitedBeforeMatch(w, before) ==
    {t \in Newest({u \in store.txns : before = 0 \/ u.id < before}, Limit) :
        Match(t, w.from, w.to)}

PageByOffset(w, before) ==
    LET matching == Events(store, w.from, w.to)
    IN  Newest(matching \ Newest(matching, Len(listed)), Limit)

\* Page: the cursor is the store's own id, and the limit counts matches.
Page(w, before) ==
    Newest({t \in Events(store, w.from, w.to) : before = 0 \/ t.id < before}, Limit)

\* handleChanges, answering.  A cursor is offered when the page is full.
ReadPage(w) ==
    /\ ~ over
    /\ IF cursor = 0 THEN listed = <<>> ELSE w = asked
    /\ Answers(store, w.from, w.to, clock)
    /\ LET entries == Page(w, cursor)
       IN  /\ listed' = listed \o NewestFirst(entries)
           /\ over' = (Cardinality(entries) < Limit)
           /\ cursor' = IF over' THEN cursor ELSE Min({t.id : t \in entries})
    /\ first' = IF cursor = 0 THEN store.txns ELSE first
    /\ asked' = w
    /\ UNCHANGED window

FollowTimeline == \/ NextWindow /\ UNCHANGED <<asked, timeline>>
                  \/ \E w \in Windows : ReadPage(w)

----------------------------------------------------------------------------
\* A change is listed at most once, however many are appended between two
\* pages (Page: under an offset "the reader sees one change twice").
ListedOnce ==
    \A i, j \in DOMAIN listed : listed[i].src = listed[j].src => i = j

\* A timeline followed to its end has listed every change in its window that
\* was there when it was begun and is there still (Page, handleChanges:
\* "never sees another").
NoneMissing ==
    over => \A t \in first \cap store.txns :
                Match(t, asked.from, asked.to) => \E i \in DOMAIN listed : listed[i] = t
=============================================================================
