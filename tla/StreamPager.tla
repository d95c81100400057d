---------------------------- MODULE StreamPager ----------------------------
(***************************************************************************)
(* The paging engine of loki_scan (src/loki/pager.cpp).  Loki caps the     *)
(* entries of one query_range response, so a result is assembled from      *)
(* pages: NextRequest asks for the part of the window that is left, Accept *)
(* takes the answer, drops what was already returned at the boundary       *)
(* nanosecond, moves the cursor and decides whether the scan is over.      *)
(*                                                                         *)
(* Loki is external: an answer holds the entries nearest to the edge the   *)
(* scan starts from, ties cut arbitrarily, and a grouping by stream that   *)
(* says nothing about the order across streams.  Entries may be ingested   *)
(* between two pages.  The parser (src/loki/parse.cpp) drops an entry whose *)
(* timestamp it cannot read before the pager counts the page.              *)
(***************************************************************************)
EXTENDS Integers, FiniteSets, FiniteSetsExt

CONSTANTS
    Entry,      \* every log entry Loki may hold: [ts, content, meta]
    Content,    \* a (line, stream labels) pair
    Meta,       \* structured metadata of an entry
    Garbled,    \* entries whose timestamp text does not parse
    StartNs,    \* inclusive start of the query window
    EndNs,      \* exclusive end of the query window
    Direction,  \* "backward" (newest first) or "forward"
    UserLimit,  \* rows the user asked for (validated > 0 by loki_scan's bind)
    Cap         \* entries per response

ASSUME EntryAssumption ==
    /\ Entry \subseteq [ts : Int, content : Content, meta : Meta]
    /\ IsFiniteSet(Entry)
ASSUME GarbledAssumption == Garbled \subseteq Entry
ASSUME WindowAssumption == StartNs \in Int /\ EndNs \in Int
ASSUME DirectionAssumption == Direction \in {"backward", "forward"}
ASSUME LimitAssumption == UserLimit \in Nat \ {0} /\ Cap \in Nat \ {0}

VARIABLES
    store,      \* entries Loki holds (external)
    atStart,    \* history: what Loki held when the scan began
    cursor,     \* cursor_ns_
    emitted,    \* emitted_
    requested,  \* requested_this_page_
    done,       \* done_
    boundary,   \* boundary_keys_
    waiting,    \* a request has been built and its answer not yet accepted
    rows        \* every row Accept has returned so far

pager == <<cursor, emitted, requested, done, boundary, waiting, rows>>
vars == <<store, atStart, pager>>

-----------------------------------------------------------------------------
Backward == Direction # "forward"

\* Structured metadata is not part of the de-duplication key.
EntryKey(e) == <<e.ts, e.content>>

\* Mutated form of WindowStart: the inclusive start is nudged like the end.
WindowStartWidened == IF Backward THEN StartNs - 1 ELSE cursor

\* Mutated form of WindowEnd: the fixed end is nudged like the moving one.
WindowEndWidened == IF Backward THEN cursor ELSE EndNs + 1

\* The window of the next request: its end moves down, or its start moves up.
WindowStart == IF Backward THEN StartNs ELSE cursor
WindowEnd == IF Backward THEN cursor ELSE EndNs

\* a is met strictly before b by a scan in this direction.
Ahead(a, b) == IF Backward THEN a.ts > b.ts ELSE a.ts < b.ts

-----------------------------------------------------------------------------
(* The server.                                                             *)

InWindow(e) == WindowStart <= e.ts /\ e.ts < WindowEnd

\* The answers Loki may give to the request in flight.
Answers ==
    LET hits == {e \in store : InWindow(e)}
    IN {page \in SUBSET hits :
            /\ Cardinality(page) = Min({requested, Cardinality(hits)})
            /\ \A near \in page, far \in hits \ page : ~Ahead(far, near)}

\* ParseStreamsResponse: what is left of an answer.
Pages == {answer \ Garbled : answer \in Answers}

-----------------------------------------------------------------------------
(* NextRequest.                                                            *)

\* Mutated form of Want: no allowance for the entries served again.
WantOnlyRemaining == UserLimit - emitted

\* The boundary nanosecond is served again, so its keys come on top of what
\* is still wanted.
Want == (UserLimit - emitted) + Cardinality(boundary)

NextRequest ==
    /\ ~done
    /\ ~waiting
    /\ requested' = Min({Want, Cap})
    /\ waiting' = TRUE
    /\ UNCHANGED <<store, atStart, cursor, emitted, done, boundary, rows>>

-----------------------------------------------------------------------------
(* Accept.                                                                 *)

\* Mutated form of Fresh: no de-duplication.
FreshAll(page) == page

Fresh(page) == {e \in page : EntryKey(e) \notin boundary}

\* The rows one page yields: all its fresh entries, or as many as the limit
\* leaves room for.  Which ones are cut depends on the grouping by stream.
Batches(page) ==
    {batch \in SUBSET Fresh(page) :
        Cardinality(batch) = Min({Cardinality(Fresh(page)), UserLimit - emitted})}

\* Mutated form of Exhausted: a full page is taken for the last one.
ExhaustedOffByOne(page, total) == Cardinality(page) <= requested \/ total >= UserLimit

\* Loki returned fewer entries than requested, or the limit is met.
Exhausted(page, total) == Cardinality(page) < requested \/ total >= UserLimit

Extreme(page) ==
    LET times == {e.ts : e \in page}
    IN IF Backward THEN Min(times) ELSE Max(times)

\* Mutated forms of NextCursor: without the nudge that serves the boundary
\* again, and with one nanosecond too many.
NextCursorNoNudge(page) == Extreme(page)
NextCursorTooFar(page) == IF Backward THEN Extreme(page) + 2 ELSE Extreme(page) - 1

NextCursor(page) == IF Backward THEN Extreme(page) + 1 ELSE Extreme(page)

\* Mutated form of Progressed: no check that the cursor moves.
ProgressUnchecked(page) == page # {}

Progressed(page) ==
    IF Backward THEN NextCursor(page) < cursor ELSE NextCursor(page) > cursor

\* Mutated form of BoundaryKeys: the boundary is cleared and not filled.
BoundaryForgotten(page) == IF page = {} THEN boundary ELSE {}

BoundaryKeys(page) == {EntryKey(e) : e \in {f \in page : f.ts = Extreme(page)}}

Stop == done' = TRUE /\ UNCHANGED <<cursor, boundary>>

Advance(page) ==
    /\ cursor' = NextCursor(page)
    /\ boundary' = BoundaryKeys(page)
    /\ UNCHANGED done

Accept(page) ==
    /\ waiting
    /\ waiting' = FALSE
    /\ \E batch \in Batches(page) :
          /\ rows' = rows \cup batch
          /\ emitted' = emitted + Cardinality(batch)
    /\ \/ Exhausted(page, emitted') /\ Stop
       \/ ~Exhausted(page, emitted') /\ ~Progressed(page) /\ Stop
       \/ ~Exhausted(page, emitted') /\ Progressed(page) /\ Advance(page)
    /\ UNCHANGED <<store, atStart, requested>>

-----------------------------------------------------------------------------
\* Loki ingests an entry, anywhere in or out of the window, at any moment.
Ingest(e) ==
    /\ e \notin store
    /\ store' = store \cup {e}
    /\ UNCHANGED <<atStart, pager>>

Init ==
    /\ store \in SUBSET Entry
    /\ atStart = store
    /\ cursor = (IF Backward THEN EndNs ELSE StartNs)
    /\ emitted = 0
    /\ requested = 0
    /\ done = FALSE
    /\ boundary = {}
    /\ waiting = FALSE
    /\ rows = {}

Next ==
    \/ NextRequest
    \/ \E page \in Pages : Accept(page)
    \/ \E e \in Entry : Ingest(e)

Spec == Init /\ [][Next]_vars

\* loki_scan asks for pages until the pager is done, and an HTTP request that
\* does not fail is answered within its timeout.
FairSpec == Spec /\ WF_vars(NextRequest) /\ WF_vars(\E page \in Pages : Accept(page))

-----------------------------------------------------------------------------
(* Properties.                                                             *)

InQuery(e) == StartNs <= e.ts /\ e.ts < EndNs

\* The state is well typed; a row is an entry of the query window.
TypeOK ==
    /\ store \in SUBSET Entry
    /\ atStart \in SUBSET Entry
    /\ cursor \in Int
    /\ emitted \in Nat
    /\ requested \in Nat
    /\ done \in BOOLEAN
    /\ boundary \in SUBSET (Int \X Content)
    /\ waiting \in BOOLEAN
    /\ rows \in SUBSET {e \in Entry : InQuery(e)}

\* Each stored entry is returned at most once, although every page serves the
\* boundary nanosecond again and entries arrive between pages: the pager's
\* count equals the number of distinct entries returned, and never exceeds
\* the user's limit.
NoDuplicates == emitted = Cardinality(rows) /\ emitted <= UserLimit

\* While the scan goes on, a request never asks for more than the user's limit
\* (so `remaining + boundary_keys_.size()` cannot overflow) and always leaves
\* room for an entry beyond the boundary keys, unless the cap forbids it.
RequestsAreUseful ==
    waiting => /\ 0 < requested /\ requested <= UserLimit
               /\ requested = Cap \/ requested > Cardinality(boundary)

Readable(e) == InQuery(e) /\ e \notin Garbled

Returned == {EntryKey(r) : r \in rows}

\* The scan never skips: of an entry stored since the scan began that lies
\* strictly nearer to the edge the scan started from than some returned row, a
\* row with its key has been returned.  So a limited scan returns the nearest
\* rows, and a batch never cuts the wrong entries although its order is by
\* stream, whatever the parser drops.
NoGap ==
    \A e \in atStart, r \in rows : Readable(e) /\ Ahead(e, r) => EntryKey(e) \in Returned

\* A scan that ends below the user's limit has returned every entry of the
\* window that was stored when it began: DESIGN.md 6.4, "To return a complete
\* set ... stop at the user's limit or when a page returns fewer than the
\* requested entries".
Complete ==
    done /\ emitted < UserLimit => \A e \in atStart : Readable(e) => e \in rows

\* What ends a scan early: a nanosecond that fills a page, two entries with one
\* key, or a page that looks short because the parser dropped an entry of it.
Saturated == \E t \in {e.ts : e \in store} : Cardinality({e \in store : e.ts = t}) >= Cap

Twins == \E e, f \in store : e # f /\ EntryKey(e) = EntryKey(f)

\* Nothing else does: without these, the result is complete whatever the sizes
\* of pages, limit and boundary, and whatever is ingested between pages.
CompleteOtherwise == Saturated \/ Twins \/ Garbled \cap store # {} \/ Complete

\* None of the three can occur: timestamps are readable, keys are unique, and no
\* nanosecond has as many entries as a page.
Sparse ==
    /\ Garbled = {}
    /\ \A e, f \in Entry : EntryKey(e) = EntryKey(f) => e = f
    /\ \A t \in {e.ts : e \in Entry} : Cardinality({e \in Entry : e.ts = t}) < Cap

\* Pages are delivered in the scan's order: no row of a later page lies
\* strictly ahead of a row of an earlier one, even if it was ingested late.
OrderedDelivery ==
    [][\A new \in rows' \ rows, old \in rows : ~Ahead(new, old)]_vars

\* Every scan ends, in particular when a nanosecond holds more entries than
\* one page can carry.
Termination == <>done

\* The inductive invariant behind NoDuplicates: while the scan goes on, the
\* cursor stays in the query window and no returned row lies beyond the boundary
\* nanosecond, whose returned rows all have their keys in the boundary set, and
\* the boundary set holds keys of returned rows only.
CursorInQuery == IF Backward THEN cursor <= EndNs ELSE StartNs <= cursor

AtBoundary(e) == e.ts = IF Backward THEN cursor - 1 ELSE cursor

Frontier ==
    ~done => \A r \in rows :
        /\ IF Backward THEN r.ts >= cursor - 1 ELSE r.ts <= cursor
        /\ AtBoundary(r) => EntryKey(r) \in boundary

BoundaryReturned == boundary \subseteq Returned

Counted ==
    /\ emitted = Cardinality(rows)
    /\ emitted <= UserLimit
    /\ ~done => emitted < UserLimit

RequestInFlight == waiting => ~done /\ requested = Min({Want, Cap})

PagerInv ==
    TypeOK /\ CursorInQuery /\ Frontier /\ BoundaryReturned /\ Counted /\ RequestInFlight

\* The abstract scan the pager implements where no nanosecond saturates a page
\* and keys are unique (module PagedScan).
Scan == INSTANCE PagedScan WITH delivered <- rows, finished <- done

\* Paging is invisible: what the caller sees is a scan that delivers the window
\* in order, in batches, without duplicates or gaps, up to the limit.
ImplementsPagedScan == Scan!Spec
=============================================================================
