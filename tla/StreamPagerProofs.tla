------------------------- MODULE StreamPagerProofs -------------------------
(***************************************************************************)
(* Proofs about StreamPager, for every set of entries, window, direction,  *)
(* limit and cap: what it returns, then what it leaves out, and where that *)
(* is nothing.  The server is any that honours Answers.                    *)
(***************************************************************************)
EXTENDS StreamPager, CollectionProofs

-----------------------------------------------------------------------------
(* One page.                                                               *)

LEMMA PageFacts ==
    ASSUME TypeOK, NEW page \in Pages
    PROVE  /\ page \subseteq Entry /\ IsFiniteSet(page)
           /\ Cardinality(page) \in Nat
           /\ \A e \in page : e.ts \in Int /\ e.content \in Content /\ InWindow(e)
PROOF
  <1>1. page \subseteq store /\ \A e \in page : InWindow(e)
    BY DEF Pages, Answers
  <1>2. page \subseteq Entry
    BY <1>1 DEF TypeOK
  <1>3. IsFiniteSet(page)
    BY <1>2, EntryAssumption, FS_Subset
  <1>4. Cardinality(page) \in Nat
    BY <1>3, FS_CardinalityType
  <1> QED BY <1>1, <1>2, <1>3, <1>4, EntryAssumption

\* The extreme timestamp of a page bounds it on the side the scan moves to.
LEMMA ExtremeFacts ==
    ASSUME NEW page \in SUBSET Entry, IsFiniteSet(page), page # {}
    PROVE  /\ Extreme(page) \in Int
           /\ \E e \in page : e.ts = Extreme(page)
           /\ \A e \in page : IF Backward THEN Extreme(page) <= e.ts
                              ELSE Extreme(page) >= e.ts
PROOF
  <1> DEFINE times == {e.ts : e \in page}
             ts == [e \in page |-> e.ts]
  <1>1. times \in SUBSET Int /\ times # {}
    BY EntryAssumption
  <1>2. ts \in Surjection(page, times)
    BY DEF Surjection
  <1>3. IsFiniteSet(times)
    BY <1>2, FS_Surjection
  <1>4. \A e \in page : e.ts \in times
    OBVIOUS
  <1>5. \A t \in times : \E e \in page : e.ts = t
    OBVIOUS
  <1>6. Extreme(page) = IF Backward THEN Min(times) ELSE Max(times)
    BY DEF Extreme
  <1> HIDE DEF times
  <1>7. /\ Max(times) \in times /\ \A y \in times : Max(times) >= y
        /\ Min(times) \in times /\ \A y \in times : Min(times) <= y
    BY <1>1, <1>3, MaxMin
  <1> QED BY <1>1, <1>4, <1>5, <1>6, <1>7

\* A fresh entry of a page has not been returned before.
LEMMA FreshIsNew ==
    ASSUME PagerInv, waiting, NEW page \in Pages
    PROVE  Fresh(page) \cap rows = {}
PROOF
  <1>1. SUFFICES ASSUME NEW e \in page, e \in rows PROVE EntryKey(e) \in boundary
    BY DEF Fresh
  <1>2. e.ts \in Int /\ InWindow(e) /\ cursor \in Int
    BY PageFacts DEF PagerInv, TypeOK
  <1>3. ~done
    BY DEF PagerInv, RequestInFlight
  <1>4. /\ IF Backward THEN e.ts >= cursor - 1 ELSE e.ts <= cursor
        /\ AtBoundary(e) => EntryKey(e) \in boundary
    BY <1>1, <1>3 DEF PagerInv, Frontier
  <1>5. AtBoundary(e)
    BY <1>2, <1>4 DEF AtBoundary, InWindow, WindowStart, WindowEnd
  <1> QED BY <1>4, <1>5

LEMMA BatchFacts ==
    ASSUME PagerInv, waiting, NEW page \in Pages, NEW batch \in Batches(page)
    PROVE  /\ batch \subseteq Fresh(page) /\ IsFiniteSet(batch)
           /\ Cardinality(batch) \in Nat
           /\ emitted + Cardinality(batch) <= UserLimit
           /\ emitted + Cardinality(batch) < UserLimit => batch = Fresh(page)
           /\ Cardinality(rows \cup batch) = emitted + Cardinality(batch)
PROOF
  <1>1. IsFiniteSet(page) /\ Fresh(page) \subseteq page
    BY PageFacts DEF PagerInv, Fresh
  <1>2. IsFiniteSet(Fresh(page)) /\ Cardinality(Fresh(page)) \in Nat
    BY <1>1, FS_Subset, FS_CardinalityType
  <1>3. batch \subseteq Fresh(page)
    BY DEF Batches
  <1>4. IsFiniteSet(batch) /\ Cardinality(batch) \in Nat
    BY <1>2, <1>3, FS_Subset, FS_CardinalityType
  <1>5. UserLimit - emitted \in Int /\ emitted \in Nat /\ emitted <= UserLimit
    BY LimitAssumption DEF PagerInv, TypeOK, Counted
  <1>6. Cardinality(batch) = Min({Cardinality(Fresh(page)), UserLimit - emitted})
    BY DEF Batches
  <1>7. Cardinality(batch) = IF Cardinality(Fresh(page)) <= UserLimit - emitted
                             THEN Cardinality(Fresh(page)) ELSE UserLimit - emitted
    BY <1>2, <1>5, <1>6, MinOfTwo
  <1>8. emitted + Cardinality(batch) <= UserLimit
    BY <1>2, <1>5, <1>7, LimitAssumption
  <1>9. ASSUME emitted + Cardinality(batch) < UserLimit PROVE batch = Fresh(page)
    <2>1. Cardinality(batch) = Cardinality(Fresh(page))
      BY <1>2, <1>5, <1>7, <1>9, LimitAssumption
    <2> QED BY <2>1, <1>2, <1>3, FS_Subset
  <1>10. Cardinality(rows \cup batch) = emitted + Cardinality(batch)
    <2>1. rows \subseteq Entry /\ emitted = Cardinality(rows)
      BY DEF PagerInv, TypeOK, Counted
    <2>2. IsFiniteSet(rows)
      BY <2>1, EntryAssumption, FS_Subset
    <2>3. rows \cap batch = {}
      BY <1>3, FreshIsNew
    <2>4. Cardinality(rows \cap batch) = 0
      BY <2>3, FS_EmptySet
    <2>5. Cardinality(rows \cup batch) =
             Cardinality(rows) + Cardinality(batch) - Cardinality(rows \cap batch)
      BY <2>2, <1>4, FS_Union
    <2> QED BY <2>1, <2>4, <2>5, <1>4, <1>5
  <1> QED BY <1>3, <1>4, <1>8, <1>9, <1>10

-----------------------------------------------------------------------------
(* The inductive invariant.                                                *)

LEMMA InitInv == Init => PagerInv
PROOF
  <1> SUFFICES ASSUME Init PROVE PagerInv
    OBVIOUS
  <1> USE DEF Init
  <1>1. TypeOK
    BY WindowAssumption DEF TypeOK
  <1>2. CursorInQuery
    BY WindowAssumption DEF CursorInQuery
  <1>3. Frontier /\ BoundaryReturned /\ RequestInFlight
    BY DEF Frontier, BoundaryReturned, Returned, RequestInFlight
  <1>4. Counted
    BY FS_EmptySet, LimitAssumption DEF Counted
  <1> QED BY <1>1, <1>2, <1>3, <1>4 DEF PagerInv

\* The keys of the boundary are no more than the rows returned.
LEMMA BoundarySize ==
    ASSUME PagerInv
    PROVE  Cardinality(boundary) \in Nat /\ Cardinality(boundary) <= emitted
PROOF
  <1> DEFINE keys == {EntryKey(r) : r \in rows}
             key == [r \in rows |-> EntryKey(r)]
  <1>1. rows \subseteq Entry /\ emitted = Cardinality(rows)
    BY DEF PagerInv, TypeOK, Counted
  <1>2. IsFiniteSet(rows) /\ Cardinality(rows) \in Nat
    BY <1>1, EntryAssumption, FS_Subset, FS_CardinalityType
  <1>3. key \in Surjection(rows, keys)
    BY DEF Surjection
  <1>4. IsFiniteSet(keys) /\ Cardinality(keys) <= Cardinality(rows)
    BY <1>2, <1>3, FS_Surjection
  <1>5. boundary \subseteq keys
    BY DEF PagerInv, BoundaryReturned, Returned
  <1> HIDE DEF keys
  <1>6. IsFiniteSet(boundary) /\ Cardinality(boundary) <= Cardinality(keys)
    BY <1>4, <1>5, FS_Subset
  <1>7. Cardinality(boundary) \in Nat /\ Cardinality(keys) \in Nat
    BY <1>4, <1>6, FS_CardinalityType
  <1> QED BY <1>1, <1>2, <1>4, <1>6, <1>7

LEMMA WantFacts ==
    ASSUME PagerInv, ~done
    PROVE  /\ Want \in Nat /\ Want > Cardinality(boundary) /\ Want <= UserLimit
           /\ Min({Want, Cap}) = IF Want <= Cap THEN Want ELSE Cap
PROOF
  <1>1. emitted \in Nat /\ emitted < UserLimit
    BY DEF PagerInv, TypeOK, Counted
  <1>2. Cardinality(boundary) \in Nat /\ Cardinality(boundary) <= emitted
    BY BoundarySize
  <1>3. Want \in Nat /\ Want > Cardinality(boundary) /\ Want <= UserLimit
    BY <1>1, <1>2, LimitAssumption DEF Want
  <1> QED BY <1>3, MinOfTwo, LimitAssumption

LEMMA NextRequestInv ==
    ASSUME PagerInv, NextRequest
    PROVE  PagerInv'
PROOF
  <1> USE DEF NextRequest
  <1>1. requested' \in Nat
    BY WantFacts, LimitAssumption
  <1>2. TypeOK'
    BY <1>1 DEF PagerInv, TypeOK, InQuery
  <1>3. CursorInQuery' /\ BoundaryReturned' /\ Counted'
    BY DEF PagerInv, CursorInQuery, BoundaryReturned, Returned, Counted
  <1>4. Frontier'
    BY DEF PagerInv, Frontier, AtBoundary
  <1>5. RequestInFlight'
    BY DEF RequestInFlight, Want
  <1> QED BY <1>2, <1>3, <1>4, <1>5 DEF PagerInv

LEMMA IngestInv ==
    ASSUME PagerInv, NEW e \in Entry, Ingest(e)
    PROVE  PagerInv'
PROOF
  <1> USE DEF Ingest, pager
  <1>1. TypeOK'
    BY DEF PagerInv, TypeOK, InQuery
  <1>2. CursorInQuery' /\ BoundaryReturned' /\ Counted'
    BY DEF PagerInv, CursorInQuery, BoundaryReturned, Returned, Counted
  <1>3. Frontier' /\ RequestInFlight'
    BY DEF PagerInv, Frontier, AtBoundary, RequestInFlight, Want
  <1> QED BY <1>1, <1>2, <1>3 DEF PagerInv

\* What every outcome of Accept has in common.
LEMMA AcceptRows ==
    ASSUME PagerInv, NEW page \in Pages, Accept(page)
    PROVE  /\ rows' \in SUBSET {e \in Entry : InQuery(e)}
           /\ emitted' \in Nat /\ emitted' = Cardinality(rows') /\ emitted' <= UserLimit
           /\ rows \subseteq rows' /\ rows' \subseteq rows \cup page
           /\ emitted' < UserLimit => Fresh(page) \subseteq rows'
           /\ (rows' \ rows) \cap rows = {}
PROOF
  <1>1. waiting
    BY DEF Accept
  <1>2. PICK batch \in Batches(page) : rows' = rows \cup batch /\ emitted' = emitted + Cardinality(batch)
    BY DEF Accept
  <1>3. /\ batch \subseteq Fresh(page) /\ Cardinality(batch) \in Nat
        /\ emitted + Cardinality(batch) <= UserLimit
        /\ emitted + Cardinality(batch) < UserLimit => batch = Fresh(page)
        /\ Cardinality(rows \cup batch) = emitted + Cardinality(batch)
    BY <1>1, BatchFacts
  <1>4. Fresh(page) \subseteq page
    BY DEF Fresh
  <1>5. /\ page \subseteq Entry
        /\ \A e \in page : e.ts \in Int /\ InWindow(e)
    BY PageFacts DEF PagerInv
  <1>6. ASSUME NEW e \in page PROVE InQuery(e)
    BY <1>5, <1>6, WindowAssumption
       DEF InQuery, InWindow, WindowStart, WindowEnd, PagerInv, CursorInQuery, TypeOK
  <1>7. rows \in SUBSET {e \in Entry : InQuery(e)} /\ emitted \in Nat
    BY DEF PagerInv, TypeOK
  <1>8. rows' \in SUBSET {e \in Entry : InQuery(e)}
    BY <1>2, <1>3, <1>4, <1>5, <1>6, <1>7
  <1> QED BY <1>2, <1>3, <1>4, <1>7, <1>8

LEMMA AcceptStop ==
    ASSUME PagerInv, NEW page \in Pages, Accept(page), Stop
    PROVE  PagerInv'
PROOF
  <1> USE DEF Stop
  <1>1. /\ rows' \in SUBSET {e \in Entry : InQuery(e)} /\ rows \subseteq rows'
        /\ emitted' \in Nat /\ emitted' = Cardinality(rows') /\ emitted' <= UserLimit
    BY AcceptRows
  <1>2. waiting' = FALSE /\ UNCHANGED <<store, atStart, requested>>
    BY DEF Accept
  <1>3. TypeOK'
    BY <1>1, <1>2 DEF PagerInv, TypeOK, InQuery
  <1>4. CursorInQuery' /\ Frontier' /\ RequestInFlight'
    BY <1>2 DEF PagerInv, CursorInQuery, Frontier, RequestInFlight
  <1>5. BoundaryReturned'
    BY <1>1 DEF PagerInv, BoundaryReturned, Returned
  <1>6. Counted'
    BY <1>1 DEF Counted
  <1> QED BY <1>3, <1>4, <1>5, <1>6 DEF PagerInv

LEMMA AcceptAdvance ==
    ASSUME PagerInv, NEW page \in Pages, Accept(page),
           ~Exhausted(page, emitted'), Progressed(page), Advance(page)
    PROVE  PagerInv'
PROOF
  <1>1. /\ rows' \in SUBSET {e \in Entry : InQuery(e)}
        /\ rows \subseteq rows' /\ rows' \subseteq rows \cup page
        /\ emitted' \in Nat /\ emitted' = Cardinality(rows') /\ emitted' <= UserLimit
        /\ emitted' < UserLimit => Fresh(page) \subseteq rows'
    BY AcceptRows
  <1>2. waiting /\ waiting' = FALSE /\ UNCHANGED <<store, atStart, requested>>
    BY DEF Accept
  <1>3. /\ page \subseteq Entry /\ IsFiniteSet(page) /\ Cardinality(page) \in Nat
        /\ \A e \in page : e.ts \in Int /\ e.content \in Content
    BY PageFacts DEF PagerInv
  <1>4. emitted' < UserLimit /\ Fresh(page) \subseteq rows'
    BY <1>1, LimitAssumption DEF Exhausted
  <1>5. page # {}
    <2>1. ~done /\ requested = Min({Want, Cap})
      BY <1>2 DEF PagerInv, RequestInFlight
    <2>2. Cardinality(boundary) \in Nat
      BY BoundarySize
    <2>3. requested \in Nat /\ requested > 0
      BY <2>1, <2>2, WantFacts, LimitAssumption
    <2>4. Cardinality(page) # 0
      BY <1>3, <2>3 DEF Exhausted
    <2> QED BY <2>4, FS_EmptySet
  <1>6. /\ Extreme(page) \in Int
        /\ \A e \in page : IF Backward THEN Extreme(page) <= e.ts
                           ELSE Extreme(page) >= e.ts
    BY <1>3, <1>5, ExtremeFacts
  <1>7. cursor' = NextCursor(page) /\ boundary' = BoundaryKeys(page) /\ done' = done
    BY DEF Advance
  <1>8. cursor \in Int /\ cursor' \in Int
    BY <1>6, <1>7 DEF PagerInv, TypeOK, NextCursor
  <1>9. boundary' \in SUBSET (Int \X Content)
    BY <1>3, <1>7 DEF BoundaryKeys, EntryKey
  <1>10. TypeOK'
    BY <1>1, <1>2, <1>7, <1>8, <1>9 DEF PagerInv, TypeOK, InQuery
  <1>11. CursorInQuery'
    BY <1>7, <1>8, WindowAssumption DEF PagerInv, CursorInQuery, Progressed
  <1>12. Frontier'
    <2>1. SUFFICES ASSUME NEW r \in rows', ~done
                   PROVE  /\ IF Backward THEN r.ts >= cursor' - 1 ELSE r.ts <= cursor'
                          /\ AtBoundary(r)' => EntryKey(r) \in boundary'
      BY <1>7 DEF Frontier, AtBoundary, EntryKey
    <2>2. r.ts \in Int
      BY <1>1, EntryAssumption
    <2>3. CASE r \in rows
      <3>1. IF Backward THEN r.ts >= cursor - 1 ELSE r.ts <= cursor
        BY <2>1, <2>3 DEF PagerInv, Frontier
      <3>2. IF Backward THEN cursor' < cursor ELSE cursor' > cursor
        BY <1>7 DEF Progressed
      <3> QED BY <1>8, <2>2, <3>1, <3>2 DEF AtBoundary
    <2>4. CASE r \in page
      <3>1. IF Backward THEN r.ts >= cursor' - 1 ELSE r.ts <= cursor'
        BY <1>6, <1>7, <2>2, <2>4 DEF NextCursor
      <3>2. AtBoundary(r)' => r.ts = Extreme(page)
        BY <1>6, <1>7 DEF AtBoundary, NextCursor
      <3>3. AtBoundary(r)' => EntryKey(r) \in boundary'
        BY <1>7, <2>4, <3>2 DEF BoundaryKeys
      <3> QED BY <3>1, <3>3
    <2> QED BY <1>1, <2>3, <2>4
  <1>13. BoundaryReturned'
    <2>1. SUFFICES ASSUME NEW e \in page PROVE \E r \in rows' : EntryKey(e) = EntryKey(r)
      BY <1>7 DEF BoundaryReturned, Returned, BoundaryKeys, EntryKey
    <2>2. CASE e \in Fresh(page)
      BY <1>4, <2>2
    <2>3. CASE EntryKey(e) \in boundary
      BY <1>1, <2>3 DEF PagerInv, BoundaryReturned, Returned
    <2> QED BY <2>2, <2>3 DEF Fresh
  <1>14. Counted' /\ RequestInFlight'
    BY <1>1, <1>2, <1>4 DEF Counted, RequestInFlight
  <1> QED BY <1>10, <1>11, <1>12, <1>13, <1>14 DEF PagerInv

LEMMA StepInv == PagerInv /\ [Next]_vars => PagerInv'
PROOF
  <1> SUFFICES ASSUME PagerInv, [Next]_vars PROVE PagerInv'
    OBVIOUS
  <1>1. CASE NextRequest
    BY <1>1, NextRequestInv
  <1>2. ASSUME NEW page \in Pages, Accept(page) PROVE PagerInv'
    <2>1. \/ Stop
          \/ ~Exhausted(page, emitted') /\ Progressed(page) /\ Advance(page)
      BY <1>2 DEF Accept
    <2> QED BY <1>2, <2>1, AcceptStop, AcceptAdvance
  <1>3. ASSUME NEW e \in Entry, Ingest(e) PROVE PagerInv'
    BY <1>3, IngestInv
  <1>4. CASE UNCHANGED vars
    BY <1>4 DEF vars, pager, PagerInv, TypeOK, InQuery, CursorInQuery, Frontier, AtBoundary,
       BoundaryReturned, Returned, Counted, RequestInFlight, Want
  <1> QED BY <1>1, <1>2, <1>3, <1>4 DEF Next

-----------------------------------------------------------------------------
(* Theorems.                                                               *)

LEMMA Invariance == Spec => []PagerInv
PROOF
  <1> QED BY InitInv, StepInv, PTL DEF Spec

\* The pager's state is well typed in every state, and every row it returns is
\* an entry of the query window.
THEOREM TypeCorrect == Spec => []TypeOK
PROOF
  <1>1. PagerInv => TypeOK
    BY DEF PagerInv
  <1> QED BY <1>1, Invariance, PTL

\* No stored entry is ever returned twice by StreamPager::Accept, nor more than
\* the user's limit, whatever is ingested between the pages.
THEOREM NeverDuplicates == Spec => []NoDuplicates
PROOF
  <1>1. PagerInv => NoDuplicates
    BY DEF PagerInv, Counted, NoDuplicates
  <1> QED BY <1>1, Invariance, PTL

\* Every request of StreamPager::NextRequest is positive, within the user's
\* limit, and reaches beyond the boundary keys unless the cap forbids it.
THEOREM RequestsAlwaysUseful == Spec => []RequestsAreUseful
PROOF
  <1>1. PagerInv => RequestsAreUseful
    <2>1. SUFFICES ASSUME PagerInv, waiting
                   PROVE  /\ 0 < requested /\ requested <= UserLimit
                          /\ requested = Cap \/ requested > Cardinality(boundary)
      BY DEF RequestsAreUseful
    <2>2. ~done /\ requested = Min({Want, Cap})
      BY <2>1 DEF PagerInv, RequestInFlight
    <2>3. Cardinality(boundary) \in Nat
      BY <2>1, BoundarySize
    <2> QED BY <2>1, <2>2, <2>3, WantFacts, LimitAssumption
  <1> QED BY <1>1, Invariance, PTL

\* Pages come in the order of the scan: StreamPager's cursor never lets a later
\* page return a row lying strictly ahead of one returned before.
THEOREM AlwaysOrdered == Spec => OrderedDelivery
PROOF
  <1>1. PagerInv /\ [Next]_vars => [\A new \in rows' \ rows, old \in rows : ~Ahead(new, old)]_vars
    <2> SUFFICES ASSUME PagerInv, Next, NEW new \in rows' \ rows, NEW old \in rows
                 PROVE  ~Ahead(new, old)
      OBVIOUS
    <2>1. PICK page \in Pages : Accept(page)
      BY DEF Next, NextRequest, Ingest, pager
    <2>2. new \in page /\ waiting
      BY <2>1, AcceptRows DEF Accept
    <2>3. InWindow(new) /\ new.ts \in Int
      BY <2>1, <2>2, PageFacts DEF PagerInv
    <2>4. old.ts \in Int /\ cursor \in Int
      BY EntryAssumption DEF PagerInv, TypeOK
    <2>5. IF Backward THEN old.ts >= cursor - 1 ELSE old.ts <= cursor
      BY <2>2 DEF PagerInv, RequestInFlight, Frontier
    <2> QED BY <2>3, <2>4, <2>5 DEF Ahead, InWindow, WindowStart, WindowEnd
  <1> QED BY <1>1, Invariance, PTL DEF Spec, OrderedDelivery

-----------------------------------------------------------------------------
(* What StreamPager delivers, and what it leaves out: it never skips an    *)
(* entry, it misses none but for three named causes, and where these       *)
(* cannot occur it implements PagedScan.                                   *)

\* Loki keeps what it has, and the pager returns what Loki has and the parser
\* can read.
Stored == atStart \subseteq store /\ rows \subseteq store \ Garbled

\* The boundary keys are all of the nanosecond that is served again.
BoundaryAtEdge == \A k \in boundary : k[1] = IF Backward THEN cursor - 1 ELSE cursor

\* What the window has left behind has been returned.
PassedReturned ==
    ~done => \A e \in atStart : Readable(e) /\ ~InWindow(e) => EntryKey(e) \in Returned

GapInv == Stored /\ BoundaryAtEdge /\ PassedReturned /\ NoGap /\ CompleteOtherwise

Hits == {e \in store : InWindow(e)}

-----------------------------------------------------------------------------
(* One answer.                                                             *)

LEMMA AnswerFacts ==
    ASSUME TypeOK, NEW answer \in Answers
    PROVE  /\ answer \subseteq Hits /\ IsFiniteSet(answer)
           /\ Cardinality(answer) \in Nat /\ Cardinality(answer) <= requested
           /\ Cardinality(answer) < requested => answer = Hits
           /\ \A near \in answer, far \in Hits \ answer : ~Ahead(far, near)
PROOF
  <1>1. /\ answer \subseteq Hits
        /\ Cardinality(answer) = Min({requested, Cardinality(Hits)})
        /\ \A near \in answer, far \in Hits \ answer : ~Ahead(far, near)
    BY DEF Answers, Hits
  <1>2. IsFiniteSet(Hits) /\ Hits \subseteq Entry
    BY EntryAssumption, FS_Subset DEF Hits, TypeOK
  <1>3. IsFiniteSet(answer) /\ Cardinality(answer) \in Nat /\ Cardinality(Hits) \in Nat
    BY <1>1, <1>2, FS_Subset, FS_CardinalityType
  <1>4. requested \in Nat
    BY DEF TypeOK
  <1>5. Cardinality(answer) =
           IF requested <= Cardinality(Hits) THEN requested ELSE Cardinality(Hits)
    BY <1>1, <1>3, <1>4, MinOfTwo
  <1>6. Cardinality(answer) < requested => Cardinality(answer) = Cardinality(Hits)
    BY <1>3, <1>4, <1>5
  <1> QED BY <1>1, <1>2, <1>3, <1>4, <1>5, <1>6, FS_Subset

\* A boundary key is the key of an entry that the present window still has.
LEMMA BoundaryIsServed ==
    ASSUME PagerInv, GapInv, NEW k \in boundary
    PROVE  \E r \in Hits \ Garbled : EntryKey(r) = k /\ AtBoundary(r)
PROOF
  <1>1. PICK r \in rows : EntryKey(r) = k
    BY DEF PagerInv, BoundaryReturned, Returned
  <1>2. r \in store /\ r \notin Garbled
    BY DEF GapInv, Stored
  <1>3. r.ts = k[1] /\ AtBoundary(r)
    BY <1>1 DEF EntryKey, GapInv, BoundaryAtEdge, AtBoundary
  <1>4. InQuery(r) /\ r.ts \in Int /\ cursor \in Int
    BY EntryAssumption DEF PagerInv, TypeOK
  <1>5. InWindow(r)
    BY <1>3, <1>4, WindowAssumption
       DEF InWindow, InQuery, WindowStart, WindowEnd, AtBoundary
  <1> QED BY <1>1, <1>2, <1>3, <1>5 DEF Hits

\* The entries of a page that were returned from the boundary before.
Known(page) == {e \in page : EntryKey(e) \in boundary}

LEMMA PageSplit ==
    ASSUME NEW page, IsFiniteSet(page)
    PROVE  /\ Cardinality(Fresh(page)) \in Nat /\ IsFiniteSet(Fresh(page))
           /\ Cardinality(Known(page)) \in Nat /\ IsFiniteSet(Known(page))
           /\ Cardinality(page) = Cardinality(Fresh(page)) + Cardinality(Known(page))
PROOF
  <1>1. page = Fresh(page) \cup Known(page) /\ Fresh(page) \cap Known(page) = {}
    BY DEF Fresh, Known
  <1>2. /\ IsFiniteSet(Fresh(page)) /\ Cardinality(Fresh(page)) \in Nat
        /\ IsFiniteSet(Known(page)) /\ Cardinality(Known(page)) \in Nat
    BY FS_Subset, FS_CardinalityType DEF Fresh, Known
  <1>3. Cardinality(Fresh(page) \cap Known(page)) = 0
    BY <1>1, FS_EmptySet
  <1>4. Cardinality(Fresh(page) \cup Known(page)) =
           Cardinality(Fresh(page)) + Cardinality(Known(page))
              - Cardinality(Fresh(page) \cap Known(page))
    BY <1>2, FS_Union
  <1>5. Cardinality(page) = Cardinality(Fresh(page) \cup Known(page))
    BY <1>1
  <1> QED BY <1>2, <1>3, <1>4, <1>5

\* Those of them leave room in the request for as many fresh ones.
LEMMA FreshFits ==
    ASSUME PagerInv, waiting, NEW answer \in Answers,
           boundary \subseteq {EntryKey(e) : e \in answer \ Garbled}
    PROVE  Cardinality(Fresh(answer \ Garbled)) <= UserLimit - emitted
PROOF
  <1> DEFINE page == answer \ Garbled
             key == [e \in Known(page) |-> EntryKey(e)]
  <1>1. /\ IsFiniteSet(answer) /\ Cardinality(answer) \in Nat
        /\ Cardinality(answer) <= requested
    BY AnswerFacts DEF PagerInv
  <1>2. /\ IsFiniteSet(page) /\ Cardinality(page) \in Nat
        /\ Cardinality(page) <= Cardinality(answer)
    BY <1>1, FS_Subset, FS_CardinalityType
  <1>3. key \in Surjection(Known(page), boundary)
    BY DEF Known, Surjection
  <1>4. Cardinality(boundary) <= Cardinality(Known(page))
    BY <1>2, <1>3, PageSplit, FS_Surjection
  <1>5. /\ ~done /\ requested = Min({Want, Cap})
        /\ Cardinality(boundary) \in Nat /\ emitted \in Nat
    BY BoundarySize DEF PagerInv, RequestInFlight, TypeOK
  <1>6. requested <= Want /\ requested \in Nat /\ Want \in Nat
    BY <1>5, WantFacts, LimitAssumption
  <1>7. Want = (UserLimit - emitted) + Cardinality(boundary)
    BY DEF Want
  <1> HIDE DEF page, key
  <1>8. Cardinality(Fresh(page)) <= UserLimit - emitted
    BY <1>1, <1>2, <1>4, <1>5, <1>6, <1>7, PageSplit, LimitAssumption
  <1> QED BY <1>8 DEF page

\* A batch is cut by the limit only if its page stays in the boundary nanosecond.
LEMMA NoCut ==
    ASSUME PagerInv, GapInv, waiting, NEW answer \in Answers,
           NEW batch \in Batches(answer \ Garbled),
           NEW near \in answer \ Garbled, ~AtBoundary(near)
    PROVE  batch = Fresh(answer \ Garbled)
PROOF
  <1>1. ASSUME NEW k \in boundary PROVE \E e \in answer \ Garbled : EntryKey(e) = k
    <2>1. PICK r \in Hits \ Garbled : EntryKey(r) = k /\ AtBoundary(r)
      BY BoundaryIsServed
    <2>2. near \in Hits /\ \A far \in Hits \ answer : ~Ahead(far, near)
      BY AnswerFacts DEF PagerInv
    <2>3. r.ts \in Int /\ near.ts \in Int /\ cursor \in Int
      BY <2>2, EntryAssumption DEF PagerInv, TypeOK, Hits
    <2>4. Ahead(r, near)
      BY <2>1, <2>2, <2>3 DEF Ahead, AtBoundary, Hits, InWindow, WindowStart, WindowEnd
    <2> QED BY <2>1, <2>2, <2>4
  <1>2. Cardinality(Fresh(answer \ Garbled)) <= UserLimit - emitted
    BY <1>1, FreshFits
  <1>3. answer \ Garbled \in Pages
    BY DEF Pages
  <1>4. IsFiniteSet(Fresh(answer \ Garbled)) /\ Cardinality(Fresh(answer \ Garbled)) \in Nat
    BY <1>3, PageFacts, FS_Subset, FS_CardinalityType DEF PagerInv, Fresh
  <1>5. /\ batch \subseteq Fresh(answer \ Garbled)
        /\ Cardinality(batch) =
              Min({Cardinality(Fresh(answer \ Garbled)), UserLimit - emitted})
    BY DEF Batches
  <1>6. UserLimit - emitted \in Int
    BY LimitAssumption DEF PagerInv, TypeOK
  <1>7. Cardinality(batch) = Cardinality(Fresh(answer \ Garbled))
    <2> DEFINE n == Cardinality(Fresh(answer \ Garbled))
               room == UserLimit - emitted
    <2>1. n \in Int /\ room \in Int /\ n <= room
      BY <1>2, <1>4, <1>6
    <2>2. Cardinality(batch) = Min({n, room})
      BY <1>5
    <2> HIDE DEF n, room
    <2>3. Cardinality(batch) = n
      BY <2>1, <2>2, MinOfTwo
    <2> QED BY <2>3 DEF n
  <1> QED BY <1>4, <1>5, <1>7, FS_Subset

-----------------------------------------------------------------------------
(* What Accept does to the entries left behind.                            *)

\* The rows of a page, with the answer it was made of.
LEMMA AcceptedAnswer ==
    ASSUME NEW page \in Pages, Accept(page)
    PROVE  /\ waiting
           /\ \E answer \in Answers : page = answer \ Garbled
           /\ \E batch \in Batches(page) :
                  rows' = rows \cup batch /\ emitted' = emitted + Cardinality(batch)
           /\ UNCHANGED <<store, atStart, requested>>
PROOF
  <1> QED BY DEF Pages, Accept

\* An entry of the store that is met before one of a page is in that page.
LEMMA NearerIsInPage ==
    ASSUME PagerInv, NEW answer \in Answers, NEW near \in answer \ Garbled,
           NEW e \in store, Readable(e), InWindow(e), Ahead(e, near)
    PROVE  e \in answer \ Garbled
PROOF
  <1>1. \A far \in Hits \ answer : ~Ahead(far, near)
    BY AnswerFacts DEF PagerInv
  <1> QED BY <1>1 DEF Hits, Readable

LEMMA AcceptNoGap ==
    ASSUME PagerInv, GapInv, NEW page \in Pages, Accept(page)
    PROVE  NoGap'
PROOF
  <1>1. PICK answer \in Answers : page = answer \ Garbled
    BY AcceptedAnswer
  <1>2. PICK batch \in Batches(page) : rows' = rows \cup batch
    BY AcceptedAnswer
  <1>3. waiting /\ ~done /\ UNCHANGED <<store, atStart>>
    BY AcceptedAnswer DEF PagerInv, RequestInFlight
  <1>4. SUFFICES ASSUME NEW e \in atStart, NEW r \in rows', Readable(e), Ahead(e, r)
                 PROVE  \E x \in rows' : EntryKey(e) = EntryKey(x)
    BY <1>3 DEF NoGap, Readable, InQuery, Ahead, EntryKey, Returned
  <1>5. CASE \E x \in rows : EntryKey(e) = EntryKey(x)
    BY <1>2, <1>5
  <1>6. CASE r \in rows
    BY <1>4, <1>5, <1>6 DEF GapInv, NoGap, Returned
  <1>7. CASE ~InWindow(e)
    BY <1>3, <1>4, <1>5, <1>7 DEF GapInv, PassedReturned, Returned
  <1>8. CASE r \in batch /\ InWindow(e)
    <2>1. e \in store
      BY DEF GapInv, Stored
    <2>2. r \in page /\ Fresh(page) \subseteq page
      BY <1>8 DEF Batches, Fresh
    <2>3. e \in page
      BY <1>1, <1>4, <1>8, <2>1, <2>2, NearerIsInPage
    <2>4. CASE EntryKey(e) \in boundary
      BY <1>5, <2>4 DEF PagerInv, BoundaryReturned, Returned
    <2>5. CASE EntryKey(e) \notin boundary
      <3>1. e \in Fresh(page)
        BY <2>3, <2>5 DEF Fresh
      <3>2. e.ts \in Int /\ r.ts \in Int /\ cursor \in Int
        BY <2>2, <2>3, PageFacts DEF PagerInv, TypeOK
      <3>3. ~AtBoundary(r)
        BY <1>4, <1>8, <3>2 DEF Ahead, AtBoundary, InWindow, WindowStart, WindowEnd
      <3>4. batch = Fresh(page)
        BY <1>1, <1>3, <2>2, <3>3, NoCut
      <3> QED BY <1>2, <3>1, <3>4
    <2> QED BY <2>4, <2>5
  <1> QED BY <1>2, <1>6, <1>7, <1>8

\* When the cursor moves, what it passes was in the page.
LEMMA AdvancePassed ==
    ASSUME PagerInv, GapInv, NEW page \in Pages, Accept(page),
           ~Exhausted(page, emitted'), Progressed(page), Advance(page)
    PROVE  PassedReturned' /\ BoundaryAtEdge'
PROOF
  <1>1. PICK answer \in Answers : page = answer \ Garbled
    BY AcceptedAnswer
  <1>2. waiting /\ ~done /\ UNCHANGED <<store, atStart, requested>>
    BY AcceptedAnswer DEF PagerInv, RequestInFlight
  <1>3. Fresh(page) \subseteq rows' /\ rows \subseteq rows'
    BY AcceptRows, LimitAssumption DEF Exhausted
  <1>4. page \in SUBSET Entry /\ IsFiniteSet(page) /\ page # {}
    <2>1. page \subseteq Entry /\ IsFiniteSet(page) /\ Cardinality(page) \in Nat
      BY PageFacts DEF PagerInv
    <2>2. requested \in Nat /\ requested > 0
      BY <1>2, WantFacts, BoundarySize, LimitAssumption DEF PagerInv, RequestInFlight
    <2>3. Cardinality(page) # 0
      BY <2>1, <2>2 DEF Exhausted
    <2> QED BY <2>1, <2>3, FS_EmptySet
  <1>5. Extreme(page) \in Int /\ \E near \in page : near.ts = Extreme(page)
    BY <1>4, ExtremeFacts
  <1>6. cursor' = NextCursor(page) /\ boundary' = BoundaryKeys(page)
    BY DEF Advance
  <1>7. BoundaryAtEdge'
    BY <1>5, <1>6 DEF BoundaryAtEdge, BoundaryKeys, EntryKey, NextCursor
  <1>8. ASSUME NEW e \in atStart, Readable(e), ~InWindow(e)'
        PROVE  \E x \in rows' : EntryKey(e) = EntryKey(x)
    <2>1. CASE ~InWindow(e)
      BY <1>2, <1>3, <1>8, <2>1 DEF GapInv, PassedReturned, Returned
    <2>2. CASE InWindow(e)
      <3>1. PICK near \in page : near.ts = Extreme(page)
        BY <1>5
      <3>2. e \in store /\ e.ts \in Int /\ cursor \in Int
        BY EntryAssumption DEF GapInv, Stored, PagerInv, TypeOK
      <3>3. e \in page
        <4>1. CASE Ahead(e, near)
          BY <1>1, <1>8, <2>2, <3>1, <3>2, <4>1, NearerIsInPage
        <4>2. CASE ~Ahead(e, near)
          BY <1>5, <1>6, <1>8, <2>2, <3>1, <3>2, <4>2
             DEF Ahead, NextCursor, InWindow, WindowStart, WindowEnd
        <4> QED BY <4>1, <4>2
      <3>4. CASE EntryKey(e) \in boundary
        BY <1>3, <3>4 DEF PagerInv, BoundaryReturned, Returned
      <3>5. CASE EntryKey(e) \notin boundary
        BY <1>3, <3>3, <3>5 DEF Fresh
      <3> QED BY <3>4, <3>5
    <2> QED BY <2>1, <2>2
  <1>9. PassedReturned'
    BY <1>2, <1>8 DEF PassedReturned, Readable, InQuery, Returned, EntryKey
  <1> QED BY <1>7, <1>9

-----------------------------------------------------------------------------
(* What is missing when the scan stops.                                    *)

\* A page that does not move the cursor lies in the boundary nanosecond.
LEMMA NoProgress ==
    ASSUME PagerInv, NEW page \in Pages, page # {}, ~Progressed(page), NEW e \in page
    PROVE  AtBoundary(e)
PROOF
  <1>1. /\ page \in SUBSET Entry /\ IsFiniteSet(page)
        /\ e.ts \in Int /\ InWindow(e) /\ cursor \in Int
    BY PageFacts DEF PagerInv, TypeOK
  <1>2. /\ Extreme(page) \in Int
        /\ IF Backward THEN Extreme(page) <= e.ts ELSE Extreme(page) >= e.ts
    BY <1>1, ExtremeFacts
  <1> QED BY <1>1, <1>2
          DEF Progressed, NextCursor, AtBoundary, InWindow, WindowStart, WindowEnd

\* The scan stops below the limit at a full page without progress only when
\* that page is as large as a page can be.
LEMMA StuckIsSaturated ==
    ASSUME PagerInv, GapInv, NEW page \in Pages, Accept(page),
           ~Exhausted(page, emitted'), ~Progressed(page), ~Twins
    PROVE  Saturated
PROOF
  <1>1. waiting /\ ~done /\ requested = Min({Want, Cap})
    BY AcceptedAnswer DEF PagerInv, RequestInFlight
  <1>2. /\ page \subseteq store /\ page \in SUBSET Entry
        /\ IsFiniteSet(page) /\ Cardinality(page) \in Nat
    BY PageFacts DEF PagerInv, Pages, Answers
  <1>3. /\ requested = IF Want <= Cap THEN Want ELSE Cap
        /\ requested \in Nat /\ requested > 0
        /\ Cardinality(boundary) \in Nat /\ IsFiniteSet(boundary) /\ emitted \in Nat
    <2>1. IsFiniteSet(Returned)
      <3> DEFINE key == [r \in rows |-> EntryKey(r)]
      <3>1. IsFiniteSet(rows)
        BY EntryAssumption, FS_Subset DEF PagerInv, TypeOK
      <3>2. key \in Surjection(rows, Returned)
        BY DEF Surjection, Returned
      <3> QED BY <3>1, <3>2, FS_Surjection
    <2>2. IsFiniteSet(boundary)
      BY <2>1, FS_Subset DEF PagerInv, BoundaryReturned
    <2> QED BY <1>1, <2>2, WantFacts, BoundarySize, LimitAssumption DEF PagerInv, TypeOK
  <1>4. Cardinality(page) >= requested /\ emitted' < UserLimit
    BY <1>2, <1>3, AcceptRows, LimitAssumption DEF Exhausted
  <1>5. PICK near \in page : TRUE
    BY <1>3, <1>4, FS_EmptySet
  <1>6. requested = Cap
    <2>1. SUFFICES ASSUME requested = Want PROVE FALSE
      BY <1>3
    <2> DEFINE key == [e \in Known(page) |-> EntryKey(e)]
    <2>2. key \in Injection(Known(page), boundary)
      <3>1. key \in [Known(page) -> boundary]
        BY DEF Known
      <3>2. ASSUME NEW e \in Known(page), NEW f \in Known(page), key[e] = key[f]
            PROVE  e = f
        BY <1>2, <3>2 DEF Known, Twins
      <3> QED BY <3>1, <3>2 DEF Injection, IsInjective
    <2>3. Cardinality(Known(page)) <= Cardinality(boundary)
      BY <1>3, <2>2, FS_Injection
    <2>4. PICK batch \in Batches(page) : emitted' = emitted + Cardinality(batch)
      BY AcceptedAnswer
    <2>5. batch = Fresh(page)
      BY <1>1, <1>4, <2>4, BatchFacts
    <2>6. Want = (UserLimit - emitted) + Cardinality(boundary)
      BY DEF Want
    <2> QED BY <1>2, <1>3, <1>4, <2>1, <2>3, <2>4, <2>5, <2>6, PageSplit, LimitAssumption
  <1> DEFINE here == {e \in store : e.ts = near.ts}
  <1>7. page \subseteq here
    <2>1. ASSUME NEW e \in page PROVE e.ts = near.ts
      <3>1. e.ts \in Int /\ near.ts \in Int /\ cursor \in Int
        BY PageFacts DEF PagerInv, TypeOK
      <3> QED BY <1>5, <3>1, NoProgress DEF AtBoundary
    <2> QED BY <1>2, <2>1
  <1>8. IsFiniteSet(here)
    BY EntryAssumption, FS_Subset DEF PagerInv, TypeOK
  <1>9. Cardinality(here) >= Cap
    <2>1. Cardinality(page) <= Cardinality(here) /\ Cardinality(here) \in Nat
      BY <1>7, <1>8, FS_Subset, FS_CardinalityType
    <2> QED BY <1>2, <1>4, <1>6, <2>1, LimitAssumption
  <1> QED BY <1>2, <1>5, <1>9 DEF Saturated

LEMMA AcceptComplete ==
    ASSUME PagerInv, GapInv, NEW page \in Pages, Accept(page)
    PROVE  CompleteOtherwise'
PROOF
  <1>1. PICK answer \in Answers : page = answer \ Garbled
    BY AcceptedAnswer
  <1>2. waiting /\ ~done /\ UNCHANGED <<store, atStart, requested>>
    BY AcceptedAnswer DEF PagerInv, RequestInFlight
  <1>3. SUFFICES ASSUME ~Saturated, ~Twins, Garbled \cap store = {},
                        done', emitted' < UserLimit,
                        NEW e \in atStart, Readable(e)
                 PROVE  e \in rows'
    BY <1>2 DEF CompleteOtherwise, Complete, Saturated, Twins, Readable, InQuery, EntryKey
  <1>4. /\ rows' \subseteq rows \cup page /\ rows \subseteq rows'
        /\ Fresh(page) \subseteq rows'
    BY <1>3, AcceptRows
  <1>5. page \subseteq store /\ rows \subseteq store /\ e \in store
    BY DEF Pages, Answers, GapInv, Stored
  <1>6. ASSUME NEW x \in rows', EntryKey(x) = EntryKey(e) PROVE e \in rows'
    <2>1. x \in store
      BY <1>4, <1>5
    <2> QED BY <1>3, <1>5, <1>6, <2>1 DEF Twins
  <1>7. CASE ~InWindow(e)
    <2>1. EntryKey(e) \in Returned
      BY <1>2, <1>3, <1>7 DEF GapInv, PassedReturned
    <2> QED BY <1>4, <1>6, <2>1 DEF Returned
  <1>8. CASE e \in page
    <2>1. CASE EntryKey(e) \in boundary
      <3>1. EntryKey(e) \in Returned
        BY <2>1 DEF PagerInv, BoundaryReturned
      <3> QED BY <1>4, <1>6, <3>1 DEF Returned
    <2>2. CASE EntryKey(e) \notin boundary
      BY <1>4, <1>8, <2>2 DEF Fresh
    <2> QED BY <2>1, <2>2
  <1>9. CASE InWindow(e) /\ Exhausted(page, emitted')
    <2>1. page = answer
      BY <1>1, <1>3 DEF Answers
    <2>2. emitted' \in Nat
      BY AcceptRows
    <2>3. Cardinality(answer) < requested
      BY <1>3, <1>9, <2>1, <2>2, LimitAssumption DEF Exhausted
    <2>4. answer = Hits
      BY <2>3, AnswerFacts DEF PagerInv
    <2> QED BY <1>5, <1>8, <1>9, <2>1, <2>4 DEF Hits
  <1>10. CASE ~Exhausted(page, emitted')
    <2>1. ~Progressed(page)
      BY <1>2, <1>3, <1>10 DEF Accept, Advance
    <2> QED BY <1>3, <1>10, <2>1, StuckIsSaturated
  <1> QED BY <1>7, <1>9, <1>10

-----------------------------------------------------------------------------
(* The inductive invariant.                                                *)

LEMMA GapInit == Init => GapInv
PROOF
  <1> SUFFICES ASSUME Init PROVE GapInv
    OBVIOUS
  <1> USE DEF Init
  <1>1. Stored /\ BoundaryAtEdge /\ NoGap /\ CompleteOtherwise
    BY DEF Stored, BoundaryAtEdge, NoGap, CompleteOtherwise, Complete
  <1>2. PassedReturned
    <2>1. SUFFICES ASSUME NEW e \in atStart, Readable(e) PROVE InWindow(e)
      BY DEF PassedReturned
    <2> QED BY <2>1 DEF Readable, InQuery, InWindow, WindowStart, WindowEnd
  <1> QED BY <1>1, <1>2 DEF GapInv

\* More entries in the store leave no cause of an early end behind.
LEMMA CausesStay ==
    ASSUME TypeOK, TypeOK', store \subseteq store'
    PROVE  /\ Saturated => Saturated'
           /\ Twins => Twins'
           /\ Garbled \cap store # {} => Garbled \cap store' # {}
PROOF
  <1>1. ASSUME Saturated PROVE Saturated'
    <2>1. PICK t \in {e.ts : e \in store} : Cardinality({e \in store : e.ts = t}) >= Cap
      BY <1>1 DEF Saturated
    <2> DEFINE old == {e \in store : e.ts = t}
               new == {e \in store' : e.ts = t}
    <2>2. IsFiniteSet(new) /\ old \subseteq new
      BY EntryAssumption, FS_Subset DEF TypeOK
    <2>3. /\ Cardinality(old) <= Cardinality(new)
          /\ Cardinality(old) \in Nat /\ Cardinality(new) \in Nat
      BY <2>2, FS_Subset, FS_CardinalityType
    <2>4. Cardinality(new) >= Cap
      BY <2>1, <2>3, LimitAssumption
    <2>5. t \in {e.ts : e \in store'}
      OBVIOUS
    <2> QED BY <2>4, <2>5 DEF Saturated
  <1>2. Twins => Twins'
    BY DEF Twins, EntryKey
  <1> QED BY <1>1, <1>2

LEMMA AcceptGap ==
    ASSUME PagerInv, GapInv, NEW page \in Pages, Accept(page)
    PROVE  GapInv'
PROOF
  <1>1. PICK answer \in Answers : page = answer \ Garbled
    BY AcceptedAnswer
  <1>2. UNCHANGED <<store, atStart, requested>> /\ waiting /\ ~done
    BY AcceptedAnswer DEF PagerInv, RequestInFlight
  <1>3. Stored'
    <2>1. rows' \subseteq rows \cup page
      BY AcceptRows
    <2>2. page \subseteq store \ Garbled
      BY <1>1 DEF Answers
    <2> QED BY <1>2, <2>1, <2>2 DEF GapInv, Stored
  <1>4. PassedReturned' /\ BoundaryAtEdge'
    <2>1. CASE Stop
      BY <2>1 DEF Stop, PassedReturned, BoundaryAtEdge, GapInv
    <2>2. CASE ~Exhausted(page, emitted') /\ Progressed(page) /\ Advance(page)
      BY <2>2, AdvancePassed
    <2> QED BY <2>1, <2>2 DEF Accept
  <1> QED BY <1>3, <1>4, AcceptNoGap, AcceptComplete DEF GapInv

LEMMA GapStep == PagerInv /\ GapInv /\ [Next]_vars => GapInv'
PROOF
  <1> SUFFICES ASSUME PagerInv, GapInv, [Next]_vars PROVE GapInv'
    OBVIOUS
  <1>1. ASSUME UNCHANGED <<atStart, cursor, emitted, done, boundary, rows>>,
               store \subseteq store'
        PROVE  GapInv'
    <2>1. Stored' /\ BoundaryAtEdge'
      BY <1>1 DEF GapInv, Stored, BoundaryAtEdge
    <2>2. PassedReturned' /\ NoGap'
      BY <1>1 DEF GapInv, PassedReturned, NoGap, Returned, Readable, InQuery, InWindow,
         WindowStart, WindowEnd, EntryKey, Ahead
    <2>3. CompleteOtherwise'
      <3>1. TypeOK /\ TypeOK'
        BY StepInv DEF PagerInv
      <3> QED BY <1>1, <3>1, CausesStay
              DEF GapInv, CompleteOtherwise, Complete, Readable, InQuery
    <2> QED BY <2>1, <2>2, <2>3 DEF GapInv
  <1>2. CASE NextRequest
    BY <1>1, <1>2 DEF NextRequest
  <1>3. ASSUME NEW page \in Pages, Accept(page) PROVE GapInv'
    BY <1>3, AcceptGap
  <1>4. ASSUME NEW e \in Entry, Ingest(e) PROVE GapInv'
    BY <1>1, <1>4 DEF Ingest, pager
  <1>5. CASE UNCHANGED vars
    BY <1>1, <1>5 DEF vars, pager
  <1> QED BY <1>2, <1>3, <1>4, <1>5 DEF Next

LEMMA GapInvariance == Spec => [](PagerInv /\ GapInv)
PROOF
  <1> QED BY InitInv, StepInv, GapInit, GapStep, PTL DEF Spec

\* No entry is skipped: whatever is nearer to the start of the scan than a returned
\* row, and was stored when the scan began, has been returned, though a page's
\* order is by stream and the limit cuts it anywhere.
THEOREM NeverSkips == Spec => []NoGap
PROOF
  <1>1. GapInv => NoGap
    BY DEF GapInv
  <1> QED BY <1>1, GapInvariance, PTL

\* A scan that ends below its limit is complete, unless a nanosecond fills a page,
\* two entries share a key, or an entry has an unreadable timestamp.
THEOREM MissesNothingElse == Spec => []CompleteOtherwise
PROOF
  <1>1. GapInv => CompleteOtherwise
    BY DEF GapInv
  <1> QED BY <1>1, GapInvariance, PTL

-----------------------------------------------------------------------------
(* The refinement of PagedScan.                                            *)

LEMMA SparseMeans ==
    ASSUME Sparse, TypeOK
    PROVE  ~Saturated /\ ~Twins /\ Garbled \cap store = {}
PROOF
  <1>1. ASSUME NEW t \in {e.ts : e \in store}
        PROVE  ~(Cardinality({e \in store : e.ts = t}) >= Cap)
    <2> DEFINE some == {e \in store : e.ts = t}
               all == {e \in Entry : e.ts = t}
    <2>1. t \in {e.ts : e \in Entry}
      BY DEF TypeOK
    <2>2. Cardinality(all) < Cap
      BY <2>1 DEF Sparse
    <2>3. IsFiniteSet(all) /\ some \subseteq all
      BY EntryAssumption, FS_Subset DEF TypeOK
    <2>4. /\ Cardinality(some) <= Cardinality(all)
          /\ Cardinality(some) \in Nat /\ Cardinality(all) \in Nat
      BY <2>3, FS_Subset, FS_CardinalityType
    <2> HIDE DEF some, all
    <2>5. ~(Cardinality(some) >= Cap)
      BY <2>2, <2>4, LimitAssumption
    <2> QED BY <2>5 DEF some
  <1> QED BY <1>1 DEF Sparse, Saturated, Twins, TypeOK

\* PagedScan counts as this module does.
LEMMA ScanCardinality ==
    ASSUME NEW S
    PROVE  Scan!Cardinality(S) = Cardinality(S)
PROOF
  <1> QED BY DEF Scan!Cardinality, Cardinality

LEMMA ScanInitial == Init => Scan!Init
PROOF
  <1> QED BY DEF Init, Scan!Init

\* Accept delivers one batch.
LEMMA AcceptDelivers ==
    ASSUME Sparse, PagerInv, GapInv, PagerInv', GapInv', NEW page \in Pages, Accept(page)
    PROVE  Scan!Next
PROOF
  <1>1. waiting /\ ~done /\ UNCHANGED <<store, atStart>>
    BY AcceptedAnswer DEF PagerInv, RequestInFlight
  <1>2. /\ rows \subseteq rows' /\ rows' \subseteq rows \cup page
        /\ emitted' = Cardinality(rows') /\ emitted' \in Nat /\ emitted' <= UserLimit
        /\ \A e \in rows' : InQuery(e)
    BY AcceptRows
  <1> DEFINE batch == rows' \ rows
  <1>3. batch \in SUBSET (store \ rows) /\ batch \subseteq page /\ rows \cup batch = rows'
    BY <1>2 DEF Pages, Answers
  <1>4. ASSUME NEW e \in batch, NEW d \in rows PROVE ~Scan!Precedes(e, d)
    <2>1. e.ts \in Int /\ InWindow(e)
      BY <1>3, PageFacts DEF PagerInv
    <2>2. d.ts \in Int /\ cursor \in Int
      BY EntryAssumption DEF PagerInv, TypeOK
    <2>3. IF Backward THEN d.ts >= cursor - 1 ELSE d.ts <= cursor
      BY <1>1 DEF PagerInv, Frontier
    <2> QED BY <2>1, <2>2, <2>3
            DEF Scan!Precedes, InWindow, WindowStart, WindowEnd, Backward
  <1>5. ASSUME NEW e \in Scan!Due, NEW f \in batch, Scan!Precedes(e, f) PROVE e \in rows'
    <2>1. Ahead(e, f) /\ Readable(e)
      BY <1>5 DEF Scan!Precedes, Scan!Due, Ahead, Backward, Readable, InQuery, Sparse
    <2>2. EntryKey(e) \in Returned'
      <3>1. e \in atStart' /\ f \in rows'
        BY <1>1 DEF Scan!Due
      <3>2. NoGap'
        BY DEF GapInv
      <3> QED BY <2>1, <3>1, <3>2 DEF NoGap, Readable, InQuery, Ahead, EntryKey
    <2>3. PICK x \in rows' : EntryKey(x) = EntryKey(e)
      BY <2>2 DEF Returned, EntryKey
    <2>4. x \in Entry /\ e \in Entry
      BY DEF PagerInv, TypeOK, Scan!Due
    <2> QED BY <2>3, <2>4 DEF Sparse
  <1>6. done' => Cardinality(rows') = UserLimit \/ Scan!Due \subseteq rows'
    <2>1. SUFFICES ASSUME done', emitted' < UserLimit, NEW e \in Scan!Due PROVE e \in rows'
      BY <1>2, LimitAssumption
    <2>2. Complete'
      <3>1. ~Saturated /\ ~Twins /\ Garbled \cap store = {}
        BY SparseMeans DEF PagerInv
      <3>2. CompleteOtherwise'
        BY DEF GapInv
      <3> QED BY <1>1, <3>1, <3>2 DEF CompleteOtherwise, Saturated, Twins, EntryKey
    <2>3. e \in atStart' /\ Readable(e)
      BY <1>1 DEF Scan!Due, Readable, InQuery, Sparse
    <2> QED BY <2>1, <2>2, <2>3 DEF Complete, Readable, InQuery
  <1>7. Scan!Deliver(batch)
    <2>1. done' \in BOOLEAN
      BY DEF PagerInv, TypeOK
    <2>2. /\ \A e \in batch : StartNs <= e.ts /\ e.ts < EndNs
          /\ Cardinality(rows \cup batch) <= UserLimit
      BY <1>2, <1>3 DEF InQuery
    <2>3. \A e \in Scan!Due, f \in batch : Scan!Precedes(e, f) => e \in rows \cup batch
      BY <1>3, <1>5
    <2> HIDE DEF batch
    <2> QED BY <1>1, <1>3, <1>4, <1>6, <2>1, <2>2, <2>3, ScanCardinality DEF Scan!Deliver
  <1> QED BY <1>3, <1>7 DEF Scan!Next

LEMMA ScanStep ==
    ASSUME Sparse
    PROVE  PagerInv /\ GapInv /\ PagerInv' /\ GapInv' /\ [Next]_vars => [Scan!Next]_(Scan!vars)
PROOF
  <1> SUFFICES ASSUME PagerInv, GapInv, PagerInv', GapInv', [Next]_vars
               PROVE  [Scan!Next]_(Scan!vars)
    OBVIOUS
  <1>1. CASE NextRequest
    BY <1>1 DEF NextRequest, Scan!vars
  <1>2. ASSUME NEW page \in Pages, Accept(page) PROVE Scan!Next
    BY <1>2, AcceptDelivers
  <1>3. ASSUME NEW e \in Entry, Ingest(e) PROVE Scan!Next
    BY <1>3 DEF Ingest, pager, Scan!Next, Scan!Grow, PagerInv, TypeOK
  <1>4. CASE UNCHANGED vars
    BY <1>4 DEF vars, pager, Scan!vars
  <1> QED BY <1>1, <1>2, <1>3, <1>4 DEF Next

\* Where none of the causes can occur, paging is invisible: the pager implements a
\* scan that delivers the window in order, in batches, without gaps, up to the limit.
THEOREM PagingIsInvisible ==
    ASSUME Sparse
    PROVE  Spec => ImplementsPagedScan
PROOF
  <1> QED BY GapInvariance, ScanInitial, ScanStep, PTL DEF Spec, ImplementsPagedScan, Scan!Spec
=============================================================================
