--------------------------- MODULE LokiScanProofs ---------------------------
(***************************************************************************)
(* The scan function between the pager and DuckDB keeps every row and lets *)
(* no failure pass for the end of the data, for every size of chunks and   *)
(* pages.  It steers the pager only through NextRequest and Accept, so     *)
(* what is proved of the pager holds of it.                                *)
(***************************************************************************)
EXTENDS LokiScan, StreamPagerProofs

\* A request is only built when the rows of the last page are used up.
FetchesWhenEmpty == waiting => buffer = {}

\* An empty chunk is returned when nothing is left to write or to fetch.
FinishesWhenDrained == outcome = "finished" => ~calling /\ chunk = {} /\ buffer = {} /\ done

ScanInv == ScanTypeOK /\ FetchesWhenEmpty /\ RowsConserved /\ FinishesWhenDrained

-----------------------------------------------------------------------------
\* Sizes add up when sets are disjoint, and disjoint they are when sizes add up.
LEMMA DisjointSizes ==
    ASSUME NEW S, NEW T, IsFiniteSet(S), IsFiniteSet(T)
    PROVE  /\ IsFiniteSet(S \cup T)
           /\ Cardinality(S) \in Nat /\ Cardinality(T) \in Nat /\ Cardinality(S \cup T) \in Nat
           /\ Cardinality(S \cup T) <= Cardinality(S) + Cardinality(T)
           /\ Cardinality(S \cup T) = Cardinality(S) + Cardinality(T) <=> S \cap T = {}
PROOF
  <1>1. /\ IsFiniteSet(S \cup T)
        /\ Cardinality(S \cup T) =
              Cardinality(S) + Cardinality(T) - Cardinality(S \cap T)
    BY FS_Union
  <1>2. IsFiniteSet(S \cap T)
    BY FS_Subset
  <1>3. /\ Cardinality(S) \in Nat /\ Cardinality(T) \in Nat
        /\ Cardinality(S \cup T) \in Nat /\ Cardinality(S \cap T) \in Nat
    BY <1>1, <1>2, FS_CardinalityType
  <1>4. Cardinality(S \cap T) = 0 <=> S \cap T = {}
    BY <1>2, FS_EmptySet
  <1> QED BY <1>1, <1>3, <1>4

\* RowsConserved says that the three places are disjoint.
Apart(d, c, b) == d \cap c = {} /\ (d \cup c) \cap b = {}

LEMMA ConservedMeansApart ==
    ASSUME NEW d \in SUBSET Entry, NEW c \in SUBSET Entry, NEW b \in SUBSET Entry
    PROVE  /\ Cardinality(d) \in Nat /\ Cardinality(c) \in Nat /\ Cardinality(b) \in Nat
           /\ Cardinality(d \cup c \cup b) = Cardinality(d) + Cardinality(c) + Cardinality(b)
                 <=> Apart(d, c, b)
PROOF
  <1>1. IsFiniteSet(d) /\ IsFiniteSet(c) /\ IsFiniteSet(b)
    BY EntryAssumption, FS_Subset
  <1>2. /\ IsFiniteSet(d \cup c) /\ Cardinality(d \cup c) \in Nat
        /\ Cardinality(d) \in Nat /\ Cardinality(c) \in Nat
        /\ Cardinality(d \cup c) <= Cardinality(d) + Cardinality(c)
        /\ Cardinality(d \cup c) = Cardinality(d) + Cardinality(c) <=> d \cap c = {}
    BY <1>1, DisjointSizes
  <1>3. /\ Cardinality(b) \in Nat /\ Cardinality((d \cup c) \cup b) \in Nat
        /\ Cardinality((d \cup c) \cup b) <= Cardinality(d \cup c) + Cardinality(b)
        /\ Cardinality((d \cup c) \cup b) = Cardinality(d \cup c) + Cardinality(b)
              <=> (d \cup c) \cap b = {}
    BY <1>1, <1>2, DisjointSizes
  <1> QED BY <1>2, <1>3 DEF Apart

\* Rows may move between the places, and a page's new ones join a free place.
LEMMA Moved ==
    ASSUME PagerInv, RowsConserved, ScanTypeOK
    PROVE  Apart(delivered, chunk, buffer) /\ rows = delivered \cup chunk \cup buffer
PROOF
  <1>1. Cardinality(rows) = emitted
    BY DEF PagerInv, Counted
  <1> QED BY <1>1, ConservedMeansApart DEF RowsConserved, ScanTypeOK

LEMMA ConservedFromApart ==
    ASSUME PagerInv, ScanTypeOK, Apart(delivered, chunk, buffer),
           rows = delivered \cup chunk \cup buffer
    PROVE  RowsConserved
PROOF
  <1>1. Cardinality(rows) = emitted
    BY DEF PagerInv, Counted
  <1> QED BY <1>1, ConservedMeansApart DEF RowsConserved, ScanTypeOK

-----------------------------------------------------------------------------
(* The pager inside the scan.                                              *)

LEMMA ScanStepIsPagerStep == [ScanNext]_scanVars => [Next]_vars
PROOF
  <1> QED BY DEF ScanNext, scanVars, scan, Call, Function, Fetch, Receive, Fail, Throw, Emit,
          Return, Abandon, Next, vars, pager

LEMMA ScanIsPager == ScanSpec => Spec
PROOF
  <1>1. ScanInit => Init
    BY DEF ScanInit
  <1> QED BY <1>1, ScanStepIsPagerStep, PTL DEF ScanSpec, Spec

-----------------------------------------------------------------------------
(* The invariant.                                                          *)

LEMMA ScanInitInv == PagerInv /\ ScanInit => ScanInv
PROOF
  <1> SUFFICES ASSUME PagerInv, ScanInit PROVE ScanInv
    OBVIOUS
  <1> USE DEF ScanInit, Init
  <1>1. ScanTypeOK
    BY DEF ScanTypeOK, PagerInv
  <1>2. RowsConserved
    BY FS_EmptySet DEF RowsConserved
  <1> QED BY <1>1, <1>2 DEF ScanInv, FetchesWhenEmpty, FinishesWhenDrained

LEMMA ReceiveInv ==
    ASSUME PagerInv, PagerInv', ScanInv, Receive
    PROVE  ScanInv'
PROOF
  <1>1. PICK page \in Pages : Accept(page)
    BY DEF Receive
  <1>2. /\ waiting /\ waiting' = FALSE /\ buffer = {} /\ buffer' = rows' \ rows
        /\ calling /\ UNCHANGED <<chunk, calling, delivered, outcome>>
    BY <1>1 DEF Receive, Accept, ScanInv, FetchesWhenEmpty
  <1>3. rows \subseteq rows'
    BY <1>1, AcceptRows
  <1>4. ScanTypeOK'
    BY <1>2 DEF PagerInv, TypeOK, ScanInv, ScanTypeOK
  <1>5. RowsConserved'
    <2>1. Apart(delivered, chunk, buffer) /\ rows = delivered \cup chunk \cup buffer
      BY Moved DEF ScanInv
    <2>2. Apart(delivered', chunk', buffer') /\ rows' = delivered' \cup chunk' \cup buffer'
      BY <1>2, <1>3, <2>1 DEF Apart
    <2>3. Cardinality(rows') = emitted'
      BY DEF PagerInv, Counted
    <2>4. Cardinality(rows') =
             Cardinality(delivered') + Cardinality(chunk') + Cardinality(buffer')
      BY <1>4, <2>2, ConservedMeansApart DEF ScanTypeOK
    <2> QED BY <2>2, <2>3, <2>4 DEF RowsConserved
  <1>6. FetchesWhenEmpty' /\ FinishesWhenDrained'
    BY <1>2 DEF ScanInv, FetchesWhenEmpty, FinishesWhenDrained
  <1> QED BY <1>4, <1>5, <1>6 DEF ScanInv

\* A row goes from the page's buffer to the chunk, a chunk to DuckDB.
LEMMA HandOver ==
    ASSUME PagerInv, ScanInv, UNCHANGED vars,
           \/ \E row \in buffer : chunk' = chunk \cup {row} /\ buffer' = buffer \ {row}
                                  /\ UNCHANGED delivered
           \/ delivered' = delivered \cup chunk /\ chunk' = {} /\ UNCHANGED buffer
    PROVE  /\ RowsConserved'
           /\ delivered' \in SUBSET Entry /\ chunk' \in SUBSET Entry /\ buffer' \in SUBSET Entry
PROOF
  <1>1. /\ delivered \in SUBSET Entry /\ chunk \in SUBSET Entry /\ buffer \in SUBSET Entry
        /\ emitted = Cardinality(rows)
    BY DEF ScanInv, ScanTypeOK, PagerInv, Counted
  <1>2. Apart(delivered, chunk, buffer) /\ rows = delivered \cup chunk \cup buffer
    BY Moved DEF ScanInv
  <1>3. delivered' \in SUBSET Entry /\ chunk' \in SUBSET Entry /\ buffer' \in SUBSET Entry
    BY <1>1
  <1>4. rows' = rows /\ emitted' = emitted
    BY DEF vars, pager
  <1>5. Apart(delivered', chunk', buffer') /\ rows' = delivered' \cup chunk' \cup buffer'
    BY <1>2, <1>4 DEF Apart
  <1>6. Cardinality(rows') =
           Cardinality(delivered') + Cardinality(chunk') + Cardinality(buffer')
    BY <1>3, <1>5, ConservedMeansApart
  <1> QED BY <1>1, <1>3, <1>4, <1>5, <1>6 DEF RowsConserved

LEMMA EmitInv ==
    ASSUME PagerInv, PagerInv', ScanInv, NEW row \in buffer, Emit(row)
    PROVE  ScanInv'
PROOF
  <1>1. /\ RowsConserved'
        /\ delivered' \in SUBSET Entry /\ chunk' \in SUBSET Entry /\ buffer' \in SUBSET Entry
    BY HandOver DEF Emit
  <1>2. ScanTypeOK'
    BY <1>1 DEF Emit, ScanInv, ScanTypeOK, PagerInv
  <1>3. FetchesWhenEmpty' /\ FinishesWhenDrained'
    BY DEF Emit, vars, pager, ScanInv, FetchesWhenEmpty, FinishesWhenDrained
  <1> QED BY <1>1, <1>2, <1>3 DEF ScanInv

LEMMA ReturnInv ==
    ASSUME PagerInv, PagerInv', ScanInv, Return
    PROVE  ScanInv'
PROOF
  <1>1. /\ RowsConserved'
        /\ delivered' \in SUBSET Entry /\ chunk' \in SUBSET Entry /\ buffer' \in SUBSET Entry
    BY HandOver DEF Return, Received
  <1>2. ScanTypeOK'
    BY <1>1 DEF Return, ScanInv, ScanTypeOK, PagerInv
  <1>3. FetchesWhenEmpty'
    BY DEF Return, vars, pager, ScanInv, FetchesWhenEmpty
  <1>4. FinishesWhenDrained'
    <2>1. chunk = {} => Room
      BY FS_EmptySet, ChunkAssumption DEF Room
    <2> QED BY <2>1 DEF Return, Drained, vars, pager, FinishesWhenDrained
  <1> QED BY <1>1, <1>2, <1>3, <1>4 DEF ScanInv

LEMMA ScanStepInv == PagerInv /\ PagerInv' /\ ScanInv /\ [ScanNext]_scanVars => ScanInv'
PROOF
  <1> SUFFICES ASSUME PagerInv, PagerInv', ScanInv, [ScanNext]_scanVars PROVE ScanInv'
    OBVIOUS
  <1> USE DEF ScanInv
  <1>1. CASE Call
    BY <1>1 DEF Call, vars, pager, ScanTypeOK, PagerInv, FetchesWhenEmpty, RowsConserved,
       FinishesWhenDrained
  <1>2. CASE Fetch
    BY <1>2 DEF Fetch, NextRequest, scan, ScanTypeOK, PagerInv, FetchesWhenEmpty,
       RowsConserved, FinishesWhenDrained
  <1>3. CASE Receive
    BY <1>3, ReceiveInv
  <1>4. CASE Fail
    BY <1>4 DEF Fail, Throw, pager, ScanTypeOK, PagerInv, FetchesWhenEmpty, RowsConserved,
       FinishesWhenDrained
  <1>5. ASSUME NEW row \in buffer, Emit(row) PROVE ScanInv'
    BY <1>5, EmitInv
  <1>6. CASE Return
    BY <1>6, ReturnInv
  <1>7. CASE Abandon
    BY <1>7 DEF Abandon, vars, pager, ScanTypeOK, PagerInv, FetchesWhenEmpty, RowsConserved,
       FinishesWhenDrained
  <1>8. CASE (\E e \in Entry : Ingest(e)) /\ UNCHANGED scan
    BY <1>8 DEF Ingest, pager, scan, ScanTypeOK, PagerInv, FetchesWhenEmpty, RowsConserved,
       FinishesWhenDrained
  <1>9. CASE UNCHANGED scanVars
    BY <1>9 DEF scanVars, vars, pager, scan, ScanTypeOK, PagerInv, FetchesWhenEmpty,
       RowsConserved, FinishesWhenDrained
  <1> QED BY <1>1, <1>2, <1>3, <1>4, <1>5, <1>6, <1>7, <1>8, <1>9 DEF ScanNext, Function

LEMMA ScanInvariance == ScanSpec => [](PagerInv /\ GapInv /\ ScanInv)
PROOF
  <1>1. ScanInit /\ PagerInv => ScanInv
    BY ScanInitInv
  <1> QED BY <1>1, ScanIsPager, GapInvariance, ScanStepInv, PTL DEF ScanSpec

-----------------------------------------------------------------------------
(* Theorems.                                                               *)

\* The scan function's state is well typed, and the pager's inside it.
THEOREM ScanTypeCorrect == ScanSpec => []ScanTypeOK
PROOF
  <1>1. ScanInv => ScanTypeOK
    BY DEF ScanInv
  <1> QED BY <1>1, ScanInvariance, PTL

\* Every row the pager emits is buffered, in the chunk or delivered, and in one of
\* them only, wherever chunks and pages end.
THEOREM NoRowLost == ScanSpec => []RowsConserved
PROOF
  <1>1. ScanInv => RowsConserved
    BY DEF ScanInv
  <1> QED BY <1>1, ScanInvariance, PTL

\* DuckDB takes a scan for finished, below the limit, only if it has received all
\* that was in the window when the scan began: failures and full chunks end in
\* other ways.  The causes of a pager's early end excepted.
THEOREM EndMeansComplete ==
    ScanSpec => [](Saturated \/ Twins \/ Garbled \cap store # {} \/ NoSilentTruncation)
PROOF
  <1>1. PagerInv /\ GapInv /\ ScanInv =>
           Saturated \/ Twins \/ Garbled \cap store # {} \/ NoSilentTruncation
    <2> SUFFICES ASSUME PagerInv, GapInv, ScanInv, Complete, outcome = "finished",
                        Cardinality(delivered) < UserLimit,
                        NEW e \in atStart, Readable(e)
                 PROVE  e \in delivered
      BY DEF GapInv, CompleteOtherwise, NoSilentTruncation
    <2>1. done /\ rows = delivered
      BY DEF ScanInv, FinishesWhenDrained, RowsConserved
    <2>2. emitted = Cardinality(delivered)
      BY <2>1 DEF PagerInv, Counted
    <2> QED BY <2>1, <2>2 DEF Complete
  <1> QED BY <1>1, ScanInvariance, PTL

\* Where none of the causes can occur, the end of the rows is the end of the data.
THEOREM SparseNeverTruncated ==
    ASSUME Sparse
    PROVE  ScanSpec => []NoSilentTruncation
PROOF
  <1>1. PagerInv => ~(Saturated \/ Twins \/ Garbled \cap store # {})
    BY SparseMeans DEF PagerInv
  <1> QED BY <1>1, ScanInvariance, EndMeansComplete, PTL
=============================================================================
