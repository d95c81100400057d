------------------------------ MODULE LokiScan ------------------------------
(***************************************************************************)
(* The scan operator (src/loki/loki_scan.cpp, LokiScanFunction): DuckDB    *)
(* calls it until it returns an empty chunk; each call fills one chunk     *)
(* from the rows of the last page and fetches the next page when they run  *)
(* out.  It composes the pager with the HTTP client: a request may fail in *)
(* transport, with an HTTP status or with a malformed body, and any of     *)
(* these throws and fails the query.                                       *)
(***************************************************************************)
EXTENDS StreamPager

CONSTANT ChunkSize      \* STANDARD_VECTOR_SIZE

ASSUME ChunkAssumption == ChunkSize \in Nat \ {0}

VARIABLES
    buffer,     \* rows of the last page not yet written (buffer, buf_offset)
    chunk,      \* rows written to the output chunk of the call in progress
    calling,    \* DuckDB is inside LokiScanFunction
    delivered,  \* rows of the chunks DuckDB has received
    outcome     \* "running", "finished" (an empty chunk), "failed", "abandoned"

scan == <<buffer, chunk, calling, delivered, outcome>>
scanVars == <<vars, scan>>

-----------------------------------------------------------------------------
Call ==
    /\ outcome = "running"
    /\ ~calling
    /\ calling' = TRUE
    /\ UNCHANGED <<vars, buffer, chunk, delivered, outcome>>

Room == Cardinality(chunk) < ChunkSize

\* The buffered rows are used up: ask the pager for another page.
Fetch ==
    /\ calling
    /\ Room
    /\ buffer = {}
    /\ NextRequest
    /\ UNCHANGED scan

Receive ==
    /\ calling
    /\ \E page \in Pages : Accept(page)
    /\ buffer' = rows' \ rows
    /\ UNCHANGED <<chunk, calling, delivered, outcome>>

\* Mutated form of Throw: a request that fails ends the scan like a short page.
EndQuietly ==
    /\ done' = TRUE
    /\ waiting' = FALSE
    /\ UNCHANGED <<cursor, emitted, requested, boundary, rows, scan>>

Throw ==
    /\ outcome' = "failed"
    /\ calling' = FALSE
    /\ UNCHANGED <<pager, buffer, chunk, delivered>>

\* A transport error, a status other than 2xx or a malformed body.
Fail ==
    /\ calling
    /\ waiting
    /\ Throw
    /\ UNCHANGED <<store, atStart>>

Emit(row) ==
    /\ calling
    /\ Room
    /\ chunk' = chunk \cup {row}
    /\ buffer' = buffer \ {row}
    /\ UNCHANGED <<vars, calling, delivered, outcome>>

\* Mutated forms of Drained: the last page's rows are forgotten, and only the
\* limit ends the scan.
DoneOnly == done
LimitOnly == buffer = {} /\ emitted >= UserLimit

\* Nothing is left to write and nothing to fetch.
Drained == buffer = {} /\ done

\* Mutated form of Received: a chunk larger than what remains is not counted.
KeepOnlyFull(rs) == IF Cardinality(rs) = ChunkSize THEN delivered \cup rs ELSE delivered

Received(rs) == delivered \cup rs

Return ==
    /\ calling
    /\ ~waiting
    /\ ~Room \/ Drained
    /\ calling' = FALSE
    /\ delivered' = Received(chunk)
    /\ chunk' = {}
    /\ outcome' = IF chunk = {} THEN "finished" ELSE "running"
    /\ UNCHANGED <<vars, buffer>>

\* The plan above needs no more rows (LIMIT), or the query is cancelled between
\* two calls.
Abandon ==
    /\ outcome = "running"
    /\ ~calling
    /\ outcome' = "abandoned"
    /\ UNCHANGED <<vars, buffer, chunk, calling, delivered>>

ScanInit ==
    /\ Init
    /\ buffer = {}
    /\ chunk = {}
    /\ calling = FALSE
    /\ delivered = {}
    /\ outcome = "running"

Function == Fetch \/ Receive \/ Fail \/ (\E row \in buffer : Emit(row)) \/ Return

ScanNext ==
    \/ Call
    \/ Function
    \/ Abandon
    \/ (\E e \in Entry : Ingest(e)) /\ UNCHANGED scan

ScanSpec == ScanInit /\ [][ScanNext]_scanVars

\* A call runs until it returns; DuckDB calls again or abandons the scan.
FairScanSpec == ScanSpec /\ WF_scanVars(Function) /\ WF_scanVars(Call \/ Abandon)

-----------------------------------------------------------------------------
(* Properties.                                                             *)

ScanTypeOK ==
    /\ TypeOK
    /\ buffer \in SUBSET Entry
    /\ chunk \in SUBSET Entry
    /\ calling \in BOOLEAN
    /\ delivered \in SUBSET Entry
    /\ outcome \in {"running", "finished", "failed", "abandoned"}

\* Every row the pager emits is in exactly one place: still buffered, in the
\* chunk being filled, or delivered.  Chunks that end in the middle of a page,
\* and pages that end in the middle of a chunk, lose and repeat nothing.
RowsConserved ==
    /\ rows = delivered \cup chunk \cup buffer
    /\ emitted = Cardinality(delivered) + Cardinality(chunk) + Cardinality(buffer)

\* A query that finishes below its limit has received every entry that was in
\* the window when it began: neither a failed request nor an early empty chunk
\* passes for the end of the data.
NoSilentTruncation ==
    outcome = "finished" /\ Cardinality(delivered) < UserLimit =>
        \A e \in atStart : Readable(e) => e \in delivered

\* Every scan ends, although only an empty chunk tells DuckDB so.
ScanEnds == <>(outcome # "running")
=============================================================================
