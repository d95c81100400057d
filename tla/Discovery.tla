------------------------------ MODULE Discovery ------------------------------
(***************************************************************************)
(* The discovery functions loki_labels, loki_label_values and loki_series  *)
(* (src/loki/loki_discovery.cpp) and the tables `labels` and `series` of   *)
(* an attached database (src/loki/catalog.cpp): one request, whose bounds  *)
(* are those of TimeBounds, and one answer, handed out in chunks.          *)
(*                                                                         *)
(* A call is [kind |-> "discovery", via, argument, start, end, now]: what  *)
(* is called, whether it got its argument (a label, a selector, a WHERE    *)
(* that makes one), its two bounds and the clock when it is bound.         *)
(***************************************************************************)
EXTENDS TimeBounds, Subsequences, FiniteSetsExt

CONSTANTS
    Lookup,         \* the calls
    Omitted,        \* start := or end := is not given, or not sent
    Hour,           \* the default window of the series table
    Item,           \* elements of an answer's array
    Unreadable,     \* those that are no JSON string
    MaxAnswer,      \* bound on the elements of an answer
    VectorSize,     \* STANDARD_VECTOR_SIZE
    SeriesMaxRows   \* series_max_rows

ASSUME DiscoveryAssumption ==
    /\ MaxAnswer \in Nat /\ VectorSize \in Nat \ {0} /\ SeriesMaxRows \in Nat \ {0}
    /\ Unreadable \subseteq Item
    /\ \A c \in Lookup : c.kind = "discovery"

VARIABLES
    status,         \* "bind", "open", "done", "refused" or "failed"
    request,        \* [start, end], each sent or not
    fetched,        \* the answer has been read
    rows,           \* what was read of it
    offset,         \* how many rows are handed out
    output,         \* history: the rows DuckDB has got
    answers         \* history: Loki's answers

scan == <<status, request, fetched, rows, offset, output, answers>>

IsSeries == input.via \in {"loki_series", "series table"}

-----------------------------------------------------------------------------
(* Bind.                                                                   *)

\* Mutated form of Sent: the first instant of the epoch is taken for no bound.
SentAfterEpoch(ns) == IF ns > 0 THEN ns ELSE Omitted

\* AppendTimeBounds: a negative bound is not sent, so Loki takes its default.
Sent(ns) == IF ns >= 0 THEN ns ELSE Omitted

\* ResolveDiscoveryBounds; an omitted bound is -1.
DiscoveryBound(bound) == IF bound = Omitted THEN -1 ELSE Resolved(bound, input.now)

\* The series table looks at the last hour, the labels table has no bounds.
StartNs ==
    IF input.via = "series table" THEN input.now - Hour
    ELSE IF input.via = "labels table" THEN -1 ELSE DiscoveryBound(input.start)

EndNs ==
    IF input.via = "series table" THEN input.now
    ELSE IF input.via = "labels table" THEN -1 ELSE DiscoveryBound(input.end)

\* Only loki_labels and the labels table go without an argument.
Complete ==
    /\ input.argument \/ input.via \in {"loki_labels", "labels table"}
    /\ StartNs # Rejected /\ EndNs # Rejected

RefuseLookup ==
    /\ status = "bind"
    /\ ~Complete
    /\ status' = "refused"
    /\ UNCHANGED <<vars, request, fetched, rows, offset, output, answers>>

\* Bind and InitGlobal: the request is ready, nothing is sent yet.
Bind ==
    /\ status = "bind"
    /\ Complete
    /\ status' = "open"
    /\ request' = [start |-> Sent(StartNs), end |-> Sent(EndNs)]
    /\ UNCHANGED <<vars, fetched, rows, offset, output, answers>>

-----------------------------------------------------------------------------
(* One call of the table function: the first one fetches.                  *)

\* ParseStringArrayResponse skips what is no string; a series is a row, whatever
\* ParseSeriesResponse skips inside it.
Parsed(answer) ==
    IF IsSeries THEN answer
    ELSE Subsequence(answer, {i \in DOMAIN answer : answer[i] \notin Unreadable})

\* Mutated form of Capped: the rows beyond the cap are dropped.
CappedQuietly(parsed) ==
    IF input.via = "series table" THEN SubSeq(parsed, 1, Min({SeriesMaxRows, Len(parsed)})) ELSE parsed

\* Nothing is dropped to get below the cap.
Capped(parsed) == parsed

TooMany(parsed) == input.via = "series table" /\ Len(parsed) > SeriesMaxRows

\* Mutated form of Latched: each call fetches anew.
LatchForgotten == FALSE

Latched == TRUE

\* A chunk of at most VectorSize rows; the empty one ends the scan.
Emit(from) ==
    LET count == Min({VectorSize, Len(from) - offset})
    IN /\ output' = output \o SubSeq(from, offset + 1, offset + count)
       /\ offset' = offset + count
       /\ status' = IF count = 0 THEN "done" ELSE "open"

FirstCall(answer) ==
    /\ status = "open" /\ ~fetched
    /\ answers' = Append(answers, answer)
    /\ IF TooMany(Capped(Parsed(answer)))
         THEN status' = "failed" /\ UNCHANGED <<fetched, rows, offset, output>>
         ELSE /\ fetched' = Latched
              /\ rows' = Capped(Parsed(answer))
              /\ Emit(rows')
    /\ UNCHANGED <<vars, request>>

\* The transport, the status or the body is bad: the query fails.
FailedCall ==
    /\ status = "open" /\ ~fetched
    /\ status' = "failed"
    /\ UNCHANGED <<vars, request, fetched, rows, offset, output, answers>>

NextCall ==
    /\ status = "open" /\ fetched
    /\ Emit(rows)
    /\ UNCHANGED <<vars, request, fetched, rows, answers>>

-----------------------------------------------------------------------------
Answer == UNION {[1 .. n -> Item] : n \in 0 .. MaxAnswer}

\* A behaviour resolves one bound, parses one duration, or runs one discovery.
DiscoveryInit ==
    /\ \/ Init /\ status = "done"
       \/ /\ input \in Lookup
          /\ value = 0 /\ read = 0 /\ outcome = Pending
          /\ status = "bind"
    /\ request = [start |-> Omitted, end |-> Omitted]
    /\ fetched = FALSE
    /\ rows = <<>> /\ offset = 0
    /\ output = <<>> /\ answers = <<>>

Function == (\E answer \in Answer : FirstCall(answer)) \/ FailedCall \/ NextCall

DiscoveryNext ==
    \/ Next /\ UNCHANGED scan
    \/ RefuseLookup
    \/ Bind
    \/ Function

DiscoverySpec == DiscoveryInit /\ [][DiscoveryNext]_<<vars, scan>>

-----------------------------------------------------------------------------
(* Properties.                                                             *)

\* A discovery returns one consistent answer of Loki, in its order and whole: chunks
\* do not mix two answers, and no end of the data is reported before the last row.
OneWholeAnswer ==
    input.kind = "discovery" /\ output # <<>> =>
        \E k \in DOMAIN answers :
            LET whole == Parsed(answers[k])
            IN /\ Len(output) <= Len(whole)
               /\ output = SubSeq(whole, 1, Len(output))
               /\ status = "done" => output = whole

\* Whether a call asks for a bound on a side, and the instant it means: what the user
\* gave, or the last hour in the series table; nothing in the labels table.
Asks(side) ==
    \/ input.via = "series table"
    \/ input.via # "labels table" /\ input[side] # Omitted

AskedNs(side) ==
    IF input.via = "series table" THEN (IF side = "start" THEN input.now - Hour ELSE input.now)
    ELSE IF IsInstant(input[side]) THEN input[side].at * NanosPerMicro
    ELSE input.now + Offset(input[side])

\* The window Loki gets is the one asked for, in functions and tables: a bound at or
\* after the epoch is sent as the instant it means, also the epoch itself, and no other
\* bound ever is: one before the epoch is dropped, as if it were not given, which is what
\* the code does and not what README.md:282-283 says.
AskedWindow ==
    input.kind = "discovery" /\ status = "open" =>
        \A side \in {"start", "end"} :
            IF Asks(side) /\ AskedNs(side) >= 0 THEN request[side] = AskedNs(side)
            ELSE request[side] = Omitted
=============================================================================
