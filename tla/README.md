# Verification of duckdb-loki

TLA+ models of the DuckDB extension in this repository, which queries Grafana Loki
from SQL. Sources are named relative to `src/`; the extension's code is
`src/loki/*.cpp` and `src/include/loki/*.hpp`.

- `tlc -config <cfg> <MC module>` checks a run, `tlapm <module>.tla` the proofs of a module whose
  name ends in `Proofs`.
- `PROJECT.json` lists runs, mutants, findings and hazards, and maps each definition to
  the lines it models.

## 1. The system

| component | code | state | operations |
|---|---|---|---|
| Paging engine | `pager.cpp` | cursor, emitted count, last requested size, done flag, boundary keys | `NextRequest`, `Accept` |
| Scan function | `loki_scan.cpp` (`LokiScanFunction`) | page buffer and offset, pager | one call of DuckDB's executor |
| Filter pushdown | `loki_scan.cpp` | matchers, line filters, pushed bounds in the bind data | `LokiBind`, `LokiPushdownComplexFilter`, `LokiScanInitGlobal` |
| LogQL builder | `logql.cpp` | none | `BuildSelectorQuery`, escaping |
| Label cache | `catalog.cpp` (`LokiCatalog`) | published generation, retired ones, next check, two locks | TTL refresh, PRAGMA refresh, pin, lookup |
| Transactions | `catalog.cpp` (`LokiTransactionManager`) | the pin of each transaction | start, commit, rollback |
| ATTACH, schemas, PRAGMA | `catalog.cpp` (`LokiAttach`, schema entries, `LokiRefreshLabelsPragma`) | the attached databases and their schemas | attach, look up a schema, refresh one or all |
| Connection | `connection.cpp`, `secret.cpp`, `auth.cpp` | the secrets | create and drop a secret, choose one, refine it by options, headers |
| Time bounds | `time_bounds.cpp`, `ResolveTimeBound` | none | checked arithmetic, durations |
| Discovery, series | `loki_discovery.cpp`, `labels` and `series` tables | fetched flag, rows, offset | bind, one request, chunks |
| HTTP, parser | `http_*.cpp`, `parse.cpp` | none | request text, JSON to entries |

How they interact. `CREATE SECRET` stores connection options. `ATTACH` resolves a connection
from the options, a secret and the environment, asks Loki for each tenant's labels and makes
one schema per tenant. A query binds (connection, time bounds, arguments), the optimizer hands
over the WHERE conjuncts (pushdown), `LokiScanInitGlobal` assembles the LogQL text and the
window and makes a pager, and the executor then calls the scan function until it returns an
empty chunk. The scan function alternates between the pager and the HTTP client, in one
thread (`MaxThreads` is 1). On an attached database the executor's `logs` scan is the same
code; before it, every transaction start goes through the label cache, which may do HTTP
itself. The cache is the one piece of state that connections share. The discovery functions
share nothing with it: each sends its own request.

What is hard here:

- *Paging over a boundary nanosecond.* Loki has no cursor, only an inclusive start and an
  exclusive end. Each page serves the boundary nanosecond again; a set of keys drops what was
  already returned, while Loki ingests entries and groups its answers by stream.
- *Concurrency of refreshes.* A TTL refresh tries the lock, a PRAGMA waits for it, both fetch
  outside the lock that publishes, and transactions must see one generation.
- *Failure in the middle.* A page fails after rows were delivered; one tenant of several fails;
  one database of several fails in a bare PRAGMA.
- *Two semantics for one predicate.* SQL's NULL, casts and negation against Loki's empty label
  values and uncast comparison; a predicate is erased only if Loki honours it exactly.
- *Text inside text.* The user's selector is cut at its braces, and braces occur in strings.
- *Who is asked, as whom.* A path, a named secret, a default secret, scopes, inline options,
  tenants and extra headers all decide where a request goes and what it carries.
- *Arithmetic at the ends of int64_t.*

What makes each component correct:

- pager: no duplicate, no gap, order, completeness below the limit, termination;
- scan function: rows conserved over chunks and pages, failures surface, scans end;
- pushdown: nothing lost, nothing extra, nothing claimed that Loki does not honour;
- LogQL builder: Loki reads the user's matchers and pipeline as they were written, and no query
  goes out without a selector or a matcher;
- label cache: published labels are what Loki served, never staler than before, one generation
  per transaction, PRAGMA takes effect, throttling and back-off, no blocking, no leak;
- ATTACH: tenants stay apart in scans and in their columns, columns are always well formed, a
  PRAGMA that succeeds has refreshed everything it had to;
- connection: a secret goes only where its scope allows, a named secret is used or the
  statement fails, an option given inline decides its field whatever the secret says;
- time bounds: exact or rejected;
- discovery: one whole answer over all chunks, or an error; the window asked for is sent.

## 2. Modules

| module | models | kind |
|---|---|---|
| `PagedScan` | what a scan of a log window promises | abstract specification |
| `StreamPager` | `pager.cpp`, with Loki as an external store | detailed; refines `PagedScan` |
| `LokiScan` | `LokiScanFunction` on top of `StreamPager`, executor and failures | composition |
| `LogQL` | `BuildSelectorQuery`, and Loki's reading of the text | algorithm and reference |
| `Pushdown` | bind, the walk over WHERE, request window and refusal; EXTENDS `LogQL` | detailed |
| `TimeBounds` | checked arithmetic, intervals, durations | algorithm and reference |
| `Discovery` | five discovery entry points; EXTENDS `TimeBounds` | detailed |
| `Connection` | secrets, their choice, options, headers | detailed |
| `Attach` | ATTACH, schemas, scans' requests, PRAGMA over several databases; EXTENDS `Connection` | composition |
| `LabelStore` | what the label cache promises | abstract specification |
| `LabelCatalog` | label cache, PRAGMA and transactions of one attached database | detailed; refines `LabelStore` |
| `Subsequences` | what a loop that skips elements leaves of a sequence; used by `LogQL`, `Discovery`, `Attach` | algorithm |
| `...Proofs` | theorems, see section 5 | proofs |
| `MC...` | instances for TLC | |

### StreamPager

The variables `cursor`, `emitted`, `requested`, `done`, `boundary` are the class's members,
`waiting` is the call between `NextRequest` and `Accept`, `rows` the history of all batches.
`Accept` is one action: batch, exhaustion test, cursor step and boundary set, in the code's
order, with its three exits (exhausted, no progress, advance). An entry is a timestamp, a
*content* (its line and stream labels) and structured metadata; `EntryKey` leaves the last
out, as the code does.

Loki is external: `Answers` are the entries nearest to the edge of the scan, at most as many
as requested, ties cut arbitrarily. What the pager gets of an answer is a `Pages`: the parser
has dropped the `Garbled` entries, whose timestamp does not parse, before the pager counts.
The order inside a page is by stream and thus arbitrary in time, so which fresh entries the
user's limit cuts is a free choice (`Batches`). `Ingest` adds an entry at any instant, also
behind the cursor. The requested size is computed from the remaining limit plus the boundary
keys, capped (`DEFAULT_PER_REQUEST_CAP`, here `Cap`).

### LokiScan

`Call`, then `Fetch`/`Receive`/`Emit` until the chunk is full or nothing is left, then
`Return`; an empty chunk means the end to DuckDB. `Fail` stands for the three throws after an
HTTP call. `Abandon` is a plan that needs no more rows. Column layout and projection are left
out: they do not influence which rows appear. In its run the
pager also implements `PagedScan` (`ImplementsPagedScan`): what it delivers, batch by batch, is a
scan in order without gaps, and the boundary nanosecond read again on each page is invisible;
`RowsConserved` relates those batches to the chunks DuckDB gets.

### LogQL and Pushdown

A text is a sequence of tokens (`Token`): blanks, quotes, braces and commas, and runs of other
characters. `BuildSelectorQuery` cuts the trimmed selector at its first opening and last
closing brace, as the code does; `WellFormed`, `MatchersOf` and `PipelineOf` are how Loki
reads a text, where a brace or blank inside a string is part of the string.

`LokiBind` refuses a selector with text before its brace. `where` is the set of conjuncts,
`filters` those not yet walked; each `Try...` action is one branch of the switch and moves its
predicate out of `filters`, into the request or `residuals` or both. Order is arbitrary (the
optimizer's). `InitGlobal` or `Refuse` follows when all are walked. Predicates are records with
their SQL meaning (`Holds`); matchers and line filters have their Loki meaning (`Matches`,
`Passes`). Lines are short sequences over two characters, one of which is special in a regular
expression, so that anchoring, escaping and negation are real. Casts of the column appear as
the *resolution* of the cast type (`unit`) and as numeric casts of labels. One promoted label
suffices: conjuncts on different labels do not interact.

### TimeBounds and Discovery

The operators are the code's overflow tests, including the division that rounds to zero; they
are compared with unbounded arithmetic. A duration is read digit by digit. Finding the digits
and the suffix in the text is abstracted to a record; an unknown suffix or no digits is
`Malformed`.

`Discovery` adds `loki_labels`, `loki_label_values`, `loki_series` and the tables `labels` and
`series`: `Bind` or `RefuseLookup`, then one `FirstCall` that fetches, checks the cap of the
series table and emits the first chunk, or `FailedCall`, then `NextCall` until a chunk is
empty. A bound that is not given is -1 and a negative bound is not sent, as in the code.
`AskedWindow` says which bounds Loki gets, for the functions and the tables; a bound
before the epoch is among those never sent.

### Connection and Attach

`secrets` is DuckDB's secret store with what `CREATE SECRET` made of the options and, for the
env provider, the `LOKI_*` variables. Matching a scope is DuckDB's (`MatchScore`, external): the
longest prefix wins. `LookupBestLokiSecret` adds the tie rule for `__default_loki`. `Resolved` is
the field-by-field refinement, `BuildAuthHeaders` the headers in their order; `Reads` is a
server that takes the first of several headers with a name. `statement` remembers what the
last statement named and what connection it got.

`InlineOptionsReachWire` compares what a server reads with what the statement asks for: `Wanted`
is the option if it is given, also an empty one, else the secret's value. It says what becomes
of each field, given, cleared or replaced. Between fields a token goes before basic credentials
wherever it comes from; that an inline username and password should go before a secret's token
is `InlineBasicAuthWins`, which fails (finding 5).

An ATTACH is `StartAttach` (connection, then the checks of options), one `AttachTenant` or
`AttachFails` per request, and `Attached`. A PRAGMA is `BarePragma` or `NamedPragma`, then per
database `NextDatabase`, `RefreshTenant` for each tenant, `Refreshed` or `RefreshFails`, and
`PragmaDone`. ATTACH, PRAGMA and changes of the labels Loki serves interleave. The TTL, the
locks and the transactions of one database are `LabelCatalog`'s.

### LabelCatalog

Each connection is a thread with a program counter; it may be interrupted at each lock
operation, each HTTP answer and between a clock sample and its use. `refresh_lock` is `lock`;
the two critical sections under `snapshot_lock` are `KeepGeneration`/`PrepareGeneration` and
`Publish`, which are therefore separate steps. `use_count() == 1` is `StillHeld`: a pin of some
transaction. The label sets that Loki has served are a `history` per tenant, so "newer" can be
said although a set may return to an earlier value. `confirmed`, `asked`, `promised`,
`failedAt` and `seen` are history variables. `LabelStore` keeps of all this the history, what is
confirmed, the published columns and each transaction's view; a refresh is one step there.

## 3. Runs

| run | instance | shows |
|---|---|---|
| `pager_burst` | backward, window [1, 4), limit 5, cap 3; a burst of three contents at instant 2 with a structured-metadata twin and an unreadable timestamp, entries at 0, 1 and 3; 105,642 states | no duplicate, no gap, complete but for three named causes, termination |
| `pager_burst_complete` | a burst as large as a page | finding 1 |
| `loki_scan` | forward, pages of 3, chunks of 2, limit 5; 63,885 states | rows conserved, no silent truncation, scans end; the pager implements `PagedScan` |
| `pushdown` | all pairs of about 100 predicates, seven selectors, all bounds; about 720,000 states | nothing lost, nothing extra, the selector kept, a selector required |
| `pushdown_overclaims`, `_cast`, `_pipeline` | the predicates and selectors left out of `pushdown` | findings 2, 3, 4 |
| `label_catalog` | 2 connections, 2 tenants, 2 label sets, TTL 1, back-off 2, time to 3, one change; 812,560 states | safety of the cache, refinement of `LabelStore` |
| `label_catalog_liveness` | 2 connections, 1 tenant, 3 changes | bounds on generations, no blocking |
| `time_bounds` | 6-bit word, base 3, days of 7 ns; answers of up to 3 elements, chunks of 2, cap 2; 50,815 states | exact or rejected; one whole answer; the bounds asked for are sent, from the epoch on, and no others |
| `attach` | 2 databases, 2 secrets, 2 hosts, tenants that clash in case, label lists that clash with each other and with fixed columns; 348,029 states | scopes, named secrets, inline options, column names, tenant isolation, PRAGMA |
| `attach_basic_auth` | that of `attach` | finding 5 |

Bounds. The pager's properties concern one boundary at a time, so three nanoseconds (one
passed, one at the boundary, one ahead) and a cap of three reach every case: a boundary split
over pages, a page that yields no new row, the limit reached inside a boundary. Ingestion may
add every entry of the instance at every point. The two directions differ in sign only; each
has a run. Two connections are enough for each race of the cache (holder and rival); two
tenants for partial failure; the time bound lets the TTL elapse and a back-off pass
(`MaxTime`), and `MaxChanges` bounds how often Loki's labels change. In `attach` the answers of
each tenant are a finite list, and `MaxAttached` stops changes of secrets and function calls
once a database is attached: a database keeps the connection it was attached with, so later
changes of secrets do not reach it. Two databases suffice for a PRAGMA that fails between
them. Two predicates cover every interaction in `Pushdown`: they meet only in the window's
maximum and minimum and in conjunctions. Word sizes in `TimeBounds` are small enough to
enumerate all operands.

Symmetry. Connections and label sets are interchangeable in `label_catalog`, databases in
`attach`; these runs check no liveness.

`CHECK_DEADLOCK FALSE` stands where the system stops: a finished scan, a walked WHERE clause,
a decided bound, a discovery that is done. `attach`, `label_catalog` and its liveness run check
deadlock.

Where instances differ in what they claim. `CompleteOtherwise` says: complete, unless a
nanosecond fills a page (`Saturated`, finding 1), two entries differ in structured metadata only
(`Twins`: DESIGN.md 6.4 makes time, line and stream the key), or a timestamp is unreadable
(a page then looks short). `ImplementsPagedScan` is checked where none of the three occurs.
`pushdown` leaves out the predicates and selectors of findings 2 to 4, which have runs of
their own.

Fairness. `StreamPager` and `LokiScan` assume weak fairness of the pager's steps and of the
executor: one thread runs the scan function until it returns, and an HTTP request ends within
its timeout, with an answer or (in `LokiScan`) a failure. `LabelCatalog` assumes it of a
thread that *starts a transaction*, including its own fetch (5 s timeouts); nothing is assumed
of a connection that runs a PRAGMA, which is why `StartNeverBlocks` says something. Ingestion,
the clock and label changes are not fair.

## 4. Findings

1. `pager_burst_complete`: a nanosecond with as many entries as a page ends the scan without
   an error while older entries are unread (`pager.cpp:94`). DESIGN.md 6.4 promises to stop only
   at the limit or at a short page.
2. `pushdown_overclaims`: `label = ''` and `label IN ('a', '')` are erased, but Loki's matcher
   also accepts streams without the label, which SQL rejects (`loki_scan.cpp:313`).
3. `pushdown_cast`: the window is computed as if the timestamp were not cast. For
   `timestamp::DATE = d` or `<=` on a microsecond cast the pushed end is one nanosecond past the
   constant, and rows the predicate accepts are never fetched (`loki_scan.cpp:196`). The numeric
   cast of a label (`label = 5` against the value `05`) is lost in the same way.
4. `pushdown_pipeline`: the selector's end is the *last* closing brace of the whole text, so one
   in a string of the pipeline is taken for it (`logql.cpp:175`): `{job="api"}|= "}"` is sent as
   `{job="api"}|= "} "`. The comment above promises to preserve the pipeline as it is.
5. `attach_basic_auth`: options and secret are mixed field by field, and a token is preferred to
   basic credentials afterwards (`auth.cpp:46`). An inline username and password are dropped
   silently when the secret found for the endpoint has a token, and that token is sent;
   README.md:59-61 and the comment at `connection.cpp:185` say that inline options take
   precedence over the secret.

Disagreements met while modelling that no run is about:

- With no selector and a WHERE that only excludes a label value, or only says `label = ''`, a
  request is sent that Loki refuses with an error of its own; DESIGN.md 4.3 promises an error
  from the extension (`loki_scan.cpp:494`, `catalog.cpp:181`). `SelectorRequired` states the
  code's rule, `AcceptedIfNothingExcluded` when Loki accepts what is sent.
- A negative number of nanoseconds stands for a bound that was not given
  (`http_request.cpp:42`). `start :=` or `end :=` before 1970 is such a number, so it is dropped
  without an error and Loki answers for its default window, which README.md:282-283 promises
  only for a bound that is omitted. `AskedWindow` states what the code does.
- README.md:57 says a call without a `secret` "falls back to a secret named `loki`"; the code
  takes the best match for the endpoint, and `__default_loki` only wins a tie.
- Tenants that differ only in case are accepted, and `LookupSchema` finds the first of them
  (README.md:239-240 promises a schema per tenant); `TenantIsolation` leaves scans of them out.
- An endpoint `/` passes the check for an empty endpoint, which precedes the stripping.

## 5. Proofs

Eight modules hold proofs. Each theorem holds for every behaviour of its component's
specification, without fairness, and for every value of the constants that satisfies the
`ASSUME`s named with it; those describe what the code is given, and TLC evaluates them on each
run. Some have a further hypothesis (`Sparse`, `AllSafe`,
`OneTrailingSlash`, `PlainPipeline`), because without it the property is false: a run or an
example below says so. The instances of the runs that check the properties satisfy them.

| module | of | theorems |
|---|---|---|
| `StreamPagerProofs` | `StreamPager`, `PagedScan` | `TypeCorrect`, `NeverDuplicates`, `RequestsAlwaysUseful`, `AlwaysOrdered`, `Invariance`, `NeverSkips`, `MissesNothingElse`, `PagingIsInvisible` |
| `LokiScanProofs` | `LokiScan` | `ScanTypeCorrect`, `NoRowLost`, `EndMeansComplete`, `SparseNeverTruncated` |
| `LabelCatalogProofs` | `LabelCatalog`, `LabelStore` | `TypeCorrect`, `AllOrNothing`, `RefreshTakesEffect`, `RefreshesWhenDue`, `BacksOff`, `OneGeneration`, `NewerOnly`, `VersionsAreUnique`, `RetiredStaysBounded`, `CacheIsAtomicStore` |
| `LogQLProofs` | `LogQL` | `WrittenIsKept` |
| `PushdownProofs` | `Pushdown` | `NothingLost`, `NothingExtra`, `ClaimsAreHonored`, `TypeCorrect`, `SelectorIsKept`, `RefusedForSelector`, `AcceptedIfNothingExcluded` |
| `DiscoveryProofs` | `TimeBounds`, `Discovery` | `ArithmeticStaysInRange`, `BoundsAreExact`, `RejectionsAreExact`, `WindowIsAsked`, `DiscoveryIsWhole` |
| `AttachProofs` | `Connection`, `Attach` | `TypeCorrect`, `NamedSecretsAreUsed`, `InlineOptionsWin`, `SecretsStayInScope`, `ColumnsAreWellFormed`, `TenantsAreIsolated`, `PragmaRefreshes` |
| `CollectionProofs` | | lemmas on finite sets, maxima and subsequences that the others cite |

### StreamPagerProofs

For all windows, directions, limits, caps and finite sets of entries:

| theorem | property |
|---|---|
| `TypeCorrect` | `TypeOK`: every row is an entry of the query window |
| `NeverDuplicates` | `NoDuplicates`: count equals distinct rows, at most the limit |
| `RequestsAlwaysUseful` | `RequestsAreUseful`: the request fits the limit and leaves room beyond the boundary |
| `AlwaysOrdered` | `OrderedDelivery`: pages are delivered in the scan's order |
| `Invariance` | `PagerInv`, the inductive invariant |

Assumptions: `EntryAssumption` (finitely many entries), `WindowAssumption`,
`DirectionAssumption`, `LimitAssumption` (limit and cap positive; the limit is checked at bind).

The argument. None of the properties is inductive. That a row is not returned twice needs: the
next page holds nothing beyond the boundary nanosecond (`Frontier`, first part), and of the
boundary nanosecond the set holds the key of *every* row returned (`Frontier`, second part).
That the boundary set is no larger than the rows (`BoundaryReturned`) bounds the request:
remaining + boundary <= remaining + emitted = limit. That the window of the next request lies
in the query window is `CursorInQuery`; that the count is that of a set, `Counted`; that the
request in flight was computed from the present boundary, `RequestInFlight`. Their conjunction
`PagerInv` is inductive (`InitInv`, `StepInv`).
`StepInv` has one case per action, and for `Accept` one lemma per exit (`AcceptStop`,
`AcceptAdvance`) over the rows' part common to both (`AcceptRows`).

What a scan leaves out, on top of `PagerInv` and with the same assumptions:

| theorem | property |
|---|---|
| `NeverSkips` | `NoGap`: nothing nearer to the scan's start than a returned row is missing |
| `MissesNothingElse` | `CompleteOtherwise`: below the limit, a scan is complete but for the three named causes |
| `PagingIsInvisible` | `ImplementsPagedScan`: where none of the causes can occur (`Sparse`), the pager refines `PagedScan` |

The argument. `NoGap` needs that what the cursor has left behind was returned
(`PassedReturned`), and that the boundary keys are those of exactly the nanosecond that is
served again (`BoundaryAtEdge`); with `Stored` they form `GapInv`. The step that matters is
`Accept` (`AcceptNoGap`): Loki cuts an answer that is as long as the request only *behind* its
farthest entry, so what is nearer is in the page (`NearerIsInPage`), and is new or has its
key in the boundary. For completeness, an answer shorter than the request is all there is
(`AcceptComplete`), and a cursor that does not move means a saturated nanosecond
(`NoProgress`, `StuckIsSaturated`). The refinement maps an `Accept` to a delivery of a batch
or the end of the scan, an `Ingest` to growth, and a `NextRequest` to a stutter.

### LokiScanProofs

For all chunk sizes in addition:

| theorem | property |
|---|---|
| `ScanTypeCorrect` | `ScanTypeOK` |
| `NoRowLost` | `RowsConserved`: a row is in the buffer, in the chunk or delivered, and in one of them |
| `EndMeansComplete` | but for the three causes, `NoSilentTruncation` |
| `SparseNeverTruncated` | where the causes cannot occur (`Sparse`), `NoSilentTruncation` |

Every step of the scan is a step or a stutter of the pager (`ScanIsPager`), so `PagerInv` and
`GapInv` carry over. `ScanInv` adds that a request is only built when the last page is used up
(`FetchesWhenEmpty`; otherwise rows would be overwritten) and that an empty chunk means an empty
buffer and a pager that is done (`FinishesWhenDrained`).

### LabelCatalogProofs

For all sets of connections, numbers of tenants, label sets, TTLs and back-offs:

| theorem | property |
|---|---|
| `TypeCorrect` | `TypeOK` |
| `AllOrNothing` | `Accurate`: the published columns are one successful refresh's, for every tenant |
| `RefreshTakesEffect` | `PragmaTakesEffect`: after a PRAGMA nobody is given older columns |
| `RefreshesWhenDue` | `Throttled`: a time-based refresh runs only when it is due |
| `BacksOff` | `OutageBackoff`: an outage is paid for once per back-off |
| `OneGeneration` | `OneGenerationPerTransaction` |
| `NewerOnly` | `NeverStaler`: no step replaces columns by staler ones |
| `VersionsAreUnique` | `VersionsNameGenerations`: a version names one generation |
| `RetiredStaysBounded` | `RetiredBounded`: at most one superseded generation per connection is kept |
| `CacheIsAtomicStore` | `ImplementsLabelStore`: `LabelCatalog` refines `LabelStore` |

Assumptions: `TenantAssumption`, `ConfigAssumption`, `BoundAssumption`, `NoGenAssumption`. The
bounds `MaxTime` and `MaxChanges` may be any naturals.

The argument. The inductive invariant `IInv` adds to the properties what the code relies on
without saying so. `LockHeld`: from its first request to its last assignment a refresh holds
the lock, so there is one at a time. `FetchedInv`: what it has fetched was served by Loki and is
not older than what is published; without the lock, a rival could publish newer labels
meanwhile, and `Accurate` and `NeverStaler` would fail. `RequestedInv`: what a PRAGMA has
fetched was served after it was issued, and at its end is confirmed; this gives
`PragmaTakesEffect`. `PinnedInv`: a transaction has a pin from its start to its end and has
looked up that generation only. `ChecksInv`: the next check is at least a back-off after the
last failure, also if another refresh succeeded in between; with `Throttled` this gives
`OutageBackoff`. `InitInv` and `NextInv` show that it is inductive, one lemma per action or group
of actions. The refinement maps a publication to `Refresh`, a pin to `Start`, an end to `End`
and every other step to a stutter (`StoreStep`); `FetchedInv` shows that the answers lie between
the confirmed one and the latest.

A second invariant, `GenerationInv`, is about generations: the version that is about to be
published was drawn from what is still published (`FreshVersion`, again thanks to the lock), so
it is new; and what is retired is what some connection had pinned at the last publication,
so there is at most one per connection (`HeldAreFew`).

### LogQLProofs

For texts of every length over any set of tokens:

| theorem | says |
|---|---|
| `WrittenIsKept` | of a well-formed selector, matchers that are `CleanTexts` and filters that are `Closed`, Loki reads in `BuildSelectorQuery`'s text the selector's matchers and then the others, and the selector's pipeline and then the filters |

Its hypothesis `PlainPipeline` is that no closing brace follows the one that ends the
selector: `pushdown_pipeline` (finding 4) shows what happens to the others. A closing brace in a
string *before* that one is allowed.

The argument. Whether a token is inside a string depends on how many quotes come before it, so
a text put behind another reads the same if the other is `Balanced` (`InStringConcat`), and its
braces and blanks are those it had (`ClosingsConcat`, `InkConcat`). Texts without an unquoted
closing brace (`CleanTexts`), and texts whose strings are closed (`Closed`), can be joined
(`JoinedTexts`); an escaped and quoted value is one of them, whatever it contains
(`QuotedIsClean`). Trimming changes nothing that Loki reads (`TrimReads`). The selector
is then taken apart at the braces the code finds (`TakenApart`), and put together again with the
additions (`PutTogether`). `FlattenSeq` is a recursive function: the induction over its argument
is on sets of sequences, as in `CollectionProofs`.

### PushdownProofs

For every set of entries, every WHERE clause of any number of conjuncts walked in any order,
every window, default and pushed bound:

| theorem | property |
|---|---|
| `NothingLost` | `NoLostRows` |
| `NothingExtra` | `NoExtraRows` |
| `ClaimsAreHonored` | `NeverOverclaims` |
| `TypeCorrect` | `TypeOK`, for all predicates: bounds in `int64_t`, the query a text |
| `SelectorIsKept` | `KeepsSelector`, for all predicates |
| `RefusedForSelector` | `SelectorRequired`, for all predicates |
| `AcceptedIfNothingExcluded` | `SentOnlyIfAccepted`, if every predicate is safe and no conjunct is `label != value` (`NoExclusions`) |

Assumptions: `PushdownAssumption`, `EntryAssumption` (timestamps of `int64_t`, no empty label
value: Loki drops these), `CallAssumption`, and for the last four `TextAssumption` (selectors
and label values are texts over `Token`). The first three and the last have the hypothesis
`AllSafe`: each predicate is `Safe`, that is, none of those for which `pushdown_overclaims` and
`pushdown_cast` show the property to fail. `Safe` also keeps an IN list from having an empty
value behind another, which is the same finding. The run `pushdown` takes all predicates of its
instance that are `Safe`.

The argument. `WalkInv`: at each point of the walk, what has been pushed keeps every entry that
satisfies the predicates walked (`KeepsAsked`), every erased predicate is enforced by what has
been pushed (`NeverOverclaims`), and a side of the window has a pushed bound iff a walked
predicate bounds it (`BoundsMean`; otherwise the default hour would be given up, or kept,
without reason). One lemma per kind of predicate shows that its translation means the same
(`EqualMatches`, `UnequalMatches`, `ListMatches`, `LineFilterPasses`, `TimestampBounds`), one per
action that it preserves `WalkInv`. `WindowMeans` then combines explicit, pushed and default
bounds.

For the text, `QueryInv`: what is pushed at each point of the walk can be written (`Writable`:
finitely many matchers and line filters, with operators Loki has and values that have a
spelling), and the query is the text made of it at the end. `PushedTexts` shows that the texts of
matchers and filters are those `WrittenIsKept` asks for, so `SelectorIsKept` follows for every
call whose selector has a `PlainPipeline`. `RefusedForSelector` relates the code's test of two
characters to what it stands for: a query begins with `{}` iff nothing was written between
(`BareQuery`), and a matcher's text never begins with a brace (`MatcherTextsBegin`). Its
hypothesis leaves out selectors such as `{}}`, which no grammar accepts. The code's rule does not
say that Loki accepts the query (section 4); `AcceptedIfNothingExcluded` says when it does.

### DiscoveryProofs

For every word size, number of nanoseconds per unit, and radix; for durations, answers and
chunks of every length:

| theorem | property |
|---|---|
| `ArithmeticStaysInRange` | `TypeOK` |
| `BoundsAreExact` | `Exact`: what is accepted is the exact value |
| `RejectionsAreExact` | `RejectedForCause`: what is rejected has no exact value |
| `WindowIsAsked` | `AskedWindow`: bounds asked for from the epoch on are sent, in functions and tables, and no others |
| `DiscoveryIsWhole` | `OneWholeAnswer`: the chunks are one whole answer |

Assumptions: `WordAssumption`, `FactorAssumption` (units and radix fit the word),
`InputAssumption` (DuckDB's intervals and instants are `int64_t`, a digit is below the radix),
`OutcomeAssumption`, `DiscoveryAssumption`.

The argument. `MultiplicationFits` is the heart: the code decides by C++ quotients whether a
product fits, in four sign cases with exceptions at -1 and at the smallest integer; the
lemma says that it decides exactly that. `ResolvedExactly` composes the checks of an interval.
For a duration, `BoundsInv` relates the accumulated value to the number that the digits read so
far stand for; `NumbersRise` says that these numbers only grow, so a prefix that does not fit
the word condemns the whole (`TooLongForWord`). The numbers are a recursive function; its
defining equation and its monotonicity are proved for every length by induction
(`NatSetInduction` of `CollectionProofs`, which speaks of sets of numbers instead of
predicates). `WindowInv` says what an open discovery has sent; `AnswerInv`, that the rows are
those of one answer and the output is their first `offset`.

### AttachProofs

For any databases, secrets, tenants, options and answers:

| theorem | property |
|---|---|
| `NamedSecretsAreUsed` | `NamedSecretUsed` |
| `InlineOptionsWin` | `InlineOptionsReachWire`: fields given, cleared or replaced inline, whatever the secret |
| `SecretsStayInScope` | `SecretFits`, if no scope ends in two slashes (`OneTrailingSlash`) |
| `TypeCorrect` | `TypeOK` |
| `ColumnsAreWellFormed` | `ColumnsWellFormed` |
| `TenantsAreIsolated` | `TenantIsolation` |
| `PragmaRefreshes` | `PragmaRefreshesAll` |

Assumptions: `ConfigurationAssumption` and `CallAssumption` (options have their declared types),
`AnswersAssumption`, `OrgAssumption` (Loki answers whatever tenant it is asked for, so `Answers`
covers those the constants mention), `LowerAssumption` (the fixed column names are in lower
case, as in the code), `BoundAssumption`.

`OneTrailingSlash` came out of the proof: the secret is chosen by the endpoint as written, and
the endpoint's trailing slashes are cut off afterwards (`connection.cpp:214`). The scope
`https://h//` fits the endpoint `https://h//`, but the requests go to `https://h/loki`, outside
it. With one trailing slash the slash before `loki` makes up for the one cut off
(`ScopeSurvives`).

The argument. `ConnectionInv`: the secrets are made by `CREATE SECRET` (`SecretsInv`), and the
last statement's connection is one that the resolution gives *for the secrets as they are*
(`StatementInv`); so the properties of a connection are those of the resolution, whose
refinements and headers are taken apart in `RefineConfiguration`, `ResolvedConfiguration`,
`ConnectedAsWanted` and `HeadersRead`; where nothing of its own precedes them, a server reads the
extra headers (`ReadsTail`). `CatalogInv`: an attached database, an ATTACH half way and a PRAGMA half way have
only schemas with well-formed columns from an answer to their own tenant (`SchemaOK`), and of a
PRAGMA each database is still to do, under way, or fresh (`PragmaOK`); what another connection
attaches meanwhile is not among them, and labels that change only add later answers
(`LabelsChange`). That the columns are distinct is `PromotedWellFormed` and `ColumnsDistinct`.

### Only model-checked

- Liveness (`Termination`, `ScanEnds`, `StartNeverBlocks`): the prover does not reason about
  ENABLED.
- The properties of the violation runs, which do not hold. `Complete`, `NoLostRows`,
  `NeverOverclaims` and `KeepsSelector` are proved under the hypotheses
  above; the cases these leave out are the findings. What does hold of finding 5 is
  `InlineOptionsReachWire`.
- That `Holds`, `Matches` and `Passes` are what DuckDB and Loki mean, and the other external
  definitions, are part of the models.

## 6. Not modelled

- The syntax of JSON, URL encoding, base64 and sockets (`parse.cpp`, `http_client.cpp`,
  `http_request.cpp`, part of `auth.cpp`): conversions and I/O. What they decide is in the
  modules: which elements the parser skips (`Pages`, `Parsed`), which bounds are sent (`Sent`),
  and failures as actions.
- What a pipeline does to the labels of the rows it lets through: `Pushdown` keeps the pipeline's
  text and reads labels of streams.
- Column projection and how rows are written into DuckDB's vectors.
- The text of options: booleans, header maps and the splitting of comma-separated lists.
- DETACH: DuckDB's own, no code here takes part.
- A lookup outside a transaction (DuckDB's system catalog transaction) takes raw pointers into
  a generation that nothing pins; which paths do so is DuckDB's to say. Listed as a hazard.
- A wall clock that is stepped back, and a TTL of centuries added to it. Listed as hazards.
- `loki_extension.cpp` registers functions and has no state.

## 7. Plan

Done: every module of section 2, in this order: paging, scan, label cache, pushdown, time
bounds; then the LogQL builder, discovery, connections, ATTACH; then the label store, its
refinement and the proofs about the cache.

Proved since: the rest of paging with its refinement and the scan function, generations,
pushdown, the arithmetic and discovery, connections and ATTACH, and the text of the query. Every
safety property that a passing run checks is a theorem.

Left: `Attach` composed with `LabelCatalog`, that is, time-based refreshes of several databases
under one statement.
