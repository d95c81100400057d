---------------------------- MODULE LabelCatalog ----------------------------
(***************************************************************************)
(* The label cache of an attached Loki database (src/loki/catalog.cpp,     *)
(* LokiCatalog and LokiTransactionManager).  Starting a transaction may    *)
(* re-fetch the label names of every tenant when the TTL has elapsed;      *)
(* PRAGMA loki_refresh_labels re-fetches them on request.  A refresh       *)
(* publishes an immutable generation, and a transaction pins the one that  *)
(* is current when it starts.                                              *)
(*                                                                         *)
(* Connections are threads that interleave at every lock and at every HTTP *)
(* answer.  Loki's label sets change at any time and its answers may fail. *)
(***************************************************************************)
EXTENDS Integers, Sequences, FiniteSets, FiniteSetsExt

CONSTANTS
    Conn,           \* connections of the DuckDB process
    NTenants,       \* config.tenants is 1 .. NTenants
    LabelSet,       \* the label-name lists a tenant may have
    LabelsPinned,   \* ATTACH had an explicit `labels` option
    Ttl,            \* config.label_cache_ttl_ns; 0 disables the time-based path
    Backoff,        \* REFRESH_BACKOFF_NS
    MaxTime,        \* bound: the clock runs from 0 to MaxTime
    MaxChanges,     \* bound: changes of one tenant's label set
    NoGen           \* no generation pinned

ASSUME TenantAssumption == NTenants \in Nat \ {0} /\ IsFiniteSet(Conn)
ASSUME ConfigAssumption == LabelsPinned \in BOOLEAN /\ Ttl \in Nat /\ Backoff \in Nat
ASSUME BoundAssumption == MaxTime \in Nat /\ MaxChanges \in Nat

Tenant == 1 .. NTenants

Generation == [version : Nat, labels : [Tenant -> LabelSet]]

ASSUME NoGenAssumption == NoGen \notin Generation \cup [Tenant -> LabelSet] \cup Conn

VARIABLES
    time,        \* the wall clock
    history,     \* [Tenant -> label sets Loki has served], oldest first (external)
    current,     \* the published generation: [version, labels]
    retired,     \* superseded generations still kept
    nextCheck,   \* next_check_ns
    lock,        \* holder of refresh_lock, or NoGen
    pc,          \* where each connection is
    now,         \* now_ns sampled by MaybeRefreshLabels
    job,         \* the DoRefresh in progress: [got, version], got[t] an index
                 \* into history[t]
    pins,        \* the generation each open transaction holds
    seen,        \* history: versions the open transaction has looked up
    confirmed,   \* history: which label set of each tenant `current` stands for
    asked,       \* history: the latest label sets when a PRAGMA began
    promised,    \* history: the latest label sets a successful PRAGMA was asked for
    failedAt     \* history: sample of the last failed time-based check, unless
                 \* a PRAGMA has succeeded since

loki == <<time, history>>
catalog == <<current, retired, nextCheck, lock>>
ghost == <<seen, confirmed, asked, promised, failedAt>>
vars == <<loki, catalog, pc, now, job, pins, ghost>>

NotAsked == [t \in Tenant |-> 0]
NoJob == [got |-> <<>>, version |-> 0]

Goto(c, to) == pc' = [pc EXCEPT ![c] = to]

Latest(t) == Len(history[t])

-----------------------------------------------------------------------------
(* Loki and the clock.                                                     *)

Tick ==
    /\ time < MaxTime
    /\ time' = time + 1
    /\ UNCHANGED <<history, catalog, pc, now, job, pins, ghost>>

\* A tenant's label set changes, possibly back to an earlier one.
ChangeLabels(t) ==
    /\ Latest(t) <= MaxChanges
    /\ \E l \in LabelSet \ {history[t][Latest(t)]} :
          history' = [history EXCEPT ![t] = Append(@, l)]
    /\ UNCHANGED <<time, catalog, pc, now, job, pins, ghost>>

-----------------------------------------------------------------------------
(* StartTransaction: MaybeRefreshLabels, then PinCurrentSnapshot.          *)

TimeBased == ~LabelsPinned /\ Ttl # 0

\* The clock is sampled once; what follows uses the sample.
Begin(c) ==
    /\ pc[c] = "idle"
    /\ now' = [now EXCEPT ![c] = time]
    /\ Goto(c, IF TimeBased /\ time >= nextCheck THEN "due" ELSE "pin")
    /\ UNCHANGED <<loki, catalog, job, pins, ghost>>

\* Mutated form of StillDue: no second comparison under the lock.
DueOnce(c) == pc[c] = "due"

\* Under the lock, the sample is compared again: another connection may have
\* refreshed since.
StillDue(c) == now[c] >= nextCheck

\* The lock is free and the check still due: start to fetch.
TtlRefresh(c) ==
    /\ pc[c] = "due"
    /\ lock = NoGen
    /\ StillDue(c)
    /\ lock' = c
    /\ Goto(c, "fetch")
    /\ UNCHANGED <<loki, current, retired, nextCheck, now, job, pins, ghost>>

\* Mutated form of SkipsWhenBusy: the TTL path queues for the lock.
QueuesWhenBusy == FALSE

\* try_lock: another connection's refresh is not waited for.
SkipsWhenBusy == lock # NoGen

\* The refresh is in other hands, or has just been done: serve what there is.
TtlSkip(c) ==
    /\ pc[c] = "due"
    /\ SkipsWhenBusy \/ (lock = NoGen /\ ~StillDue(c))
    /\ Goto(c, "pin")
    /\ UNCHANGED <<loki, catalog, now, job, pins, ghost>>

Pin(c) ==
    /\ pc[c] = "pin"
    /\ pins' = [pins EXCEPT ![c] = current]
    /\ now' = [now EXCEPT ![c] = 0]
    /\ Goto(c, "open")
    /\ UNCHANGED <<loki, catalog, job, ghost>>

-----------------------------------------------------------------------------
(* DoRefresh, and what its two callers do with its outcome.                *)

\* The caller is MaybeRefreshLabels when the connection has no transaction yet.
OnTtlPath(c) == pins[c] = NoGen

Fetching(c) == pc[c] = "fetch"

\* One tenant's labels arrive.
FetchTenant(c) ==
    /\ Fetching(c)
    /\ Len(job[c].got) < NTenants
    /\ job' = [job EXCEPT ![c].got = Append(@, Latest(Len(@) + 1))]
    /\ UNCHANGED <<loki, catalog, pc, now, pins, ghost>>

\* Mutated form of FetchedLabels: a refresh that reaches the first tenant only.
FetchedHalf(c) ==
    [t \in Tenant |-> IF t = 1 THEN history[t][job[c].got[t]] ELSE current.labels[t]]

\* Mutated form of FetchedLabels: the vector loses its last tenant.
FetchedShort(c) == [t \in 1 .. (NTenants - 1) |-> history[t][job[c].got[t]]]

FetchedLabels(c) == [t \in Tenant |-> history[t][job[c].got[t]]]

\* Mutated form of Unchanged: only the first tenant is compared.
UnchangedFirst(c) == current.labels[1] = FetchedLabels(c)[1]

Unchanged(c) == current.labels = FetchedLabels(c)

\* All tenants answered: under snapshot_lock, nothing new ends the refresh.
KeepGeneration(c) ==
    /\ Fetching(c)
    /\ Len(job[c].got) = NTenants
    /\ Unchanged(c)
    /\ confirmed' = [t \in Tenant |-> job[c].got[t]]
    /\ Goto(c, "settle")
    /\ UNCHANGED <<loki, catalog, now, job, pins, seen, asked, promised, failedAt>>

\* ... and something new takes the next version number.
PrepareGeneration(c) ==
    /\ Fetching(c)
    /\ Len(job[c].got) = NTenants
    /\ ~Unchanged(c)
    /\ job' = [job EXCEPT ![c].version = current.version + 1]
    /\ Goto(c, "publish")
    /\ UNCHANGED <<loki, catalog, now, pins, ghost>>

\* Mutated form of StillHeld: superseded generations are never dropped.
KeepAll(gens) == gens

\* Generations some transaction is still reading.
StillHeld(gens) == {g \in gens : \E c \in Conn : pins[c] = g}

Publish(c) ==
    /\ pc[c] = "publish"
    /\ current' = [version |-> job[c].version, labels |-> FetchedLabels(c)]
    /\ retired' = StillHeld(retired \cup {current})
    /\ confirmed' = [t \in Tenant |-> job[c].got[t]]
    /\ Goto(c, "settle")
    /\ UNCHANGED <<loki, nextCheck, lock, now, job, pins, seen, asked, promised, failedAt>>

\* The refresh is over, its locals die and refresh_lock is released.
Leave(c, to) ==
    /\ job' = [job EXCEPT ![c] = NoJob]
    /\ lock' = NoGen
    /\ Goto(c, to)

\* MaybeRefreshLabels: the next check counts from the sample taken before.
TtlDone(c) ==
    /\ pc[c] = "settle"
    /\ OnTtlPath(c)
    /\ nextCheck' = now[c] + Ttl
    /\ failedAt' = 0 - Backoff
    /\ Leave(c, "pin")
    /\ UNCHANGED <<loki, current, retired, now, pins, seen, confirmed, asked, promised>>

\* Mutated form of FailureWait: a failed check is repeated after the TTL.
FailureNoBackoff == Ttl

FailureWait == Max({Ttl, Backoff})

\* A tenant that fails aborts the refresh; the TTL path swallows the error.
TtlFail(c) ==
    /\ Fetching(c)
    /\ OnTtlPath(c)
    /\ Len(job[c].got) < NTenants
    /\ nextCheck' = now[c] + FailureWait
    /\ failedAt' = now[c]
    /\ Leave(c, "pin")
    /\ UNCHANGED <<loki, current, retired, now, pins, seen, confirmed, asked, promised>>

\* RefreshLabels samples the clock after the refresh.
PragmaDone(c) ==
    /\ pc[c] = "settle"
    /\ ~OnTtlPath(c)
    /\ nextCheck' = time + Ttl
    /\ promised' = [t \in Tenant |-> Max({promised[t], asked[c][t]})]
    /\ asked' = [asked EXCEPT ![c] = NotAsked]
    /\ failedAt' = 0 - Backoff
    /\ Leave(c, "open")
    /\ UNCHANGED <<loki, current, retired, now, pins, seen, confirmed>>

\* The error surfaces; only the lock is released.
PragmaFail(c) ==
    /\ Fetching(c)
    /\ ~OnTtlPath(c)
    /\ Len(job[c].got) < NTenants
    /\ asked' = [asked EXCEPT ![c] = NotAsked]
    /\ Leave(c, "open")
    /\ UNCHANGED <<loki, current, retired, nextCheck, now, pins, seen, confirmed, promised, failedAt>>

-----------------------------------------------------------------------------
(* What a connection with an open transaction does.                        *)

\* PRAGMA loki_refresh_labels: refused when the labels are pinned.
Pragma(c) ==
    /\ pc[c] = "open"
    /\ ~LabelsPinned
    /\ asked' = [asked EXCEPT ![c] = [t \in Tenant |-> Latest(t)]]
    /\ Goto(c, "want")
    /\ UNCHANGED <<loki, catalog, now, job, pins, seen, confirmed, promised, failedAt>>

\* Mutated form of LockGranted: the PRAGMA does not take refresh_lock.
LockIgnored == TRUE

LockGranted == lock = NoGen

PragmaRefresh(c) ==
    /\ pc[c] = "want"
    /\ LockGranted
    /\ lock' = c
    /\ Goto(c, "fetch")
    /\ UNCHANGED <<loki, current, retired, nextCheck, now, job, pins, ghost>>

\* Mutated form of PinnedSnapshot: lookups read the published generation.
PublishedSnapshot(c) == IF pins[c] = NoGen THEN NoGen ELSE current

PinnedSnapshot(c) == pins[c]

\* The binder looks up a schema or a table, at bind time or during execution.
Lookup(c) ==
    /\ pc[c] = "open"
    /\ seen' = [seen EXCEPT ![c] = @ \cup {PinnedSnapshot(c).version}]
    /\ UNCHANGED <<loki, catalog, pc, now, job, pins, confirmed, asked, promised, failedAt>>

\* Commit or rollback.
End(c) ==
    /\ pc[c] = "open"
    /\ pins' = [pins EXCEPT ![c] = NoGen]
    /\ seen' = [seen EXCEPT ![c] = {}]
    /\ Goto(c, "idle")
    /\ UNCHANGED <<loki, catalog, now, job, confirmed, asked, promised, failedAt>>

-----------------------------------------------------------------------------
\* ATTACH has discovered the labels; the constructor and Initialize publish
\* generation 0, and the attach counts as the first check.
Init ==
    /\ time = 0
    /\ history \in [Tenant -> {<<l>> : l \in LabelSet}]
    /\ current = [version |-> 0, labels |-> [t \in Tenant |-> history[t][1]]]
    /\ retired = {}
    /\ nextCheck = time + Ttl
    /\ lock = NoGen
    /\ pc = [c \in Conn |-> "idle"]
    /\ now = [c \in Conn |-> 0]
    /\ job = [c \in Conn |-> NoJob]
    /\ pins = [c \in Conn |-> NoGen]
    /\ seen = [c \in Conn |-> {}]
    /\ confirmed = [t \in Tenant |-> 1]
    /\ asked = [c \in Conn |-> NotAsked]
    /\ promised = [t \in Tenant |-> 1]
    /\ failedAt = 0 - Backoff

Refresh(c) ==
    \/ FetchTenant(c)
    \/ KeepGeneration(c)
    \/ PrepareGeneration(c)
    \/ Publish(c)

StartTransaction(c) ==
    \/ TtlRefresh(c)
    \/ TtlSkip(c)
    \/ TtlDone(c)
    \/ TtlFail(c)
    \/ Pin(c)

Connection(c) ==
    \/ Begin(c)
    \/ StartTransaction(c)
    \/ Refresh(c)
    \/ Pragma(c)
    \/ PragmaRefresh(c)
    \/ PragmaDone(c)
    \/ PragmaFail(c)
    \/ Lookup(c)
    \/ End(c)

Next ==
    \/ Tick
    \/ \E t \in Tenant : ChangeLabels(t)
    \/ \E c \in Conn : Connection(c)

Spec == Init /\ [][Next]_vars

\* A thread that starts a transaction keeps running, and its HTTP requests are
\* bounded by a timeout.  Nothing is assumed of a connection that runs a PRAGMA.
OwnStart(c) == StartTransaction(c) \/ (OnTtlPath(c) /\ Refresh(c))
FairSpec == Spec /\ \A c \in Conn : WF_vars(OwnStart(c))

-----------------------------------------------------------------------------
(* Properties.                                                             *)

TypeOK ==
    /\ time \in 0 .. MaxTime
    /\ history \in [Tenant -> Seq(LabelSet)]
    /\ current \in Generation
    /\ retired \in SUBSET Generation
    /\ nextCheck \in Int
    /\ lock \in Conn \cup {NoGen}
    /\ pc \in [Conn -> {"idle", "due", "pin", "open", "want", "fetch", "publish", "settle"}]
    /\ now \in [Conn -> 0 .. MaxTime]
    /\ job \in [Conn -> [got : Seq(Nat), version : Nat]]
    /\ pins \in [Conn -> Generation \cup {NoGen}]
    /\ seen \in [Conn -> SUBSET Nat]
    /\ confirmed \in [Tenant -> Nat]
    /\ asked \in [Conn -> [Tenant -> Nat]]
    /\ promised \in [Tenant -> Nat]
    /\ failedAt \in Int

\* The published columns of every tenant are exactly what Loki served at the
\* moment they were last confirmed: a refresh is all or nothing, and the
\* comparison that skips a publication overlooks no tenant.
Accurate == \A t \in Tenant : current.labels[t] = history[t][confirmed[t]]

\* A refresh never replaces labels by staler ones: refresh_lock serialises the
\* fetch with its publication.
NeverStaler == [][\A t \in Tenant : confirmed'[t] >= confirmed[t]]_vars

\* A transaction that starts after a successful PRAGMA loki_refresh_labels sees
\* labels at least as new as those Loki had when the PRAGMA was issued.
PragmaTakesEffect == \A t \in Tenant : confirmed[t] >= promised[t]

\* A version number names one generation, among the published, the retired and
\* the pinned ones, and the published one is the newest.
VersionsNameGenerations ==
    LET alive == retired \cup {pins[c] : c \in {d \in Conn : pins[d] # NoGen}}
    IN \A g \in alive : g.version <= current.version /\
           \A h \in alive \cup {current} : g.version = h.version => g = h

\* One transaction never straddles two generations, however many are published
\* while it runs.
OneGenerationPerTransaction == \A c \in Conn : Cardinality(seen[c]) <= 1

\* Superseded generations do not pile up: at most one per connection is kept.
RetiredBounded == Cardinality(retired) <= Cardinality(Conn)

\* A time-based refresh runs only when the check is due, also when several
\* connections found it due at once.
Throttled == \A c \in Conn : Fetching(c) /\ OnTtlPath(c) => now[c] >= nextCheck

\* After a failed check, no transaction start queries Loki before the back-off
\* has passed (DESIGN.md 11.8: an outage is not paid for by every statement).
OutageBackoff == \A c \in Conn : Fetching(c) /\ OnTtlPath(c) => now[c] - failedAt >= Backoff

\* Pins are kept for what they show.
Store == INSTANCE LabelStore WITH
    published <- current.labels,
    pins <- [c \in Conn |-> IF pins[c] = NoGen THEN NoGen ELSE pins[c].labels]

\* The cache is an atomic store of every tenant's columns: a refresh that asks tenant
\* by tenant while Loki changes, and may fail half-way, looks like one step.
ImplementsLabelStore == Store!Spec

\* A transaction start ends although another connection's PRAGMA hangs in its
\* HTTP request while holding refresh_lock.
StartNeverBlocks == \A c \in Conn : pc[c] \in {"due", "pin"} ~> pc[c] = "open"
=============================================================================
