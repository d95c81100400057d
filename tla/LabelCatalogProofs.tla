------------------------- MODULE LabelCatalogProofs -------------------------
(***************************************************************************)
(* Proofs about LabelCatalog, for any number of connections and tenants    *)
(* and without the bounds of the runs.                                     *)
(***************************************************************************)
EXTENDS LabelCatalog, FiniteSetTheorems, TLAPS

\* refresh_lock is held from the first request to the last assignment.
Refreshes(c) == pc[c] \in {"fetch", "publish", "settle"}

LockHeld == \A c \in Conn : Refreshes(c) => lock = c

\* What a refresh has fetched was served after what is published.
FetchedInv ==
    /\ \A t \in Tenant : confirmed[t] \in 1 .. Len(history[t])
    /\ \A c \in Conn :
          /\ ~Refreshes(c) => job[c].got = <<>>
          /\ Len(job[c].got) <= NTenants
          /\ pc[c] \in {"publish", "settle"} => Len(job[c].got) = NTenants
          /\ \A t \in 1 .. Len(job[c].got) :
                /\ job[c].got[t] \in 1 .. Len(history[t])
                /\ confirmed[t] <= job[c].got[t]

\* A connection has a transaction from its pin to its end, and has looked up
\* that generation only.
PinnedInv ==
    \A c \in Conn :
        /\ pc[c] \in {"idle", "due", "pin"} => pins[c] = NoGen
        /\ pc[c] \in {"open", "want"} => pins[c] # NoGen
        /\ \A v \in seen[c] : pins[c] # NoGen /\ v = pins[c].version

\* What a PRAGMA has fetched was served after it began.
RequestedInv ==
    \A c \in Conn : ~OnTtlPath(c) =>
        /\ pc[c] = "want" => \A t \in Tenant : asked[c][t] <= Len(history[t])
        /\ Refreshes(c) => \A t \in Tenant :
              /\ asked[c][t] <= Len(history[t])
              /\ t <= Len(job[c].got) => asked[c][t] <= job[c].got[t]
              /\ pc[c] = "settle" => asked[c][t] <= confirmed[t]

\* The next check is a back-off away from the last failed one.
ChecksInv == nextCheck - failedAt >= Backoff

IInv ==
    /\ TypeOK
    /\ LockHeld
    /\ FetchedInv
    /\ Accurate
    /\ PinnedInv
    /\ RequestedInv
    /\ PragmaTakesEffect
    /\ Throttled
    /\ ChecksInv

USE TenantAssumption, ConfigAssumption, BoundAssumption, NoGenAssumption DEF Tenant

LEMMA MaxOfTwo ==
    ASSUME NEW a \in Nat, NEW b \in Nat
    PROVE  Max({a, b}) \in {a, b} /\ Max({a, b}) >= a /\ Max({a, b}) >= b
PROOF
  <1> DEFINE S == {a, b}
  <1>1. \E x \in S : \A y \in S : x >= y
    OBVIOUS
  <1>2. Max(S) \in S /\ \A y \in S : Max(S) >= y
    BY <1>1 DEF Max
  <1> QED BY <1>2

\* Both callers wait at least as long as the back-off after a failure.
LEMMA WaitsLongEnough == FailureWait \in Nat /\ FailureWait >= Backoff /\ FailureWait >= Ttl
  BY MaxOfTwo DEF FailureWait

-----------------------------------------------------------------------------
LEMMA InitInv == Init => IInv
PROOF
  <1> SUFFICES ASSUME Init PROVE IInv
    OBVIOUS
  <1> USE DEF Init
  <1>1. \A t \in Tenant : history[t] \in Seq(LabelSet) /\ Len(history[t]) = 1
    <2>1. TAKE t \in Tenant
    <2>2. PICK l \in LabelSet : history[t] = <<l>>
      OBVIOUS
    <2> QED BY <2>2
  <1>2. current.labels = [t \in Tenant |-> history[t][1]] /\ current.version = 0
    OBVIOUS
  <1>3. history \in [Tenant -> Seq(LabelSet)] /\ \A t \in Tenant : history[t][1] \in LabelSet
    BY <1>1
  <1>4. TypeOK
    BY <1>1, <1>2, <1>3 DEF TypeOK, Generation, NotAsked, NoJob
  <1>5. LockHeld /\ PinnedInv /\ RequestedInv /\ Throttled /\ ChecksInv
    BY DEF LockHeld, PinnedInv, RequestedInv, Throttled, ChecksInv, Refreshes, OnTtlPath, Fetching
  <1>6. FetchedInv /\ Accurate /\ PragmaTakesEffect
    BY <1>1, <1>2 DEF FetchedInv, Accurate, PragmaTakesEffect, Refreshes, NoJob
  <1> QED BY <1>4, <1>5, <1>6 DEF IInv

-----------------------------------------------------------------------------
(* What a conjunct of the invariant depends on.                            *)

LEMMA LockFrame == LockHeld /\ UNCHANGED <<pc, lock>> => LockHeld'
  BY DEF LockHeld, Refreshes

LEMMA FetchedFrame ==
    FetchedInv /\ Accurate /\ UNCHANGED <<history, current, pc, job, confirmed>>
        => FetchedInv' /\ Accurate'
  BY DEF FetchedInv, Accurate, Refreshes

LEMMA PinnedFrame == PinnedInv /\ UNCHANGED <<pc, pins, seen>> => PinnedInv'
  BY DEF PinnedInv

LEMMA RequestedFrame ==
    RequestedInv /\ UNCHANGED <<history, pc, job, pins, confirmed, asked>> => RequestedInv'
  BY DEF RequestedInv, Refreshes, OnTtlPath

LEMMA PromisedFrame ==
    PragmaTakesEffect /\ UNCHANGED <<confirmed, promised>> => PragmaTakesEffect'
  BY DEF PragmaTakesEffect

LEMMA ChecksFrame ==
    Throttled /\ ChecksInv /\ UNCHANGED <<pc, now, pins, nextCheck, failedAt>>
        => Throttled' /\ ChecksInv'
  BY DEF Throttled, ChecksInv, Fetching, OnTtlPath

-----------------------------------------------------------------------------
(* Each action preserves the invariant.                                    *)

LEMMA TickInv == IInv /\ Tick => IInv'
PROOF
  <1> SUFFICES ASSUME IInv, Tick PROVE IInv'
    OBVIOUS
  <1>1. /\ time' \in 0 .. MaxTime
        /\ UNCHANGED <<history, current, retired, nextCheck, lock, pc, now, job, pins>>
        /\ UNCHANGED <<seen, confirmed, asked, promised, failedAt>>
    BY DEF IInv, TypeOK, Tick, catalog, ghost
  <1>2. TypeOK'
    BY <1>1 DEF IInv, TypeOK
  <1> QED
    BY <1>1, <1>2, LockFrame, FetchedFrame, PinnedFrame, RequestedFrame, PromisedFrame,
       ChecksFrame DEF IInv

LEMMA ChangeLabelsInv == ASSUME NEW t \in Tenant PROVE IInv /\ ChangeLabels(t) => IInv'
PROOF
  <1> SUFFICES ASSUME IInv, ChangeLabels(t) PROVE IInv'
    OBVIOUS
  <1>1. PICK l \in LabelSet : history' = [history EXCEPT ![t] = Append(@, l)]
    BY DEF ChangeLabels
  <1>2. /\ UNCHANGED <<time, current, retired, nextCheck, lock, pc, now, job, pins>>
        /\ UNCHANGED <<seen, confirmed, asked, promised, failedAt>>
    BY DEF ChangeLabels, catalog, ghost
  <1>3. history \in [Tenant -> Seq(LabelSet)]
    BY DEF IInv, TypeOK
  <1>4. history' \in [Tenant -> Seq(LabelSet)]
    BY <1>1, <1>3
  <1>5. \A u \in Tenant :
            /\ Len(history[u]) \in Nat /\ Len(history'[u]) \in Nat
            /\ Len(history[u]) <= Len(history'[u])
            /\ \A i \in 1 .. Len(history[u]) : history'[u][i] = history[u][i]
    <2>1. TAKE u \in Tenant
    <2>2. CASE u = t
      <3>1. history[t] \in Seq(LabelSet) /\ history'[t] = Append(history[t], l)
        BY <1>1, <1>3
      <3> QED BY <2>2, <3>1
    <2>3. CASE u # t
      BY <1>1, <1>3, <2>3
    <2> QED BY <2>2, <2>3
  <1>6. TypeOK'
    BY <1>2, <1>4 DEF IInv, TypeOK
  <1>7. FetchedInv' /\ Accurate'
    <2>1. \A u \in Tenant : confirmed[u] \in 1 .. Len(history[u])
      BY DEF IInv, FetchedInv
    <2>2. Accurate'
      BY <1>2, <1>5, <2>1 DEF IInv, Accurate
    <2>3. \A u \in Tenant : \A i \in 1 .. Len(history[u]) : i \in 1 .. Len(history'[u])
      BY <1>5
    <2>4. ASSUME NEW c \in Conn, NEW u \in 1 .. Len(job[c].got)
          PROVE  /\ job[c].got[u] \in 1 .. Len(history'[u])
                 /\ confirmed[u] <= job[c].got[u]
      <3>1. u \in Tenant
        BY DEF IInv, FetchedInv, TypeOK
      <3> QED BY <2>3, <3>1 DEF IInv, FetchedInv
    <2>5. FetchedInv'
      BY <1>2, <2>1, <2>3, <2>4 DEF IInv, FetchedInv, Refreshes
    <2> QED BY <2>2, <2>5
  <1>8. RequestedInv'
    <2>1. \A c \in Conn : \A u \in Tenant :
              asked[c][u] <= Len(history[u]) => asked[c][u] <= Len(history'[u])
      <3>1. \A c \in Conn : \A u \in Tenant : asked[c][u] \in Nat
        BY DEF IInv, TypeOK
      <3> QED BY <1>5, <3>1
    <2> QED BY <1>2, <2>1 DEF IInv, RequestedInv, Refreshes, OnTtlPath
  <1> QED
    BY <1>2, <1>6, <1>7, <1>8, LockFrame, PinnedFrame, PromisedFrame, ChecksFrame DEF IInv

LEMMA BeginInv == ASSUME NEW c \in Conn PROVE IInv /\ Begin(c) => IInv'
PROOF
  <1> SUFFICES ASSUME IInv, Begin(c) PROVE IInv'
    OBVIOUS
  <1>1. /\ pc[c] = "idle"
        /\ now' = [now EXCEPT ![c] = time]
        /\ \E to \in {"due", "pin"} : pc' = [pc EXCEPT ![c] = to]
        /\ UNCHANGED <<time, history, current, retired, nextCheck, lock, job, pins, seen, confirmed, asked, promised, failedAt>>
    BY DEF Begin, loki, catalog, ghost, Goto
  <1>2. TypeOK'
    BY <1>1 DEF IInv, TypeOK
  <1>3. LockHeld'
    BY <1>1 DEF IInv, LockHeld, Refreshes, TypeOK
  <1>4. FetchedInv' /\ Accurate'
    BY <1>1 DEF IInv, FetchedInv, Accurate, Refreshes, TypeOK
  <1>5. PinnedInv'
    BY <1>1 DEF IInv, PinnedInv, TypeOK
  <1>6. RequestedInv'
    BY <1>1 DEF IInv, RequestedInv, Refreshes, OnTtlPath, TypeOK
  <1>7. Throttled' /\ ChecksInv'
    BY <1>1 DEF IInv, Throttled, ChecksInv, Fetching, OnTtlPath, TypeOK
  <1> QED BY <1>1, <1>2, <1>3, <1>4, <1>5, <1>6, <1>7, PromisedFrame DEF IInv

LEMMA TtlRefreshInv == ASSUME NEW c \in Conn PROVE IInv /\ TtlRefresh(c) => IInv'
PROOF
  <1> SUFFICES ASSUME IInv, TtlRefresh(c) PROVE IInv'
    OBVIOUS
  <1>1. /\ pc[c] = "due" /\ lock = NoGen /\ now[c] >= nextCheck
        /\ lock' = c
        /\ pc' = [pc EXCEPT ![c] = "fetch"]
        /\ UNCHANGED <<time, history, current, retired, nextCheck, now, job, pins, seen, confirmed, asked, promised, failedAt>>
    BY DEF TtlRefresh, StillDue, loki, catalog, ghost, Goto
  <1>2. TypeOK'
    BY <1>1 DEF IInv, TypeOK
  <1>3. LockHeld'
    BY <1>1 DEF IInv, LockHeld, Refreshes, TypeOK
  <1>4. FetchedInv' /\ Accurate'
    BY <1>1 DEF IInv, FetchedInv, Accurate, Refreshes, TypeOK
  <1>5. PinnedInv'
    BY <1>1 DEF IInv, PinnedInv, TypeOK
  <1>6. RequestedInv'
    BY <1>1 DEF IInv, PinnedInv, RequestedInv, Refreshes, OnTtlPath, TypeOK
  <1>7. Throttled' /\ ChecksInv'
    BY <1>1 DEF IInv, Throttled, ChecksInv, Fetching, OnTtlPath, TypeOK
  <1> QED BY <1>1, <1>2, <1>3, <1>4, <1>5, <1>6, <1>7, PromisedFrame DEF IInv

LEMMA TtlSkipInv == ASSUME NEW c \in Conn PROVE IInv /\ TtlSkip(c) => IInv'
PROOF
  <1> SUFFICES ASSUME IInv, TtlSkip(c) PROVE IInv'
    OBVIOUS
  <1>1. /\ pc[c] = "due"
        /\ pc' = [pc EXCEPT ![c] = "pin"]
        /\ UNCHANGED <<time, history, current, retired, nextCheck, lock, now, job, pins, seen, confirmed, asked, promised, failedAt>>
    BY DEF TtlSkip, loki, catalog, ghost, Goto
  <1>2. TypeOK'
    BY <1>1 DEF IInv, TypeOK
  <1>3. LockHeld'
    BY <1>1 DEF IInv, LockHeld, Refreshes, TypeOK
  <1>4. FetchedInv' /\ Accurate'
    BY <1>1 DEF IInv, FetchedInv, Accurate, Refreshes, TypeOK
  <1>5. PinnedInv'
    BY <1>1 DEF IInv, PinnedInv, TypeOK
  <1>6. RequestedInv'
    BY <1>1 DEF IInv, RequestedInv, Refreshes, OnTtlPath, TypeOK
  <1>7. Throttled' /\ ChecksInv'
    BY <1>1 DEF IInv, Throttled, ChecksInv, Fetching, OnTtlPath, TypeOK
  <1> QED BY <1>1, <1>2, <1>3, <1>4, <1>5, <1>6, <1>7, PromisedFrame DEF IInv

LEMMA PinInv == ASSUME NEW c \in Conn PROVE IInv /\ Pin(c) => IInv'
PROOF
  <1> SUFFICES ASSUME IInv, Pin(c) PROVE IInv'
    OBVIOUS
  <1>1. /\ pc[c] = "pin"
        /\ pins' = [pins EXCEPT ![c] = current]
        /\ now' = [now EXCEPT ![c] = 0]
        /\ pc' = [pc EXCEPT ![c] = "open"]
        /\ UNCHANGED <<time, history, current, retired, nextCheck, lock, job, seen, confirmed, asked, promised, failedAt>>
    BY DEF Pin, loki, catalog, ghost, Goto
  <1>2. TypeOK'
    <2>1. /\ current \in Generation /\ pins \in [Conn -> Generation \cup {NoGen}]
          /\ now \in [Conn -> 0 .. MaxTime]
      BY DEF IInv, TypeOK
    <2>4. 0 \in 0 .. MaxTime
      OBVIOUS
    <2>2. pins' \in [Conn -> Generation \cup {NoGen}]
      BY <1>1, <2>1
    <2>3. now' \in [Conn -> 0 .. MaxTime]
      BY <1>1, <2>1, <2>4
    <2> QED BY <1>1, <2>2, <2>3 DEF IInv, TypeOK
  <1>3. LockHeld'
    BY <1>1 DEF IInv, LockHeld, Refreshes, TypeOK
  <1>4. FetchedInv' /\ Accurate'
    BY <1>1 DEF IInv, FetchedInv, Accurate, Refreshes, TypeOK
  <1>5. PinnedInv'
    BY <1>1 DEF IInv, PinnedInv, TypeOK
  <1>6. RequestedInv'
    BY <1>1 DEF IInv, RequestedInv, Refreshes, OnTtlPath, TypeOK
  <1>7. Throttled' /\ ChecksInv'
    BY <1>1 DEF IInv, Throttled, ChecksInv, Fetching, OnTtlPath, TypeOK
  <1> QED BY <1>1, <1>2, <1>3, <1>4, <1>5, <1>6, <1>7, PromisedFrame DEF IInv

LEMMA PragmaInv == ASSUME NEW c \in Conn PROVE IInv /\ Pragma(c) => IInv'
PROOF
  <1> SUFFICES ASSUME IInv, Pragma(c) PROVE IInv'
    OBVIOUS
  <1>1. /\ pc[c] = "open"
        /\ asked' = [asked EXCEPT ![c] = [t \in Tenant |-> Len(history[t])]]
        /\ pc' = [pc EXCEPT ![c] = "want"]
        /\ UNCHANGED <<time, history, current, retired, nextCheck, lock, now, job, pins, seen, confirmed, promised, failedAt>>
    BY DEF Pragma, Latest, loki, catalog, ghost, Goto
  <1>2. TypeOK'
    <2>1. \A t \in Tenant : Len(history[t]) \in Nat
      BY DEF IInv, TypeOK
    <2>2. asked' \in [Conn -> [Tenant -> Nat]]
      BY <1>1, <2>1 DEF IInv, TypeOK
    <2> QED BY <1>1, <2>2 DEF IInv, TypeOK
  <1>3. LockHeld'
    BY <1>1 DEF IInv, LockHeld, Refreshes, TypeOK
  <1>4. FetchedInv' /\ Accurate'
    BY <1>1 DEF IInv, FetchedInv, Accurate, Refreshes, TypeOK
  <1>5. PinnedInv'
    BY <1>1 DEF IInv, PinnedInv, TypeOK
  <1>6. RequestedInv'
    BY <1>1 DEF IInv, RequestedInv, Refreshes, OnTtlPath, TypeOK
  <1>7. Throttled' /\ ChecksInv'
    BY <1>1 DEF IInv, Throttled, ChecksInv, Fetching, OnTtlPath, TypeOK
  <1> QED BY <1>1, <1>2, <1>3, <1>4, <1>5, <1>6, <1>7, PromisedFrame DEF IInv

LEMMA PragmaRefreshInv == ASSUME NEW c \in Conn PROVE IInv /\ PragmaRefresh(c) => IInv'
PROOF
  <1> SUFFICES ASSUME IInv, PragmaRefresh(c) PROVE IInv'
    OBVIOUS
  <1>1. /\ pc[c] = "want" /\ lock = NoGen
        /\ lock' = c
        /\ pc' = [pc EXCEPT ![c] = "fetch"]
        /\ UNCHANGED <<time, history, current, retired, nextCheck, now, job, pins, seen, confirmed, asked, promised, failedAt>>
    BY DEF PragmaRefresh, LockGranted, loki, catalog, ghost, Goto
  <1>2. TypeOK'
    BY <1>1 DEF IInv, TypeOK
  <1>3. LockHeld'
    BY <1>1 DEF IInv, LockHeld, Refreshes, TypeOK
  <1>4. FetchedInv' /\ Accurate'
    BY <1>1 DEF IInv, FetchedInv, Accurate, Refreshes, TypeOK
  <1>5. PinnedInv'
    BY <1>1 DEF IInv, PinnedInv, TypeOK
  <1>6. RequestedInv'
    <2>1. Len(job[c].got) = 0
      BY <1>1 DEF IInv, FetchedInv, Refreshes
    <2>2. pc'[c] = "fetch" /\ \A d \in Conn \ {c} : pc'[d] = pc[d]
      BY <1>1 DEF IInv, TypeOK
    <2>3. \A t \in Tenant : ~(t <= Len(job[c].got))
      BY <2>1
    <2>4. \A t \in Tenant : ~OnTtlPath(c) => asked[c][t] <= Len(history[t])
      BY <1>1 DEF IInv, RequestedInv
    <2> QED BY <1>1, <2>2, <2>3, <2>4 DEF IInv, RequestedInv, Refreshes, OnTtlPath
  <1>7. Throttled' /\ ChecksInv'
    BY <1>1 DEF IInv, PinnedInv, Throttled, ChecksInv, Fetching, OnTtlPath, TypeOK
  <1> QED BY <1>1, <1>2, <1>3, <1>4, <1>5, <1>6, <1>7, PromisedFrame DEF IInv

LEMMA LookupInv == ASSUME NEW c \in Conn PROVE IInv /\ Lookup(c) => IInv'
PROOF
  <1> SUFFICES ASSUME IInv, Lookup(c) PROVE IInv'
    OBVIOUS
  <1>1. /\ pc[c] = "open"
        /\ seen' = [seen EXCEPT ![c] = @ \cup {pins[c].version}]
        /\ UNCHANGED <<time, history, current, retired, nextCheck, lock, pc, now, job, pins, confirmed, asked, promised, failedAt>>
    BY DEF Lookup, PinnedSnapshot, loki, catalog, ghost, Goto
  <1>2. TypeOK'
    <2>1. pins[c] \in Generation
      BY <1>1 DEF IInv, TypeOK, PinnedInv
    <2>2. seen' \in [Conn -> SUBSET Nat]
      BY <1>1, <2>1 DEF IInv, TypeOK, Generation
    <2> QED BY <1>1, <2>2 DEF IInv, TypeOK
  <1>3. PinnedInv'
    BY <1>1 DEF IInv, PinnedInv, TypeOK
  <1> QED BY <1>1, <1>2, <1>3, LockFrame, FetchedFrame, RequestedFrame, PromisedFrame, ChecksFrame DEF IInv

LEMMA EndInv == ASSUME NEW c \in Conn PROVE IInv /\ End(c) => IInv'
PROOF
  <1> SUFFICES ASSUME IInv, End(c) PROVE IInv'
    OBVIOUS
  <1>1. /\ pc[c] = "open"
        /\ pins' = [pins EXCEPT ![c] = NoGen]
        /\ seen' = [seen EXCEPT ![c] = {}]
        /\ pc' = [pc EXCEPT ![c] = "idle"]
        /\ UNCHANGED <<time, history, current, retired, nextCheck, lock, now, job, confirmed, asked, promised, failedAt>>
    BY DEF End, loki, catalog, ghost, Goto
  <1>2. TypeOK'
    BY <1>1 DEF IInv, TypeOK
  <1>3. LockHeld'
    BY <1>1 DEF IInv, LockHeld, Refreshes, TypeOK
  <1>4. FetchedInv' /\ Accurate'
    BY <1>1 DEF IInv, FetchedInv, Accurate, Refreshes, TypeOK
  <1>5. PinnedInv'
    BY <1>1 DEF IInv, PinnedInv, TypeOK
  <1>6. RequestedInv'
    BY <1>1 DEF IInv, RequestedInv, Refreshes, OnTtlPath, TypeOK
  <1>7. Throttled' /\ ChecksInv'
    BY <1>1 DEF IInv, Throttled, ChecksInv, Fetching, OnTtlPath, TypeOK
  <1> QED BY <1>1, <1>2, <1>3, <1>4, <1>5, <1>6, <1>7, PromisedFrame DEF IInv

LEMMA GotTypes ==
    ASSUME TypeOK, NEW c \in Conn
    PROVE  /\ job[c].got \in Seq(Nat) /\ job[c].version \in Nat /\ Len(job[c].got) \in Nat
           /\ \A i \in 1 .. Len(job[c].got) : job[c].got[i] \in Nat
           /\ [got |-> <<>>, version |-> 0] \in [got : Seq(Nat), version : Nat]
           /\ NotAsked \in [Tenant -> Nat]
PROOF
  <1>1. job[c] \in [got : Seq(Nat), version : Nat]
    BY DEF TypeOK
  <1>2. job[c].got \in Seq(Nat) /\ job[c].version \in Nat
    BY <1>1
  <1>3. Len(job[c].got) \in Nat /\ \A i \in 1 .. Len(job[c].got) : job[c].got[i] \in Nat
    BY <1>2
  <1>4. [got |-> <<>>, version |-> 0] \in [got : Seq(Nat), version : Nat]
    OBVIOUS
  <1>5. NotAsked \in [Tenant -> Nat]
    BY DEF NotAsked
  <1> QED BY <1>2, <1>3, <1>4, <1>5

\* One connection refreshes at a time.
LEMMA Alone ==
    ASSUME IInv, NEW c \in Conn, Refreshes(c)
    PROVE  \A d \in Conn \ {c} : ~Refreshes(d) /\ job[d].got = <<>>
  BY DEF IInv, LockHeld, FetchedInv

\* Whoever has all the answers adopts them.
LEMMA Adopts ==
    ASSUME IInv, NEW c \in Conn, Refreshes(c), Len(job[c].got) = NTenants,
           confirmed' = [t \in Tenant |-> job[c].got[t]],
           pc' = [pc EXCEPT ![c] = "settle"],
           \A t \in Tenant : current'.labels[t] = history[t][job[c].got[t]],
           UNCHANGED <<history, lock, job, pins, asked, promised>>
    PROVE  /\ confirmed' \in [Tenant -> Nat]
           /\ FetchedInv' /\ Accurate' /\ RequestedInv' /\ PragmaTakesEffect'
PROOF
  <1>1. TypeOK
    BY DEF IInv
  <1>2. \A t \in Tenant : /\ confirmed'[t] = job[c].got[t]
                          /\ confirmed[t] \in Nat /\ confirmed'[t] \in Nat
                          /\ confirmed'[t] \in 1 .. Len(history[t])
                          /\ confirmed[t] <= confirmed'[t]
    BY <1>1, GotTypes DEF IInv, FetchedInv, TypeOK
  <1>3. \A d \in Conn \ {c} : ~Refreshes(d) /\ job[d].got = <<>> /\ pc'[d] = pc[d]
    BY <1>1, Alone DEF TypeOK
  <1>4. pc'[c] = "settle"
    BY <1>1 DEF TypeOK
  <1>5. FetchedInv'
    <2>1. \A d \in Conn \ {c} :
              ~Refreshes(d)' /\ job'[d].got = <<>> /\ Len(job'[d].got) = 0
      BY <1>3 DEF Refreshes
    <2>2. \A t \in 1 .. Len(job[c].got) : t \in Tenant
      OBVIOUS
    <2>3. \A t \in Tenant : job'[c].got[t] \in 1 .. Len(history'[t]) /\ confirmed'[t] <= job'[c].got[t]
      BY <1>2
    <2>4. ~(~Refreshes(c)')
      BY <1>4 DEF Refreshes
    <2> QED BY <1>1, <1>2, <1>4, <2>1, <2>2, <2>3, <2>4 DEF FetchedInv, Refreshes
  <1>6. Accurate'
    BY <1>2 DEF Accurate
  <1>7. RequestedInv'
    <2>1. ASSUME NEW d \in Conn \ {c} PROVE ~Refreshes(d)' /\ pc'[d] = pc[d]
      BY <1>3 DEF Refreshes
    <2>2. ASSUME ~OnTtlPath(c), NEW t \in Tenant
          PROVE  asked[c][t] <= Len(history[t]) /\ asked[c][t] <= job[c].got[t]
      BY <2>2 DEF IInv, RequestedInv
    <2> QED BY <1>2, <1>3, <1>4, <2>1, <2>2 DEF IInv, RequestedInv, Refreshes, OnTtlPath
  <1>8. PragmaTakesEffect'
    <2>1. \A t \in Tenant : promised[t] \in Nat /\ promised[t] <= confirmed[t]
      BY <1>1 DEF IInv, PragmaTakesEffect, TypeOK
    <2> QED BY <1>2, <2>1 DEF PragmaTakesEffect
  <1> QED BY <1>2, <1>5, <1>6, <1>7, <1>8

\* A refresh that ends leaves nothing behind.
LEMMA Leaves ==
    ASSUME IInv, NEW c \in Conn, NEW to \in {"pin", "open"}, Refreshes(c), Leave(c, to),
           UNCHANGED <<history, current, confirmed>>
    PROVE  /\ job' \in [Conn -> [got : Seq(Nat), version : Nat]]
           /\ pc' \in [Conn -> {"idle", "due", "pin", "open", "want", "fetch", "publish", "settle"}]
           /\ pc'[c] = to /\ lock' = NoGen
           /\ \A d \in Conn : ~Refreshes(d)'
           /\ \A d \in Conn \ {c} : pc'[d] = pc[d]
           /\ LockHeld' /\ FetchedInv' /\ Accurate'
PROOF
  <1>1. TypeOK
    BY DEF IInv
  <1>2. /\ job' = [job EXCEPT ![c] = [got |-> <<>>, version |-> 0]]
        /\ lock' = NoGen /\ pc' = [pc EXCEPT ![c] = to]
    BY DEF Leave, Goto, NoJob
  <1>3. job' \in [Conn -> [got : Seq(Nat), version : Nat]]
    BY <1>1, <1>2, GotTypes DEF TypeOK
  <1>4. pc' \in [Conn -> {"idle", "due", "pin", "open", "want", "fetch", "publish", "settle"}]
    BY <1>1, <1>2 DEF TypeOK
  <1>5. pc'[c] = to /\ \A d \in Conn \ {c} : pc'[d] = pc[d]
    BY <1>1, <1>2 DEF TypeOK
  <1>6. \A d \in Conn : ~Refreshes(d)'
    BY <1>5, Alone DEF Refreshes
  <1>7. \A d \in Conn : job'[d].got = <<>> /\ Len(job'[d].got) = 0
    <2>1. job'[c].got = <<>>
      BY <1>1, <1>2 DEF TypeOK
    <2>2. \A d \in Conn \ {c} : job'[d].got = <<>>
      BY <1>1, <1>2, Alone DEF TypeOK
    <2> QED BY <2>1, <2>2
  <1>8. LockHeld'
    BY <1>6 DEF LockHeld
  <1>9. FetchedInv'
    <2>1. \A d \in Conn : pc'[d] \notin {"publish", "settle"}
      BY <1>6 DEF Refreshes
    <2> QED BY <1>6, <1>7, <2>1 DEF IInv, FetchedInv
  <1>10. Accurate'
    BY DEF IInv, Accurate
  <1> QED BY <1>2, <1>3, <1>4, <1>5, <1>6, <1>8, <1>9, <1>10

LEMMA FetchTenantInv == ASSUME NEW c \in Conn PROVE IInv /\ FetchTenant(c) => IInv'
PROOF
  <1> SUFFICES ASSUME IInv, FetchTenant(c) PROVE IInv'
    OBVIOUS
  <1> DEFINE g == job[c].got
             t0 == Len(g) + 1
             n == Len(history[t0])
  <1>1. /\ pc[c] = "fetch" /\ Len(g) < NTenants
        /\ job' = [job EXCEPT ![c].got = Append(g, n)]
        /\ UNCHANGED <<time, history, current, retired, nextCheck, lock, pc, now, pins>>
        /\ UNCHANGED <<seen, confirmed, asked, promised, failedAt>>
    BY DEF FetchTenant, Fetching, Latest, loki, catalog, ghost
  <1>2. TypeOK
    BY DEF IInv
  <1>3. t0 \in Tenant /\ n \in Nat /\ confirmed[t0] \in 1 .. n /\ g \in Seq(Nat) /\ Len(g) \in Nat
    <2>1. g \in Seq(Nat) /\ Len(g) \in Nat
      BY <1>2, GotTypes
    <2>2. t0 \in Tenant
      BY <1>1, <2>1
    <2>3. history[t0] \in Seq(LabelSet)
      BY <1>2, <2>2 DEF TypeOK
    <2>4. n \in Nat
      BY <2>3
    <2>5. confirmed[t0] \in 1 .. n
      BY <2>2 DEF IInv, FetchedInv
    <2> QED BY <2>1, <2>2, <2>4, <2>5
  <1>4. /\ Append(g, n) \in Seq(Nat) /\ Len(Append(g, n)) = t0 /\ Append(g, n)[t0] = n
        /\ \A i \in 1 .. Len(g) : Append(g, n)[i] = g[i]
    BY <1>3
  <1>5. /\ job'[c].got = Append(g, n) /\ \A d \in Conn \ {c} : job'[d] = job[d]
        /\ job' \in [Conn -> [got : Seq(Nat), version : Nat]]
    <2>1. job \in [Conn -> [got : Seq(Nat), version : Nat]]
      BY <1>2 DEF TypeOK
    <2>2. job[c] \in [got : Seq(Nat), version : Nat]
      BY <2>1
    <2>3. [job[c] EXCEPT !.got = Append(g, n)] \in [got : Seq(Nat), version : Nat]
      BY <1>4, <2>2
    <2>4. job' = [job EXCEPT ![c] = [job[c] EXCEPT !.got = Append(g, n)]]
      BY <1>1, <2>1
    <2>5. job'[c] = [job[c] EXCEPT !.got = Append(g, n)] /\ \A d \in Conn \ {c} : job'[d] = job[d]
      BY <2>1, <2>4
    <2>6. job'[c].got = Append(g, n)
      BY <2>2, <2>5
    <2>7. job' \in [Conn -> [got : Seq(Nat), version : Nat]]
      BY <2>1, <2>3, <2>4
    <2> QED BY <2>5, <2>6, <2>7
  <1>6. TypeOK'
    BY <1>1, <1>5 DEF IInv, TypeOK
  <1>7. n >= confirmed[t0] /\ n \in 1 .. n
    BY <1>2, <1>3 DEF TypeOK
  <1>8. \A i \in 1 .. t0 : i = t0 \/ i \in 1 .. Len(g)
    BY <1>3
  <1> HIDE DEF n, g, t0
  <1>9. \A i \in 1 .. Len(job'[c].got) : /\ job'[c].got[i] \in 1 .. Len(history[i])
                                         /\ confirmed[i] <= job'[c].got[i]
    <2>1. \A i \in 1 .. Len(g) : g[i] \in 1 .. Len(history[i]) /\ confirmed[i] <= g[i]
      BY DEF g, IInv, FetchedInv
    <2>2. n = Len(history[t0])
      BY DEF n
    <2> QED BY <1>4, <1>5, <1>7, <1>8, <2>1, <2>2
  <1>10. FetchedInv'
    <2>1. Len(job'[c].got) <= NTenants
      BY <1>1, <1>3, <1>4, <1>5
    <2> QED BY <1>1, <1>5, <1>9, <2>1 DEF IInv, FetchedInv, Refreshes
  <1>11. Accurate'
    BY <1>1 DEF IInv, Accurate
  <1>12. RequestedInv'
    <2>1. ASSUME ~OnTtlPath(c), NEW t \in Tenant
          PROVE  /\ asked[c][t] <= Len(history[t])
                 /\ t <= Len(job'[c].got) => asked[c][t] <= job'[c].got[t]
      <3>1. /\ asked[c][t] <= Len(history[t])
            /\ t <= Len(g) => asked[c][t] <= g[t]
        BY <1>1, <2>1 DEF g, IInv, RequestedInv, Refreshes
      <3>2. CASE t <= Len(g)
        BY <1>3, <1>4, <1>5, <3>1, <3>2
      <3>3. CASE t = t0
        <4>1. job'[c].got[t] = Len(history[t])
          BY <1>4, <1>5, <3>3 DEF n
        <4> QED BY <3>1, <4>1
      <3>4. CASE t > t0
        BY <1>3, <1>4, <1>5, <3>1, <3>4
      <3> QED BY <1>3, <3>2, <3>3, <3>4 DEF t0
    <2>2. pc'[c] = "fetch"
      BY <1>1
    <2> QED BY <1>1, <1>5, <2>1, <2>2 DEF IInv, RequestedInv, Refreshes, OnTtlPath
  <1> QED
    BY <1>1, <1>6, <1>10, <1>11, <1>12, LockFrame, PinnedFrame, PromisedFrame, ChecksFrame
       DEF IInv

LEMMA KeepGenerationInv == ASSUME NEW c \in Conn PROVE IInv /\ KeepGeneration(c) => IInv'
PROOF
  <1> SUFFICES ASSUME IInv, KeepGeneration(c) PROVE IInv'
    OBVIOUS
  <1>1. /\ pc[c] = "fetch" /\ Len(job[c].got) = NTenants
        /\ current.labels = [t \in Tenant |-> history[t][job[c].got[t]]]
        /\ confirmed' = [t \in Tenant |-> job[c].got[t]]
        /\ pc' = [pc EXCEPT ![c] = "settle"]
        /\ UNCHANGED <<time, history, current, retired, nextCheck, lock, now, job, pins>>
        /\ UNCHANGED <<seen, asked, promised, failedAt>>
    BY DEF KeepGeneration, Fetching, Unchanged, FetchedLabels, loki, catalog, Goto
  <1>2. /\ confirmed' \in [Tenant -> Nat]
        /\ FetchedInv' /\ Accurate' /\ RequestedInv' /\ PragmaTakesEffect'
    BY <1>1, Adopts DEF Refreshes
  <1>3. TypeOK'
    BY <1>1, <1>2 DEF IInv, TypeOK
  <1>4. LockHeld' /\ PinnedInv'
    BY <1>1 DEF IInv, TypeOK, LockHeld, PinnedInv, Refreshes
  <1>5. Throttled' /\ ChecksInv'
    BY <1>1 DEF IInv, TypeOK, Throttled, ChecksInv, Fetching, OnTtlPath
  <1> QED BY <1>2, <1>3, <1>4, <1>5 DEF IInv

LEMMA PrepareGenerationInv == ASSUME NEW c \in Conn PROVE IInv /\ PrepareGeneration(c) => IInv'
PROOF
  <1> SUFFICES ASSUME IInv, PrepareGeneration(c) PROVE IInv'
    OBVIOUS
  <1>1. /\ pc[c] = "fetch" /\ Len(job[c].got) = NTenants
        /\ job' = [job EXCEPT ![c].version = current.version + 1]
        /\ pc' = [pc EXCEPT ![c] = "publish"]
        /\ UNCHANGED <<time, history, current, retired, nextCheck, lock, now, pins>>
        /\ UNCHANGED <<seen, confirmed, asked, promised, failedAt>>
    BY DEF PrepareGeneration, Fetching, loki, catalog, ghost, Goto
  <1>2. TypeOK /\ current.version + 1 \in Nat
    <2>1. TypeOK /\ current \in Generation
      BY DEF IInv, TypeOK
    <2> QED BY <2>1 DEF Generation
  <1>3. /\ job' \in [Conn -> [got : Seq(Nat), version : Nat]]
        /\ \A d \in Conn : job'[d].got = job[d].got
    <2>1. job \in [Conn -> [got : Seq(Nat), version : Nat]]
      BY <1>2 DEF TypeOK
    <2> QED BY <1>1, <1>2, <2>1
  <1>4. TypeOK'
    BY <1>1, <1>2, <1>3 DEF TypeOK
  <1>5. \A d \in Conn : Refreshes(d)' = Refreshes(d)
    BY <1>1, <1>2 DEF TypeOK, Refreshes
  <1>6. FetchedInv' /\ Accurate'
    BY <1>1, <1>2, <1>3, <1>5 DEF IInv, FetchedInv, Accurate, TypeOK
  <1>7. RequestedInv'
    BY <1>1, <1>2, <1>3, <1>5 DEF IInv, RequestedInv, OnTtlPath, TypeOK, Refreshes
  <1>8. LockHeld' /\ PinnedInv'
    BY <1>1, <1>2, <1>5 DEF IInv, TypeOK, LockHeld, PinnedInv
  <1>9. Throttled' /\ ChecksInv'
    BY <1>1 DEF IInv, TypeOK, Throttled, ChecksInv, Fetching, OnTtlPath
  <1> QED BY <1>1, <1>4, <1>6, <1>7, <1>8, <1>9, PromisedFrame DEF IInv

LEMMA PublishInv == ASSUME NEW c \in Conn PROVE IInv /\ Publish(c) => IInv'
PROOF
  <1> SUFFICES ASSUME IInv, Publish(c) PROVE IInv'
    OBVIOUS
  <1> DEFINE labels == [t \in Tenant |-> history[t][job[c].got[t]]]
  <1>1. /\ pc[c] = "publish"
        /\ current' = [version |-> job[c].version, labels |-> labels]
        /\ retired' \subseteq retired \cup {current}
        /\ confirmed' = [t \in Tenant |-> job[c].got[t]]
        /\ pc' = [pc EXCEPT ![c] = "settle"]
        /\ UNCHANGED <<time, history, nextCheck, lock, now, job, pins>>
        /\ UNCHANGED <<seen, asked, promised, failedAt>>
    BY DEF Publish, FetchedLabels, StillHeld, loki, Goto
  <1>2. TypeOK /\ Len(job[c].got) = NTenants
    BY <1>1 DEF IInv, FetchedInv
  <1>3. labels \in [Tenant -> LabelSet]
    <2>1. \A t \in Tenant : job[c].got[t] \in 1 .. Len(history[t])
      BY <1>2 DEF IInv, FetchedInv
    <2>2. history \in [Tenant -> Seq(LabelSet)]
      BY <1>2 DEF TypeOK
    <2>3. \A t \in Tenant : history[t] \in Seq(LabelSet)
      BY <2>2
    <2>4. \A h \in Seq(LabelSet) : \A i \in 1 .. Len(h) : h[i] \in LabelSet
      OBVIOUS
    <2>5. \A t \in Tenant : history[t][job[c].got[t]] \in LabelSet
      BY <2>1, <2>3, <2>4
    <2> QED BY <2>5
  <1>4. current' \in Generation
    BY <1>1, <1>2, <1>3, GotTypes DEF Generation
  <1>5. \A t \in Tenant : current'.labels[t] = history[t][job[c].got[t]]
    BY <1>1
  <1> HIDE DEF labels
  <1>6. /\ confirmed' \in [Tenant -> Nat]
        /\ FetchedInv' /\ Accurate' /\ RequestedInv' /\ PragmaTakesEffect'
    BY <1>1, <1>2, <1>5, Adopts DEF Refreshes
  <1>7. retired' \in SUBSET Generation
    BY <1>1, <1>2 DEF TypeOK
  <1>8. TypeOK'
    BY <1>1, <1>2, <1>4, <1>6, <1>7 DEF TypeOK
  <1>9. LockHeld' /\ PinnedInv'
    BY <1>1 DEF IInv, TypeOK, LockHeld, PinnedInv, Refreshes
  <1>10. Throttled' /\ ChecksInv'
    BY <1>1 DEF IInv, TypeOK, Throttled, ChecksInv, Fetching, OnTtlPath
  <1> QED BY <1>6, <1>8, <1>9, <1>10 DEF IInv

LEMMA TtlDoneInv == ASSUME NEW c \in Conn PROVE IInv /\ TtlDone(c) => IInv'
PROOF
  <1> SUFFICES ASSUME IInv, TtlDone(c) PROVE IInv'
    OBVIOUS
  <1>1. /\ pc[c] = "settle" /\ pins[c] = NoGen
        /\ nextCheck' = now[c] + Ttl /\ failedAt' = 0 - Backoff
        /\ Leave(c, "pin")
        /\ UNCHANGED <<time, history, current, retired, now, pins, seen, confirmed, asked, promised>>
    BY DEF TtlDone, OnTtlPath, loki, catalog, ghost
  <1>2. TypeOK /\ Refreshes(c)
    BY <1>1 DEF IInv, Refreshes
  <1>3. /\ job' \in [Conn -> [got : Seq(Nat), version : Nat]]
        /\ pc' \in [Conn -> {"idle", "due", "pin", "open", "want", "fetch", "publish", "settle"}]
        /\ pc'[c] = "pin" /\ lock' = NoGen
        /\ \A d \in Conn : ~Refreshes(d)'
        /\ \A d \in Conn \ {c} : pc'[d] = pc[d]
        /\ LockHeld' /\ FetchedInv' /\ Accurate'
    BY <1>1, <1>2, Leaves
  <1>4. TypeOK' /\ ChecksInv'
    <2>1. now[c] \in Nat
      BY <1>2 DEF TypeOK
    <2>2. nextCheck' \in Int /\ failedAt' \in Int /\ ChecksInv'
      BY <1>1, <2>1 DEF ChecksInv
    <2>3. TypeOK'
      BY <1>1, <1>2, <1>3, <2>2 DEF TypeOK
    <2> QED BY <2>2, <2>3
  <1>5. PinnedInv'
    BY <1>1, <1>3 DEF IInv, PinnedInv
  <1>6. RequestedInv'
    <2>1. \A d \in Conn : ~Refreshes(d)'
      BY <1>3
    <2>2. pc'[c] # "want"
      BY <1>3
    <2>3. ASSUME NEW d \in Conn, d # c, ~OnTtlPath(d)', pc'[d] = "want", NEW t \in Tenant
          PROVE  asked'[d][t] <= Len(history'[t])
      <3>1. pc[d] = "want" /\ ~OnTtlPath(d)
        BY <1>1, <1>3, <2>3 DEF OnTtlPath
      <3>2. asked'[d] = asked[d]
        BY <1>1, <1>2, <2>3 DEF TypeOK
      <3>3. asked[d][t] <= Len(history[t])
        BY <3>1 DEF IInv, RequestedInv
      <3> QED BY <1>1, <3>2, <3>3
    <2> QED BY <2>1, <2>2, <2>3 DEF RequestedInv
  <1>7. Throttled'
    BY <1>3 DEF Throttled, Fetching, Refreshes
  <1> QED BY <1>1, <1>3, <1>4, <1>5, <1>6, <1>7, PromisedFrame DEF IInv

LEMMA TtlFailInv == ASSUME NEW c \in Conn PROVE IInv /\ TtlFail(c) => IInv'
PROOF
  <1> SUFFICES ASSUME IInv, TtlFail(c) PROVE IInv'
    OBVIOUS
  <1>1. /\ pc[c] = "fetch" /\ pins[c] = NoGen
        /\ nextCheck' = now[c] + FailureWait /\ failedAt' = now[c]
        /\ Leave(c, "pin")
        /\ UNCHANGED <<time, history, current, retired, now, pins, seen, confirmed, asked, promised>>
    BY DEF TtlFail, Fetching, OnTtlPath, loki, catalog, ghost
  <1>2. TypeOK /\ Refreshes(c)
    BY <1>1 DEF IInv, Refreshes
  <1>3. /\ job' \in [Conn -> [got : Seq(Nat), version : Nat]]
        /\ pc' \in [Conn -> {"idle", "due", "pin", "open", "want", "fetch", "publish", "settle"}]
        /\ pc'[c] = "pin" /\ lock' = NoGen
        /\ \A d \in Conn : ~Refreshes(d)'
        /\ \A d \in Conn \ {c} : pc'[d] = pc[d]
        /\ LockHeld' /\ FetchedInv' /\ Accurate'
    BY <1>1, <1>2, Leaves
  <1>4. TypeOK' /\ ChecksInv'
    <2>1. now[c] \in Nat
      BY <1>2 DEF TypeOK
    <2>2. nextCheck' \in Int /\ failedAt' \in Int /\ ChecksInv'
      BY <1>1, <2>1, WaitsLongEnough DEF ChecksInv
    <2>3. TypeOK'
      BY <1>1, <1>2, <1>3, <2>2 DEF TypeOK
    <2> QED BY <2>2, <2>3
  <1>5. PinnedInv'
    BY <1>1, <1>3 DEF IInv, PinnedInv
  <1>6. RequestedInv'
    <2>1. \A d \in Conn : ~Refreshes(d)'
      BY <1>3
    <2>2. pc'[c] # "want"
      BY <1>3
    <2>3. ASSUME NEW d \in Conn, d # c, ~OnTtlPath(d)', pc'[d] = "want", NEW t \in Tenant
          PROVE  asked'[d][t] <= Len(history'[t])
      <3>1. pc[d] = "want" /\ ~OnTtlPath(d)
        BY <1>1, <1>3, <2>3 DEF OnTtlPath
      <3>2. asked'[d] = asked[d]
        BY <1>1, <1>2, <2>3 DEF TypeOK
      <3>3. asked[d][t] <= Len(history[t])
        BY <3>1 DEF IInv, RequestedInv
      <3> QED BY <1>1, <3>2, <3>3
    <2> QED BY <2>1, <2>2, <2>3 DEF RequestedInv
  <1>7. Throttled'
    BY <1>3 DEF Throttled, Fetching, Refreshes
  <1> QED BY <1>1, <1>3, <1>4, <1>5, <1>6, <1>7, PromisedFrame DEF IInv

LEMMA PragmaDoneInv == ASSUME NEW c \in Conn PROVE IInv /\ PragmaDone(c) => IInv'
PROOF
  <1> SUFFICES ASSUME IInv, PragmaDone(c) PROVE IInv'
    OBVIOUS
  <1>1. /\ pc[c] = "settle" /\ pins[c] # NoGen
        /\ nextCheck' = time + Ttl /\ failedAt' = 0 - Backoff
        /\ promised' = [t \in Tenant |-> Max({promised[t], asked[c][t]})]
        /\ asked' = [asked EXCEPT ![c] = NotAsked]
        /\ Leave(c, "open")
        /\ UNCHANGED <<time, history, current, retired, now, pins, seen, confirmed>>
    BY DEF PragmaDone, OnTtlPath, loki, catalog, ghost
  <1>2. TypeOK /\ Refreshes(c)
    BY <1>1 DEF IInv, Refreshes
  <1>3. /\ job' \in [Conn -> [got : Seq(Nat), version : Nat]]
        /\ pc' \in [Conn -> {"idle", "due", "pin", "open", "want", "fetch", "publish", "settle"}]
        /\ pc'[c] = "open" /\ lock' = NoGen
        /\ \A d \in Conn : ~Refreshes(d)'
        /\ \A d \in Conn \ {c} : pc'[d] = pc[d]
        /\ LockHeld' /\ FetchedInv' /\ Accurate'
    BY <1>1, <1>2, Leaves
  <1>8. \A t \in Tenant : promised'[t] \in Nat /\ promised'[t] <= confirmed[t]
    <2>1. TAKE t \in Tenant
    <2>2. /\ promised[t] \in Nat /\ asked[c][t] \in Nat
          /\ promised[t] <= confirmed[t] /\ asked[c][t] <= confirmed[t]
      <3>1. promised[t] \in Nat /\ asked[c][t] \in Nat
        <4>1. promised \in [Tenant -> Nat] /\ asked \in [Conn -> [Tenant -> Nat]]
          BY <1>2 DEF TypeOK
        <4> QED BY <4>1
      <3>2. promised[t] <= confirmed[t]
        BY DEF IInv, PragmaTakesEffect
      <3>3. asked[c][t] <= confirmed[t]
        BY <1>1, <1>2 DEF IInv, RequestedInv, OnTtlPath
      <3> QED BY <3>1, <3>2, <3>3
    <2>3. promised'[t] = Max({promised[t], asked[c][t]})
      BY <1>1
    <2>4. promised'[t] \in {promised[t], asked[c][t]}
      BY <2>2, <2>3, MaxOfTwo
    <2> QED BY <2>2, <2>4
  <1>9. promised' \in [Tenant -> Nat] /\ PragmaTakesEffect'
    BY <1>1, <1>8 DEF PragmaTakesEffect
  <1>10. asked' \in [Conn -> [Tenant -> Nat]]
    BY <1>1, <1>2, GotTypes DEF TypeOK
  <1>4. TypeOK' /\ ChecksInv'
    <2>1. time \in Nat
      BY <1>2 DEF TypeOK
    <2>2. nextCheck' \in Int /\ failedAt' \in Int /\ ChecksInv'
      BY <1>1, <2>1 DEF ChecksInv
    <2>3. TypeOK'
      BY <1>1, <1>2, <1>3, <1>9, <1>10, <2>2 DEF TypeOK
    <2> QED BY <2>2, <2>3
  <1>5. PinnedInv'
    BY <1>1, <1>3 DEF IInv, PinnedInv
  <1>6. RequestedInv'
    <2>1. \A d \in Conn : ~Refreshes(d)'
      BY <1>3
    <2>2. pc'[c] # "want"
      BY <1>3
    <2>3. ASSUME NEW d \in Conn, d # c, ~OnTtlPath(d)', pc'[d] = "want", NEW t \in Tenant
          PROVE  asked'[d][t] <= Len(history'[t])
      <3>1. pc[d] = "want" /\ ~OnTtlPath(d)
        BY <1>1, <1>3, <2>3 DEF OnTtlPath
      <3>2. asked'[d] = asked[d]
        BY <1>1, <1>2, <2>3 DEF TypeOK
      <3>3. asked[d][t] <= Len(history[t])
        BY <3>1 DEF IInv, RequestedInv
      <3> QED BY <1>1, <3>2, <3>3
    <2> QED BY <2>1, <2>2, <2>3 DEF RequestedInv
  <1>7. Throttled'
    BY <1>3 DEF Throttled, Fetching, Refreshes
  <1> QED BY <1>1, <1>3, <1>4, <1>5, <1>6, <1>7, <1>9 DEF IInv

LEMMA PragmaFailInv == ASSUME NEW c \in Conn PROVE IInv /\ PragmaFail(c) => IInv'
PROOF
  <1> SUFFICES ASSUME IInv, PragmaFail(c) PROVE IInv'
    OBVIOUS
  <1>1. /\ pc[c] = "fetch" /\ pins[c] # NoGen
        /\ asked' = [asked EXCEPT ![c] = NotAsked]
        /\ Leave(c, "open")
        /\ UNCHANGED <<time, history, current, retired, nextCheck, now, pins, seen, confirmed, promised, failedAt>>
    BY DEF PragmaFail, Fetching, OnTtlPath, loki, catalog, ghost
  <1>2. TypeOK /\ Refreshes(c)
    BY <1>1 DEF IInv, Refreshes
  <1>3. /\ job' \in [Conn -> [got : Seq(Nat), version : Nat]]
        /\ pc' \in [Conn -> {"idle", "due", "pin", "open", "want", "fetch", "publish", "settle"}]
        /\ pc'[c] = "open" /\ lock' = NoGen
        /\ \A d \in Conn : ~Refreshes(d)'
        /\ \A d \in Conn \ {c} : pc'[d] = pc[d]
        /\ LockHeld' /\ FetchedInv' /\ Accurate'
    BY <1>1, <1>2, Leaves
  <1>8. asked' \in [Conn -> [Tenant -> Nat]]
    BY <1>1, <1>2, GotTypes DEF TypeOK
  <1>4. TypeOK' /\ ChecksInv'
    BY <1>1, <1>2, <1>3, <1>8 DEF IInv, TypeOK, ChecksInv
  <1>5. PinnedInv'
    BY <1>1, <1>3 DEF IInv, PinnedInv
  <1>6. RequestedInv'
    <2>1. \A d \in Conn : ~Refreshes(d)'
      BY <1>3
    <2>2. pc'[c] # "want"
      BY <1>3
    <2>3. ASSUME NEW d \in Conn, d # c, ~OnTtlPath(d)', pc'[d] = "want", NEW t \in Tenant
          PROVE  asked'[d][t] <= Len(history'[t])
      <3>1. pc[d] = "want" /\ ~OnTtlPath(d)
        BY <1>1, <1>3, <2>3 DEF OnTtlPath
      <3>2. asked'[d] = asked[d]
        BY <1>1, <1>2, <2>3 DEF TypeOK
      <3>3. asked[d][t] <= Len(history[t])
        BY <3>1 DEF IInv, RequestedInv
      <3> QED BY <1>1, <3>2, <3>3
    <2> QED BY <2>1, <2>2, <2>3 DEF RequestedInv
  <1>7. Throttled'
    BY <1>3 DEF Throttled, Fetching, Refreshes
  <1> QED BY <1>1, <1>3, <1>4, <1>5, <1>6, <1>7, PromisedFrame DEF IInv

LEMMA StutterInv == IInv /\ UNCHANGED vars => IInv'
PROOF
  <1> SUFFICES ASSUME IInv, UNCHANGED vars PROVE IInv'
    OBVIOUS
  <1>1. /\ UNCHANGED <<time, history, current, retired, nextCheck, lock, pc, now, job, pins>>
        /\ UNCHANGED <<seen, confirmed, asked, promised, failedAt>>
    BY DEF vars, loki, catalog, ghost
  <1>2. TypeOK'
    BY <1>1 DEF IInv, TypeOK
  <1> QED
    BY <1>1, <1>2, LockFrame, FetchedFrame, PinnedFrame, RequestedFrame, PromisedFrame,
       ChecksFrame DEF IInv

LEMMA NextInv == IInv /\ [Next]_vars => IInv'
PROOF
  <1> SUFFICES ASSUME IInv, [Next]_vars PROVE IInv'
    OBVIOUS
  <1>1. CASE UNCHANGED vars
    BY <1>1, StutterInv
  <1>2. CASE Tick
    BY <1>2, TickInv
  <1>3. CASE \E t \in Tenant : ChangeLabels(t)
    BY <1>3, ChangeLabelsInv
  <1>4. ASSUME NEW c \in Conn, Connection(c) PROVE IInv'
    <2>1. CASE StartTransaction(c)
      BY <2>1, TtlRefreshInv, TtlSkipInv, TtlDoneInv, TtlFailInv, PinInv DEF StartTransaction
    <2>2. CASE Refresh(c)
      BY <2>2, FetchTenantInv, KeepGenerationInv, PrepareGenerationInv, PublishInv DEF Refresh
    <2>3. CASE Begin(c) \/ Lookup(c) \/ End(c)
      BY <2>3, BeginInv, LookupInv, EndInv
    <2>4. CASE Pragma(c) \/ PragmaRefresh(c) \/ PragmaDone(c) \/ PragmaFail(c)
      BY <2>4, PragmaInv, PragmaRefreshInv, PragmaDoneInv, PragmaFailInv
    <2> QED BY <1>4, <2>1, <2>2, <2>3, <2>4 DEF Connection
  <1> QED BY <1>1, <1>2, <1>3, <1>4 DEF Next

LEMMA Invariance == Spec => []IInv
PROOF
  <1> QED BY InitInv, NextInv, PTL DEF Spec

-----------------------------------------------------------------------------
(* The properties of the runs.                                             *)

\* Every variable keeps its type, for any number of connections and tenants.
THEOREM TypeCorrect == Spec => []TypeOK
PROOF
  <1>1. IInv => TypeOK
    BY DEF IInv
  <1> QED BY <1>1, Invariance, PTL

\* The published columns are what Loki served when they were last confirmed, for
\* every tenant: no refresh is half done.
THEOREM AllOrNothing == Spec => []Accurate
PROOF
  <1>1. IInv => Accurate
    BY DEF IInv
  <1> QED BY <1>1, Invariance, PTL

\* After a successful PRAGMA loki_refresh_labels nobody is given older columns.
THEOREM RefreshTakesEffect == Spec => []PragmaTakesEffect
PROOF
  <1>1. IInv => PragmaTakesEffect
    BY DEF IInv
  <1> QED BY <1>1, Invariance, PTL

\* A time-based refresh only runs when it is due, however the connections that
\* found it due interleave.
THEOREM RefreshesWhenDue == Spec => []Throttled
PROOF
  <1>1. IInv => Throttled
    BY DEF IInv
  <1> QED BY <1>1, Invariance, PTL

\* An outage is paid for once per back-off.
THEOREM BacksOff == Spec => []OutageBackoff
PROOF
  <1>1. IInv => OutageBackoff
    <2> SUFFICES ASSUME IInv, NEW c \in Conn, Fetching(c), OnTtlPath(c)
                 PROVE  now[c] - failedAt >= Backoff
      BY DEF OutageBackoff
    <2>1. now[c] >= nextCheck
      BY DEF IInv, Throttled
    <2>2. nextCheck - failedAt >= Backoff
      BY DEF IInv, ChecksInv
    <2>3. now[c] \in Int /\ nextCheck \in Int /\ failedAt \in Int
      BY DEF IInv, TypeOK
    <2> QED BY <2>1, <2>2, <2>3
  <1> QED BY <1>1, Invariance, PTL

\* A transaction looks up one generation, however many are published meanwhile.
THEOREM OneGeneration == Spec => []OneGenerationPerTransaction
PROOF
  <1>1. IInv => OneGenerationPerTransaction
    <2> SUFFICES ASSUME IInv, NEW c \in Conn PROVE Cardinality(seen[c]) <= 1
      BY DEF OneGenerationPerTransaction
    <2>1. seen[c] \subseteq {pins[c].version}
      BY DEF IInv, PinnedInv
    <2>2. Cardinality({pins[c].version}) = 1 /\ IsFiniteSet({pins[c].version})
      BY FS_Singleton
    <2>3. Cardinality(seen[c]) <= Cardinality({pins[c].version})
      BY <2>1, <2>2, FS_Subset
    <2> QED BY <2>2, <2>3
  <1> QED BY <1>1, Invariance, PTL

\* A refresh never replaces a tenant's columns by staler ones.
THEOREM NewerOnly == Spec => NeverStaler
PROOF
  <1> DEFINE Newer == \A t \in Tenant : confirmed'[t] >= confirmed[t]
  <1>1. IInv /\ [Next]_vars => [Newer]_vars
    <2> SUFFICES ASSUME IInv, Next PROVE Newer
      OBVIOUS
    <2>1. \A t \in Tenant : confirmed[t] \in Nat
      BY DEF IInv, TypeOK
    <2>2. CASE UNCHANGED confirmed
      BY <2>1, <2>2
    <2>3. ASSUME NEW c \in Conn, KeepGeneration(c) \/ Publish(c) PROVE Newer
      <3>1. /\ pc[c] \in {"fetch", "publish"}
            /\ confirmed' = [t \in Tenant |-> job[c].got[t]]
            /\ pc[c] = "fetch" => Len(job[c].got) = NTenants
        BY <2>3 DEF KeepGeneration, Publish, Fetching
      <3>2. Len(job[c].got) = NTenants
        BY <3>1 DEF IInv, FetchedInv
      <3>3. \A t \in Tenant : confirmed[t] <= job[c].got[t] /\ job[c].got[t] \in Nat
        BY <3>2, GotTypes DEF IInv, FetchedInv
      <3> QED BY <2>1, <3>1, <3>3
    <2>4. UNCHANGED confirmed \/ \E c \in Conn : KeepGeneration(c) \/ Publish(c)
      BY DEF Next, Tick, ChangeLabels, Connection, Begin, StartTransaction, TtlRefresh, TtlSkip,
             TtlDone, TtlFail, Pin, Refresh, FetchTenant, PrepareGeneration, Pragma, PragmaRefresh,
             PragmaDone, PragmaFail, Lookup, End, ghost
    <2> QED BY <2>2, <2>3, <2>4
  <1> QED BY <1>1, Invariance, PTL DEF Spec, NeverStaler

-----------------------------------------------------------------------------
(* The detailed cache implements the abstract store.                       *)

Shown == [c \in Conn |-> IF pins[c] = NoGen THEN NoGen ELSE pins[c].labels]

LEMMA StoreInit == Init => Store!Init
  BY DEF Init, Store!Init, Store!Tenant

LEMMA ShownFrame == UNCHANGED pins => UNCHANGED Shown
  BY DEF Shown

\* A refresh that adopts its answers replaces the columns of all tenants at once.
LEMMA AdoptsInStore ==
    ASSUME IInv, NEW c \in Conn, KeepGeneration(c) \/ Publish(c)
    PROVE  Store!Refresh
PROOF
  <1>1. /\ pc[c] \in {"fetch", "publish"}
        /\ pc[c] = "fetch" => Len(job[c].got) = NTenants
        /\ confirmed' = [t \in Tenant |-> job[c].got[t]]
        /\ UNCHANGED <<history, pins>>
        /\ current'.labels = [t \in Tenant |-> history[t][job[c].got[t]]]
    BY DEF KeepGeneration, Publish, Fetching, Unchanged, FetchedLabels, loki, catalog
  <1>2. Len(job[c].got) = NTenants
    BY <1>1 DEF IInv, FetchedInv
  <1>3. \A t \in Tenant :
            /\ confirmed[t] \in Nat /\ job[c].got[t] \in Nat /\ Len(history[t]) \in Nat
            /\ confirmed[t] <= job[c].got[t] /\ job[c].got[t] \in 1 .. Len(history[t])
    <2>1. \A t \in Tenant : confirmed[t] \in Nat /\ history[t] \in Seq(LabelSet)
      BY DEF IInv, TypeOK
    <2>2. \A t \in Tenant : job[c].got[t] \in Nat
      BY <1>2, GotTypes DEF IInv
    <2>3. \A t \in Tenant : confirmed[t] <= job[c].got[t] /\ job[c].got[t] \in 1 .. Len(history[t])
      BY <1>2 DEF IInv, FetchedInv
    <2> QED BY <2>1, <2>2, <2>3
  <1>4. \A t \in Tenant : confirmed'[t] = job[c].got[t]
    BY <1>1
  <1>5. current'.labels = [t \in Tenant |-> history[t][confirmed'[t]]]
    BY <1>1, <1>4
  <1>6. UNCHANGED Shown
    BY <1>1, ShownFrame
  <1>7. confirmed' = [t \in Tenant |-> confirmed'[t]]
    BY <1>1, <1>4
  <1>8. \A t \in Tenant : confirmed'[t] \in confirmed[t] .. Len(history[t])
    BY <1>3, <1>4
  <1> QED BY <1>1, <1>5, <1>6, <1>7, <1>8 DEF Store!Refresh, Store!Tenant, Shown

LEMMA PinInStore == ASSUME IInv, NEW c \in Conn, Pin(c) PROVE Store!Start(c)
PROOF
  <1>1. pc[c] = "pin" /\ pins' = [pins EXCEPT ![c] = current]
        /\ UNCHANGED <<history, confirmed, current>>
    BY DEF Pin, loki, catalog, ghost
  <1>2. pins[c] = NoGen /\ current # NoGen /\ pins \in [Conn -> Generation \cup {NoGen}]
    BY <1>1 DEF IInv, PinnedInv, TypeOK
  <1>3. Shown[c] = NoGen
    BY <1>2 DEF Shown
  <1>4. Shown' = [Shown EXCEPT ![c] = current.labels]
    BY <1>1, <1>2 DEF Shown
  <1> QED BY <1>1, <1>3, <1>4 DEF Store!Start, Shown

LEMMA EndInStore == ASSUME IInv, NEW c \in Conn, End(c) PROVE Store!End(c)
PROOF
  <1>1. pins' = [pins EXCEPT ![c] = NoGen] /\ UNCHANGED <<history, confirmed, current>>
    BY DEF End, loki, catalog
  <1>2. pins \in [Conn -> Generation \cup {NoGen}]
    BY DEF IInv, TypeOK
  <1>3. Shown' = [Shown EXCEPT ![c] = NoGen]
    BY <1>1, <1>2 DEF Shown
  <1> QED BY <1>1, <1>3 DEF Store!End, Shown

\* Every step of the cache is a step of the store, or changes nothing it shows.
LEMMA StoreStep == IInv /\ [Next]_vars => [Store!Next]_(Store!vars)
PROOF
  <1> SUFFICES ASSUME IInv, [Next]_vars PROVE [Store!Next]_(Store!vars)
    OBVIOUS
  <1>1. CASE UNCHANGED <<history, confirmed, current, pins>>
    <2>1. UNCHANGED Shown
      BY <1>1, ShownFrame
    <2> QED BY <1>1, <2>1 DEF Store!vars, Shown
  <1>2. ASSUME NEW t \in Tenant, ChangeLabels(t) PROVE Store!Next
    <2>1. /\ \E l \in LabelSet : history' = [history EXCEPT ![t] = Append(@, l)]
          /\ UNCHANGED <<confirmed, current, pins>>
      BY <1>2 DEF ChangeLabels, catalog, ghost
    <2>2. UNCHANGED Shown
      BY <2>1, ShownFrame
    <2>3. Store!ChangeLabels(t)
      BY <2>1, <2>2 DEF Store!ChangeLabels, Shown
    <2> QED BY <2>3 DEF Store!Next, Store!Tenant
  <1>3. ASSUME NEW c \in Conn, KeepGeneration(c) \/ Publish(c) PROVE Store!Next
    BY <1>3, AdoptsInStore DEF Store!Next
  <1>4. ASSUME NEW c \in Conn, Pin(c) \/ End(c) PROVE Store!Next
    BY <1>4, PinInStore, EndInStore DEF Store!Next
  <1>5. \/ UNCHANGED <<history, confirmed, current, pins>>
        \/ \E t \in Tenant : ChangeLabels(t)
        \/ \E c \in Conn : KeepGeneration(c) \/ Publish(c) \/ Pin(c) \/ End(c)
    <2>1. CASE UNCHANGED vars
      BY <2>1 DEF vars, loki, catalog, ghost
    <2>2. CASE Tick
      BY <2>2 DEF Tick, catalog, ghost
    <2>3. ASSUME NEW c \in Conn, Connection(c)
          PROVE  \/ UNCHANGED <<history, confirmed, current, pins>>
                 \/ KeepGeneration(c) \/ Publish(c) \/ Pin(c) \/ End(c)
      BY <2>3 DEF Connection, Begin, StartTransaction, TtlRefresh, TtlSkip, TtlDone, TtlFail,
             Refresh, FetchTenant, PrepareGeneration, Pragma, PragmaRefresh, PragmaDone,
             PragmaFail, Lookup, loki, catalog, ghost
    <2> QED BY <2>1, <2>2, <2>3 DEF Next
  <1> QED BY <1>1, <1>2, <1>3, <1>4, <1>5

\* The cache, with its lock, clock, generations and failing requests, implements a
\* store in which a refresh is one step and a transaction sees one state.
THEOREM CacheIsAtomicStore == Spec => ImplementsLabelStore
PROOF
  <1> QED BY StoreInit, StoreStep, Invariance, PTL DEF Spec, ImplementsLabelStore, Store!Spec

-----------------------------------------------------------------------------
(* Generations: version numbers are not reused while anyone can still see  *)
(* them, and superseded generations do not pile up.                        *)

\* The superseded generations somebody can still see.
Alive == retired \cup {pins[c] : c \in {d \in Conn : pins[d] # NoGen}}

\* A version that is about to be published was drawn from what is published:
\* refresh_lock keeps every other publication away in between.
FreshVersion ==
    \A c \in Conn : pc[c] = "publish" => job[c].version = current.version + 1

GenerationInv ==
    /\ VersionsNameGenerations
    /\ FreshVersion
    /\ IsFiniteSet(retired)
    /\ RetiredBounded

-----------------------------------------------------------------------------
LEMMA AliveMeans ==
    VersionsNameGenerations <=>
        \A g \in Alive : g.version <= current.version /\
            \A h \in Alive \cup {current} : g.version = h.version => g = h
  BY DEF VersionsNameGenerations, Alive

\* Whatever is alive is a generation, and has a version.
LEMMA AliveTypes ==
    TypeOK => /\ Alive \subseteq Generation
              /\ \A g \in Generation : g.version \in Nat
PROOF
  <1> SUFFICES ASSUME TypeOK
               PROVE  Alive \subseteq Generation /\ \A g \in Generation : g.version \in Nat
    OBVIOUS
  <1>1. \A c \in Conn : pins[c] # NoGen => pins[c] \in Generation
    BY DEF TypeOK
  <1>2. Alive \subseteq Generation
    BY <1>1 DEF Alive, TypeOK
  <1> QED BY <1>2 DEF Generation

\* At most one generation per connection is pinned.
LEMMA HeldAreFew ==
    ASSUME NEW gens
    PROVE  /\ IsFiniteSet(StillHeld(gens))
           /\ Cardinality(StillHeld(gens)) <= Cardinality(Conn)
PROOF
  <1> DEFINE holders == {c \in Conn : pins[c] \in gens}
             held == [c \in holders |-> pins[c]]
  <1>1. /\ IsFiniteSet(holders) /\ IsFiniteSet(Conn)
        /\ Cardinality(holders) <= Cardinality(Conn)
    BY FS_Subset
  <1>2. held \in Surjection(holders, StillHeld(gens))
    BY DEF Surjection, StillHeld
  <1>3. IsFiniteSet(StillHeld(gens)) /\ Cardinality(StillHeld(gens)) <= Cardinality(holders)
    BY <1>1, <1>2, FS_Surjection
  <1>4. /\ Cardinality(StillHeld(gens)) \in Nat /\ Cardinality(holders) \in Nat
        /\ Cardinality(Conn) \in Nat
    BY <1>1, <1>3, FS_CardinalityType
  <1> QED BY <1>1, <1>3, <1>4

LEMMA GenerationInit == Init => GenerationInv
PROOF
  <1> SUFFICES ASSUME Init PROVE GenerationInv
    OBVIOUS
  <1>1. Alive = {}
    BY DEF Init, Alive
  <1>2. FreshVersion
    BY DEF Init, FreshVersion
  <1>3. retired = {} /\ IsFiniteSet(Conn)
    BY DEF Init
  <1>4. IsFiniteSet(retired) /\ RetiredBounded
    BY <1>3, FS_EmptySet, FS_CardinalityType DEF RetiredBounded
  <1> QED BY <1>1, <1>2, <1>4, AliveMeans DEF GenerationInv

-----------------------------------------------------------------------------
(* The steps that change what is alive, published or about to be.          *)

LEMMA PublishGeneration ==
    ASSUME IInv, GenerationInv, NEW c \in Conn, Publish(c)
    PROVE  GenerationInv'
PROOF
  <1>1. /\ pc[c] = "publish"
        /\ current'.version = job[c].version
        /\ retired' = StillHeld(retired \cup {current})
        /\ pc' = [pc EXCEPT ![c] = "settle"]
        /\ UNCHANGED pins
    BY DEF Publish, Goto
  <1>2. current'.version = current.version + 1
    BY <1>1 DEF GenerationInv, FreshVersion
  <1>3. Alive' \subseteq Alive \cup {current}
    BY <1>1 DEF Alive, StillHeld
  <1>4. Alive \subseteq Generation /\ current \in Generation /\ current.version \in Nat
    BY AliveTypes DEF IInv, TypeOK
  <1>5. \A g \in Alive : g.version \in Nat
    BY <1>4, AliveTypes DEF IInv
  <1>6. \A g \in Alive \cup {current} : g.version <= current.version
    BY <1>4, AliveMeans DEF GenerationInv
  <1>7. \A g, h \in Alive \cup {current} : g.version = h.version => g = h
    BY AliveMeans DEF GenerationInv
  <1>8. \A g \in Alive' : g.version <= current'.version /\ g.version # current'.version
    BY <1>2, <1>3, <1>4, <1>5, <1>6
  <1>9. VersionsNameGenerations'
    BY <1>3, <1>7, <1>8, AliveMeans DEF VersionsNameGenerations, Alive
  <1>10. FreshVersion'
    <2>1. \A d \in Conn : pc[d] = "publish" => d = c
      BY <1>1 DEF IInv, LockHeld, Refreshes
    <2> QED BY <1>1, <2>1 DEF FreshVersion, IInv, TypeOK
  <1>11. IsFiniteSet(retired') /\ RetiredBounded'
    BY <1>1, HeldAreFew DEF RetiredBounded
  <1> QED BY <1>9, <1>10, <1>11 DEF GenerationInv

LEMMA PrepareVersion ==
    ASSUME IInv, GenerationInv, NEW c \in Conn, PrepareGeneration(c)
    PROVE  GenerationInv'
PROOF
  <1>1. /\ job' = [job EXCEPT ![c].version = current.version + 1]
        /\ pc' = [pc EXCEPT ![c] = "publish"]
        /\ UNCHANGED <<current, retired, pins>>
    BY DEF PrepareGeneration, Goto, catalog
  <1>2. FreshVersion'
    BY <1>1 DEF GenerationInv, FreshVersion, IInv, TypeOK
  <1> QED BY <1>1, <1>2 DEF GenerationInv, VersionsNameGenerations, RetiredBounded

\* Pinning keeps alive what is published, ending a transaction keeps nothing new.
LEMMA PinsKeepVersions ==
    ASSUME IInv, GenerationInv, NEW c \in Conn, Pin(c) \/ End(c)
    PROVE  GenerationInv'
PROOF
  <1>1. /\ \E to \in {"open", "idle"} : pc' = [pc EXCEPT ![c] = to]
        /\ \E g \in {current, NoGen} : pins' = [pins EXCEPT ![c] = g]
        /\ UNCHANGED <<current, retired, job>>
    BY DEF Pin, End, Goto, catalog
  <1>2. FreshVersion'
    BY <1>1 DEF GenerationInv, FreshVersion, IInv, TypeOK
  <1>3. Alive' \subseteq Alive \cup {current}
    BY <1>1 DEF Alive, IInv, TypeOK
  <1>4. current \in Generation /\ current.version \in Nat
    BY AliveTypes DEF IInv, TypeOK
  <1>5. \A g \in Alive \cup {current} : g.version <= current.version
    BY <1>4, AliveMeans DEF GenerationInv
  <1>6. \A g, h \in Alive \cup {current} : g.version = h.version => g = h
    BY AliveMeans DEF GenerationInv
  <1>7. VersionsNameGenerations'
    BY <1>1, <1>3, <1>5, <1>6 DEF VersionsNameGenerations, Alive
  <1> QED BY <1>1, <1>2, <1>7 DEF GenerationInv, RetiredBounded

\* No other step touches a generation, or goes to publish.
LEMMA OthersKeepGenerations ==
    ASSUME IInv, GenerationInv,
           UNCHANGED <<current, retired, pins>>,
           \A c \in Conn : pc'[c] = "publish" => pc[c] = "publish" /\ UNCHANGED job[c]
    PROVE  GenerationInv'
  BY DEF GenerationInv, FreshVersion, VersionsNameGenerations, RetiredBounded

LEMMA Moves ==
    ASSUME TypeOK, NEW c \in Conn, NEW to, Goto(c, to), to # "publish", NEW x,
           job' = job \/ job' = [job EXCEPT ![c] = x]
    PROVE  \A d \in Conn : pc'[d] = "publish" => pc[d] = "publish" /\ UNCHANGED job[d]
  BY DEF TypeOK, Goto

LEMMA GenerationStep == IInv /\ GenerationInv /\ [Next]_vars => GenerationInv'
PROOF
  <1> SUFFICES ASSUME IInv, GenerationInv, [Next]_vars PROVE GenerationInv'
    OBVIOUS
  <1>1. CASE UNCHANGED <<current, retired, pins, pc, job>>
    BY <1>1, OthersKeepGenerations
  <1>2. CASE UNCHANGED vars \/ Tick \/ \E t \in Tenant : ChangeLabels(t)
    <2>1. UNCHANGED <<current, retired, pins, pc, job>>
      BY <1>2 DEF vars, Tick, ChangeLabels, catalog
    <2> QED BY <1>1, <2>1
  <1>3. ASSUME NEW c \in Conn, Connection(c) PROVE GenerationInv'
    <2>1. CASE Publish(c) \/ PrepareGeneration(c) \/ Pin(c) \/ End(c)
      BY <2>1, PublishGeneration, PrepareVersion, PinsKeepVersions
    <2>2. CASE Lookup(c)
      BY <1>1, <2>2 DEF Lookup, catalog
    <2>3. CASE FetchTenant(c)
      <3>1. /\ \A d \in Conn : d # c => UNCHANGED job[d]
            /\ pc[c] = "fetch" /\ UNCHANGED <<current, retired, pins, pc>>
        BY <2>3 DEF FetchTenant, Fetching, catalog, IInv, TypeOK
      <3> QED BY <3>1, OthersKeepGenerations
    <2>4. CASE \/ Begin(c) \/ TtlRefresh(c) \/ TtlSkip(c) \/ TtlDone(c) \/ TtlFail(c)
               \/ KeepGeneration(c) \/ Pragma(c) \/ PragmaRefresh(c) \/ PragmaDone(c)
               \/ PragmaFail(c)
      <3>1. /\ \E to \in {"due", "pin", "open", "want", "fetch", "settle"} : Goto(c, to)
            /\ job' = job \/ job' = [job EXCEPT ![c] = NoJob]
            /\ UNCHANGED <<current, retired, pins>>
        BY <2>4 DEF Begin, TtlRefresh, TtlSkip, TtlDone, TtlFail, KeepGeneration, Pragma,
                    PragmaRefresh, PragmaDone, PragmaFail, Leave, catalog
      <3>2. \A d \in Conn : pc'[d] = "publish" => pc[d] = "publish" /\ UNCHANGED job[d]
        BY <3>1, Moves DEF IInv
      <3> QED BY <3>1, <3>2, OthersKeepGenerations
    <2> QED BY <1>3, <2>1, <2>2, <2>3, <2>4 DEF Connection, StartTransaction, Refresh
  <1> QED BY <1>2, <1>3 DEF Next

LEMMA GenerationInvariance == Spec => []GenerationInv
PROOF
  <1> QED BY Invariance, GenerationInit, GenerationStep, PTL DEF Spec

-----------------------------------------------------------------------------
\* A version number names one generation among those somebody can still see, and
\* none of them is newer than the published one.
THEOREM VersionsAreUnique == Spec => []VersionsNameGenerations
PROOF
  <1>1. GenerationInv => VersionsNameGenerations
    BY DEF GenerationInv
  <1> QED BY <1>1, GenerationInvariance, PTL

\* However many generations are published, at most one per connection is kept.
THEOREM RetiredStaysBounded == Spec => []RetiredBounded
PROOF
  <1>1. GenerationInv => RetiredBounded
    BY DEF GenerationInv
  <1> QED BY <1>1, GenerationInvariance, PTL
=============================================================================
