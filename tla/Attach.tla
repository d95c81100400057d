------------------------------- MODULE Attach -------------------------------
(***************************************************************************)
(* ATTACH (TYPE loki), the schemas and tables of the databases it makes,   *)
(* scans of them, and PRAGMA loki_refresh_labels over several of them      *)
(* (src/loki/catalog.cpp).  One connection attaches, another runs PRAGMAs; *)
(* both ask Loki one tenant at a time, and label sets change in between.   *)
(* LabelCatalog has one database, with its transactions and its TTL.       *)
(*                                                                         *)
(* DETACH is DuckDB's own: no code here takes part in it.                  *)
(***************************************************************************)
EXTENDS Connection, Subsequences

CONSTANTS
    Database,       \* names of databases
    AttachCall,     \* [secret, url, named, options, labels, ttl, cap, tenants]
    Org,            \* whose labels Loki serves: a tenant, or Absent without a header
    Answers,        \* [Org -> the successive answers to /labels] (external)
    Invalid,        \* names outside the label grammar
    Lower(_),       \* a name without its case
    MaxAttached     \* bound: secrets change while fewer databases are attached

ASSUME BoundAssumption == MaxAttached \in Nat /\ Absent \notin Database

ASSUME CallAssumption ==
    \A call \in AttachCall :
        /\ Configuration(call.options)
        /\ call.url # Absent => call.url \in Seq(STRING)
        /\ call.labels # Absent => call.labels \in Seq(STRING)
        /\ call.tenants \in Seq(STRING)

ASSUME AnswersAssumption ==
    /\ Answers \in [Org -> Seq(Seq(STRING))]
    /\ \A org \in Org : Answers[org] # <<>>

\* Loki answers whatever tenant it is asked for.
KnownTenants(config) ==
    /\ Given(config.tenant) => config.tenant \in Org
    /\ config.headers # Absent =>
          \A i \in DOMAIN config.headers :
              config.headers[i][1] = "X-Scope-OrgID" => config.headers[i][2] \in Org

ASSUME OrgAssumption ==
    /\ Absent \in Org
    /\ KnownTenants(Environment)
    /\ \A n \in SecretName : \A def \in Definition[n] : KnownTenants(def.options)
    /\ \A call \in AttachCall :
          /\ KnownTenants(call.options)
          /\ \A i \in DOMAIN call.tenants : Given(call.tenants[i]) => call.tenants[i] \in Org

VARIABLES
    latest,         \* [Org -> which of its Answers Loki gives now] (external)
    dbs,            \* attached: name |-> [conn, pinned, schemas]
    attach,         \* the ATTACH in progress, or Absent
    pragma,         \* the PRAGMA in progress, or Absent
    finished        \* history: what the PRAGMA that has just succeeded had to
                    \* reach: the databases, and latest when it began

catalog == <<dbs, attach, pragma>>
vars == <<secrets, statement, latest, catalog, finished>>

Names(seq) == {Lower(seq[i]) : i \in DOMAIN seq}
Distinct(seq) == \A i, j \in DOMAIN seq : Lower(seq[i]) = Lower(seq[j]) => i = j

ChangeLabels(org) ==
    /\ latest[org] < Len(Answers[org])
    /\ latest' = [latest EXCEPT ![org] = @ + 1]
    /\ finished' = Absent
    /\ UNCHANGED <<secrets, statement, catalog>>

-----------------------------------------------------------------------------
(* Requests of a database, and the columns made of the answers.            *)

\* Mutated form of TenantAuth: every tenant goes out with the base tenant.
TenantAuthBase(conn, tenant) == conn.auth

TenantAuth(conn, tenant) ==
    IF Given(tenant) THEN [conn.auth EXCEPT !.tenant = tenant] ELSE conn.auth

Headers(conn, tenant) == BuildAuthHeaders(TenantAuth(conn, tenant))

\* Whose labels Loki answers.
Asked(conn, tenant) == Reads(Headers(conn, tenant), "X-Scope-OrgID")

Fixed == <<"timestamp", "line", "labels", "structured_metadata">>

ASSUME LowerAssumption == \A i \in DOMAIN Fixed : Lower(Fixed[i]) = Fixed[i]

\* LokiIsReservedColumnName
Reserved(name) == Lower(name) \in Names(Fixed)

Promotable(name) == name \notin Invalid /\ ~Reserved(name)

\* Mutated form of Promoted: names that differ in case are both kept.
PromotedEach(names) == SelectSeq(names, Promotable)

\* FetchLokiLabelNames: the rest is dropped, and the repetitions of what is kept.
Promoted(names) ==
    Subsequence(names, {i \in DOMAIN names :
        /\ Promotable(names[i])
        /\ \A j \in 1 .. i - 1 : Promotable(names[j]) => Lower(names[j]) # Lower(names[i])})

LogsColumns(labels) == SubSeq(Fixed, 1, 2) \o labels \o SubSeq(Fixed, 3, 4)
SeriesColumns(labels) == Append(labels, "labels")

\* One schema per tenant: its promoted labels, and which answer they are from.
Schema(name, tenant, labels, from) ==
    [name |-> name, tenant |-> tenant, labels |-> labels, from |-> from]

\* One tenant's labels arrive.
Discovered(conn, name, tenant) ==
    LET org == Asked(conn, tenant)
    IN Schema(name, tenant, Promoted(Answers[org][latest[org]]), latest[org])

-----------------------------------------------------------------------------
(* ATTACH.                                                                 *)

\* ResolveLokiConnectionFromOptions: a path is a URL, or the name of a secret
\* that the `secret` option overrides, even with ''.
ResolveLokiConnectionFromOptions(call) ==
    LET endpoint == IF call.options.endpoint # Absent THEN call.options.endpoint ELSE call.url
    IN [secret |-> CASE call.secret = Absent -> call.named
                     [] call.secret = "" -> Absent
                     [] OTHER -> call.secret,
        path |-> endpoint, options |-> [call.options EXCEPT !.endpoint = endpoint]]

Acceptable(call) ==
    /\ call.labels # Absent =>
          /\ \A i \in DOMAIN call.labels : Promotable(call.labels[i])
          /\ Distinct(call.labels)
          /\ call.ttl = 0
    /\ call.cap = Absent \/ call.cap > 0

\* Mutated form of Tenants: only what the option lists.
TenantsListed(call, conn) ==
    [i \in DOMAIN call.tenants |-> [name |-> call.tenants[i], tenant |-> call.tenants[i]]]

\* The schemas to make: one per tenant listed, else one for the tenant of the options.
Tenants(call, conn) ==
    IF call.tenants = <<>> THEN <<[name |-> "public", tenant |-> conn.auth.tenant]>>
    ELSE [i \in DOMAIN call.tenants |-> [name |-> call.tenants[i], tenant |-> call.tenants[i]]]

\* LokiAttach resolves the connection, then checks its options.
StartAttach(d, call) ==
    LET target == ResolveLokiConnectionFromOptions(call)
    IN /\ attach = Absent
       /\ d \notin DOMAIN dbs
       /\ \E c \in Connections(target) :
             /\ statement' = [target |-> target, conn |-> c]
             /\ attach' = IF c = Absent \/ ~Acceptable(call) THEN Absent
                          ELSE [db |-> d, call |-> call, conn |-> c, schemas |-> <<>>]
       /\ finished' = Absent
       /\ UNCHANGED <<secrets, latest, dbs, pragma>>

\* The next schema: the labels given, or those Loki answers.
AttachTenant ==
    /\ attach # Absent
    /\ LET todo == Tenants(attach.call, attach.conn)
           next == todo[Len(attach.schemas) + 1]
           schema == IF attach.call.labels # Absent
                       THEN Schema(next.name, next.tenant, attach.call.labels, 0)
                     ELSE Discovered(attach.conn, next.name, next.tenant)
       IN /\ Len(attach.schemas) < Len(todo)
          /\ attach' = [attach EXCEPT !.schemas = Append(@, schema)]
    /\ statement' = Absent /\ finished' = Absent
    /\ UNCHANGED <<secrets, latest, dbs, pragma>>

\* A request that fails fails the ATTACH.
AttachFails ==
    /\ attach # Absent
    /\ attach.call.labels = Absent
    /\ Len(attach.schemas) < Len(Tenants(attach.call, attach.conn))
    /\ attach' = Absent
    /\ statement' = Absent /\ finished' = Absent
    /\ UNCHANGED <<secrets, latest, dbs, pragma>>

\* The catalog is made and initialised, and DuckDB lists the database.
Attached ==
    /\ attach # Absent
    /\ Len(attach.schemas) = Len(Tenants(attach.call, attach.conn))
    /\ dbs' = [d \in DOMAIN dbs \cup {attach.db} |->
                  IF d # attach.db THEN dbs[d]
                  ELSE [conn |-> attach.conn, pinned |-> attach.call.labels # Absent,
                        schemas |-> attach.schemas]]
    /\ attach' = Absent
    /\ statement' = Absent /\ finished' = Absent
    /\ UNCHANGED <<secrets, latest, pragma>>

-----------------------------------------------------------------------------
(* Scans.                                                                  *)

\* The first schema whose name matches, whatever its case.
LookupSchema(db, name) ==
    db.schemas[SelectInSeq(db.schemas, LAMBDA s : Lower(s.name) = Lower(name))]

\* GetScanFunction: a scan of logs, labels or series sends its schema's headers.
ScanRequest(db, name) ==
    LET schema == LookupSchema(db, name)
    IN [headers |-> Headers(db.conn, schema.tenant), labels |-> schema.labels]

-----------------------------------------------------------------------------
(* PRAGMA loki_refresh_labels, for one database or for all.                *)

Unpinned == {d \in DOMAIN dbs : ~dbs[d].pinned}

StartPragma(todo, promised) ==
    /\ pragma = Absent
    /\ pragma' = [todo |-> todo, db |-> Absent, got |-> <<>>,
                  dbs |-> promised, since |-> latest]
    /\ statement' = Absent /\ finished' = Absent
    /\ UNCHANGED <<secrets, latest, dbs, attach>>

\* Bare: the databases attached when it starts.
BarePragma == StartPragma(DOMAIN dbs, Unpinned)

\* Named: refused for one that is not attached, or pinned.
NamedPragma(d) ==
    /\ d \in DOMAIN dbs
    /\ ~dbs[d].pinned
    /\ StartPragma({d}, {d})

\* RefreshOneDatabase, in an order of DuckDB's; a bare PRAGMA skips the pinned ones.
NextDatabase(d) ==
    /\ pragma # Absent
    /\ pragma.db = Absent
    /\ d \in pragma.todo
    /\ pragma' = [pragma EXCEPT !.todo = @ \ {d},
                                !.db = IF dbs[d].pinned THEN Absent ELSE d]
    /\ statement' = Absent /\ finished' = Absent
    /\ UNCHANGED <<secrets, latest, dbs, attach>>

Refreshing == pragma # Absent /\ pragma.db # Absent

RefreshTenant ==
    /\ Refreshing
    /\ LET db == dbs[pragma.db]
           next == db.schemas[Len(pragma.got) + 1]
       IN /\ Len(pragma.got) < Len(db.schemas)
          /\ pragma' = [pragma EXCEPT !.got = Append(@, Discovered(db.conn, next.name, next.tenant))]
    /\ statement' = Absent /\ finished' = Absent
    /\ UNCHANGED <<secrets, latest, dbs, attach>>

\* Every tenant has answered: the database changes at once.
Refreshed ==
    /\ Refreshing
    /\ Len(pragma.got) = Len(dbs[pragma.db].schemas)
    /\ dbs' = [dbs EXCEPT ![pragma.db].schemas = pragma.got]
    /\ pragma' = [pragma EXCEPT !.db = Absent, !.got = <<>>]
    /\ statement' = Absent /\ finished' = Absent
    /\ UNCHANGED <<secrets, latest, attach>>

\* Mutated form of AfterFailure: the error is left behind with its database.
AfterFailureNext == [pragma EXCEPT !.db = Absent, !.got = <<>>]

\* The error ends the statement.
AfterFailure == Absent

RefreshFails ==
    /\ Refreshing
    /\ Len(pragma.got) < Len(dbs[pragma.db].schemas)
    /\ pragma' = AfterFailure
    /\ statement' = Absent /\ finished' = Absent
    /\ UNCHANGED <<secrets, latest, dbs, attach>>

PragmaDone ==
    /\ pragma # Absent
    /\ pragma.db = Absent
    /\ pragma.todo = {}
    /\ pragma' = Absent
    /\ finished' = [dbs |-> pragma.dbs, since |-> pragma.since]
    /\ statement' = Absent
    /\ UNCHANGED <<secrets, latest, dbs, attach>>

-----------------------------------------------------------------------------
Elsewhere == Cardinality(DOMAIN dbs) < MaxAttached /\ finished' = Absent /\ UNCHANGED <<latest, catalog>>

Init ==
    /\ secrets = [n \in {} |-> Absent]
    /\ statement = Absent
    /\ latest = [org \in Org |-> 1]
    /\ dbs = [d \in {} |-> Absent]
    /\ attach = Absent
    /\ pragma = Absent
    /\ finished = Absent

Next ==
    \/ \E name \in SecretName :
          \/ \E def \in Definition[name] : CreateSecret(name, def) /\ Elsewhere
          \/ DropSecret(name) /\ Elsewhere
    \/ \E call \in FunctionCall : CallFunction(call) /\ Elsewhere
    \/ \E org \in Org : ChangeLabels(org)
    \/ \E d \in Database :
          \/ \E call \in AttachCall : StartAttach(d, call)
          \/ NamedPragma(d)
          \/ NextDatabase(d)
    \/ AttachTenant
    \/ AttachFails
    \/ Attached
    \/ BarePragma
    \/ RefreshTenant
    \/ Refreshed
    \/ RefreshFails
    \/ PragmaDone

Spec == Init /\ [][Next]_vars

-----------------------------------------------------------------------------
(* Properties.                                                             *)

TypeOK ==
    /\ DOMAIN secrets \subseteq SecretName
    /\ \A n \in DOMAIN secrets : DOMAIN secrets[n].config = Field
    /\ Connected => Conn.secret \in SecretName \cup {Absent}
    /\ DOMAIN dbs \subseteq Database
    /\ \A d \in DOMAIN dbs : dbs[d].schemas # <<>>
    /\ attach # Absent => attach.db \in Database \ DOMAIN dbs
    /\ pragma # Absent => pragma.todo \subseteq DOMAIN dbs

\* Every table can be created: its columns have distinct names, whatever the case,
\* and no name outside the label grammar, which is put into LogQL as it is, becomes
\* one; whatever Loki answers, at the ATTACH or at a refresh (catalog.cpp:128-134).
ColumnsWellFormed ==
    \A d \in DOMAIN dbs : \A i \in DOMAIN dbs[d].schemas :
        LET labels == dbs[d].schemas[i].labels
        IN /\ Distinct(LogsColumns(labels)) /\ Distinct(SeriesColumns(labels))
           /\ Range(labels) \cap Invalid = {}

\* A tenant's schema asks for that tenant's data only, whatever tenant or headers the
\* secret and the options have, and has columns from that tenant's labels; in scans,
\* when it is attached, and after a refresh (README.md:239-240).  Of tenants that
\* differ in case only, LookupSchema finds the first: a database that has some is
\* left out of what is said of scans.
TenantIsolation ==
    \A d \in DOMAIN dbs : \A s \in Range(dbs[d].schemas) :
        Given(s.tenant) =>
            /\ ~dbs[d].pinned => s.labels = Promoted(Answers[s.tenant][s.from])
            /\ (\A x \in Range(dbs[d].schemas) : Lower(x.name) = Lower(s.name) => x = s) =>
                  LET request == ScanRequest(dbs[d], s.name)
                  IN /\ Reads(request.headers, "X-Scope-OrgID") = s.tenant
                     /\ request.labels = s.labels

\* A PRAGMA that succeeds has refreshed the database it names, or all that were attached
\* when it began and have no pinned labels: each tenant's columns are at least as new as Loki's
\* answer would have been then.  It never passes over one that failed.
PragmaRefreshesAll ==
    finished # Absent =>
        \A d \in finished.dbs : \A s \in Range(dbs[d].schemas) :
            s.from >= finished.since[Asked(dbs[d].conn, s.tenant)]
=============================================================================
