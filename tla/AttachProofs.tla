---------------------------- MODULE AttachProofs ----------------------------
(***************************************************************************)
(* Proofs about Connection and Attach: which secret a statement uses and   *)
(* what reaches the wire; that tenants do not mix and columns are well     *)
(* formed, whatever Loki answers and whenever; and that a PRAGMA that      *)
(* succeeds has refreshed everything it had to.                            *)
(***************************************************************************)
EXTENDS Attach, CollectionProofs

-----------------------------------------------------------------------------
(* Headers.                                                                *)

\* Of several headers of one name, a server reads the first.
LEMMA ReadsFirst ==
    ASSUME NEW S, NEW headers \in Seq(S), NEW name, NEW k \in DOMAIN headers, headers[k][1] = name,
           \A i \in DOMAIN headers : i < k => headers[i][1] # name
    PROVE  Reads(headers, name) = headers[k][2]
PROOF
  <1> DEFINE named == {i \in DOMAIN headers : headers[i][1] = name}
  <1>1. DOMAIN headers = 1 .. Len(headers) /\ Len(headers) \in Nat
    OBVIOUS
  <1>2. named \in SUBSET Int /\ k \in named /\ k \in Int
    BY <1>1
  <1>3. IsFiniteSet(named)
    <2>1. IsFiniteSet(1 .. Len(headers))
      BY <1>1, FS_Interval
    <2> QED BY <1>1, <2>1, FS_Subset
  <1>4. \A i \in named : k <= i
    BY <1>1
  <1>5. Reads(headers, name) = IF named = {} THEN Absent ELSE headers[Min(named)][2]
    BY DEF Reads
  <1> HIDE DEF named
  <1>6. Min(named) \in named /\ Min(named) <= k
    BY <1>2, <1>3, MaxMin
  <1>7. Min(named) = k
    <2>1. Min(named) \in Int /\ k <= Min(named)
      BY <1>2, <1>4, <1>6
    <2> QED BY <1>2, <1>6, <2>1
  <1> QED BY <1>2, <1>5, <1>7

LEMMA ReadsAny ==
    ASSUME NEW S, NEW headers \in Seq(S), NEW name
    PROVE  \/ Reads(headers, name) = Absent
           \/ \E k \in DOMAIN headers : headers[k][1] = name /\ Reads(headers, name) = headers[k][2]
PROOF
  <1> DEFINE named == {i \in DOMAIN headers : headers[i][1] = name}
  <1>1. DOMAIN headers = 1 .. Len(headers) /\ Len(headers) \in Nat
    OBVIOUS
  <1>2. named \in SUBSET Int
    BY <1>1
  <1>3. IsFiniteSet(named)
    <2>1. IsFiniteSet(1 .. Len(headers))
      BY <1>1, FS_Interval
    <2> QED BY <1>1, <2>1, FS_Subset
  <1>4. Reads(headers, name) = IF named = {} THEN Absent ELSE headers[Min(named)][2]
    BY DEF Reads
  <1>5. CASE named # {}
    <2>1. Min(named) \in named
      <3> HIDE DEF named
      <3> QED BY <1>2, <1>3, <1>5, MaxMin
    <2> QED BY <1>4, <1>5, <2>1
  <1> QED BY <1>4, <1>5

\* The headers are n and then the extra ones, and none of the n has that name.
Precede(headers, n, extra, name) ==
    /\ Len(headers) = n + Len(extra)
    /\ \A i \in DOMAIN extra : headers[n + i] = extra[i]
    /\ \A i \in 1 .. n : headers[i][1] # name

\* Where no header of that name precedes the extra ones, a server reads theirs.
LEMMA ReadsTail ==
    ASSUME NEW S, NEW headers \in Seq(S), NEW extra \in Seq(S), NEW n \in Nat, NEW name,
           Precede(headers, n, extra, name)
    PROVE  Reads(headers, name) = Reads(extra, name)
PROOF
  <1> USE DEF Precede
  <1>1. /\ DOMAIN headers = 1 .. n + Len(extra) /\ DOMAIN extra = 1 .. Len(extra)
        /\ Len(extra) \in Nat
    OBVIOUS
  <1>2. ASSUME NEW k \in DOMAIN headers, headers[k][1] = name
        PROVE  k - n \in DOMAIN extra /\ extra[k - n] = headers[k]
    <2> DEFINE i == k - n
    <2>1. k \notin 1 .. n
      BY <1>2
    <2>2. i \in DOMAIN extra /\ n + i = k
      BY <1>1, <2>1
    <2> HIDE DEF i
    <2>3. extra[i] = headers[k]
      BY <2>2
    <2> QED BY <2>2, <2>3 DEF i
  <1> DEFINE named == {i \in DOMAIN extra : extra[i][1] = name}
  <1>3. CASE named = {}
    <2>1. {i \in DOMAIN headers : headers[i][1] = name} = {}
      BY <1>2, <1>3
    <2> QED BY <1>3, <2>1 DEF Reads
  <1>4. CASE named # {}
    <2> DEFINE k == Min(named)
    <2>1. named \in SUBSET Int /\ named \subseteq DOMAIN extra
      BY <1>1
    <2>2. IsFiniteSet(named)
      <3>1. IsFiniteSet(1 .. Len(extra))
        BY <1>1, FS_Interval
      <3> QED BY <1>1, <3>1, FS_Subset
    <2>3. k \in named /\ \A i \in named : k <= i
      <3> HIDE DEF named
      <3> QED BY <1>4, <2>1, <2>2, MaxMin
    <2>4. Reads(extra, name) = extra[k][2]
      BY <1>4 DEF Reads
    <2> DEFINE j == n + k
    <2>5. k \in DOMAIN extra /\ extra[k][1] = name
      BY <2>3
    <2>6. j \in DOMAIN headers /\ headers[j] = extra[k]
      <3> HIDE DEF k
      <3> QED BY <1>1, <2>5
    <2>7. \A i \in DOMAIN headers : i < j => headers[i][1] # name
      <3> SUFFICES ASSUME NEW i \in DOMAIN headers, i < j, headers[i][1] = name PROVE FALSE
        OBVIOUS
      <3>1. i - n \in named
        BY <1>2
      <3>2. k <= i - n
        BY <2>3, <3>1
      <3> HIDE DEF k, named
      <3> QED BY <1>1, <2>5, <3>2
    <2> HIDE DEF j, k
    <2>8. Reads(headers, name) = headers[j][2]
      BY <2>5, <2>6, <2>7, ReadsFirst
    <2> QED BY <2>4, <2>6, <2>8
  <1> QED BY <1>3, <1>4

Header(auth) ==
    {<<"Authorization", <<"Bearer", auth.token>> >>,
     <<"Authorization", <<"Basic", auth.username, auth.password>> >>,
     <<"X-Scope-OrgID", auth.tenant>>} \cup (STRING \X STRING)

\* The headers are those of the credentials, of the tenant and the extra ones.
LEMMA HeaderParts ==
    ASSUME NEW auth, Configuration(auth)
    PROVE  /\ Authorization(auth) \in Seq(Header(auth)) /\ Len(Authorization(auth)) \in 0 .. 1
           /\ Scoped(auth) \in Seq(Header(auth)) /\ Len(Scoped(auth)) \in 0 .. 1
           /\ Extra(auth) \in Seq(Header(auth))
           /\ BuildAuthHeaders(auth) \in Seq(Header(auth))
           /\ Len(BuildAuthHeaders(auth))
                  = Len(Authorization(auth)) + Len(Scoped(auth)) + Len(Extra(auth))
           /\ \A i \in DOMAIN Authorization(auth) : BuildAuthHeaders(auth)[i] = Authorization(auth)[i]
           /\ \A i \in DOMAIN Scoped(auth) :
                 BuildAuthHeaders(auth)[Len(Authorization(auth)) + i] = Scoped(auth)[i]
           /\ \A i \in DOMAIN Extra(auth) :
                 BuildAuthHeaders(auth)[Len(Authorization(auth)) + Len(Scoped(auth)) + i] = Extra(auth)[i]
PROOF
  <1> DEFINE S == Header(auth)
             a == Authorization(auth)
             t == Scoped(auth)
             e == Extra(auth)
  <1>1. a \in Seq(S) /\ Len(a) \in 0 .. 1
    BY DEF Authorization, Header
  <1>2. t \in Seq(S) /\ Len(t) \in 0 .. 1
    BY DEF Scoped, Header
  <1>3. e \in Seq(S)
    <2>1. e \in Seq(STRING \X STRING)
      BY DEF Extra, Configuration
    <2>2. (STRING \X STRING) \subseteq S
      BY DEF Header
    <2> QED BY <2>1, <2>2
  <1>4. BuildAuthHeaders(auth) = (a \o t) \o e
    BY DEF BuildAuthHeaders
  <1> HIDE DEF S, a, t, e
  <1>5. /\ a \o t \in Seq(S) /\ Len(a \o t) = Len(a) + Len(t)
        /\ \A i \in 1 .. Len(a) + Len(t) : (a \o t)[i] = IF i <= Len(a) THEN a[i] ELSE t[i - Len(a)]
    BY <1>1, <1>2, ConcatProperties
  <1> DEFINE b == a \o t
             h == b \o e
  <1>6. b \in Seq(S)
    BY <1>5
  <1>7. /\ h \in Seq(S) /\ Len(h) = Len(b) + Len(e)
        /\ \A i \in 1 .. Len(b) + Len(e) : h[i] = IF i <= Len(b) THEN b[i] ELSE e[i - Len(b)]
    <2> HIDE DEF b
    <2> QED BY <1>3, <1>6, ConcatProperties
  <1>8. /\ Len(a) \in Nat /\ Len(t) \in Nat /\ Len(e) \in Nat /\ Len(b) = Len(a) + Len(t)
        /\ DOMAIN a = 1 .. Len(a) /\ DOMAIN t = 1 .. Len(t) /\ DOMAIN e = 1 .. Len(e)
    BY <1>1, <1>2, <1>3, <1>5
  <1> HIDE DEF b, h
  <1>9. \A i \in DOMAIN a : h[i] = a[i]
    BY <1>5, <1>7, <1>8 DEF b
  <1>10. \A i \in DOMAIN t : h[Len(a) + i] = t[i]
    <2> SUFFICES ASSUME NEW i \in DOMAIN t PROVE h[Len(a) + i] = t[i]
      OBVIOUS
    <2>1. Len(a) + i \in 1 .. Len(a) + Len(t) /\ ~(Len(a) + i <= Len(a)) /\ (Len(a) + i) - Len(a) = i
      BY <1>8
    <2>2. h[Len(a) + i] = b[Len(a) + i]
      BY <1>7, <1>8, <2>1
    <2> QED BY <1>5, <2>1, <2>2 DEF b
  <1>11. \A i \in DOMAIN e : h[Len(a) + Len(t) + i] = e[i]
    <2> SUFFICES ASSUME NEW i \in DOMAIN e PROVE h[Len(a) + Len(t) + i] = e[i]
      OBVIOUS
    <2> DEFINE j == Len(a) + Len(t) + i
    <2>1. j \in 1 .. Len(b) + Len(e) /\ ~(j <= Len(b)) /\ j - Len(b) = i
      BY <1>8
    <2> HIDE DEF j
    <2>2. h[j] = e[i]
      BY <1>7, <2>1
    <2> QED BY <2>2 DEF j
  <1>12. h = BuildAuthHeaders(auth)
    BY <1>4 DEF h, b
  <1>13. Len(h) = Len(a) + Len(t) + Len(e)
    BY <1>7, <1>8
  <1> QED BY <1>1, <1>2, <1>3, <1>7, <1>9, <1>10, <1>11, <1>12, <1>13 DEF S, a, t, e

\* What a server reads of them.
LEMMA HeadersRead ==
    ASSUME NEW auth, Configuration(auth)
    PROVE  /\ Given(auth.token) =>
                 Reads(BuildAuthHeaders(auth), "Authorization") = <<"Bearer", auth.token>>
           /\ ~Given(auth.token) /\ (Given(auth.username) \/ Given(auth.password)) =>
                 Reads(BuildAuthHeaders(auth), "Authorization")
                     = <<"Basic", auth.username, auth.password>>
           /\ Given(auth.tenant) => Reads(BuildAuthHeaders(auth), "X-Scope-OrgID") = auth.tenant
           /\ ~Given(auth.token) /\ ~Given(auth.username) /\ ~Given(auth.password) =>
                 Reads(BuildAuthHeaders(auth), "Authorization") = Reads(Extra(auth), "Authorization")
           /\ ~Given(auth.tenant) =>
                 Reads(BuildAuthHeaders(auth), "X-Scope-OrgID") = Reads(Extra(auth), "X-Scope-OrgID")
PROOF
  <1> DEFINE S == Header(auth)
             a == Authorization(auth)
             t == Scoped(auth)
             e == Extra(auth)
             h == BuildAuthHeaders(auth)
  <1>1. /\ a \in Seq(S) /\ t \in Seq(S) /\ e \in Seq(S) /\ h \in Seq(S)
        /\ Len(a) \in 0 .. 1 /\ Len(t) \in 0 .. 1
        /\ Len(h) = Len(a) + Len(t) + Len(e)
        /\ \A i \in DOMAIN a : h[i] = a[i]
        /\ \A i \in DOMAIN t : h[Len(a) + i] = t[i]
        /\ \A i \in DOMAIN e : h[Len(a) + Len(t) + i] = e[i]
    BY HeaderParts
  <1>2. /\ DOMAIN h = 1 .. Len(h) /\ DOMAIN a = 1 .. Len(a)
        /\ DOMAIN t = 1 .. Len(t) /\ DOMAIN e = 1 .. Len(e)
        /\ Len(a) \in Nat /\ Len(t) \in Nat /\ Len(e) \in Nat
    BY <1>1
  <1>3. ASSUME Given(auth.token) PROVE Reads(h, "Authorization") = <<"Bearer", auth.token>>
    <2>1. a = << <<"Authorization", <<"Bearer", auth.token>> >> >>
      BY <1>3 DEF Authorization
    <2> HIDE DEF a, h, t, e, S
    <2>2. h[1] = <<"Authorization", <<"Bearer", auth.token>> >> /\ 1 \in DOMAIN h
      BY <1>1, <1>2, <2>1
    <2>3. \A i \in DOMAIN h : ~(i < 1)
      BY <1>2
    <2>4. Reads(h, "Authorization") = h[1][2]
      BY <1>1, <2>2, <2>3, ReadsFirst
    <2> QED BY <2>2, <2>4
  <1>4. ASSUME ~Given(auth.token), Given(auth.username) \/ Given(auth.password)
        PROVE Reads(h, "Authorization") = <<"Basic", auth.username, auth.password>>
    <2>1. a = << <<"Authorization", <<"Basic", auth.username, auth.password>> >> >>
      BY <1>4 DEF Authorization
    <2> HIDE DEF a, h, t, e, S
    <2>2. h[1] = <<"Authorization", <<"Basic", auth.username, auth.password>> >> /\ 1 \in DOMAIN h
      BY <1>1, <1>2, <2>1
    <2>3. \A i \in DOMAIN h : ~(i < 1)
      BY <1>2
    <2>4. Reads(h, "Authorization") = h[1][2]
      BY <1>1, <2>2, <2>3, ReadsFirst
    <2> QED BY <2>2, <2>4
  <1>5. \A i \in DOMAIN a : a[i][1] = "Authorization"
    BY DEF Authorization
  <1>6. ASSUME Given(auth.tenant) PROVE Reads(h, "X-Scope-OrgID") = auth.tenant
    <2>1. t = << <<"X-Scope-OrgID", auth.tenant>> >>
      BY <1>6 DEF Scoped
    <2> HIDE DEF a, h, t, e, S
    <2> DEFINE k == Len(a) + 1
    <2>2. h[k] = <<"X-Scope-OrgID", auth.tenant>> /\ k \in DOMAIN h
      BY <1>1, <1>2, <2>1
    <2>3. \A i \in DOMAIN h : i < k => h[i][1] # "X-Scope-OrgID"
      <3>1. \A i \in DOMAIN h : i < k => i \in DOMAIN a
        BY <1>2
      <3>2. \A i \in DOMAIN a : h[i][1] = "Authorization"
        BY <1>1, <1>5
      <3> QED BY <3>1, <3>2
    <2>4. k \in DOMAIN h /\ h[k][1] = "X-Scope-OrgID" /\ h \in Seq(S)
      BY <1>1, <2>2
    <2> HIDE DEF k
    <2>5. Reads(h, "X-Scope-OrgID") = h[k][2]
      BY <2>3, <2>4, ReadsFirst
    <2> QED BY <2>2, <2>5
  <1> DEFINE n == Len(a) + Len(t)
  <1>7. \A i \in 1 .. n : h[i] = IF i <= Len(a) THEN a[i] ELSE t[i - Len(a)]
    <2> HIDE DEF a, h, t, e, S
    <2> SUFFICES ASSUME NEW i \in 1 .. n PROVE h[i] = IF i <= Len(a) THEN a[i] ELSE t[i - Len(a)]
      OBVIOUS
    <2>1. CASE i <= Len(a)
      BY <1>1, <1>2, <2>1
    <2>2. CASE ~(i <= Len(a))
      <3> DEFINE k == i - Len(a)
      <3>1. k \in DOMAIN t /\ Len(a) + k = i
        BY <1>2, <2>2
      <3> HIDE DEF k
      <3>2. h[i] = t[k]
        BY <1>1, <3>1
      <3> QED BY <2>2, <3>2 DEF k
    <2> QED BY <2>1, <2>2
  <1>8. \A i \in DOMAIN t : t[i][1] = "X-Scope-OrgID"
    BY DEF Scoped
  <1>9. \A name : (\A i \in 1 .. n : h[i][1] # name) => Reads(h, name) = Reads(e, name)
    <2> SUFFICES ASSUME NEW name, \A i \in 1 .. n : h[i][1] # name PROVE Reads(h, name) = Reads(e, name)
      OBVIOUS
    <2> HIDE DEF a, h, t, e, S
    <2>1. n \in Nat /\ Len(h) = n + Len(e) /\ \A i \in DOMAIN e : h[n + i] = e[i]
      BY <1>1, <1>2
    <2> HIDE DEF n
    <2>2. Precede(h, n, e, name)
      BY <2>1 DEF Precede
    <2> QED BY <1>1, <2>1, <2>2, ReadsTail
  <1>10. ASSUME ~Given(auth.token), ~Given(auth.username), ~Given(auth.password)
         PROVE  Reads(h, "Authorization") = Reads(e, "Authorization")
    <2>1. Len(a) = 0
      BY <1>10 DEF Authorization
    <2>2. \A i \in 1 .. n : h[i][1] # "Authorization"
      <3> HIDE DEF a, h, t, e, S
      <3> QED BY <1>2, <1>7, <1>8, <2>1
    <2> HIDE DEF a, h, t, e, S, n
    <2> QED BY <1>9, <2>2
  <1>11. ASSUME ~Given(auth.tenant)
         PROVE  Reads(h, "X-Scope-OrgID") = Reads(e, "X-Scope-OrgID")
    <2>1. Len(t) = 0
      BY <1>11 DEF Scoped
    <2>2. \A i \in 1 .. n : h[i][1] # "X-Scope-OrgID"
      <3> HIDE DEF a, h, t, e, S
      <3>1. \A i \in 1 .. n : i \in DOMAIN a
        BY <1>2, <2>1
      <3> QED BY <1>1, <1>5, <3>1
    <2> HIDE DEF a, h, t, e, S, n
    <2> QED BY <1>9, <2>2
  <1> QED BY <1>3, <1>4, <1>6, <1>10, <1>11

-----------------------------------------------------------------------------
(* Secrets and connections.                                                *)

\* Every secret is one that CREATE SECRET made.
SecretsInv ==
    /\ DOMAIN secrets \subseteq SecretName
    /\ \A n \in DOMAIN secrets : \E def \in Definition[n] : secrets[n] = Created(def)

LEMMA NothingIsConfiguration == Configuration(Nothing) /\ KnownTenants(Nothing)
  BY DEF Configuration, KnownTenants, Nothing, Field, Given

LEMMA RefineConfiguration ==
    ASSUME NEW base, NEW top, Configuration(base), Configuration(top)
    PROVE  /\ Configuration(Refine(base, top))
           /\ KnownTenants(base) /\ KnownTenants(top) => KnownTenants(Refine(base, top))
PROOF
  <1> DEFINE r == Refine(base, top)
  <1>1. DOMAIN r = Field /\ \A f \in Field : r[f] = IF top[f] # Absent THEN top[f] ELSE base[f]
    BY DEF Refine
  <1> HIDE DEF r
  <1>2. Configuration(r)
    BY <1>1 DEF Configuration, Field
  <1>3. KnownTenants(base) /\ KnownTenants(top) => KnownTenants(r)
    BY <1>1 DEF KnownTenants, Field, Given
  <1> QED BY <1>2, <1>3 DEF r

LEMMA SecretConfiguration ==
    ASSUME SecretsInv, NEW n \in DOMAIN secrets
    PROVE  /\ Configuration(secrets[n].config) /\ KnownTenants(secrets[n].config)
           /\ IsFiniteSet(secrets[n].scope) /\ secrets[n].scope \subseteq Seq(STRING)
PROOF
  <1>1. PICK def \in Definition[n] : secrets[n] = Created(def)
    BY DEF SecretsInv
  <1>2. n \in SecretName
    BY DEF SecretsInv
  <1>3. /\ Configuration(def.options) /\ KnownTenants(def.options)
        /\ IsFiniteSet(def.scope) /\ def.scope \subseteq Seq(STRING)
        /\ Configuration(Environment) /\ KnownTenants(Environment)
    BY <1>2, ConfigurationAssumption, OrgAssumption
  <1> DEFINE base == IF def.provider = "env" THEN Environment ELSE Nothing
  <1>4. Configuration(base) /\ KnownTenants(base)
    BY <1>3, NothingIsConfiguration
  <1>5. secrets[n].config = Refine(base, def.options) /\ secrets[n].scope = def.scope
    BY <1>1 DEF Created
  <1> HIDE DEF base
  <1> QED BY <1>3, <1>4, <1>5, RefineConfiguration

\* What is resolved is a configuration, made of the options and of one secret.
LEMMA ResolvedConfiguration ==
    ASSUME SecretsInv, NEW target, Configuration(target.options), NEW name, name = Absent \/ Usable(name)
    PROVE  /\ Configuration(Resolved(target, name))
           /\ KnownTenants(target.options) => KnownTenants(Resolved(target, name))
           /\ \A f \in Field :
                 /\ target.options[f] # Absent => Resolved(target, name)[f] = target.options[f]
                 /\ target.options[f] = Absent /\ name # Absent =>
                        Resolved(target, name)[f] = secrets[name].config[f]
PROOF
  <1> DEFINE base == IF name = Absent THEN Nothing ELSE secrets[name].config
  <1>1. Configuration(base) /\ KnownTenants(base)
    BY NothingIsConfiguration, SecretConfiguration DEF Usable
  <1>2. Resolved(target, name) = Refine(base, target.options)
    BY DEF Resolved
  <1>3. /\ Configuration(Refine(base, target.options))
        /\ KnownTenants(target.options) => KnownTenants(Refine(base, target.options))
    <2> HIDE DEF base
    <2> QED BY <1>1, RefineConfiguration
  <1>4. \A f \in Field :
            Resolved(target, name)[f] = IF target.options[f] # Absent THEN target.options[f] ELSE base[f]
    BY <1>2 DEF Refine
  <1> QED BY <1>2, <1>3, <1>4

\* A statement that got a connection used no secret or one of type loki.
LEMMA ConnectionMade ==
    ASSUME SecretsInv, NEW target, Configuration(target.options),
           NEW c \in Connections(target), c # Absent
    PROVE  /\ c.secret \in Source(target) /\ (c.secret = Absent \/ Usable(c.secret))
           /\ c.auth = Resolved(target, c.secret)
           /\ c.endpoint = StripSlashes(c.auth.endpoint)
           /\ c.auth.endpoint \notin {Absent, <<>>}
           /\ Configuration(c.auth)
           /\ KnownTenants(target.options) => KnownTenants(c.auth)
PROOF
  <1>1. PICK name \in Source(target) :
            c = IF (name # Absent /\ ~Usable(name)) \/ Resolved(target, name).endpoint \in {Absent, <<>>}
                  THEN Absent
                  ELSE [endpoint |-> StripSlashes(Resolved(target, name).endpoint),
                        auth |-> Resolved(target, name), secret |-> name]
    BY DEF Connections
  <1>2. /\ name = Absent \/ Usable(name)
        /\ Resolved(target, name).endpoint \notin {Absent, <<>>}
        /\ c = [endpoint |-> StripSlashes(Resolved(target, name).endpoint),
                auth |-> Resolved(target, name), secret |-> name]
    BY <1>1
  <1>3. c.secret = name /\ c.auth = Resolved(target, name)
        /\ c.endpoint = StripSlashes(Resolved(target, name).endpoint)
    BY <1>2
  <1>4. /\ Configuration(Resolved(target, name))
        /\ KnownTenants(target.options) => KnownTenants(Resolved(target, name))
    BY <1>2, ResolvedConfiguration
  <1> QED BY <1>2, <1>3, <1>4

-----------------------------------------------------------------------------
(* Statements.                                                             *)

\* A statement's endpoint is the path its secret is looked up for, and what it got
\* is a connection that the secrets there are now give.
StatementInv ==
    statement # Absent =>
        /\ Configuration(Target.options)
        /\ Target.path = Target.options.endpoint
        /\ Conn \in Connections(Target)

ConnectionInv == SecretsInv /\ StatementInv

LEMMA AttachTarget ==
    ASSUME NEW call \in AttachCall
    PROVE  LET target == ResolveLokiConnectionFromOptions(call)
           IN /\ Configuration(target.options) /\ KnownTenants(target.options)
              /\ target.path = target.options.endpoint
PROOF
  <1> DEFINE endpoint == IF call.options.endpoint # Absent THEN call.options.endpoint ELSE call.url
             options == [call.options EXCEPT !.endpoint = endpoint]
             target == ResolveLokiConnectionFromOptions(call)
  <1>1. target.options = options /\ target.path = endpoint
    BY DEF ResolveLokiConnectionFromOptions
  <1>2. Configuration(call.options) /\ KnownTenants(call.options)
    BY CallAssumption, OrgAssumption
  <1>3. endpoint # Absent => endpoint \in Seq(STRING)
    BY <1>2, CallAssumption DEF Configuration
  <1>4. DOMAIN options = Field /\ \A f \in Field : options[f] = IF f = "endpoint" THEN endpoint ELSE call.options[f]
    BY <1>2 DEF Configuration
  <1> HIDE DEF endpoint, options, target
  <1>5. Configuration(options) /\ KnownTenants(options) /\ options.endpoint = endpoint
    BY <1>2, <1>3, <1>4 DEF Configuration, KnownTenants, Field
  <1> QED BY <1>1, <1>5 DEF target

LEMMA ConnectionStep == ConnectionInv /\ [Next]_vars => ConnectionInv'
PROOF
  <1> SUFFICES ASSUME ConnectionInv, [Next]_vars PROVE ConnectionInv'
    OBVIOUS
  <1> USE DEF ConnectionInv
  <1>1. CASE UNCHANGED secrets /\ statement' = Absent
    BY <1>1 DEF SecretsInv, StatementInv
  <1>2. CASE UNCHANGED <<secrets, statement>>
    BY <1>2 DEF SecretsInv, StatementInv, Target, Conn, Connections, Source, Usable, Resolved,
                LookupBestLokiSecret, LookupSecret, Fitting
  <1>3. ASSUME NEW target, Configuration(target.options), target.path = target.options.endpoint,
               NEW c \in Connections(target), statement' = [target |-> target, conn |-> c],
               UNCHANGED secrets
        PROVE  ConnectionInv'
    <2>1. Target' = target /\ Conn' = c
      BY <1>3 DEF Target, Conn
    <2>2. Connections(target)' = Connections(target)
      BY <1>3 DEF Connections, Source, Usable, Resolved, LookupBestLokiSecret, LookupSecret, Fitting
    <2> QED BY <1>3, <2>1, <2>2 DEF SecretsInv, StatementInv
  <1>4. ASSUME NEW name \in SecretName, NEW def \in Definition[name], CreateSecret(name, def)
        PROVE  ConnectionInv'
    BY <1>4 DEF CreateSecret, SecretsInv, StatementInv
  <1>5. ASSUME NEW name \in SecretName, DropSecret(name)
        PROVE  ConnectionInv'
    BY <1>5 DEF DropSecret, SecretsInv, StatementInv
  <1>6. ASSUME NEW call \in FunctionCall, CallFunction(call)
        PROVE  ConnectionInv'
    <2> DEFINE target == ResolveLokiConnection(call)
    <2>1. Configuration(target.options) /\ target.path = target.options.endpoint
      BY ConfigurationAssumption DEF ResolveLokiConnection
    <2>2. PICK c \in Connections(target) : statement' = [target |-> target, conn |-> c]
      BY <1>6 DEF CallFunction
    <2>3. UNCHANGED secrets
      BY <1>6 DEF CallFunction
    <2> HIDE DEF target
    <2> QED BY <1>3, <2>1, <2>2, <2>3
  <1>7. ASSUME NEW d \in Database, NEW call \in AttachCall, StartAttach(d, call)
        PROVE  ConnectionInv'
    <2> DEFINE target == ResolveLokiConnectionFromOptions(call)
    <2>1. Configuration(target.options) /\ target.path = target.options.endpoint
      BY AttachTarget
    <2>2. PICK c \in Connections(target) : statement' = [target |-> target, conn |-> c]
      BY <1>7 DEF StartAttach
    <2>3. UNCHANGED secrets
      BY <1>7 DEF StartAttach
    <2> HIDE DEF target
    <2> QED BY <1>3, <2>1, <2>2, <2>3
  <1>8. CASE \E org \in Org : ChangeLabels(org)
    BY <1>2, <1>8 DEF ChangeLabels
  <1>9. CASE \E d \in Database : NamedPragma(d) \/ NextDatabase(d)
    BY <1>1, <1>9 DEF NamedPragma, StartPragma, NextDatabase
  <1>10. CASE AttachTenant \/ AttachFails \/ Attached \/ BarePragma \/ RefreshTenant
                \/ Refreshed \/ RefreshFails \/ PragmaDone
    BY <1>1, <1>10 DEF AttachTenant, AttachFails, Attached, BarePragma, StartPragma, RefreshTenant,
                       Refreshed, RefreshFails, PragmaDone
  <1>11. CASE UNCHANGED vars
    BY <1>2, <1>11 DEF vars
  <1> QED BY <1>4, <1>5, <1>6, <1>7, <1>8, <1>9, <1>10, <1>11 DEF Next

LEMMA ConnectionHolds == Spec => []ConnectionInv
PROOF
  <1>1. Init => ConnectionInv
    BY DEF Init, ConnectionInv, SecretsInv, StatementInv
  <1> QED BY <1>1, ConnectionStep, PTL DEF Spec

LEMMA ConnectedMade ==
    ASSUME ConnectionInv, Connected
    PROVE  /\ Configuration(Target.options) /\ Target.path = Target.options.endpoint
           /\ Conn.secret \in Source(Target) /\ (Conn.secret = Absent \/ Usable(Conn.secret))
           /\ Conn.auth = Resolved(Target, Conn.secret) /\ Configuration(Conn.auth)
           /\ Conn.endpoint = StripSlashes(Conn.auth.endpoint)
           /\ Conn.auth.endpoint \notin {Absent, <<>>}
           /\ \A f \in Field :
                 /\ Target.options[f] # Absent => Conn.auth[f] = Target.options[f]
                 /\ Target.options[f] = Absent /\ Conn.secret # Absent =>
                        Conn.auth[f] = secrets[Conn.secret].config[f]
PROOF
  <1>1. /\ SecretsInv
        /\ Configuration(Target.options) /\ Target.path = Target.options.endpoint
        /\ Conn \in Connections(Target) /\ Conn # Absent
    BY DEF ConnectionInv, StatementInv, Connected, Conn
  <1>2. /\ Conn.secret \in Source(Target) /\ (Conn.secret = Absent \/ Usable(Conn.secret))
        /\ Conn.auth = Resolved(Target, Conn.secret) /\ Configuration(Conn.auth)
        /\ Conn.endpoint = StripSlashes(Conn.auth.endpoint)
        /\ Conn.auth.endpoint \notin {Absent, <<>>}
    BY <1>1, ConnectionMade
  <1>3. \A f \in Field :
            /\ Target.options[f] # Absent => Conn.auth[f] = Target.options[f]
            /\ Target.options[f] = Absent /\ Conn.secret # Absent =>
                   Conn.auth[f] = secrets[Conn.secret].config[f]
    BY <1>1, <1>2, ResolvedConfiguration
  <1> QED BY <1>1, <1>2, <1>3

\* A statement never goes out without the credentials of the secret it names.
THEOREM NamedSecretsAreUsed == Spec => []NamedSecretUsed
PROOF
  <1>1. ConnectionInv => NamedSecretUsed
    <2> SUFFICES ASSUME ConnectionInv, Connected, Target.secret # Absent
                 PROVE  /\ Conn.secret = Target.secret
                        /\ secrets[Conn.secret].type = "loki"
                        /\ LET config == secrets[Conn.secret].config
                           IN Given(config.token) /\ Target.options.token = Absent =>
                                Reads(BuildAuthHeaders(Conn.auth), "Authorization")
                                    = <<"Bearer", config.token>>
      BY DEF NamedSecretUsed
    <2>1. Conn.secret = Target.secret
      BY ConnectedMade DEF Source
    <2>2. secrets[Conn.secret].type = "loki"
      BY <2>1, ConnectedMade DEF Usable
    <2>3. ASSUME Given(secrets[Conn.secret].config.token), Target.options.token = Absent
          PROVE  Reads(BuildAuthHeaders(Conn.auth), "Authorization")
                     = <<"Bearer", secrets[Conn.secret].config.token>>
      <3>1. Conn.auth.token = secrets[Conn.secret].config.token
        BY <2>1, <2>3, ConnectedMade DEF Field
      <3>2. Given(Conn.auth.token) /\ Configuration(Conn.auth)
        BY <2>3, <3>1, ConnectedMade
      <3> QED BY <3>1, <3>2, HeadersRead
    <2> QED BY <2>1, <2>2, <2>3
  <1> QED BY <1>1, ConnectionHolds, PTL

\* A connection is, field by field, what its statement asks for.
LEMMA ConnectedAsWanted ==
    ASSUME ConnectionInv, Connected
    PROVE  /\ Configuration(Conn.auth) /\ Conn.endpoint = StripSlashes(Conn.auth.endpoint)
           /\ \A f \in Field : Conn.auth[f] = Wanted(f)
PROOF
  <1>1. /\ Configuration(Conn.auth) /\ Conn.endpoint = StripSlashes(Conn.auth.endpoint)
        /\ Conn.auth = Resolved(Target, Conn.secret)
    BY ConnectedMade
  <1>2. \A f \in Field : Resolved(Target, Conn.secret)[f] = Wanted(f)
    BY DEF Resolved, Refine, Nothing, Wanted, Stored
  <1> QED BY <1>1, <1>2

\* Whatever secret is found, what is given inline is what Loki gets, and what is cleared
\* or replaced inline is not sent; inline basic auth loses to a token of the secret.
THEOREM InlineOptionsWin == Spec => []InlineOptionsReachWire
PROOF
  <1>1. ConnectionInv => InlineOptionsReachWire
    <2> DEFINE headers == BuildAuthHeaders(Conn.auth)
               inline == Target.options
               extra == IF Wanted("headers") = Absent THEN <<>> ELSE Wanted("headers")
               tokens == IF Credentials = {} THEN 0 ELSE 1
               tenants == IF Given(Wanted("tenant")) THEN 1 ELSE 0
    <2> SUFFICES ASSUME ConnectionInv, Connected
                 PROVE
                   /\ inline.endpoint # Absent => Conn.endpoint = StripSlashes(inline.endpoint)
                   /\ Given(inline.token) => Reads(headers, "Authorization") = <<"Bearer", inline.token>>
                   /\ (Given(inline.username) \/ Given(inline.password)) /\ ~Given(Wanted("token")) =>
                         Reads(headers, "Authorization")
                             = <<"Basic", Wanted("username"), Wanted("password")>>
                   /\ Given(inline.tenant) => Reads(headers, "X-Scope-OrgID") = inline.tenant
                   /\ Credentials = {} => Reads(headers, "Authorization") = Reads(extra, "Authorization")
                   /\ ~Given(Wanted("tenant")) =>
                         Reads(headers, "X-Scope-OrgID") = Reads(extra, "X-Scope-OrgID")
                   /\ inline.headers # Absent =>
                         /\ Len(headers) = (tokens + tenants) + Len(inline.headers)
                         /\ \A i \in DOMAIN inline.headers :
                               headers[(tokens + tenants) + i] = inline.headers[i]
      BY DEF InlineOptionsReachWire
    <2>1. /\ Configuration(Conn.auth) /\ Conn.endpoint = StripSlashes(Conn.auth.endpoint)
          /\ Conn.auth.endpoint = Wanted("endpoint") /\ Conn.auth.headers = Wanted("headers")
          /\ Conn.auth.token = Wanted("token") /\ Conn.auth.tenant = Wanted("tenant")
          /\ Conn.auth.username = Wanted("username") /\ Conn.auth.password = Wanted("password")
      BY ConnectedAsWanted DEF Field
    <2>2. \A f \in {"endpoint", "token", "username", "password", "tenant", "headers"} :
              inline[f] # Absent => Wanted(f) = inline[f]
      BY DEF Wanted
    <2>3. /\ inline.endpoint # Absent => Wanted("endpoint") = inline.endpoint
          /\ Given(inline.token) => Wanted("token") = inline.token
          /\ Given(inline.username) => Wanted("username") = inline.username
          /\ Given(inline.password) => Wanted("password") = inline.password
          /\ Given(inline.tenant) => Wanted("tenant") = inline.tenant
          /\ inline.headers # Absent => Wanted("headers") = inline.headers
      BY <2>2 DEF Given
    <2>4. Extra(Conn.auth) = extra
      BY <2>1 DEF Extra
    <2>5. Credentials = {} <=> ~Given(Wanted("token")) /\ ~Given(Wanted("username"))
                                   /\ ~Given(Wanted("password"))
      BY DEF Credentials
    <2> HIDE DEF headers, inline, extra
    <2>6. /\ Given(Conn.auth.token) => Reads(headers, "Authorization") = <<"Bearer", Conn.auth.token>>
          /\ ~Given(Conn.auth.token) /\ (Given(Conn.auth.username) \/ Given(Conn.auth.password)) =>
                 Reads(headers, "Authorization")
                     = <<"Basic", Conn.auth.username, Conn.auth.password>>
          /\ Given(Conn.auth.tenant) => Reads(headers, "X-Scope-OrgID") = Conn.auth.tenant
          /\ ~Given(Conn.auth.token) /\ ~Given(Conn.auth.username) /\ ~Given(Conn.auth.password) =>
                 Reads(headers, "Authorization") = Reads(extra, "Authorization")
          /\ ~Given(Conn.auth.tenant) =>
                 Reads(headers, "X-Scope-OrgID") = Reads(extra, "X-Scope-OrgID")
      BY <2>1, <2>4, HeadersRead DEF headers
    <2>7. Len(Authorization(Conn.auth)) = tokens /\ Len(Scoped(Conn.auth)) = tenants
      BY <2>1, <2>5 DEF Authorization, Scoped
    <2>8. /\ Len(headers) = tokens + tenants + Len(extra)
          /\ \A i \in DOMAIN extra : headers[tokens + tenants + i] = extra[i]
      BY <2>1, <2>4, <2>7, HeaderParts DEF headers
    <2>9. inline.headers # Absent => extra = inline.headers
      BY <2>3 DEF extra
    <2>10. ASSUME inline.headers # Absent
           PROVE  /\ Len(headers) = (tokens + tenants) + Len(inline.headers)
                  /\ \A i \in DOMAIN inline.headers :
                        headers[(tokens + tenants) + i] = inline.headers[i]
      <3>1. inline.headers = extra
        BY <2>9, <2>10
      <3> HIDE DEF tokens, tenants
      <3> QED BY <2>8, <3>1
    <2>11. /\ inline.endpoint # Absent => Conn.endpoint = StripSlashes(inline.endpoint)
           /\ Given(inline.token) => Reads(headers, "Authorization") = <<"Bearer", inline.token>>
           /\ (Given(inline.username) \/ Given(inline.password)) /\ ~Given(Wanted("token")) =>
                 Reads(headers, "Authorization")
                     = <<"Basic", Wanted("username"), Wanted("password")>>
      BY <2>1, <2>3, <2>6
    <2>12. /\ Given(inline.tenant) => Reads(headers, "X-Scope-OrgID") = inline.tenant
           /\ Credentials = {} => Reads(headers, "Authorization") = Reads(extra, "Authorization")
           /\ ~Given(Wanted("tenant")) =>
                 Reads(headers, "X-Scope-OrgID") = Reads(extra, "X-Scope-OrgID")
      BY <2>1, <2>3, <2>5, <2>6
    <2> QED BY <2>10, <2>11, <2>12
  <1> QED BY <1>1, ConnectionHolds, PTL

-----------------------------------------------------------------------------
(* Scopes.                                                                 *)

\* A score is at least 0 for the empty scope and for one with a prefix of the path.
LEMMA ScoreFits ==
    ASSUME NEW secret, IsFiniteSet(secret.scope), secret.scope \subseteq Seq(STRING), NEW path
    PROVE  /\ MatchScore(secret, path) \in Int
           /\ MatchScore(secret, path) >= 0 =>
                 secret.scope = {} \/ \E p \in secret.scope : IsPrefix(p, path)
PROOF
  <1> DEFINE fits == {q \in secret.scope : IsPrefix(q, path)}
             lens == {Len(p) : p \in fits}
             all == {-1} \cup lens
  <1>1. IsFiniteSet(fits)
    BY FS_Subset
  <1>2. IsFiniteSet(lens)
    <2> DEFINE len == [p \in fits |-> Len(p)]
    <2> HIDE DEF fits
    <2>1. len \in Surjection(fits, lens)
      BY DEF Surjection
    <2> QED BY <1>1, <2>1, FS_Surjection
  <1>3. IsFiniteSet(all)
    <2> HIDE DEF lens
    <2>1. IsFiniteSet({-1})
      BY FS_Singleton
    <2> QED BY <1>2, <2>1, FS_Union
  <1>4. \A n \in lens : n \in Nat
    <2>1. \A p \in fits : p \in Seq(STRING)
      OBVIOUS
    <2> HIDE DEF fits
    <2> QED BY <2>1
  <1>5. Max(all) \in all
    <2> HIDE DEF lens
    <2>1. all \in SUBSET Int /\ all # {}
      BY <1>4
    <2> HIDE DEF all
    <2> QED BY <1>3, <2>1, MaxMin
  <1>6. MatchScore(secret, path) = IF secret.scope = {} THEN 0 ELSE Max(all)
    BY DEF MatchScore
  <1>7. Max(all) \in Int /\ (Max(all) >= 0 => Max(all) \in lens)
    <2> HIDE DEF lens
    <2> QED BY <1>4, <1>5
  <1>8. Max(all) \in lens => \E p \in secret.scope : IsPrefix(p, path)
    OBVIOUS
  <1> HIDE DEF all, lens, fits
  <1> QED BY <1>6, <1>7, <1>8

\* A scope that a path lies in has the requests to that path in it.
LEMMA ScopeSurvives ==
    ASSUME NEW p \in Seq(STRING), NEW path \in Seq(STRING), IsPrefix(p, path),
           Len(p) > 1 => ~(p[Len(p)] = "/" /\ p[Len(p) - 1] = "/")
    PROVE  IsPrefix(p, StripSlashes(path) \o <<"/", "loki">>)
PROOF
  <1> DEFINE ink == Ink(path)
             last == IF ink = {} THEN 0 ELSE Max(ink)
             bare == StripSlashes(path)
             tail == <<"/", "loki">>
             url == bare \o tail
             Part == STRING \cup {"/", "loki"}
  <1>1. Len(path) \in Nat /\ Len(p) \in Nat /\ Len(p) <= Len(path)
    BY DEF IsPrefix
  <1>2. \A i \in 1 .. Len(p) : p[i] = path[i]
    <2>1. SubSeq(p, 1, Len(p)) = SubSeq(path, 1, Len(p))
      BY DEF IsPrefix
    <2>2. \A i \in 1 .. Len(p) : SubSeq(p, 1, Len(p))[i] = p[i] /\ SubSeq(path, 1, Len(p))[i] = path[i]
      BY <1>1
    <2> QED BY <2>1, <2>2
  <1>3. last \in 0 .. Len(path) /\ \A i \in 1 .. Len(path) : i > last => path[i] = "/"
    <2>1. ink \in SUBSET (1 .. Len(path)) /\ ink = {i \in 1 .. Len(path) : path[i] # "/"}
      BY DEF Ink
    <2>2. IsFiniteSet(ink)
      <3>1. IsFiniteSet(1 .. Len(path))
        BY <1>1, FS_Interval
      <3> QED BY <2>1, <3>1, FS_Subset
    <2>3. ASSUME ink # {} PROVE Max(ink) \in ink /\ \A i \in ink : Max(ink) >= i
      <3> HIDE DEF ink
      <3>1. ink \in SUBSET Int
        BY <2>1
      <3> QED BY <2>2, <2>3, <3>1, MaxMin
    <2> HIDE DEF ink
    <2>4. CASE ink = {}
      BY <1>1, <2>1, <2>4
    <2>5. CASE ink # {}
      <3>1. last = Max(ink) /\ last \in ink /\ \A i \in ink : last >= i
        BY <2>3, <2>5
      <3> HIDE DEF last
      <3>2. last \in 1 .. Len(path)
        BY <2>1, <3>1
      <3>3. ASSUME NEW i \in 1 .. Len(path), i > last PROVE path[i] = "/"
        <4>1. i \notin ink
          BY <3>1, <3>2, <3>3
        <4> QED BY <2>1, <4>1
      <3> QED BY <1>1, <3>2, <3>3
    <2> QED BY <2>4, <2>5
  <1>4. bare = SubSeq(path, 1, last)
    <2>1. SubSeq(path, 1, 0) = <<>>
      OBVIOUS
    <2> QED BY <2>1 DEF StripSlashes
  <1> HIDE DEF ink, last, bare
  <1>5. /\ bare \in Seq(Part) /\ Len(bare) = last
        /\ \A i \in 1 .. last : bare[i] = path[i]
    BY <1>1, <1>3, <1>4
  <1>6. tail \in Seq(Part) /\ Len(tail) = 2 /\ tail[1] = "/"
    OBVIOUS
  <1> HIDE DEF tail, Part
  <1>7. /\ url \in Seq(Part) /\ Len(url) = last + 2
        /\ \A i \in 1 .. last + 2 : url[i] = IF i <= last THEN bare[i] ELSE tail[i - last]
    <2>1. /\ url \in Seq(Part) /\ Len(url) = Len(bare) + Len(tail)
          /\ \A i \in 1 .. Len(bare) + Len(tail) :
                url[i] = IF i <= Len(bare) THEN bare[i] ELSE tail[i - Len(bare)]
      BY <1>5, <1>6, ConcatProperties
    <2> HIDE DEF url
    <2> QED BY <1>5, <1>6, <2>1
  <1> HIDE DEF url
  <1>8. Len(p) <= last + 1
    <2> SUFFICES ASSUME Len(p) > last + 1 PROVE FALSE
      BY <1>1, <1>3
    <2>1. /\ Len(p) \in 1 .. Len(p) /\ Len(p) - 1 \in 1 .. Len(p) /\ Len(p) > 1
          /\ Len(p) > last /\ Len(p) - 1 > last
          /\ Len(p) \in 1 .. Len(path) /\ Len(p) - 1 \in 1 .. Len(path)
      BY <1>1, <1>3
    <2>2. p[Len(p)] = "/" /\ p[Len(p) - 1] = "/"
      BY <1>2, <1>3, <2>1
    <2> QED BY <2>1, <2>2
  <1>9. ASSUME NEW i \in 1 .. Len(p) PROVE p[i] = url[i]
    <2>1. i \in Int /\ i \in 1 .. last + 2 /\ i \in 1 .. Len(path)
      BY <1>1, <1>3, <1>8
    <2>2. CASE i <= last
      BY <1>2, <1>3, <1>5, <1>7, <2>1, <2>2
    <2>3. CASE i > last
      <3>1. i - last = 1
        BY <1>1, <1>3, <1>8, <2>1, <2>3
      <3>2. url[i] = tail[1]
        BY <1>3, <1>7, <2>1, <2>3, <3>1
      <3> QED BY <1>2, <1>3, <1>6, <2>1, <2>3, <3>2
    <2> QED BY <1>3, <2>1, <2>2, <2>3
  <1>10. SubSeq(p, 1, Len(p)) = p
    BY <1>1
  <1>11. SubSeq(url, 1, Len(p)) = p
    <2>1. /\ SubSeq(url, 1, Len(p)) \in Seq(Part) /\ Len(SubSeq(url, 1, Len(p))) = Len(p)
          /\ \A i \in 1 .. Len(p) : SubSeq(url, 1, Len(p))[i] = url[i]
      BY <1>1, <1>3, <1>7, <1>8
    <2> DEFINE sub == SubSeq(url, 1, Len(p))
    <2>2. \A i \in 1 .. Len(p) : sub[i] = p[i]
      BY <1>9, <2>1
    <2>3. sub \in Seq(Part) /\ p \in Seq(Part) /\ Len(sub) = Len(p)
      <3>1. p \in Seq(Part)
        BY DEF Part
      <3> QED BY <2>1, <3>1
    <2> HIDE DEF sub
    <2>4. sub = p
      BY <2>2, <2>3, SeqEqual
    <2> QED BY <2>4 DEF sub
  <1>12. IsPrefix(p, url)
    BY <1>1, <1>3, <1>7, <1>8, <1>10, <1>11 DEF IsPrefix
  <1> QED BY <1>12 DEF url, bare, tail

\* The best of the secrets that fit is taken, and the default one of those.
LEMMA BestSecret ==
    ASSUME SecretsInv, NEW path, NEW name \in LookupBestLokiSecret(path), name # Absent
    PROVE  /\ name \in DOMAIN secrets
           /\ MatchScore(secrets[name], path) >= 0
           /\ \A n \in DOMAIN secrets : secrets[n].type = "loki" =>
                 \/ MatchScore(secrets[n], path) < MatchScore(secrets[name], path)
                 \/ /\ MatchScore(secrets[n], path) = MatchScore(secrets[name], path)
                    /\ n = DefaultName => name = n
PROOF
  <1>1. name \in LookupSecret(path) /\ (DefaultName \in LookupSecret(path) => name = DefaultName)
    BY DEF LookupBestLokiSecret
  <1>2. /\ name \in DOMAIN secrets /\ MatchScore(secrets[name], path) >= 0
        /\ \A m \in Fitting(path) : MatchScore(secrets[m], path) <= MatchScore(secrets[name], path)
    BY <1>1 DEF LookupSecret, Fitting
  <1>3. \A n \in DOMAIN secrets : MatchScore(secrets[n], path) \in Int
    BY SecretConfiguration, ScoreFits
  <1>4. ASSUME NEW n \in DOMAIN secrets, secrets[n].type = "loki"
        PROVE  \/ MatchScore(secrets[n], path) < MatchScore(secrets[name], path)
               \/ /\ MatchScore(secrets[n], path) = MatchScore(secrets[name], path)
                  /\ n = DefaultName => name = n
    <2>1. CASE MatchScore(secrets[n], path) < 0
      BY <1>2, <1>3, <2>1
    <2>2. CASE MatchScore(secrets[n], path) >= 0
      <3>1. n \in Fitting(path)
        BY <1>4, <2>2 DEF Fitting
      <3>2. MatchScore(secrets[n], path) <= MatchScore(secrets[name], path)
        BY <1>2, <3>1
      <3>3. MatchScore(secrets[n], path) = MatchScore(secrets[name], path) => n \in LookupSecret(path)
        BY <1>2, <3>1 DEF LookupSecret
      <3> QED BY <1>1, <1>2, <1>3, <3>2, <3>3
    <2> QED BY <1>3, <2>1, <2>2
  <1> QED BY <1>2, <1>4

LEMMA BestIsInScope ==
    ASSUME OneTrailingSlash, ConnectionInv, Connected, Target.secret = Absent, Conn.secret # Absent
    PROVE  LET used == secrets[Conn.secret]
               url == Conn.endpoint \o <<"/", "loki">>
           IN used.scope = {} \/ \E p \in used.scope : IsPrefix(p, url)
PROOF
  <1> DEFINE path == LookupPath(Target)
             used == secrets[Conn.secret]
  <1>1. Conn.secret \in LookupBestLokiSecret(path)
    BY ConnectedMade DEF Source
  <1>2. Conn.secret \in DOMAIN secrets /\ MatchScore(used, path) >= 0
    BY <1>1, BestSecret DEF ConnectionInv
  <1>3. IsFiniteSet(used.scope) /\ used.scope \subseteq Seq(STRING)
    BY <1>2, SecretConfiguration DEF ConnectionInv
  <1>4. \A p \in used.scope : Len(p) > 1 => ~(p[Len(p)] = "/" /\ p[Len(p) - 1] = "/")
    <2>1. PICK def \in Definition[Conn.secret] : used = Created(def)
      BY <1>2 DEF ConnectionInv, SecretsInv
    <2>2. Conn.secret \in SecretName /\ used.scope = def.scope
      BY <1>2, <2>1 DEF ConnectionInv, SecretsInv, Created
    <2> QED BY <2>2 DEF OneTrailingSlash
  <1>5. Conn.auth.endpoint \in Seq(STRING) /\ Conn.endpoint = StripSlashes(Conn.auth.endpoint)
    BY ConnectedMade DEF Configuration
  <1>6. CASE used.scope # {}
    <2>1. PICK p \in used.scope : IsPrefix(p, path)
      <3> HIDE DEF path, used
      <3> QED BY <1>2, <1>3, <1>6, ScoreFits
    <2>2. p \in Seq(STRING)
      BY <1>3
    <2>3. IsPrefix(p, Conn.auth.endpoint)
      <3>1. CASE Target.path = Absent
        <4>1. path = <<>>
          BY <3>1 DEF LookupPath
        <4>2. Len(p) = 0
          BY <2>1, <2>2, <4>1 DEF IsPrefix
        <4>3. SubSeq(p, 1, 0) = <<>> /\ SubSeq(Conn.auth.endpoint, 1, 0) = <<>>
              /\ Len(Conn.auth.endpoint) \in Nat
          BY <1>5, <2>2
        <4> QED BY <4>2, <4>3 DEF IsPrefix
      <3>2. CASE Target.path # Absent
        <4>1. path = Target.options.endpoint /\ Target.options.endpoint # Absent
          BY <3>2, ConnectedMade DEF LookupPath
        <4>2. Conn.auth.endpoint = Target.options.endpoint
          BY <4>1, ConnectedMade DEF Field
        <4> QED BY <2>1, <4>1, <4>2
      <3> QED BY <3>1, <3>2
    <2>4. IsPrefix(p, StripSlashes(Conn.auth.endpoint) \o <<"/", "loki">>)
      <3> HIDE DEF used
      <3> QED BY <1>4, <1>5, <2>2, <2>3, ScopeSurvives
    <2> QED BY <1>5, <2>4
  <1> QED BY <1>6

\* A secret nobody named is the best that fits, and stays in its scope.
THEOREM SecretsStayInScope ==
    ASSUME OneTrailingSlash
    PROVE  Spec => []SecretFits
PROOF
  <1>1. ConnectionInv => SecretFits
    <2> DEFINE path == IF Target.path = Absent THEN <<>> ELSE Target.path
    <2> SUFFICES ASSUME ConnectionInv, Connected, Target.secret = Absent, Conn.secret # Absent
                 PROVE  LET used == secrets[Conn.secret]
                            url == Conn.endpoint \o <<"/", "loki">>
                            score(n) == MatchScore(secrets[n], path)
                        IN /\ (used.scope = {} \/ \E p \in used.scope : IsPrefix(p, url))
                           /\ \A n \in DOMAIN secrets : secrets[n].type = "loki" =>
                                  \/ score(n) < score(Conn.secret)
                                  \/ (score(n) = score(Conn.secret) /\ (n = DefaultName => Conn.secret = n))
      BY DEF SecretFits
    <2>1. Conn.secret \in LookupBestLokiSecret(path)
      BY ConnectedMade DEF Source, LookupPath
    <2> HIDE DEF path
    <2>2. \A n \in DOMAIN secrets : secrets[n].type = "loki" =>
              \/ MatchScore(secrets[n], path) < MatchScore(secrets[Conn.secret], path)
              \/ /\ MatchScore(secrets[n], path) = MatchScore(secrets[Conn.secret], path)
                 /\ n = DefaultName => Conn.secret = n
      BY <2>1, BestSecret DEF ConnectionInv
    <2> QED BY <2>2, BestIsInScope
  <1> QED BY <1>1, ConnectionHolds, PTL

-----------------------------------------------------------------------------
(* Columns.                                                                *)

WellFormed(labels) ==
    labels \in Seq(STRING) /\ Distinct(labels) /\ \A i \in DOMAIN labels : Promotable(labels[i])

\* Of the names that are the same without their case, the first one is kept.
LEMMA PromotedWellFormed ==
    ASSUME NEW names \in Seq(STRING)
    PROVE  WellFormed(Promoted(names))
PROOF
  <1> DEFINE kept == {i \in DOMAIN names :
                        /\ Promotable(names[i])
                        /\ \A j \in 1 .. i - 1 : Promotable(names[j]) => Lower(names[j]) # Lower(names[i])}
             sub == Subsequence(names, kept)
  <1>1. \A i \in kept : i \in Int /\ i >= 1 /\ Promotable(names[i])
    OBVIOUS
  <1>2. \A i, j \in kept : i < j => Lower(names[i]) # Lower(names[j])
    <2> SUFFICES ASSUME NEW i \in kept, NEW j \in kept, i < j PROVE Lower(names[i]) # Lower(names[j])
      OBVIOUS
    <2>1. i \in 1 .. j - 1 /\ Promotable(names[i])
      BY <1>1
    <2> QED BY <2>1
  <1>3. kept \in SUBSET DOMAIN names /\ Promoted(names) = sub
    BY DEF Promoted
  <1> HIDE DEF kept, sub
  <1>4. /\ sub \in Seq(STRING)
        /\ \A k \in DOMAIN sub : Kth(kept, k) \in kept /\ sub[k] = names[Kth(kept, k)]
        /\ \A k, l \in DOMAIN sub : k < l => Kth(kept, k) < Kth(kept, l)
    BY <1>3, SubsequenceKeeps DEF sub
  <1>5. \A k, l \in DOMAIN sub : k < l => Lower(sub[k]) # Lower(sub[l])
    BY <1>2, <1>4
  <1>6. Distinct(sub)
    <2> SUFFICES ASSUME NEW i \in DOMAIN sub, NEW j \in DOMAIN sub, Lower(sub[i]) = Lower(sub[j])
                 PROVE  i = j
      BY DEF Distinct
    <2>1. i \in Int /\ j \in Int
      BY <1>4
    <2>2. ~(i < j) /\ ~(j < i)
      BY <1>5
    <2> QED BY <2>1, <2>2
  <1>7. \A i \in DOMAIN sub : Promotable(sub[i])
    BY <1>1, <1>4
  <1> QED BY <1>3, <1>4, <1>6, <1>7 DEF WellFormed

\* Two lists of names that share none are distinct together.
LEMMA DistinctTogether ==
    ASSUME NEW S, NEW s \in Seq(S), NEW t \in Seq(S), Distinct(s), Distinct(t),
           \A i \in DOMAIN s : \A j \in DOMAIN t : Lower(s[i]) # Lower(t[j])
    PROVE  /\ s \o t \in Seq(S) /\ Distinct(s \o t)
           /\ \A k \in DOMAIN (s \o t) :
                 \/ \E i \in DOMAIN s : (s \o t)[k] = s[i]
                 \/ \E j \in DOMAIN t : (s \o t)[k] = t[j]
PROOF
  <1> DEFINE u == s \o t
  <1>1. /\ u \in Seq(S) /\ Len(u) = Len(s) + Len(t)
        /\ \A i \in 1 .. Len(s) + Len(t) : u[i] = IF i <= Len(s) THEN s[i] ELSE t[i - Len(s)]
    BY ConcatProperties
  <1>2. /\ Len(s) \in Nat /\ Len(t) \in Nat
        /\ DOMAIN s = 1 .. Len(s) /\ DOMAIN t = 1 .. Len(t)
    OBVIOUS
  <1> HIDE DEF u
  <1>3. DOMAIN u = 1 .. Len(s) + Len(t)
    BY <1>1
  <1>4. \A k \in DOMAIN u : \/ k \in DOMAIN s /\ u[k] = s[k]
                            \/ k - Len(s) \in DOMAIN t /\ u[k] = t[k - Len(s)]
    BY <1>1, <1>2, <1>3
  <1>5. Distinct(u)
    <2> SUFFICES ASSUME NEW k \in DOMAIN u, NEW l \in DOMAIN u, Lower(u[k]) = Lower(u[l]) PROVE k = l
      BY DEF Distinct
    <2>1. CASE k \in DOMAIN s /\ u[k] = s[k] /\ l \in DOMAIN s /\ u[l] = s[l]
      BY <2>1 DEF Distinct
    <2>2. CASE /\ k - Len(s) \in DOMAIN t /\ u[k] = t[k - Len(s)]
               /\ l - Len(s) \in DOMAIN t /\ u[l] = t[l - Len(s)]
      <3>1. k - Len(s) = l - Len(s)
        BY <2>2 DEF Distinct
      <3>2. k \in Int /\ l \in Int
        BY <1>2, <1>3
      <3> QED BY <1>2, <3>1, <3>2
    <2> QED BY <1>4, <2>1, <2>2
  <1> QED BY <1>1, <1>4, <1>5 DEF u

FixedName == {"timestamp", "line", "labels", "structured_metadata"}

LEMMA FixedNames ==
    /\ Names(Fixed) = FixedName
    /\ \A name \in FixedName : Lower(name) = name
PROOF
  <1>1. /\ DOMAIN Fixed = 1 .. 4
        /\ Fixed[1] = "timestamp" /\ Fixed[2] = "line"
        /\ Fixed[3] = "labels" /\ Fixed[4] = "structured_metadata"
    BY DEF Fixed
  <1>2. \A i \in 1 .. 4 : Lower(Fixed[i]) = Fixed[i]
    BY <1>1, LowerAssumption
  <1>3. \A i \in 1 .. 4 : i = 1 \/ i = 2 \/ i = 3 \/ i = 4
    OBVIOUS
  <1>4. Names(Fixed) = {Fixed[1], Fixed[2], Fixed[3], Fixed[4]}
    BY <1>1, <1>2, <1>3 DEF Names
  <1> QED BY <1>1, <1>2, <1>4 DEF FixedName

\* Columns made of well-formed labels do not clash, with each other or a fixed one.
LEMMA ColumnsDistinct ==
    ASSUME NEW labels, WellFormed(labels)
    PROVE  /\ Distinct(LogsColumns(labels)) /\ Distinct(SeriesColumns(labels))
           /\ Range(labels) \cap Invalid = {}
PROOF
  <1> DEFINE S == STRING \cup FixedName
             a == <<"timestamp", "line">>
             z == <<"labels", "structured_metadata">>
             last == <<"labels">>
  <1>1. labels \in Seq(S) /\ Distinct(labels)
    BY DEF WellFormed
  <1>2. \A i \in DOMAIN labels : Lower(labels[i]) \notin FixedName /\ labels[i] \notin Invalid
    BY FixedNames DEF WellFormed, Promotable, Reserved
  <1>3. Distinct(a) /\ Distinct(z) /\ Distinct(last)
    BY FixedNames DEF Distinct, FixedName
  <1>4. /\ a \in Seq(S) /\ z \in Seq(S) /\ last \in Seq(S)
        /\ (\A i \in DOMAIN a : a[i] \in FixedName /\ Lower(a[i]) = a[i])
        /\ (\A i \in DOMAIN z : z[i] \in FixedName /\ Lower(z[i]) = z[i])
        /\ (\A i \in DOMAIN last : last[i] \in FixedName /\ Lower(last[i]) = last[i])
        /\ (\A i \in DOMAIN a : \A j \in DOMAIN z : a[i] # z[j])
    BY FixedNames DEF FixedName
  <1>5. LogsColumns(labels) = (a \o labels) \o z /\ SeriesColumns(labels) = labels \o last
    <2>0. /\ Fixed \in Seq(S) /\ Len(Fixed) = 4
          /\ Fixed[1] = "timestamp" /\ Fixed[2] = "line"
          /\ Fixed[3] = "labels" /\ Fixed[4] = "structured_metadata"
      BY DEF Fixed, FixedName
    <2>1. SubSeq(Fixed, 1, 2) = a /\ SubSeq(Fixed, 3, 4) = z
      <3> DEFINE head == SubSeq(Fixed, 1, 2)
                 foot == SubSeq(Fixed, 3, 4)
      <3>1. /\ head \in Seq(S) /\ Len(head) = 2 /\ head[1] = "timestamp" /\ head[2] = "line"
            /\ foot \in Seq(S) /\ Len(foot) = 2
            /\ foot[1] = "labels" /\ foot[2] = "structured_metadata"
        <4> HIDE DEF S
        <4>1. \A i \in 1 .. 4 : Fixed[i] \in S
          BY <2>0, ElementOfSeq
        <4>2. (\A i \in 1 .. 2 : Fixed[i] \in S) /\ (\A i \in 3 .. 4 : Fixed[i] \in S)
          BY <4>1
        <4>3. /\ head \in Seq(S) /\ Len(head) = IF 1 <= 2 THEN 2 - 1 + 1 ELSE 0
              /\ \A i \in 1 .. 2 - 1 + 1 : head[i] = Fixed[1 + i - 1]
          BY <4>2, SubSeqProperties
        <4>4. /\ foot \in Seq(S) /\ Len(foot) = IF 3 <= 4 THEN 4 - 3 + 1 ELSE 0
              /\ \A i \in 1 .. 4 - 3 + 1 : foot[i] = Fixed[3 + i - 1]
          BY <4>2, SubSeqProperties
        <4> HIDE DEF head, foot
        <4>5. /\ Len(head) = 2 /\ head[1] = Fixed[1] /\ head[2] = Fixed[2]
              /\ Len(foot) = 2 /\ foot[1] = Fixed[3] /\ foot[2] = Fixed[4]
          BY <4>3, <4>4
        <4> QED BY <2>0, <4>3, <4>4, <4>5
      <3>2. /\ Len(a) = 2 /\ a[1] = "timestamp" /\ a[2] = "line"
            /\ Len(z) = 2 /\ z[1] = "labels" /\ z[2] = "structured_metadata"
        OBVIOUS
      <3>3. \A i \in 1 .. 2 : i = 1 \/ i = 2
        OBVIOUS
      <3> HIDE DEF head, foot, a, z, S
      <3>4. head = a
        BY <1>4, <3>1, <3>2, <3>3, SeqEqual
      <3>5. foot = z
        BY <1>4, <3>1, <3>2, <3>3, SeqEqual
      <3> QED BY <3>4, <3>5 DEF head, foot
    <2>2. Append(labels, "labels") = labels \o last
      BY <1>1
    <2> QED BY <2>1, <2>2 DEF LogsColumns, SeriesColumns
  <1> HIDE DEF a, z, last, S
  <1> DEFINE b == a \o labels
  <1>6. /\ b \in Seq(S) /\ Distinct(b)
        /\ \A k \in DOMAIN b : (\E i \in DOMAIN a : b[k] = a[i]) \/ (\E j \in DOMAIN labels : b[k] = labels[j])
    BY <1>1, <1>2, <1>3, <1>4, DistinctTogether
  <1> HIDE DEF b
  <1>7. Distinct(b \o z)
    <2>1. \A i \in DOMAIN b : \A j \in DOMAIN z : Lower(b[i]) # Lower(z[j])
      BY <1>2, <1>4, <1>6
    <2> QED BY <1>3, <1>4, <1>6, <2>1, DistinctTogether
  <1>8. Distinct(labels \o last)
    BY <1>1, <1>2, <1>3, <1>4, DistinctTogether
  <1>9. Range(labels) \cap Invalid = {}
    BY <1>2 DEF Range
  <1> QED BY <1>5, <1>7, <1>8, <1>9 DEF b

-----------------------------------------------------------------------------
(* Schemas.  now is the value of latest: which answer each tenant gets.    *)

Tenant == STRING \cup {Absent}

SchemaRecord == [name : STRING \cup {"public"}, tenant : Tenant, labels : Seq(STRING), from : Nat]

KnownTenant(tenant) == tenant \in Tenant /\ (Given(tenant) => tenant \in Org)

ConnOK(conn) == Configuration(conn.auth) /\ KnownTenants(conn.auth)

LatestOK(now) == now \in [Org -> Nat] /\ \A org \in Org : now[org] \in 1 .. Len(Answers[org])

\* A schema has well-formed columns, and unless they are pinned they are those of an
\* answer to its own tenant.
SchemaOK(now, conn, pinned, s) ==
    /\ s \in SchemaRecord
    /\ KnownTenant(s.tenant)
    /\ WellFormed(s.labels)
    /\ ~pinned => LET org == Asked(conn, s.tenant)
                  IN s.from \in 1 .. now[org] /\ s.labels = Promoted(Answers[org][s.from])

\* A request asks for the tenant it is given, else for one of the connection.
LEMMA AskedIsKnown ==
    ASSUME NEW conn, ConnOK(conn), NEW tenant, KnownTenant(tenant)
    PROVE  /\ Asked(conn, tenant) \in Org
           /\ Given(tenant) => Reads(Headers(conn, tenant), "X-Scope-OrgID") = tenant
PROOF
  <1> DEFINE auth == TenantAuth(conn, tenant)
  <1>1. CASE Given(tenant)
    <2>1. DOMAIN auth = Field /\ \A f \in Field : auth[f] = IF f = "tenant" THEN tenant ELSE conn.auth[f]
      BY <1>1 DEF TenantAuth, ConnOK, Configuration
    <2>2. Configuration(auth) /\ auth.tenant = tenant
      <3> HIDE DEF auth
      <3> QED BY <1>1, <2>1 DEF ConnOK, Configuration, KnownTenant, Tenant, Given, Field
    <2>3. Reads(BuildAuthHeaders(auth), "X-Scope-OrgID") = tenant
      <3> HIDE DEF auth
      <3> QED BY <1>1, <2>2, HeadersRead
    <2> QED BY <1>1, <2>3 DEF Asked, Headers, KnownTenant
  <1>2. CASE ~Given(tenant)
    <2>1. auth = conn.auth
      BY <1>2 DEF TenantAuth
    <2>2. Asked(conn, tenant) = Reads(BuildAuthHeaders(conn.auth), "X-Scope-OrgID")
      BY <2>1 DEF Asked, Headers
    <2>3. Configuration(conn.auth) /\ KnownTenants(conn.auth)
      BY DEF ConnOK
    <2>4. CASE Given(conn.auth.tenant)
      <3>1. Asked(conn, tenant) = conn.auth.tenant
        BY <2>2, <2>3, <2>4, HeadersRead
      <3> QED BY <1>2, <2>3, <2>4, <3>1 DEF KnownTenants
    <2>5. CASE ~Given(conn.auth.tenant)
      <3>1. \/ Asked(conn, tenant) = Absent
            \/ \E i \in DOMAIN Extra(conn.auth) :
                  /\ Extra(conn.auth)[i][1] = "X-Scope-OrgID"
                  /\ Asked(conn, tenant) = Extra(conn.auth)[i][2]
        <4>1. Asked(conn, tenant) = Reads(Extra(conn.auth), "X-Scope-OrgID")
          BY <2>2, <2>3, <2>5, HeadersRead
        <4>2. Extra(conn.auth) \in Seq(Header(conn.auth))
          BY <2>3, HeaderParts
        <4> QED BY <4>1, <4>2, ReadsAny
      <3>2. ASSUME NEW i \in DOMAIN Extra(conn.auth), Extra(conn.auth)[i][1] = "X-Scope-OrgID"
            PROVE  Extra(conn.auth)[i][2] \in Org
        <4>1. Extra(conn.auth) = conn.auth.headers /\ conn.auth.headers # Absent
          <5>1. DOMAIN <<>> = {}
            OBVIOUS
          <5> QED BY <3>2, <5>1 DEF Extra
        <4> QED BY <2>3, <3>2, <4>1 DEF KnownTenants
      <3> QED BY <1>2, <3>1, <3>2, OrgAssumption
    <2> QED BY <2>4, <2>5
  <1> QED BY <1>1, <1>2

LEMMA AnswerWellFormed ==
    ASSUME NEW now, LatestOK(now), NEW org \in Org, NEW k \in 1 .. now[org]
    PROVE  Answers[org][k] \in Seq(STRING) /\ WellFormed(Promoted(Answers[org][k]))
PROOF
  <1>1. Answers[org] \in Seq(Seq(STRING)) /\ now[org] \in 1 .. Len(Answers[org])
    BY AnswersAssumption DEF LatestOK
  <1>2. k \in 1 .. Len(Answers[org])
    BY <1>1
  <1>3. Answers[org][k] \in Seq(STRING)
    BY <1>1, <1>2
  <1> QED BY <1>3, PromotedWellFormed

\* Labels that arrive make a schema of their tenant.
LEMMA DiscoveredOK ==
    ASSUME LatestOK(latest), NEW conn, ConnOK(conn),
           NEW name \in STRING \cup {"public"}, NEW tenant, KnownTenant(tenant)
    PROVE  /\ SchemaOK(latest, conn, FALSE, Discovered(conn, name, tenant))
           /\ Discovered(conn, name, tenant).tenant = tenant
           /\ Discovered(conn, name, tenant).from = latest[Asked(conn, tenant)]
PROOF
  <1> DEFINE org == Asked(conn, tenant)
             labels == Promoted(Answers[org][latest[org]])
             s == Discovered(conn, name, tenant)
  <1>1. org \in Org
    BY AskedIsKnown
  <1>2. s = [name |-> name, tenant |-> tenant, labels |-> labels, from |-> latest[org]]
    BY DEF Discovered, Schema
  <1> HIDE DEF org
  <1>3. latest[org] \in Nat /\ latest[org] \in 1 .. latest[org]
    BY <1>1 DEF LatestOK
  <1>4. WellFormed(labels)
    BY <1>1, <1>3, AnswerWellFormed
  <1> HIDE DEF labels
  <1>5. s.name = name /\ s.tenant = tenant /\ s.labels = labels /\ s.from = latest[org]
    BY <1>2
  <1>6. s \in SchemaRecord
    BY <1>2, <1>3, <1>4 DEF SchemaRecord, KnownTenant, WellFormed
  <1> HIDE DEF s
  <1>7. s.labels = Promoted(Answers[Asked(conn, s.tenant)][s.from])
        /\ s.from \in 1 .. latest[Asked(conn, s.tenant)]
    BY <1>3, <1>5 DEF org, labels
  <1>8. SchemaOK(latest, conn, FALSE, s)
    BY <1>4, <1>5, <1>6, <1>7 DEF SchemaOK
  <1> QED BY <1>5, <1>8 DEF s, org

LEMMA SchemaLater ==
    ASSUME NEW now, NEW later, LatestOK(now), LatestOK(later), \A org \in Org : now[org] <= later[org],
           NEW conn, ConnOK(conn), NEW pinned, NEW s, SchemaOK(now, conn, pinned, s)
    PROVE  SchemaOK(later, conn, pinned, s)
PROOF
  <1> DEFINE org == Asked(conn, s.tenant)
  <1>1. org \in Org
    BY AskedIsKnown DEF SchemaOK
  <1> HIDE DEF org
  <1>2. now[org] \in Nat /\ later[org] \in Nat /\ now[org] <= later[org]
    BY <1>1 DEF LatestOK
  <1>3. s.from \in 1 .. now[org] => s.from \in 1 .. later[org]
    BY <1>2
  <1> QED BY <1>3 DEF SchemaOK, org

\* The schemas an ATTACH has to make.
LEMMA TenantsOK ==
    ASSUME NEW call \in AttachCall, NEW conn, ConnOK(conn)
    PROVE  /\ Len(Tenants(call, conn)) \in Nat /\ Len(Tenants(call, conn)) > 0
           /\ \A i \in 1 .. Len(Tenants(call, conn)) :
                 /\ Tenants(call, conn)[i].name \in STRING \cup {"public"}
                 /\ KnownTenant(Tenants(call, conn)[i].tenant)
PROOF
  <1>1. CASE call.tenants = <<>>
    <2>1. Tenants(call, conn) = <<[name |-> "public", tenant |-> conn.auth.tenant]>>
      BY <1>1 DEF Tenants
    <2>2. KnownTenant(conn.auth.tenant)
      BY DEF ConnOK, Configuration, KnownTenants, KnownTenant, Tenant
    <2> QED BY <2>1, <2>2
  <1>2. CASE call.tenants # <<>>
    <2> DEFINE t == call.tenants
               todo == [i \in DOMAIN t |-> [name |-> t[i], tenant |-> t[i]]]
    <2>1. Tenants(call, conn) = todo
      BY <1>2 DEF Tenants
    <2>2. t \in Seq(STRING) /\ \A i \in DOMAIN t : Given(t[i]) => t[i] \in Org
      BY CallAssumption, OrgAssumption
    <2> HIDE DEF t
    <2>3. Len(t) \in Nat /\ Len(t) > 0 /\ DOMAIN t = 1 .. Len(t) /\ \A i \in DOMAIN t : t[i] \in STRING
      BY <1>2, <2>2 DEF t
    <2>4. Len(todo) = Len(t)
      BY <2>3
    <2>5. \A i \in 1 .. Len(t) : todo[i].name = t[i] /\ todo[i].tenant = t[i]
      BY <2>3
    <2> HIDE DEF todo
    <2> QED BY <2>1, <2>2, <2>3, <2>4, <2>5 DEF KnownTenant, Tenant
  <1> QED BY <1>1, <1>2

-----------------------------------------------------------------------------
(* The catalog: its databases, and an ATTACH and a PRAGMA half way.        *)

SchemasOK(now, conn, pinned, schemas) ==
    /\ schemas \in Seq(SchemaRecord)
    /\ \A i \in DOMAIN schemas : SchemaOK(now, conn, pinned, schemas[i])

DatabaseOK(now, db) ==
    /\ db = [conn |-> db.conn, pinned |-> db.pinned, schemas |-> db.schemas]
    /\ ConnOK(db.conn) /\ db.pinned \in BOOLEAN
    /\ SchemasOK(now, db.conn, db.pinned, db.schemas) /\ db.schemas # <<>>

AttachOK(now, all, a) ==
    /\ a = [db |-> a.db, call |-> a.call, conn |-> a.conn, schemas |-> a.schemas]
    /\ a.db \in Database \ DOMAIN all
    /\ a.call \in AttachCall /\ Acceptable(a.call) /\ ConnOK(a.conn)
    /\ SchemasOK(now, a.conn, a.call.labels # Absent, a.schemas)
    /\ Len(a.schemas) <= Len(Tenants(a.call, a.conn))

\* Every schema was made of an answer no older than since.
FreshSince(since, conn, schemas) ==
    \A i \in DOMAIN schemas : schemas[i].from >= since[Asked(conn, schemas[i].tenant)]

\* What a PRAGMA promised is still to come, under way, or fresh.
PragmaOK(now, all, p) ==
    /\ p = [todo |-> p.todo, db |-> p.db, got |-> p.got, dbs |-> p.dbs, since |-> p.since]
    /\ p.todo \subseteq DOMAIN all
    /\ p.dbs \subseteq {d \in DOMAIN all : ~all[d].pinned}
    /\ p.since \in [Org -> Nat] /\ \A org \in Org : p.since[org] <= now[org]
    /\ \A d \in p.dbs : \/ d \in p.todo \/ d = p.db
                        \/ FreshSince(p.since, all[d].conn, all[d].schemas)
    /\ p.db # Absent =>
          /\ p.db \in DOMAIN all /\ ~all[p.db].pinned
          /\ SchemasOK(now, all[p.db].conn, FALSE, p.got)
          /\ Len(p.got) <= Len(all[p.db].schemas)
          /\ FreshSince(p.since, all[p.db].conn, p.got)
    /\ p.db = Absent => p.got = <<>>

FinishOK(all, f) ==
    /\ f.dbs \subseteq DOMAIN all
    /\ \A d \in f.dbs : FreshSince(f.since, all[d].conn, all[d].schemas)

CatalogInv ==
    /\ LatestOK(latest)
    /\ DOMAIN dbs \subseteq Database /\ \A d \in DOMAIN dbs : DatabaseOK(latest, dbs[d])
    /\ attach # Absent => AttachOK(latest, dbs, attach)
    /\ pragma # Absent => PragmaOK(latest, dbs, pragma)
    /\ finished # Absent => FinishOK(dbs, finished)

LEMMA SchemasLater ==
    ASSUME NEW now, NEW later, LatestOK(now), LatestOK(later), \A org \in Org : now[org] <= later[org],
           NEW conn, ConnOK(conn), NEW pinned, NEW schemas, SchemasOK(now, conn, pinned, schemas)
    PROVE  SchemasOK(later, conn, pinned, schemas)
  BY SchemaLater DEF SchemasOK

\* One more schema.
LEMMA SchemasGrow ==
    ASSUME NEW now, NEW conn, NEW pinned, NEW schemas, SchemasOK(now, conn, pinned, schemas),
           NEW s, SchemaOK(now, conn, pinned, s)
    PROVE  /\ SchemasOK(now, conn, pinned, Append(schemas, s))
           /\ Len(Append(schemas, s)) = Len(schemas) + 1
           /\ \A since : FreshSince(since, conn, schemas) /\ s.from >= since[Asked(conn, s.tenant)] =>
                             FreshSince(since, conn, Append(schemas, s))
PROOF
  <1> DEFINE more == Append(schemas, s)
  <1>1. s \in SchemaRecord /\ schemas \in Seq(SchemaRecord)
    BY DEF SchemaOK, SchemasOK
  <1>2. /\ more \in Seq(SchemaRecord) /\ Len(more) = Len(schemas) + 1
        /\ \A i \in DOMAIN more : (i \in DOMAIN schemas /\ more[i] = schemas[i]) \/ more[i] = s
    BY <1>1
  <1> HIDE DEF more
  <1>3. SchemasOK(now, conn, pinned, more)
    BY <1>2 DEF SchemasOK
  <1>4. \A since : FreshSince(since, conn, schemas) /\ s.from >= since[Asked(conn, s.tenant)] =>
                       FreshSince(since, conn, more)
    BY <1>2 DEF FreshSince
  <1> QED BY <1>2, <1>3, <1>4 DEF more

LEMMA NoSchemas ==
    ASSUME NEW now, NEW conn, NEW pinned, NEW since
    PROVE  SchemasOK(now, conn, pinned, <<>>) /\ FreshSince(since, conn, <<>>)
PROOF
  <1>1. DOMAIN <<>> = {} /\ <<>> \in Seq(SchemaRecord)
    OBVIOUS
  <1> QED BY <1>1 DEF SchemasOK, FreshSince

\* Loki's labels change.
LEMMA LabelsChange ==
    ASSUME CatalogInv, NEW org \in Org, ChangeLabels(org)
    PROVE  CatalogInv'
PROOF
  <1>1. /\ LatestOK(latest) /\ latest[org] < Len(Answers[org])
        /\ latest' = [latest EXCEPT ![org] = @ + 1]
        /\ dbs' = dbs /\ attach' = attach /\ pragma' = pragma /\ finished' = Absent
    BY DEF ChangeLabels, CatalogInv, catalog
  <1>2. \A o \in Org : latest'[o] = IF o = org THEN latest[org] + 1 ELSE latest[o]
    BY <1>1 DEF LatestOK
  <1>3. Answers[org] \in Seq(Seq(STRING)) /\ Len(Answers[org]) \in Nat
    BY AnswersAssumption
  <1>4. latest' \in [Org -> Nat]
    BY <1>1 DEF LatestOK
  <1>5. LatestOK(latest') /\ \A o \in Org : latest[o] <= latest'[o]
    <2>1. \A o \in Org : latest[o] \in Nat /\ latest[o] \in 1 .. Len(Answers[o])
      BY <1>1 DEF LatestOK
    <2>2. latest[org] + 1 \in 1 .. Len(Answers[org])
      BY <1>1, <1>3, <2>1
    <2> QED BY <1>2, <1>4, <2>1, <2>2 DEF LatestOK
  <1>6. ASSUME NEW d \in DOMAIN dbs PROVE DatabaseOK(latest', dbs[d])
    <2>1. DatabaseOK(latest, dbs[d])
      BY DEF CatalogInv
    <2> QED BY <1>1, <1>5, <2>1, SchemasLater DEF DatabaseOK
  <1>7. ASSUME attach # Absent PROVE AttachOK(latest', dbs, attach)
    <2>1. AttachOK(latest, dbs, attach)
      BY <1>7 DEF CatalogInv
    <2>2. SchemasOK(latest', attach.conn, attach.call.labels # Absent, attach.schemas)
      BY <1>1, <1>5, <2>1, SchemasLater DEF AttachOK
    <2> QED BY <2>1, <2>2 DEF AttachOK
  <1>8. ASSUME pragma # Absent PROVE PragmaOK(latest', dbs, pragma)
    <2>1. PragmaOK(latest, dbs, pragma)
      BY <1>8 DEF CatalogInv
    <2>2. ASSUME pragma.db # Absent
          PROVE  SchemasOK(latest', dbs[pragma.db].conn, FALSE, pragma.got)
      <3>1. /\ SchemasOK(latest, dbs[pragma.db].conn, FALSE, pragma.got)
            /\ pragma.db \in DOMAIN dbs
        BY <2>1, <2>2 DEF PragmaOK
      <3>2. ConnOK(dbs[pragma.db].conn)
        BY <3>1 DEF CatalogInv, DatabaseOK
      <3> QED BY <1>1, <1>5, <3>1, <3>2, SchemasLater
    <2>3. \A o \in Org : pragma.since[o] <= latest'[o]
      <3>1. \A o \in Org : /\ pragma.since[o] \in Nat /\ latest[o] \in Nat /\ latest'[o] \in Nat
                           /\ pragma.since[o] <= latest[o] /\ latest[o] <= latest'[o]
        BY <1>1, <1>5, <2>1 DEF PragmaOK, LatestOK
      <3> QED BY <3>1
    <2> QED BY <2>1, <2>2, <2>3 DEF PragmaOK
  <1> QED BY <1>1, <1>5, <1>6, <1>7, <1>8 DEF CatalogInv

LEMMA AttachStarts ==
    ASSUME ConnectionInv, CatalogInv, NEW d \in Database, NEW call \in AttachCall, StartAttach(d, call)
    PROVE  CatalogInv'
PROOF
  <1> DEFINE target == ResolveLokiConnectionFromOptions(call)
  <1>1. PICK c \in Connections(target) :
            attach' = IF c = Absent \/ ~Acceptable(call) THEN Absent
                      ELSE [db |-> d, call |-> call, conn |-> c, schemas |-> <<>>]
    BY DEF StartAttach
  <1>2. /\ d \notin DOMAIN dbs /\ latest' = latest /\ dbs' = dbs /\ pragma' = pragma /\ finished' = Absent
    BY DEF StartAttach
  <1>3. Configuration(target.options) /\ KnownTenants(target.options)
    BY AttachTarget
  <1> HIDE DEF target
  <1>4. ASSUME attach' # Absent PROVE AttachOK(latest, dbs, attach')
    <2>1. /\ c # Absent /\ Acceptable(call)
          /\ attach' = [db |-> d, call |-> call, conn |-> c, schemas |-> <<>>]
      BY <1>1, <1>4
    <2>2. ConnOK(c)
      BY <1>3, <2>1, ConnectionMade DEF ConnectionInv, ConnOK
    <2>3. SchemasOK(latest, c, call.labels # Absent, <<>>)
      BY NoSchemas
    <2>4. Len(<<>>) <= Len(Tenants(call, c))
      <3>1. Len(<<>>) = 0
        OBVIOUS
      <3> QED BY <2>2, <3>1, TenantsOK
    <2>5. /\ attach'.db = d /\ attach'.call = call /\ attach'.conn = c /\ attach'.schemas = <<>>
      BY <2>1
    <2> QED BY <1>2, <2>1, <2>2, <2>3, <2>4, <2>5 DEF AttachOK
  <1> QED BY <1>2, <1>4 DEF CatalogInv

LEMMA AttachTenantKeeps ==
    ASSUME CatalogInv, AttachTenant
    PROVE  CatalogInv'
PROOF
  <1> DEFINE conn == attach.conn
             pinned == attach.call.labels # Absent
             todo == Tenants(attach.call, conn)
             k == Len(attach.schemas) + 1
             next == todo[k]
             schema == IF pinned THEN Schema(next.name, next.tenant, attach.call.labels, 0)
                       ELSE Discovered(conn, next.name, next.tenant)
  <1>1. /\ AttachOK(latest, dbs, attach) /\ LatestOK(latest)
        /\ Len(attach.schemas) < Len(todo)
        /\ attach' = [attach EXCEPT !.schemas = Append(attach.schemas, schema)]
        /\ latest' = latest /\ dbs' = dbs /\ pragma' = pragma /\ finished' = Absent
    BY DEF AttachTenant, CatalogInv
  <1>2. k \in 1 .. Len(todo) /\ Len(attach.schemas) \in Nat
    <2>1. Len(attach.schemas) \in Nat
      BY <1>1 DEF AttachOK, SchemasOK
    <2>2. Len(todo) \in Nat
      BY <1>1, TenantsOK DEF AttachOK
    <2> HIDE DEF todo
    <2> QED BY <1>1, <2>1, <2>2
  <1>3. next.name \in STRING \cup {"public"} /\ KnownTenant(next.tenant)
    BY <1>1, <1>2, TenantsOK DEF AttachOK
  <1>4. SchemaOK(latest, conn, pinned, schema)
    <2>1. CASE pinned
      <3> DEFINE labels == attach.call.labels
      <3>1. schema = [name |-> next.name, tenant |-> next.tenant, labels |-> labels, from |-> 0]
        BY <2>1 DEF Schema
      <3>2. attach.call \in AttachCall /\ Acceptable(attach.call)
        BY <1>1 DEF AttachOK
      <3>3. WellFormed(labels)
        BY <2>1, <3>2, CallAssumption DEF Acceptable, WellFormed
      <3> HIDE DEF schema, next, labels
      <3>4. schema \in SchemaRecord
        BY <1>3, <3>1, <3>3 DEF SchemaRecord, KnownTenant, WellFormed
      <3>5. schema.tenant = next.tenant /\ schema.labels = labels
        BY <3>1
      <3> QED BY <1>3, <2>1, <3>3, <3>4, <3>5 DEF SchemaOK
    <2>2. CASE ~pinned
      <3>1. schema = Discovered(conn, next.name, next.tenant)
        BY <2>2
      <3>2. ConnOK(conn)
        BY <1>1 DEF AttachOK
      <3> HIDE DEF schema, next
      <3>3. SchemaOK(latest, conn, FALSE, schema)
        BY <1>1, <1>3, <3>1, <3>2, DiscoveredOK
      <3> QED BY <3>3 DEF SchemaOK
    <2> QED BY <2>1, <2>2
  <1> HIDE DEF schema
  <1>5. SchemasOK(latest, conn, pinned, Append(attach.schemas, schema))
        /\ Len(Append(attach.schemas, schema)) = k
    BY <1>1, <1>4, SchemasGrow DEF AttachOK
  <1>6. attach' = [db |-> attach.db, call |-> attach.call, conn |-> conn,
                   schemas |-> Append(attach.schemas, schema)]
    <2>1. attach = [db |-> attach.db, call |-> attach.call, conn |-> conn, schemas |-> attach.schemas]
      BY <1>1 DEF AttachOK
    <2> QED BY <1>1, <2>1
  <1>7. /\ attach'.db = attach.db /\ attach'.call = attach.call /\ attach'.conn = conn
        /\ attach'.schemas = Append(attach.schemas, schema)
    BY <1>6
  <1>8. k <= Len(todo)
    <2>1. Len(todo) \in Nat
      BY <1>1, TenantsOK DEF AttachOK
    <2> HIDE DEF todo, k
    <2> QED BY <1>2, <2>1
  <1>9. AttachOK(latest, dbs, attach')
    BY <1>1, <1>5, <1>6, <1>7, <1>8 DEF AttachOK
  <1> QED BY <1>1, <1>9 DEF CatalogInv

\* A database more does not touch what a PRAGMA looks at.
LEMMA PragmaGrows ==
    ASSUME NEW now, NEW all, NEW more, DOMAIN all \subseteq DOMAIN more,
           \A d \in DOMAIN all : more[d] = all[d], NEW p, PragmaOK(now, all, p)
    PROVE  PragmaOK(now, more, p)
  BY DEF PragmaOK

LEMMA AttachedKeeps ==
    ASSUME CatalogInv, Attached
    PROVE  CatalogInv'
PROOF
  <1> DEFINE new == [conn |-> attach.conn, pinned |-> attach.call.labels # Absent,
                     schemas |-> attach.schemas]
  <1>1. /\ AttachOK(latest, dbs, attach)
        /\ Len(attach.schemas) = Len(Tenants(attach.call, attach.conn))
        /\ dbs' = [d \in DOMAIN dbs \cup {attach.db} |-> IF d # attach.db THEN dbs[d] ELSE new]
        /\ attach' = Absent /\ latest' = latest /\ pragma' = pragma /\ finished' = Absent
    BY DEF Attached, CatalogInv
  <1>2. attach.db \in Database \ DOMAIN dbs
    BY <1>1 DEF AttachOK
  <1>3. /\ DOMAIN dbs' = DOMAIN dbs \cup {attach.db}
        /\ \A d \in DOMAIN dbs : dbs'[d] = dbs[d]
        /\ dbs'[attach.db] = new
    BY <1>1, <1>2
  <1>4. DatabaseOK(latest, new)
    <2>1. new.conn = attach.conn /\ new.pinned = (attach.call.labels # Absent) /\ new.schemas = attach.schemas
      OBVIOUS
    <2>2. attach.schemas # <<>>
      <3>1. Len(attach.schemas) > 0
        BY <1>1, TenantsOK DEF AttachOK
      <3>2. Len(<<>>) = 0
        OBVIOUS
      <3> QED BY <3>1, <3>2
    <2>3. (attach.call.labels # Absent) \in BOOLEAN
      OBVIOUS
    <2>4. ConnOK(attach.conn) /\ SchemasOK(latest, attach.conn, attach.call.labels # Absent, attach.schemas)
      BY <1>1 DEF AttachOK
    <2>5. new = [conn |-> new.conn, pinned |-> new.pinned, schemas |-> new.schemas]
      OBVIOUS
    <2> HIDE DEF new
    <2> QED BY <2>1, <2>2, <2>3, <2>4, <2>5 DEF DatabaseOK
  <1> HIDE DEF new
  <1>5. \A d \in DOMAIN dbs' : DatabaseOK(latest, dbs'[d])
    BY <1>3, <1>4 DEF CatalogInv
  <1>6. pragma # Absent => PragmaOK(latest, dbs', pragma)
    BY <1>3, PragmaGrows DEF CatalogInv
  <1>7. DOMAIN dbs' \subseteq Database
    BY <1>2, <1>3 DEF CatalogInv
  <1>8. LatestOK(latest)
    BY DEF CatalogInv
  <1> QED BY <1>1, <1>5, <1>6, <1>7, <1>8 DEF CatalogInv

LEMMA PragmaStarts ==
    ASSUME CatalogInv, NEW todo \in SUBSET DOMAIN dbs, NEW promised \in SUBSET todo,
           \A d \in promised : ~dbs[d].pinned, StartPragma(todo, promised)
    PROVE  CatalogInv'
PROOF
  <1>1. /\ pragma' = [todo |-> todo, db |-> Absent, got |-> <<>>, dbs |-> promised, since |-> latest]
        /\ latest' = latest /\ dbs' = dbs /\ attach' = attach /\ finished' = Absent
    BY DEF StartPragma
  <1>2. /\ pragma'.todo = todo /\ pragma'.db = Absent /\ pragma'.got = <<>>
        /\ pragma'.dbs = promised /\ pragma'.since = latest
    BY <1>1
  <1>3. latest \in [Org -> Nat] /\ \A org \in Org : latest[org] <= latest[org]
    BY DEF CatalogInv, LatestOK
  <1>4. PragmaOK(latest, dbs, pragma')
    BY <1>1, <1>2, <1>3 DEF PragmaOK
  <1> QED BY <1>1, <1>4 DEF CatalogInv

LEMMA NextDatabaseKeeps ==
    ASSUME CatalogInv, NEW d \in Database, NextDatabase(d)
    PROVE  CatalogInv'
PROOF
  <1> DEFINE db == IF dbs[d].pinned THEN Absent ELSE d
  <1>1. /\ PragmaOK(latest, dbs, pragma) /\ pragma.db = Absent /\ d \in pragma.todo
        /\ pragma' = [pragma EXCEPT !.todo = pragma.todo \ {d}, !.db = db]
        /\ latest' = latest /\ dbs' = dbs /\ attach' = attach /\ finished' = Absent
    BY DEF NextDatabase, CatalogInv
  <1>2. pragma' = [todo |-> pragma.todo \ {d}, db |-> db, got |-> pragma.got,
                   dbs |-> pragma.dbs, since |-> pragma.since]
    <2> HIDE DEF db
    <2>1. pragma = [todo |-> pragma.todo, db |-> pragma.db, got |-> pragma.got,
                    dbs |-> pragma.dbs, since |-> pragma.since]
      BY <1>1 DEF PragmaOK
    <2> QED BY <1>1, <2>1
  <1>3. /\ pragma'.todo = pragma.todo \ {d} /\ pragma'.db = db /\ pragma'.got = <<>>
        /\ pragma'.dbs = pragma.dbs /\ pragma'.since = pragma.since
    BY <1>1, <1>2 DEF PragmaOK
  <1>4. d \in DOMAIN dbs
    BY <1>1 DEF PragmaOK
  <1>5. \A e \in pragma.dbs : \/ e \in pragma.todo \ {d} \/ e = db
                              \/ FreshSince(pragma.since, dbs[e].conn, dbs[e].schemas)
    <2> SUFFICES ASSUME NEW e \in pragma.dbs
                 PROVE  \/ e \in pragma.todo \ {d} \/ e = db
                        \/ FreshSince(pragma.since, dbs[e].conn, dbs[e].schemas)
      OBVIOUS
    <2>1. e # Absent /\ ~dbs[e].pinned
      BY <1>1, BoundAssumption DEF PragmaOK, CatalogInv
    <2>2. \/ e \in pragma.todo \/ FreshSince(pragma.since, dbs[e].conn, dbs[e].schemas)
      BY <1>1, <2>1 DEF PragmaOK
    <2> QED BY <2>1, <2>2
  <1>6. db # Absent =>
            /\ db \in DOMAIN dbs /\ ~dbs[db].pinned
            /\ SchemasOK(latest, dbs[db].conn, FALSE, <<>>)
            /\ Len(<<>>) <= Len(dbs[db].schemas)
            /\ FreshSince(pragma.since, dbs[db].conn, <<>>)
    <2>1. db # Absent => db = d /\ ~dbs[d].pinned
      OBVIOUS
    <2>2. dbs[d].schemas \in Seq(SchemaRecord)
      BY <1>4 DEF CatalogInv, DatabaseOK, SchemasOK
    <2>3. Len(<<>>) <= Len(dbs[d].schemas)
      BY <2>2
    <2> HIDE DEF db
    <2> QED BY <1>4, <2>1, <2>3, NoSchemas
  <1> HIDE DEF db
  <1>7. PragmaOK(latest, dbs, pragma')
    BY <1>1, <1>2, <1>3, <1>5, <1>6 DEF PragmaOK
  <1> QED BY <1>1, <1>7 DEF CatalogInv

LEMMA RefreshTenantKeeps ==
    ASSUME CatalogInv, RefreshTenant
    PROVE  CatalogInv'
PROOF
  <1> DEFINE db == dbs[pragma.db]
             k == Len(pragma.got) + 1
             next == db.schemas[k]
             schema == Discovered(db.conn, next.name, next.tenant)
             got == Append(pragma.got, schema)
  <1>1. /\ PragmaOK(latest, dbs, pragma) /\ pragma.db # Absent
        /\ Len(pragma.got) < Len(db.schemas)
        /\ pragma' = [pragma EXCEPT !.got = got]
        /\ latest' = latest /\ dbs' = dbs /\ attach' = attach /\ finished' = Absent
    BY DEF RefreshTenant, Refreshing, CatalogInv
  <1>2. /\ pragma.db \in DOMAIN dbs /\ ~db.pinned
        /\ SchemasOK(latest, db.conn, FALSE, pragma.got)
        /\ FreshSince(pragma.since, db.conn, pragma.got)
    BY <1>1 DEF PragmaOK
  <1>3. DatabaseOK(latest, db) /\ LatestOK(latest)
    BY <1>2 DEF CatalogInv
  <1>4. k \in DOMAIN db.schemas /\ k <= Len(db.schemas)
    <2>1. Len(pragma.got) \in Nat /\ db.schemas \in Seq(SchemaRecord)
      BY <1>2, <1>3 DEF SchemasOK, DatabaseOK
    <2> HIDE DEF db
    <2> QED BY <1>1, <2>1
  <1>5. next.name \in STRING \cup {"public"} /\ KnownTenant(next.tenant) /\ ConnOK(db.conn)
    <2>1. SchemaOK(latest, db.conn, db.pinned, next)
      BY <1>3, <1>4 DEF DatabaseOK, SchemasOK
    <2> HIDE DEF next
    <2> QED BY <1>3, <2>1 DEF DatabaseOK, SchemaOK, SchemaRecord
  <1>6. /\ SchemaOK(latest, db.conn, FALSE, schema)
        /\ schema.tenant = next.tenant
        /\ schema.from = latest[Asked(db.conn, next.tenant)]
    <2>1. schema = Discovered(db.conn, next.name, next.tenant)
      OBVIOUS
    <2>2. LatestOK(latest) /\ ConnOK(db.conn) /\ KnownTenant(next.tenant)
      BY <1>3, <1>5
    <2> HIDE DEF schema, next, db
    <2> QED BY <1>5, <2>1, <2>2, DiscoveredOK
  <1>7. schema.from >= pragma.since[Asked(db.conn, schema.tenant)]
    <2> DEFINE org == Asked(db.conn, next.tenant)
    <2>1. org \in Org
      BY <1>5, AskedIsKnown
    <2> HIDE DEF org
    <2>2. pragma.since[org] <= latest[org] /\ pragma.since[org] \in Nat /\ latest[org] \in Nat
      BY <1>1, <1>3, <2>1 DEF PragmaOK, LatestOK
    <2> HIDE DEF schema
    <2> QED BY <1>6, <2>2 DEF org
  <1>8. /\ SchemasOK(latest, db.conn, FALSE, got) /\ Len(got) = k
        /\ FreshSince(pragma.since, db.conn, got)
    <2>1. SchemasOK(latest, db.conn, FALSE, pragma.got) /\ SchemaOK(latest, db.conn, FALSE, schema)
          /\ FreshSince(pragma.since, db.conn, pragma.got)
      BY <1>2, <1>6
    <2> HIDE DEF schema, db
    <2>2. /\ SchemasOK(latest, db.conn, FALSE, Append(pragma.got, schema))
          /\ Len(Append(pragma.got, schema)) = Len(pragma.got) + 1
          /\ \A since : FreshSince(since, db.conn, pragma.got)
                            /\ schema.from >= since[Asked(db.conn, schema.tenant)] =>
                                FreshSince(since, db.conn, Append(pragma.got, schema))
      BY <2>1, SchemasGrow
    <2> QED BY <1>7, <2>1, <2>2
  <1> HIDE DEF got
  <1>9. pragma' = [todo |-> pragma.todo, db |-> pragma.db, got |-> got,
                   dbs |-> pragma.dbs, since |-> pragma.since]
    <2>1. pragma = [todo |-> pragma.todo, db |-> pragma.db, got |-> pragma.got,
                    dbs |-> pragma.dbs, since |-> pragma.since]
      BY <1>1 DEF PragmaOK
    <2> QED BY <1>1, <2>1
  <1>10. /\ pragma'.todo = pragma.todo /\ pragma'.db = pragma.db /\ pragma'.got = got
         /\ pragma'.dbs = pragma.dbs /\ pragma'.since = pragma.since
    BY <1>9
  <1>11. PragmaOK(latest, dbs, pragma')
    BY <1>1, <1>2, <1>4, <1>8, <1>9, <1>10 DEF PragmaOK
  <1> QED BY <1>1, <1>11 DEF CatalogInv

\* Every tenant has answered, and the database changes at once.
LEMMA RefreshedKeeps ==
    ASSUME CatalogInv, Refreshed
    PROVE  CatalogInv'
PROOF
  <1> DEFINE x == pragma.db
             db == dbs[x]
             new == [conn |-> db.conn, pinned |-> db.pinned, schemas |-> pragma.got]
  <1>1. /\ PragmaOK(latest, dbs, pragma) /\ x # Absent
        /\ Len(pragma.got) = Len(db.schemas)
        /\ dbs' = [dbs EXCEPT ![x].schemas = pragma.got]
        /\ pragma' = [pragma EXCEPT !.db = Absent, !.got = <<>>]
        /\ latest' = latest /\ attach' = attach /\ finished' = Absent
    BY DEF Refreshed, Refreshing, CatalogInv
  <1>2. /\ x \in DOMAIN dbs /\ ~db.pinned
        /\ SchemasOK(latest, db.conn, FALSE, pragma.got)
        /\ FreshSince(pragma.since, db.conn, pragma.got)
    BY <1>1 DEF PragmaOK
  <1>3. DatabaseOK(latest, db)
    BY <1>2 DEF CatalogInv
  <1>4. /\ DOMAIN dbs' = DOMAIN dbs
        /\ \A d \in DOMAIN dbs : d # x => dbs'[d] = dbs[d]
        /\ dbs'[x] = new
    <2>1. db = [conn |-> db.conn, pinned |-> db.pinned, schemas |-> db.schemas]
      BY <1>3 DEF DatabaseOK
    <2>2. dbs' = [dbs EXCEPT ![x] = [db EXCEPT !.schemas = pragma.got]]
      BY <1>1
    <2>3. [db EXCEPT !.schemas = pragma.got] = new
      <3> HIDE DEF db
      <3> QED BY <2>1
    <2> HIDE DEF new, db
    <2> QED BY <1>2, <2>2, <2>3
  <1>5. new.conn = db.conn /\ new.pinned = db.pinned /\ new.schemas = pragma.got
        /\ new = [conn |-> new.conn, pinned |-> new.pinned, schemas |-> new.schemas]
    OBVIOUS
  <1> HIDE DEF new
  <1>6. DatabaseOK(latest, new)
    <2>1. pragma.got # <<>>
      <3>1. db.schemas \in Seq(SchemaRecord) /\ db.schemas # <<>>
        BY <1>3 DEF DatabaseOK, SchemasOK
      <3>2. Len(db.schemas) > 0 /\ Len(<<>>) = 0
        <4> HIDE DEF db
        <4> QED BY <3>1
      <3> QED BY <1>1, <3>2
    <2>2. ConnOK(db.conn) /\ db.pinned = FALSE
      BY <1>2, <1>3 DEF DatabaseOK
    <2> QED BY <1>2, <1>5, <2>1, <2>2 DEF DatabaseOK
  <1>7. \A d \in DOMAIN dbs' : DatabaseOK(latest, dbs'[d])
    BY <1>4, <1>6 DEF CatalogInv
  <1>8. \A d \in DOMAIN dbs : dbs'[d].conn = dbs[d].conn /\ dbs'[d].pinned = dbs[d].pinned
    BY <1>4, <1>5
  <1>9. pragma' = [todo |-> pragma.todo, db |-> Absent, got |-> <<>>,
                   dbs |-> pragma.dbs, since |-> pragma.since]
    <2>1. pragma = [todo |-> pragma.todo, db |-> pragma.db, got |-> pragma.got,
                    dbs |-> pragma.dbs, since |-> pragma.since]
      BY <1>1 DEF PragmaOK
    <2> QED BY <1>1, <2>1
  <1>10. /\ pragma'.todo = pragma.todo /\ pragma'.db = Absent /\ pragma'.got = <<>>
         /\ pragma'.dbs = pragma.dbs /\ pragma'.since = pragma.since
    BY <1>9
  <1>11. ASSUME NEW d \in pragma.dbs
         PROVE  d \in pragma.todo \/ FreshSince(pragma.since, dbs'[d].conn, dbs'[d].schemas)
    <2>1. d \in DOMAIN dbs
      BY <1>1 DEF PragmaOK
    <2>2. CASE d = x
      BY <1>2, <1>4, <1>5, <2>2
    <2>3. CASE d # x
      BY <1>1, <1>4, <2>1, <2>3 DEF PragmaOK
    <2> QED BY <2>2, <2>3
  <1>12. PragmaOK(latest, dbs', pragma')
    <2>1. /\ pragma.todo \subseteq DOMAIN dbs
          /\ pragma.dbs \subseteq {d \in DOMAIN dbs : ~dbs[d].pinned}
          /\ pragma.since \in [Org -> Nat] /\ \A org \in Org : pragma.since[org] <= latest[org]
      BY <1>1 DEF PragmaOK
    <2>2. pragma.dbs \subseteq {d \in DOMAIN dbs' : ~dbs'[d].pinned}
      BY <1>4, <1>8, <2>1
    <2> QED BY <1>4, <1>9, <1>10, <1>11, <2>1, <2>2 DEF PragmaOK
  <1>13. attach # Absent => AttachOK(latest, dbs', attach)
    BY <1>4 DEF CatalogInv, AttachOK
  <1>14. DOMAIN dbs' \subseteq Database /\ LatestOK(latest)
    BY <1>4 DEF CatalogInv
  <1> QED BY <1>1, <1>7, <1>12, <1>13, <1>14 DEF CatalogInv

LEMMA PragmaDoneKeeps ==
    ASSUME CatalogInv, PragmaDone
    PROVE  CatalogInv'
PROOF
  <1>1. /\ PragmaOK(latest, dbs, pragma) /\ pragma.db = Absent /\ pragma.todo = {}
        /\ pragma' = Absent /\ finished' = [dbs |-> pragma.dbs, since |-> pragma.since]
        /\ latest' = latest /\ dbs' = dbs /\ attach' = attach
    BY DEF PragmaDone, CatalogInv
  <1>2. pragma.dbs \subseteq DOMAIN dbs /\ Absent \notin pragma.dbs
    BY <1>1, BoundAssumption DEF PragmaOK, CatalogInv
  <1>3. \A d \in pragma.dbs : FreshSince(pragma.since, dbs[d].conn, dbs[d].schemas)
    BY <1>1, <1>2 DEF PragmaOK
  <1>4. finished'.dbs = pragma.dbs /\ finished'.since = pragma.since
    BY <1>1
  <1>5. FinishOK(dbs, finished')
    BY <1>2, <1>3, <1>4 DEF FinishOK
  <1> QED BY <1>1, <1>5 DEF CatalogInv

-----------------------------------------------------------------------------
LEMMA CatalogInit == Init => CatalogInv
PROOF
  <1> SUFFICES ASSUME Init PROVE CatalogInv
    OBVIOUS
  <1>1. latest = [org \in Org |-> 1] /\ DOMAIN dbs = {} /\ attach = Absent /\ pragma = Absent
        /\ finished = Absent
    BY DEF Init
  <1>2. \A org \in Org : 1 \in 1 .. Len(Answers[org])
    <2> SUFFICES ASSUME NEW org \in Org PROVE 1 \in 1 .. Len(Answers[org])
      OBVIOUS
    <2>1. Answers[org] \in Seq(Seq(STRING)) /\ Answers[org] # <<>>
      BY AnswersAssumption
    <2> QED BY <2>1
  <1>3. LatestOK(latest)
    BY <1>1, <1>2 DEF LatestOK
  <1> QED BY <1>1, <1>3 DEF CatalogInv

LEMMA CatalogStep == ConnectionInv /\ CatalogInv /\ [Next]_vars => CatalogInv'
PROOF
  <1> SUFFICES ASSUME ConnectionInv, CatalogInv, [Next]_vars PROVE CatalogInv'
    OBVIOUS
  <1>1. CASE UNCHANGED <<latest, catalog>> /\ (finished' = finished \/ finished' = Absent)
    BY <1>1 DEF CatalogInv, catalog
  <1>2. CASE UNCHANGED <<latest, dbs, pragma>> /\ attach' = Absent /\ finished' = Absent
    BY <1>2 DEF CatalogInv
  <1>3. CASE UNCHANGED <<latest, dbs, attach>> /\ pragma' = Absent /\ finished' = Absent
    BY <1>3 DEF CatalogInv
  <1>4. CASE \E name \in SecretName : \/ \E def \in Definition[name] : CreateSecret(name, def) /\ Elsewhere
                                      \/ DropSecret(name) /\ Elsewhere
    BY <1>1, <1>4 DEF Elsewhere
  <1>5. CASE \E call \in FunctionCall : CallFunction(call) /\ Elsewhere
    BY <1>1, <1>5 DEF Elsewhere
  <1>6. CASE \E org \in Org : ChangeLabels(org)
    BY <1>6, LabelsChange
  <1>7. CASE \E d \in Database : \E call \in AttachCall : StartAttach(d, call)
    BY <1>7, AttachStarts
  <1>8. ASSUME NEW d \in Database, NamedPragma(d) PROVE CatalogInv'
    <2>1. {d} \in SUBSET DOMAIN dbs /\ ~dbs[d].pinned /\ StartPragma({d}, {d})
      BY <1>8 DEF NamedPragma
    <2>2. {d} \in SUBSET {d} /\ \A e \in {d} : ~dbs[e].pinned
      BY <2>1
    <2> QED BY <2>1, <2>2, PragmaStarts
  <1>9. CASE \E d \in Database : NextDatabase(d)
    BY <1>9, NextDatabaseKeeps
  <1>10. CASE BarePragma
    <2>1. Unpinned \in SUBSET DOMAIN dbs /\ \A d \in Unpinned : ~dbs[d].pinned
      BY DEF Unpinned
    <2>2. StartPragma(DOMAIN dbs, Unpinned)
      BY <1>10 DEF BarePragma
    <2> QED BY <2>1, <2>2, PragmaStarts
  <1>11. CASE AttachFails
    BY <1>2, <1>11 DEF AttachFails
  <1>12. CASE RefreshFails
    BY <1>3, <1>12 DEF RefreshFails, AfterFailure
  <1>13. CASE UNCHANGED vars
    BY <1>1, <1>13 DEF vars
  <1> QED BY <1>4, <1>5, <1>6, <1>7, <1>8, <1>9, <1>10, <1>11, <1>12, <1>13,
             AttachTenantKeeps, AttachedKeeps, RefreshTenantKeeps, RefreshedKeeps, PragmaDoneKeeps
          DEF Next

LEMMA CatalogHolds == Spec => [](ConnectionInv /\ CatalogInv)
PROOF
  <1>1. Init => ConnectionInv
    BY DEF Init, ConnectionInv, SecretsInv, StatementInv
  <1> QED BY <1>1, ConnectionStep, CatalogInit, CatalogStep, PTL DEF Spec

\* Secrets, databases, and what is under way are what they should be.
THEOREM TypeCorrect == Spec => []TypeOK
PROOF
  <1>1. ConnectionInv /\ CatalogInv => TypeOK
    <2> SUFFICES ASSUME ConnectionInv, CatalogInv PROVE TypeOK
      OBVIOUS
    <2>1. DOMAIN secrets \subseteq SecretName /\ \A n \in DOMAIN secrets : DOMAIN secrets[n].config = Field
      BY SecretConfiguration DEF ConnectionInv, SecretsInv, Configuration
    <2>2. Connected => Conn.secret \in SecretName \cup {Absent}
      BY <2>1, ConnectedMade DEF Usable
    <2>3. DOMAIN dbs \subseteq Database /\ \A d \in DOMAIN dbs : dbs[d].schemas # <<>>
      BY DEF CatalogInv, DatabaseOK
    <2>4. attach # Absent => attach.db \in Database \ DOMAIN dbs
      BY DEF CatalogInv, AttachOK
    <2>5. pragma # Absent => pragma.todo \subseteq DOMAIN dbs
      BY DEF CatalogInv, PragmaOK
    <2> QED BY <2>1, <2>2, <2>3, <2>4, <2>5 DEF TypeOK
  <1> QED BY <1>1, CatalogHolds, PTL

\* No answer of Loki, at an ATTACH or a refresh, makes a table that cannot be created.
THEOREM ColumnsAreWellFormed == Spec => []ColumnsWellFormed
PROOF
  <1>1. CatalogInv => ColumnsWellFormed
    <2> SUFFICES ASSUME CatalogInv, NEW d \in DOMAIN dbs, NEW i \in DOMAIN dbs[d].schemas
                 PROVE  LET labels == dbs[d].schemas[i].labels
                        IN /\ Distinct(LogsColumns(labels)) /\ Distinct(SeriesColumns(labels))
                           /\ Range(labels) \cap Invalid = {}
      BY DEF ColumnsWellFormed
    <2>1. WellFormed(dbs[d].schemas[i].labels)
      BY DEF CatalogInv, DatabaseOK, SchemasOK, SchemaOK
    <2> QED BY <2>1, ColumnsDistinct
  <1> QED BY <1>1, CatalogHolds, PTL

\* A schema whose name no other one has without its case is found by that name.
LEMMA SchemaFound ==
    ASSUME NEW db, db.schemas \in Seq(SchemaRecord), NEW i \in DOMAIN db.schemas,
           \A j \in DOMAIN db.schemas :
               Lower(db.schemas[j].name) = Lower(db.schemas[i].name) => db.schemas[j] = db.schemas[i]
    PROVE  LookupSchema(db, db.schemas[i].name) = db.schemas[i]
PROOF
  <1> DEFINE schemas == db.schemas
             name == schemas[i].name
             found == {j \in 1 .. Len(schemas) : Lower(schemas[j].name) = Lower(name)}
  <1>1. DOMAIN schemas = 1 .. Len(schemas) /\ Len(schemas) \in Nat
    OBVIOUS
  <1>2. i \in found /\ found \in SUBSET (1 .. Len(schemas))
    BY <1>1
  <1>3. IsFiniteSet(found)
    <2> HIDE DEF found, schemas
    <2>1. IsFiniteSet(1 .. Len(schemas))
      BY <1>1, FS_Interval
    <2> QED BY <1>2, <2>1, FS_Subset
  <1>4. Min(found) \in found
    <2> HIDE DEF found, schemas
    <2>1. found \in SUBSET Int /\ found # {}
      BY <1>2
    <2> QED BY <1>3, <2>1, MaxMin
  <1>5. LookupSchema(db, name) = schemas[IF found # {} THEN Min(found) ELSE 0]
    BY DEF LookupSchema, SelectInSeq
  <1>6. schemas[Min(found)] = schemas[i]
    BY <1>1, <1>4
  <1> QED BY <1>2, <1>5, <1>6

\* A tenant's schema asks for that tenant, and shows that tenant's columns.
THEOREM TenantsAreIsolated == Spec => []TenantIsolation
PROOF
  <1>1. CatalogInv => TenantIsolation
    <2> SUFFICES ASSUME CatalogInv, NEW d \in DOMAIN dbs, NEW s \in Range(dbs[d].schemas), Given(s.tenant)
                 PROVE  /\ ~dbs[d].pinned => s.labels = Promoted(Answers[s.tenant][s.from])
                        /\ (\A x \in Range(dbs[d].schemas) : Lower(x.name) = Lower(s.name) => x = s) =>
                              LET request == ScanRequest(dbs[d], s.name)
                              IN /\ Reads(request.headers, "X-Scope-OrgID") = s.tenant
                                 /\ request.labels = s.labels
      BY DEF TenantIsolation
    <2>1. PICK i \in DOMAIN dbs[d].schemas : s = dbs[d].schemas[i]
      BY DEF Range
    <2>2. /\ dbs[d].schemas \in Seq(SchemaRecord) /\ ConnOK(dbs[d].conn)
          /\ SchemaOK(latest, dbs[d].conn, dbs[d].pinned, s)
      BY <2>1 DEF CatalogInv, DatabaseOK, SchemasOK
    <2>3. Reads(Headers(dbs[d].conn, s.tenant), "X-Scope-OrgID") = s.tenant
      BY <2>2, AskedIsKnown DEF SchemaOK
    <2>4. ~dbs[d].pinned => s.labels = Promoted(Answers[s.tenant][s.from])
      BY <2>2, <2>3 DEF SchemaOK, Asked
    <2>5. ASSUME \A x \in Range(dbs[d].schemas) : Lower(x.name) = Lower(s.name) => x = s
          PROVE  LookupSchema(dbs[d], s.name) = s
      <3>1. \A j \in DOMAIN dbs[d].schemas :
                Lower(dbs[d].schemas[j].name) = Lower(s.name) => dbs[d].schemas[j] = s
        BY <2>5 DEF Range
      <3> QED BY <2>1, <2>2, <3>1, SchemaFound
    <2>6. ASSUME LookupSchema(dbs[d], s.name) = s
          PROVE  LET request == ScanRequest(dbs[d], s.name)
                 IN /\ Reads(request.headers, "X-Scope-OrgID") = s.tenant
                    /\ request.labels = s.labels
      BY <2>3, <2>6 DEF ScanRequest
    <2> QED BY <2>4, <2>5, <2>6
  <1> QED BY <1>1, CatalogHolds, PTL

\* A PRAGMA that succeeds has passed over nothing it promised.
THEOREM PragmaRefreshes == Spec => []PragmaRefreshesAll
PROOF
  <1>1. CatalogInv => PragmaRefreshesAll
    <2> SUFFICES ASSUME CatalogInv, finished # Absent, NEW d \in finished.dbs,
                        NEW s \in Range(dbs[d].schemas)
                 PROVE  s.from >= finished.since[Asked(dbs[d].conn, s.tenant)]
      BY DEF PragmaRefreshesAll
    <2>1. FreshSince(finished.since, dbs[d].conn, dbs[d].schemas)
      BY DEF CatalogInv, FinishOK
    <2>2. PICK i \in DOMAIN dbs[d].schemas : s = dbs[d].schemas[i]
      BY DEF Range
    <2> QED BY <2>1, <2>2 DEF FreshSince
  <1> QED BY <1>1, CatalogHolds, PTL
=============================================================================
