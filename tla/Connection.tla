----------------------------- MODULE Connection -----------------------------
(***************************************************************************)
(* Where a statement's requests go and what they carry: `loki` secrets     *)
(* (src/loki/secret.cpp), the choice of one and its refinement by inline   *)
(* options (src/loki/connection.cpp), and the headers made of the result   *)
(* (src/loki/auth.cpp).                                                    *)
(*                                                                         *)
(* A configuration gives each field a value or Absent.  URLs, also the     *)
(* prefixes of a SCOPE, are sequences of parts; other values are strings,  *)
(* and headers a sequence of <<name, value>>.                              *)
(***************************************************************************)
EXTENDS Integers, Sequences, SequencesExt

CONSTANTS
    SecretName,     \* names of secrets
    DefaultName,    \* __default_loki
    Definition,     \* [SecretName -> what CREATE SECRET is given for it:
                    \* [type, provider, scope, options]]
    Environment,    \* the configuration in the LOKI_* variables
    FunctionCall,   \* [secret, options]: the connection arguments of a function call
    Absent          \* not given, not set, none

ASSUME NameAssumption == DefaultName \in SecretName /\ Absent \notin SecretName

Field == {"endpoint", "token", "username", "password", "tenant", "headers"}

Configuration(config) ==
    /\ DOMAIN config = Field
    /\ config.endpoint # Absent => config.endpoint \in Seq(STRING)
    /\ \A f \in {"token", "username", "password", "tenant"} :
          config[f] # Absent => config[f] \in STRING
    /\ config.headers # Absent => config.headers \in Seq(STRING \X STRING)

ASSUME ConfigurationAssumption ==
    /\ Configuration(Environment)
    /\ \A n \in SecretName : \A def \in Definition[n] :
          /\ Configuration(def.options)
          /\ IsFiniteSet(def.scope) /\ def.scope \subseteq Seq(STRING)
    /\ \A call \in FunctionCall : Configuration(call.options)

VARIABLES
    secrets,        \* the secrets that exist: name |-> [type, scope, config]
    statement       \* the last function call or ATTACH: what it named, what it got

-----------------------------------------------------------------------------
(* Secrets.                                                                *)

\* Each field of top that is given replaces the one of base.
Refine(base, top) == [f \in Field |-> IF top[f] # Absent THEN top[f] ELSE base[f]]

Nothing == [f \in Field |-> Absent]

\* The env provider seeds what the options refine.
Created(def) ==
    [type |-> def.type, scope |-> def.scope,
     config |-> Refine(IF def.provider = "env" THEN Environment ELSE Nothing, def.options)]

CreateSecret(name, def) ==
    /\ secrets' = [n \in DOMAIN secrets \cup {name} |->
                      IF n = name THEN Created(def) ELSE secrets[n]]
    /\ statement' = Absent

DropSecret(name) ==
    /\ name \in DOMAIN secrets
    /\ secrets' = [n \in DOMAIN secrets \ {name} |-> secrets[n]]
    /\ statement' = Absent

\* How well a secret fits a path: the longest prefix of its scope; -1 for none.
MatchScore(secret, path) ==
    IF secret.scope = {} THEN 0
    ELSE Max({-1} \cup {Len(p) : p \in {q \in secret.scope : IsPrefix(q, path)}})

Fitting(path) ==
    {n \in DOMAIN secrets : secrets[n].type = "loki" /\ MatchScore(secrets[n], path) >= 0}

\* LookupSecret breaks ties in an order of its own.
LookupSecret(path) ==
    {n \in Fitting(path) :
        \A m \in Fitting(path) : MatchScore(secrets[m], path) <= MatchScore(secrets[n], path)}

\* Mutated form of LookupBestLokiSecret: the tie is left as it is.
LookupAnyLokiSecret(path) == IF LookupSecret(path) = {} THEN {Absent} ELSE LookupSecret(path)

\* The default secret wins a tie.
LookupBestLokiSecret(path) ==
    IF LookupSecret(path) = {} THEN {Absent}
    ELSE IF DefaultName \in LookupSecret(path) THEN {DefaultName} ELSE LookupSecret(path)

-----------------------------------------------------------------------------
(* A statement names a secret, or none, and an endpoint, or none, and has  *)
(* inline options: [secret, path, options].                                *)

\* Mutated form of LookupPath: scopes are compared with nothing.
LookupPathEmpty(target) == <<>>

LookupPath(target) == IF target.path = Absent THEN <<>> ELSE target.path

\* The secret the statement uses.
Source(target) ==
    IF target.secret # Absent THEN {target.secret} ELSE LookupBestLokiSecret(LookupPath(target))

\* Mutated form of Usable: a secret of any type is read as a loki secret.
UsableAnyType(name) == name \in DOMAIN secrets

\* RequireLokiSecret
Usable(name) == name \in DOMAIN secrets /\ secrets[name].type = "loki"

\* Mutated form of Resolved: an option that is empty counts as none.
ResolvedUnlessEmpty(target, name) ==
    Refine(IF name = Absent THEN Nothing ELSE secrets[name].config,
           [f \in Field |-> IF f \in {"token", "username", "password", "tenant"} /\ target.options[f] = ""
                              THEN Absent ELSE target.options[f]])

Resolved(target, name) ==
    Refine(IF name = Absent THEN Nothing ELSE secrets[name].config, target.options)

Given(value) == value \notin {Absent, ""}

Ink(url) == {i \in DOMAIN url : url[i] # "/"}
StripSlashes(url) == IF Ink(url) = {} THEN <<>> ELSE SubSeq(url, 1, Max(Ink(url)))

\* What comes out: a connection, or Absent for an error.
Connections(target) ==
    {IF (name # Absent /\ ~Usable(name)) \/ Resolved(target, name).endpoint \in {Absent, <<>>}
       THEN Absent
       ELSE [endpoint |-> StripSlashes(Resolved(target, name).endpoint),
             auth |-> Resolved(target, name), secret |-> name] : name \in Source(target)}

\* ResolveLokiConnection: endpoint := is the path secrets are looked up for.
ResolveLokiConnection(call) ==
    [secret |-> call.secret, path |-> call.options.endpoint, options |-> call.options]

CallFunction(call) ==
    /\ \E c \in Connections(ResolveLokiConnection(call)) :
          statement' = [target |-> ResolveLokiConnection(call), conn |-> c]
    /\ UNCHANGED secrets

-----------------------------------------------------------------------------
(* The headers of a request, in the order they are added.                  *)

Authorization(auth) ==
    IF Given(auth.token) THEN << <<"Authorization", <<"Bearer", auth.token>> >> >>
    ELSE IF Given(auth.username) \/ Given(auth.password)
      THEN << <<"Authorization", <<"Basic", auth.username, auth.password>> >> >>
    ELSE <<>>

Scoped(auth) == IF Given(auth.tenant) THEN << <<"X-Scope-OrgID", auth.tenant>> >> ELSE <<>>

Extra(auth) == IF auth.headers = Absent THEN <<>> ELSE auth.headers

\* Mutated form of BuildAuthHeaders: the extra headers come first.
BuildAuthHeadersExtraFirst(auth) == Extra(auth) \o Authorization(auth) \o Scoped(auth)

BuildAuthHeaders(auth) == Authorization(auth) \o Scoped(auth) \o Extra(auth)

\* A server takes the first of several headers of one name.
Reads(headers, name) ==
    LET named == {i \in DOMAIN headers : headers[i][1] = name}
    IN IF named = {} THEN Absent ELSE headers[Min(named)][2]

-----------------------------------------------------------------------------
(* Properties of the last statement that got a connection.                 *)

Connected == statement # Absent /\ statement.conn # Absent

Target == statement.target
Conn == statement.conn

\* No scope ends in two slashes.  Trailing slashes are cut off an endpoint after its
\* secret is chosen, so such a scope fits an endpoint of more slashes than are left.
OneTrailingSlash ==
    \A n \in SecretName : \A def \in Definition[n] : \A p \in def.scope :
        Len(p) > 1 => ~(p[Len(p)] = "/" /\ p[Len(p) - 1] = "/")

\* A secret nobody named goes only where its SCOPE allows: the URL of the requests
\* lies in it, unless the scope ends in several slashes.  No other secret fits the
\* endpoint better, and the default secret wins a tie (connection.cpp:85-90, README "Scoping").
SecretFits ==
    Connected /\ Target.secret = Absent /\ Conn.secret # Absent =>
        LET used == secrets[Conn.secret]
            url == Conn.endpoint \o <<"/", "loki">>
            score(n) == MatchScore(secrets[n], IF Target.path = Absent THEN <<>> ELSE Target.path)
        IN /\ (used.scope = {} \/ \E p \in used.scope : IsPrefix(p, url))
           /\ \A n \in DOMAIN secrets : secrets[n].type = "loki" =>
                  \/ score(n) < score(Conn.secret)
                  \/ (score(n) = score(Conn.secret) /\ (n = DefaultName => Conn.secret = n))

\* A statement that names a secret uses that secret's credentials or fails; it never
\* goes out unauthenticated because the secret is missing or of another type.
NamedSecretUsed ==
    Connected /\ Target.secret # Absent =>
        /\ Conn.secret = Target.secret
        /\ secrets[Conn.secret].type = "loki"
        /\ LET config == secrets[Conn.secret].config
           IN Given(config.token) /\ Target.options.token = Absent =>
                  Reads(BuildAuthHeaders(Conn.auth), "Authorization") = <<"Bearer", config.token>>

\* What the secret that is used says of a field, and what the statement asks for: the
\* option if it is given, also an empty one, else what the secret says.
Stored(field) == IF Conn.secret = Absent THEN Absent ELSE secrets[Conn.secret].config[field]
Wanted(field) ==
    IF Target.options[field] # Absent THEN Target.options[field] ELSE Stored(field)

Credentials == {f \in {"token", "username", "password"} : Given(Wanted(f))}

\* Options given inline decide their fields whatever the secret says (README.md:59-61).
\* A token or a tenant is what a server reads; so are a username and a password where
\* no token is left, each from the secret if it is not given.  An option that is empty
\* clears what the secret says, so that at most an extra header stands in for it, and
\* inline headers replace the secret's.
InlineOptionsReachWire ==
    Connected =>
        LET headers == BuildAuthHeaders(Conn.auth)
            inline == Target.options
            extra == IF Wanted("headers") = Absent THEN <<>> ELSE Wanted("headers")
            own == (IF Credentials = {} THEN 0 ELSE 1) + (IF Given(Wanted("tenant")) THEN 1 ELSE 0)
        IN /\ inline.endpoint # Absent => Conn.endpoint = StripSlashes(inline.endpoint)
           /\ Given(inline.token) => Reads(headers, "Authorization") = <<"Bearer", inline.token>>
           /\ (Given(inline.username) \/ Given(inline.password)) /\ ~Given(Wanted("token")) =>
                 Reads(headers, "Authorization") = <<"Basic", Wanted("username"), Wanted("password")>>
           /\ Given(inline.tenant) => Reads(headers, "X-Scope-OrgID") = inline.tenant
           /\ Credentials = {} => Reads(headers, "Authorization") = Reads(extra, "Authorization")
           /\ ~Given(Wanted("tenant")) => Reads(headers, "X-Scope-OrgID") = Reads(extra, "X-Scope-OrgID")
           /\ inline.headers # Absent =>
                 /\ Len(headers) = own + Len(inline.headers)
                 /\ \A i \in DOMAIN inline.headers : headers[own + i] = inline.headers[i]

\* Basic credentials given inline, and no token with them, are sent: "inline auth
\* overrides ... take precedence over the secret" (README.md:59-61, connection.cpp:185).
InlineBasicAuthWins ==
    Connected /\ (Given(Target.options.username) \/ Given(Target.options.password))
              /\ ~Given(Target.options.token) =>
        Reads(BuildAuthHeaders(Conn.auth), "Authorization")
            = <<"Basic", Wanted("username"), Wanted("password")>>
=============================================================================
