------------------------------ MODULE MCAttach ------------------------------
(* Instances of Attach: two hosts, the default secret and another, which   *)
(* may be scoped, from the environment, or of another type, and one or two *)
(* tenants, whose labels clash with each other and with the fixed columns. *)
EXTENDS Attach, TLC

Interchangeable == Permutations(Database)

A == <<"http://", "a">>
B == <<"http://", "b">>
Slash == <<"/">>

OrgHeader == << <<"X-Scope-OrgID", "t2">> >>

MCEnvironment ==
    [Nothing EXCEPT !.endpoint = B, !.username = "env", !.password = "p", !.tenant = "t2"]

\* CREATE SECRET: unscoped, scoped to a host, from the environment, of another type.
Unscoped ==
    [type |-> "loki", provider |-> "config", scope |-> {},
     options |-> [Nothing EXCEPT !.endpoint = A \o Slash, !.token = "k1", !.tenant = "t1"]]
OfHost ==
    [type |-> "loki", provider |-> "config", scope |-> {A \o Slash},
     options |-> [Nothing EXCEPT !.token = "k2", !.headers = OrgHeader]]
FromEnv ==
    [type |-> "loki", provider |-> "env", scope |-> {},
     options |-> [Nothing EXCEPT !.tenant = "t1"]]
Http == [type |-> "http", provider |-> "config", scope |-> {}, options |-> Nothing]

CONSTANTS default, another

MCDefinition ==
    [name \in {default, another} |->
        IF name = default THEN {Unscoped} ELSE {FromEnv, OfHost, Http}]

Options(endpoint) == [Nothing EXCEPT !.endpoint = endpoint]

MCFunctionCall ==
    [secret : {Absent, another},
     options : {Nothing, Options(A \o Slash), Options(B \o Slash),
                [Options(B) EXCEPT !.token = "", !.username = "u", !.password = "p"],
                [Options(A) EXCEPT !.token = "k3", !.tenant = "t2", !.headers = <<>>],
                [Options(B) EXCEPT !.username = "u"],
                [Options(A) EXCEPT !.token = "", !.tenant = ""],
                [Nothing EXCEPT !.tenant = "t2", !.headers = << <<"X-Scope-OrgID", "x">> >>]}]

Bare ==
    [secret |-> Absent, url |-> Absent, named |-> Absent, options |-> Nothing,
     labels |-> Absent, ttl |-> 0, cap |-> Absent, tenants |-> <<>>]

MCAttachCall ==
    {[Bare EXCEPT !.named = another],
     [Bare EXCEPT !.url = A \o Slash, !.tenants = <<"t1", "t2">>],
     [Bare EXCEPT !.url = B, !.secret = "", !.options.headers = OrgHeader, !.ttl = 1],
     [Bare EXCEPT !.url = B, !.options.endpoint = A, !.labels = <<"job">>, !.tenants = <<"t1", "T1">>],
     [Bare EXCEPT !.url = A, !.labels = <<"job", "Job">>],
     [Bare EXCEPT !.url = A, !.labels = <<"job", "Line">>],
     [Bare EXCEPT !.url = A, !.labels = <<"job">>, !.ttl = 1],
     [Bare EXCEPT !.url = A, !.cap = 0, !.options.password = "p"]}

MCOrg == {"t1", "t2", "T1", Absent}

MCAnswers ==
    [org \in MCOrg |-> IF org = "t1" THEN << <<"job", "Line", "JOB">>, <<"b-d", "job">> >>
                      ELSE IF org \in {"T1", Absent} THEN << <<"job">> >>
                      ELSE << <<"level">>, <<"level", "timestamp", "job", "Job">> >>]

MCLower(name) ==
    CASE name = "JOB" -> "job" [] name = "Job" -> "job" [] name = "Line" -> "line"
      [] name = "T1" -> "t1" [] OTHER -> name

\* The hypothesis of SecretsStayInScope.
ASSUME ScopesAreTrimmed == OneTrailingSlash
=============================================================================
