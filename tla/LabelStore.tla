----------------------------- MODULE LabelStore -----------------------------
(***************************************************************************)
(* What the label cache of an attached Loki database promises, without its *)
(* clock, locks, generations and HTTP requests: a refresh replaces the     *)
(* columns of all tenants in one step, by label sets Loki has served since *)
(* the last refresh, and a transaction sees one state of them throughout.  *)
(* LabelCatalog implements this specification.                             *)
(***************************************************************************)
EXTENDS Integers, Sequences

CONSTANTS
    Conn,           \* connections
    NTenants,       \* tenants are 1 .. NTenants
    LabelSet,       \* the label-name lists a tenant may have
    NoGen           \* no transaction is open

Tenant == 1 .. NTenants

VARIABLES
    history,        \* [Tenant -> label sets Loki has served], oldest first
    confirmed,      \* which of them each tenant's columns stand for
    published,      \* [Tenant -> columns]
    pins            \* [Conn -> columns its transaction sees]

vars == <<history, confirmed, published, pins>>

ChangeLabels(t) ==
    /\ \E l \in LabelSet : history' = [history EXCEPT ![t] = Append(@, l)]
    /\ UNCHANGED <<confirmed, published, pins>>

\* Tenants may be asked at different times, but the columns change together.
Refresh ==
    /\ \A t \in Tenant : confirmed'[t] \in confirmed[t] .. Len(history[t])
    /\ confirmed' = [t \in Tenant |-> confirmed'[t]]
    /\ published' = [t \in Tenant |-> history[t][confirmed'[t]]]
    /\ UNCHANGED <<history, pins>>

Start(c) ==
    /\ pins[c] = NoGen
    /\ pins' = [pins EXCEPT ![c] = published]
    /\ UNCHANGED <<history, confirmed, published>>

End(c) ==
    /\ pins' = [pins EXCEPT ![c] = NoGen]
    /\ UNCHANGED <<history, confirmed, published>>

Init ==
    /\ history \in [Tenant -> {<<l>> : l \in LabelSet}]
    /\ confirmed = [t \in Tenant |-> 1]
    /\ published = [t \in Tenant |-> history[t][1]]
    /\ pins = [c \in Conn |-> NoGen]

Next ==
    \/ \E t \in Tenant : ChangeLabels(t)
    \/ Refresh
    \/ \E c \in Conn : Start(c) \/ End(c)

Spec == Init /\ [][Next]_vars
=============================================================================
