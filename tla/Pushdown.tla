------------------------------ MODULE Pushdown ------------------------------
(***************************************************************************)
(* How loki() splits a WHERE clause between Loki and DuckDB                *)
(* (src/loki/loki_scan.cpp, LokiPushdownComplexFilter and                  *)
(* LokiScanInitGlobal).  The AND-ed predicates are walked one at a time;   *)
(* each is translated into label matchers, line filters or bounds of the   *)
(* time window, and is either erased from the plan or left for DuckDB to   *)
(* apply to the rows that come back.                                       *)
(*                                                                         *)
(* A predicate is one of                                                   *)
(*   [kind |-> "timestamp", op, ns, unit]   timestamp, cast to a type whose *)
(*                                 resolution is unit, compared with ns    *)
(*   [kind |-> "label", op, value, cast]    a promoted label, possibly cast *)
(*                                 to a number, compared with a constant   *)
(*   [kind |-> "in", values]       the label IN a list of constants        *)
(*   [kind |-> "line", fn, pattern, negated]  a text function of the line  *)
(*   [kind |-> "other", longer]    any predicate the translator does not   *)
(*                                 know: length(line) > longer             *)
(***************************************************************************)
EXTENDS Integers, Sequences, LogQL

CONSTANTS
    Entry,          \* the log entries of the streams the base selector matches
    Missing,        \* the label column's value where a stream lacks the label: NULL
    Number,         \* what a label value, cast to a number, is
    Token,          \* the tokens that texts of LogQL are made of
    Spelling,       \* the characters of a label value, as a text of LogQL
    Char,           \* the characters lines are made of
    Predicate,      \* predicates a WHERE clause may have
    MaxPredicates,  \* bound on the conjuncts of one WHERE clause
    MinNs, MaxNs,   \* int64_t's limits: the sentinels for "no bound pushed"
    DefaultStart, DefaultEnd,   \* the last hour
    Call            \* arguments a call may have: selector, start and end

ASSUME PushdownAssumption ==
    /\ MinNs \in Int /\ MaxNs \in Int
    /\ {DefaultStart, DefaultEnd} \subseteq MinNs .. MaxNs
    /\ MaxPredicates \in Nat

None == MinNs - 1       \* start := or end := is not given

\* Loki has timestamps of int64_t nanoseconds, and no label with an empty value.
ASSUME EntryAssumption == \A e \in Entry : e.ts \in MinNs .. MaxNs /\ e.label # ""

\* Selectors and label values are texts; Token has the tokens loki() adds to them.
ASSUME TextAssumption ==
    /\ {OpeningBrace, ClosingBrace, Separator, Blank, Quote, EscapedQuote} \subseteq Token
    /\ {"label", "EQ", "NEQ", "RE"} \subseteq Token
    /\ {"text", "CONTAINS", "NOT_CONTAINS", "MATCH", "NOT_MATCH"} \subseteq Token
    /\ \A c \in Call : c.selector \in Seq(Token)
    /\ \A v \in DOMAIN Spelling : Spelling[v] \in Seq(Token)
    /\ \A p \in Predicate :
          /\ p.kind = "label" => p.value \in DOMAIN Spelling
          /\ p.kind = "in" => p.values \in Seq(DOMAIN Spelling)

ASSUME CallAssumption == \A c \in Call : {c.start, c.end} \subseteq MinNs - 1 .. MaxNs

VARIABLES
    call,               \* the arguments of the call; selector is a text, <<>> for none
    where,              \* the conjuncts DuckDB hands over
    filters,            \* those not walked yet
    residuals,          \* those left for DuckDB
    matchers,           \* pushed_matchers
    lineFilters,        \* pushed_line_filters
    pushedStart, pushedEnd,
    query,              \* the LogQL text of the requests
    window,             \* [start, end) of the requests
    phase               \* "bind", "pushdown", "scanning" or "refused"

request == <<query, window>>
pushed == <<filters, residuals, matchers, lineFilters, pushedStart, pushedEnd>>
vars == <<call, where, pushed, request, phase>>

Larger(x, y) == IF x > y THEN x ELSE y
Smaller(x, y) == IF x < y THEN x ELSE y

-----------------------------------------------------------------------------
(* What DuckDB means by a predicate.                                       *)

Literal(pattern) == [i \in 1 .. Len(pattern) |-> {pattern[i]}]
Wild(pattern, c) == [i \in 1 .. Len(pattern) |-> IF pattern[i] = c THEN Char ELSE {pattern[i]}]

\* The line has a part that fits body, a sequence of sets of characters; first
\* and last anchor it at the line's ends.
Occurs(body, line, first, last) ==
    \E i \in 0 .. Len(line) - Len(body) :
        /\ \A k \in 1 .. Len(body) : line[i + k] \in body[k]
        /\ first => i = 0
        /\ last => i + Len(body) = Len(line)

\* A LIKE pattern is given without the % at its two ends.
Fits(fn, pattern, line) ==
    \/ fn = "contains" /\ Occurs(Literal(pattern), line, FALSE, FALSE)
    \/ fn = "prefix" /\ Occurs(Literal(pattern), line, TRUE, FALSE)
    \/ fn = "suffix" /\ Occurs(Literal(pattern), line, FALSE, TRUE)
    \/ fn = "regexp_matches" /\ Occurs(Wild(pattern, "."), line, FALSE, FALSE)
    \/ fn = "~~" /\ Occurs(Wild(pattern, "_"), line, FALSE, FALSE)
    \/ fn = "!~~" /\ ~Occurs(Wild(pattern, "_"), line, FALSE, FALSE)

Compares(x, op, y) ==
    \/ op = "=" /\ x = y
    \/ op = "!=" /\ x # y
    \/ op = "<" /\ x < y
    \/ op = "<=" /\ x <= y
    \/ op = ">" /\ x > y
    \/ op = ">=" /\ x >= y

\* The predicate is TRUE, not NULL, of the entry.
Holds(p, e) ==
    \/ p.kind = "timestamp" /\ Compares(e.ts - (e.ts % p.unit), p.op, p.ns)
    \/ /\ p.kind = "label"
       /\ e.label # Missing
       /\ IF p.cast THEN Compares(Number[e.label], p.op, Number[p.value])
                    ELSE Compares(e.label, p.op, p.value)
    \/ p.kind = "in" /\ \E i \in DOMAIN p.values : e.label = p.values[i]
    \/ p.kind = "line" /\ Fits(p.fn, p.pattern, e.line) # p.negated
    \/ p.kind = "other" /\ Len(e.line) > p.longer

-----------------------------------------------------------------------------
(* What Loki means by a request.  A stream without the label is matched as *)
(* one whose label is empty.                                               *)

Text(label) == IF label = Missing THEN "" ELSE label

Matches(m, label) ==
    IF m.op = "NEQ" THEN Text(label) \notin m.values ELSE Text(label) \in m.values

Passes(f, line) ==
    Occurs(f.body, line, f.first, f.last) # (f.op \in {"NOT_CONTAINS", "NOT_MATCH"})

Filtered(e) ==
    /\ \A m \in matchers : Matches(m, e.label)
    /\ \A f \in lineFilters : Passes(f, e.line)

\* Loki refuses a selector all of whose matchers accept the empty value.
Accepted ==
    Inner(Trim(call.selector)) # <<>> \/ \E m \in matchers : ~Matches(m, Missing)

Returned(e) ==
    /\ window.start <= e.ts /\ e.ts < window.end
    /\ Filtered(e)
    /\ \A p \in residuals : Holds(p, e)

-----------------------------------------------------------------------------
(* The bind, and the walk.                                                 *)

Init ==
    /\ call \in Call
    /\ where \in {{}} \cup
           {{ps[i] : i \in 1 .. MaxPredicates} : ps \in [1 .. MaxPredicates -> Predicate]}
    /\ filters = where
    /\ residuals = {} /\ matchers = {} /\ lineFilters = {}
    /\ pushedStart = MinNs /\ pushedEnd = MaxNs
    /\ query = <<>>
    /\ window = [start |-> DefaultStart, end |-> DefaultEnd]
    /\ phase = "bind"

\* A selector with text before its brace is refused: it would be dropped.
LokiBind ==
    /\ phase = "bind"
    /\ phase' = IF SelectorPrefixBeforeBrace(call.selector) = <<>> THEN "pushdown" ELSE "refused"
    /\ UNCHANGED <<call, where, pushed, request>>

Walk(p) ==
    /\ phase = "pushdown"
    /\ filters' = filters \ {p}
    /\ UNCHANGED <<call, where, request, phase>>

\* ResolveColumnName sees through every cast of the column.
OnColumn(p, name) == p.kind = name

Keep(p) == residuals' = residuals \cup {p}

\* Mutated form of EndBound: an inclusive bound taken for an exclusive one.
EndBoundExclusive(p) == IF p.op \in {"<", "<=", "="} /\ p.ns < MaxNs THEN p.ns ELSE MaxNs

\* Mutated form of StartBound: ns + 1 for a strict bound, whatever ns is.
StartBoundTight(p) ==
    IF p.op = ">" THEN p.ns + 1
    ELSE IF p.op = ">=" \/ (p.op = "=" /\ p.ns < MaxNs) THEN p.ns ELSE MinNs

\* The bounds a timestamp comparison pushes; MinNs and MaxNs bound nothing.
StartBound(p) ==
    IF p.op \in {">", ">="} \/ (p.op = "=" /\ p.ns < MaxNs) THEN p.ns ELSE MinNs

EndBound(p) ==
    IF p.op \in {"<=", "="} /\ p.ns < MaxNs THEN p.ns + 1
    ELSE IF p.op = "<" THEN p.ns ELSE MaxNs

\* A constant that is not a TIMESTAMP_NS pushes nothing.
Representable(p) == p.ns \in MinNs .. MaxNs

TryTimestamp(p) ==
    /\ OnColumn(p, "timestamp")
    /\ Walk(p)
    /\ Keep(p)
    /\ IF Representable(p)
         THEN /\ pushedStart' = Larger(pushedStart, StartBound(p))
              /\ pushedEnd' = Smaller(pushedEnd, EndBound(p))
         ELSE UNCHANGED <<pushedStart, pushedEnd>>
    /\ UNCHANGED <<matchers, lineFilters>>

\* Mutated form of Erasable: != is erased too.
ErasableBoth(p) == p.op \in {"=", "!="}

Erasable(p) == p.op = "="

TryLabel(p) ==
    /\ OnColumn(p, "label")
    /\ Walk(p)
    /\ \/ /\ p.op = "="
          /\ matchers' = matchers \cup {[op |-> "EQ", values |-> {p.value}]}
       \/ /\ p.op = "!="
          /\ matchers' = matchers \cup {[op |-> "NEQ", values |-> {p.value}]}
       \/ /\ p.op \notin {"=", "!="}
          /\ UNCHANGED matchers
    /\ IF Erasable(p) THEN UNCHANGED residuals ELSE Keep(p)
    /\ UNCHANGED <<lineFilters, pushedStart, pushedEnd>>

\* The regex of an IN list.  Each value is escaped, so it matches itself alone; no
\* "|" is written while the regex is empty, so leading empty values vanish.
Alternatives(values) ==
    {values[i] : i \in {j \in DOMAIN values :
        (\A k \in 1 .. j : values[k] = "") => \A k \in DOMAIN values : values[k] = ""}}

TryInList(p) ==
    /\ p.kind = "in"
    /\ Walk(p)
    /\ matchers' = matchers \cup {[op |-> "RE", values |-> Alternatives(p.values)]}
    /\ UNCHANGED <<residuals, lineFilters, pushedStart, pushedEnd>>

\* TryLikeToSubstring
IsSubstring(pattern) == pattern # <<>> /\ \A i \in DOMAIN pattern : pattern[i] # "_"

NegateLineOp(op) ==
    [CONTAINS |-> "NOT_CONTAINS", NOT_CONTAINS |-> "CONTAINS",
     MATCH |-> "NOT_MATCH", NOT_MATCH |-> "MATCH"][op]

\* Mutated form of LineFilter: the negation of !~~ replaces that of an enclosing NOT.
LineFilterNegatedOnce(p) ==
    LET regex == p.fn \in {"regexp_matches", "prefix", "suffix"}
        op == IF regex THEN "MATCH" ELSE "CONTAINS"
    IN [op |-> IF p.negated \/ p.fn = "!~~" THEN NegateLineOp(op) ELSE op,
        first |-> p.fn = "prefix", last |-> p.fn = "suffix",
        body |-> IF p.fn = "regexp_matches" THEN Wild(p.pattern, ".") ELSE Literal(p.pattern)]

\* Mutated form of LineFilter: the prefix and suffix are not escaped.
LineFilterUnescaped(p) ==
    LET regex == p.fn \in {"regexp_matches", "prefix", "suffix"}
        op == IF regex THEN "MATCH" ELSE "CONTAINS"
    IN [op |-> IF p.negated # (p.fn = "!~~") THEN NegateLineOp(op) ELSE op,
        first |-> p.fn = "prefix", last |-> p.fn = "suffix",
        body |-> IF regex THEN Wild(p.pattern, ".") ELSE Literal(p.pattern)]

LineFilter(p) ==
    LET op == IF p.fn \in {"regexp_matches", "prefix", "suffix"} THEN "MATCH" ELSE "CONTAINS"
    IN [op |-> IF p.negated # (p.fn = "!~~") THEN NegateLineOp(op) ELSE op,
        first |-> p.fn = "prefix", last |-> p.fn = "suffix",
        body |-> IF p.fn = "regexp_matches" THEN Wild(p.pattern, ".") ELSE Literal(p.pattern)]

TryFunction(p) ==
    /\ OnColumn(p, "line")
    /\ Walk(p)
    /\ IF p.fn \in {"~~", "!~~"} /\ ~IsSubstring(p.pattern)
         THEN Keep(p) /\ UNCHANGED lineFilters
         ELSE /\ lineFilters' = lineFilters \cup {LineFilter(p)}
              /\ UNCHANGED residuals
    /\ UNCHANGED <<matchers, pushedStart, pushedEnd>>

KeepOther(p) ==
    /\ p.kind = "other"
    /\ Walk(p)
    /\ Keep(p)
    /\ UNCHANGED <<matchers, lineFilters, pushedStart, pushedEnd>>

\* Mutated form of Window: a pushed bound replaces an explicit one.
WindowReplaced ==
    [start |-> IF pushedStart # MinNs THEN pushedStart
               ELSE IF call.start # None THEN call.start ELSE DefaultStart,
     end |-> IF pushedEnd # MaxNs THEN pushedEnd
             ELSE IF call.end # None THEN call.end ELSE DefaultEnd]

\* Pushed bounds narrow an explicit window and replace the default one.
Window ==
    [start |-> IF call.start # None THEN Larger(call.start, pushedStart)
               ELSE IF pushedStart # MinNs THEN pushedStart ELSE DefaultStart,
     end |-> IF call.end # None THEN Smaller(call.end, pushedEnd)
             ELSE IF pushedEnd # MaxNs THEN pushedEnd ELSE DefaultEnd]

MatcherToString(m) ==
    <<"label", m.op>> \o Quoted(FlattenSeq(SetToSeq({Spelling[v] : v \in m.values})))

LineFilterToString(f) == <<f.op, Blank>> \o Quoted(<<"text">>)

\* The pushed matchers and line filters, each a text.
MatcherTexts == LET ms == SetToSeq(matchers) IN [i \in DOMAIN ms |-> MatcherToString(ms[i])]
FilterTexts == LET fs == SetToSeq(lineFilters) IN [i \in DOMAIN fs |-> LineFilterToString(fs[i])]

Query == BuildSelectorQuery(call.selector, MatcherTexts, FilterTexts)

\* Mutated form of StartsEmpty: the query is nothing but an empty selector.
StartsEmptyAlone(text) == text = <<OpeningBrace, ClosingBrace>>

StartsEmpty(text) == SubSeq(text, 1, 2) = <<OpeningBrace, ClosingBrace>>

\* Nothing to select by: the scan is refused before any request.
Refuse ==
    /\ phase = "pushdown" /\ filters = {}
    /\ StartsEmpty(Query)
    /\ phase' = "refused"
    /\ UNCHANGED <<call, where, pushed, request>>

InitGlobal ==
    /\ phase = "pushdown" /\ filters = {}
    /\ ~StartsEmpty(Query)
    /\ phase' = "scanning"
    /\ query' = Query
    /\ window' = Window
    /\ UNCHANGED <<call, where, pushed>>

Try(p) == TryTimestamp(p) \/ TryLabel(p) \/ TryInList(p) \/ TryFunction(p) \/ KeepOther(p)

Next == LokiBind \/ (\E p \in filters : Try(p)) \/ Refuse \/ InitGlobal

Spec == Init /\ [][Next]_vars

-----------------------------------------------------------------------------
(* The predicates of which Loki and DuckDB are of one mind.  The others,   *)
(* and what they do, are those of PushdownCast and PushdownOverclaims.     *)

\* A cast to a coarser type is undone only if truncation cannot cross the bound.
SafeTimestamp(p) ==
    /\ p.ns \in Int /\ p.unit \in Nat \ {0}
    /\ p.op \in {"=", "<="} => p.unit = 1
    /\ p.op = "<" => p.ns % p.unit = 0

\* An erased equality compares the label itself, with a value that is not empty.
SafeLabel(p) == p.op = "=" => ~p.cast /\ p.value # ""

\* A list has a value that is not empty, and empty ones at its beginning only.
SafeList(p) ==
    /\ p.values \in Seq(STRING)
    /\ \E i \in DOMAIN p.values : p.values[i] # ""
    /\ \A i \in DOMAIN p.values :
          /\ p.values[i] # Missing
          /\ p.values[i] = "" => \A k \in 1 .. i : p.values[k] = ""

\* A text function of the line may be any of those that TryFunction knows.
SafeLine(p) ==
    /\ p.fn \in {"contains", "prefix", "suffix", "regexp_matches", "~~", "!~~"}
    /\ p.pattern \in Seq(STRING)
    /\ p.negated \in BOOLEAN

Safe(p) ==
    \/ p.kind = "timestamp" /\ SafeTimestamp(p)
    \/ p.kind = "label" /\ SafeLabel(p)
    \/ p.kind = "in" /\ SafeList(p)
    \/ p.kind = "line" /\ SafeLine(p)
    \/ p.kind = "other"

AllSafe == \A p \in Predicate : Safe(p)

-----------------------------------------------------------------------------
(* Properties.                                                             *)

Ns == MinNs .. MaxNs

TypeOK ==
    /\ where \in SUBSET Predicate
    /\ filters \cup residuals \subseteq where
    /\ \A m \in matchers : m.op \in {"EQ", "NEQ", "RE"}
    /\ \A f \in lineFilters : f.op \in {"CONTAINS", "NOT_CONTAINS", "MATCH", "NOT_MATCH"}
    /\ pushedStart \in Ns /\ pushedEnd \in Ns
    /\ window \in [start : Ns, end : Ns]
    /\ query \in Seq(Token)
    /\ phase \in {"bind", "pushdown", "scanning", "refused"}

\* The time range of the query: an explicit bound always counts; the last hour
\* counts on a side that neither an argument nor WHERE bounds.  A cut at int64_t's
\* last instant (the year 2262) is indistinguishable from none.
InstantsOf(ops) == {p \in where : p.kind = "timestamp" /\ p.op \in ops /\ p.ns \in Ns}

BoundedBelow == \E p \in InstantsOf({">", ">=", "="}) :
    p.ns > MinNs /\ (p.op = "=" => p.ns < MaxNs)

BoundedAbove == \E p \in InstantsOf({"<", "<=", "="}) :
    IF p.op = "<" THEN p.ns < MaxNs ELSE p.ns + 1 < MaxNs

InRange(e) ==
    /\ call.start # None => e.ts >= call.start
    /\ call.end # None => e.ts < call.end
    /\ call.start = None /\ ~BoundedBelow => e.ts >= DefaultStart
    /\ call.end = None /\ ~BoundedAbove => e.ts < DefaultEnd

Asked(e) == InRange(e) /\ \A p \in where : Holds(p, e)

\* No entry the query asks for is lost: what Loki is asked for contains it, and no
\* residual drops it, whichever predicates are pushed, erased, negated or folded
\* into the window together.
NoLostRows ==
    phase = "scanning" /\ Accepted => \A e \in Entry : Asked(e) => Returned(e)

\* No entry that fails a predicate or an explicit bound comes back: a predicate is
\* erased only if the request enforces it.
NoExtraRows ==
    phase = "scanning" /\ Accepted => \A e \in Entry : Returned(e) => Asked(e)

\* "Never claim a filter you cannot fully honor": an erased predicate holds of
\* every entry that passes the matchers and line filters pushed so far.
NeverOverclaims ==
    \A p \in where \ (filters \cup residuals) :
        \A e \in Entry : Filtered(e) => Holds(p, e)

\* What the user wrote between the braces and after them reaches Loki as written
\* ("which we preserve as-is", logql.cpp:167); what is pushed only comes after it,
\* inside the braces the matchers, at the end the line filters.
KeepsSelector ==
    phase = "scanning" /\ WellFormed(call.selector) =>
        LET added == MatcherTexts
            written == Trim(call.selector)
        IN /\ WellFormed(query)
           /\ MatchersOf(query) = Ink(Listed(MatchersOf(written), added))
           /\ PipelineOf(query) =
                  PipelineOf(written) \o Ink(Piped(FilterTexts))

\* "Require a base selector or at least one pushed label matcher" (loki_scan.cpp:493):
\* a scan that has neither is refused, whatever its pipeline and line filters are, and
\* one that has either is not.
SelectorRequired ==
    LET selective == Inner(Trim(call.selector)) # <<>> \/ matchers # {}
    IN /\ phase = "scanning" => selective
       /\ phase = "refused" /\ SelectorPrefixBeforeBrace(call.selector) = <<>> => ~selective

\* A scan whose WHERE and selector give Loki nothing it accepts is refused here,
\* with an error that says what to add, and never sent (DESIGN.md:311-313).  The code
\* sends a lone exclusion; AcceptedIfNothingExcluded says when this holds.
SentOnlyIfAccepted == phase = "scanning" => Accepted
=============================================================================
