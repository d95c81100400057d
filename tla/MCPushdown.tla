----------------------------- MODULE MCPushdown -----------------------------
(* Instances of Pushdown: instants 0 .. 5 with the default window [2, 4),  *)
(* one promoted label, lines over a letter and a character that is special *)
(* in a regular expression.                                                *)
EXTENDS Pushdown

Labels == {"", "1", "01", "b"}

\* A value may be a quote.
MCSpelling == [v \in Labels |-> IF v = "b" THEN <<Quote>> ELSE <<v>>]

\* selector := as tests and documents have it: with and without a pipeline, bare,
\* unclosed, empty, in blanks, with a brace in a string and with a stray prefix.
Stream == <<"{", "job=", Quote, "api", Quote, "}">>
Stage == <<"|=", Blank, Quote, "x", Blank, "y", Quote>>
Selectors ==
    {<<>>, <<"{", Blank, "}">>, SubSeq(Stream, 2, 5), SubSeq(Stream, 1, 5), <<"sum">> \o Stream,
     <<Blank>> \o Stream \o <<Blank>> \o Stage,
     <<"{", "path=", Quote, "}", Quote, "}">> \o Stage}

MCCall ==
    [selector : {<<>>, Stream}, start : {None, 1, 3, 5}, end : {None, 1, 3, 5}]
        \cup [selector : Selectors, start : {None}, end : {None}]

PlainCalls == [selector : {<<>>, Stream}, start : {None}, end : {None}]

\* A brace in a string of the pipeline: a line filter or a line_format template.
PipelineCalls ==
    [selector : {Stream \o <<"|=", Blank, Quote, "}", Quote>>}, start : {None}, end : {None}]

MCToken ==
    {OpeningBrace, ClosingBrace, Separator, Blank, Quote, EscapedQuote}
        \cup {"label", "text", "EQ", "NEQ", "RE", "CONTAINS", "NOT_CONTAINS", "MATCH", "NOT_MATCH"}
        \cup {"job=", "api", "path=", "sum", "|=", "x", "y"} \cup Labels

MCChar == {"x", "."}
MCNumber == [v \in Labels |-> IF v \in {"1", "01"} THEN 1 ELSE 0]

MCLine == {<<"x">>, <<".">>, <<"x", ".">>, <<"x", "x">>}

\* Entries differ in time, or in label and line.
MCEntry ==
    [ts : 0 .. 5, label : {"1"}, line : {<<"x">>}]
        \cup [ts : {3}, label : (Labels \ {""}) \cup {Missing}, line : MCLine]

MCOps == {"=", "!=", "<", "<=", ">", ">="}

Times ==
    [kind : {"timestamp"}, op : MCOps, ns : {0, 2, 4, MaxNs, MaxNs + 1}, unit : {1}]

\* The column cast to a type of a coarser resolution.
CoarseTimes == [kind : {"timestamp"}, op : MCOps, ns : {2, 4}, unit : {2}]

LabelOps == [kind : {"label"}, op : {"=", "!="}, value : Labels \ {""}, cast : {FALSE}]
NotEmpty == [kind : {"label"}, op : {"!="}, value : {""}, cast : {FALSE}]

\* A number compared with the label makes DuckDB cast the label.
CastOps == [kind : {"label"}, op : {"!=", "<"}, value : {"01"}, cast : {TRUE}]

Lists == [kind : {"in"}, values : {<<v, w>> : v \in Labels, w \in Labels \ {""}}]

\* Comparisons with the empty value.
Empties ==
    [kind : {"label"}, op : {"="}, value : {""}, cast : {FALSE}]
        \cup [kind : {"in"}, values : {<<v, "">> : v \in Labels}]

Texts ==
    [kind : {"line"}, fn : {"contains", "prefix", "suffix", "regexp_matches", "~~", "!~~"},
     pattern : {<<".">>}, negated : BOOLEAN]
        \cup [kind : {"line"}, fn : {"~~", "!~~"}, pattern : {<<>>, <<"x", "_">>}, negated : BOOLEAN]

Others == [kind : {"other"}, longer : {1}]

AnyPredicates ==
    Times \cup CoarseTimes \cup LabelOps \cup NotEmpty \cup CastOps \cup Lists \cup Empties
        \cup Texts \cup Others

\* Those that PushdownProofs is about.
SafePredicates == {p \in AnyPredicates : Safe(p)}

TimePredicates == Times \cup CoarseTimes
LabelPredicates == LabelOps \cup Lists \cup Empties
=============================================================================
