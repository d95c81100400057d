-------------------------------- MODULE LogQL --------------------------------
(***************************************************************************)
(* How loki() puts its query together (src/loki/logql.cpp): the stream     *)
(* selector the user wrote is taken apart at its braces, the pushed label  *)
(* matchers are added between them and the pushed line filters at the end. *)
(*                                                                         *)
(* A text is a sequence of tokens.  Blank, Quote, "{", "}" and "," are the *)
(* characters they look like; any other token stands for a run of          *)
(* characters that is none of these.                                       *)
(***************************************************************************)
EXTENDS Integers, Sequences, SequencesExt, Subsequences

Blank == " "
Quote == "\""
OpeningBrace == "{"
ClosingBrace == "}"
Separator == ","
EscapedQuote == "\\\""
Comma == <<Separator, Blank>>

Trim(text) ==
    LET ink == {i \in DOMAIN text : text[i] # Blank}
    IN IF ink = {} THEN <<>> ELSE SubSeq(text, Min(ink), Max(ink))

\* Mutated form of EscapeLogQLString: quotes are written as they are.
EscapeNothing(value) == value

EscapeLogQLString(value) ==
    [i \in DOMAIN value |-> IF value[i] = Quote THEN EscapedQuote ELSE value[i]]

Quoted(value) == <<Quote>> \o EscapeLogQLString(value) \o <<Quote>>

-----------------------------------------------------------------------------
(* The selector, trimmed, falls into what is before its first brace, what  *)
(* is between that and its last closing brace, and the rest.  Without a    *)
(* brace, or without a closing one, there is no rest.                      *)

Open(text) == SelectInSeq(text, LAMBDA t : t = OpeningBrace)
Close(text) == SelectLastInSeq(text, LAMBDA t : t = ClosingBrace)

\* Mutated form of InnerEnd: the first closing brace, also one inside a string.
InnerEndFirst(text) ==
    IF Open(text) # 0 /\ Close(text) > Open(text)
      THEN SelectInSeq(text, LAMBDA t : t = ClosingBrace) ELSE Len(text) + 1

InnerEnd(text) ==
    IF Open(text) # 0 /\ Close(text) > Open(text) THEN Close(text) ELSE Len(text) + 1

SelectorPrefixBeforeBrace(selector) ==
    Trim(SubSeq(Trim(selector), 1, Open(Trim(selector)) - 1))

Inner(text) == Trim(SubSeq(text, Open(text) + 1, InnerEnd(text) - 1))
Rest(text) == Trim(SubSeq(text, InnerEnd(text) + 1, Len(text)))

\* The matchers, those of the selector first, separated by commas.
Listed(inner, matchers) ==
    LET all == (IF inner = <<>> THEN <<>> ELSE <<inner>>) \o matchers
    IN FlattenSeq([i \in DOMAIN all |-> IF i = 1 THEN all[i] ELSE Comma \o all[i]])

Piped(stages) == FlattenSeq([i \in DOMAIN stages |-> <<Blank>> \o stages[i]])

BuildSelectorQuery(selector, matchers, filters) ==
    LET text == Trim(selector)
        rest == IF Rest(text) = <<>> THEN <<>> ELSE <<Rest(text)>>
    IN <<OpeningBrace>> \o Listed(Inner(text), matchers) \o <<ClosingBrace>> \o Piped(rest \o filters)

-----------------------------------------------------------------------------
(* How Loki reads a query: braces and blanks inside a string are part of it. *)

InString(text, i) == Cardinality({j \in 1 .. i - 1 : text[j] = Quote}) % 2 = 1

Closings(text) == {i \in DOMAIN text : text[i] = ClosingBrace /\ ~InString(text, i)}

WellFormed(text) ==
    /\ Trim(text) # <<>> /\ Trim(text)[1] = OpeningBrace
    /\ Closings(text) # {}
    /\ ~InString(text, Len(text) + 1)

\* The tokens, but for the blanks outside strings.
Ink(text) == Subsequence(text, {i \in DOMAIN text : text[i] # Blank \/ InString(text, i)})

MatchersOf(text) == Ink(SubSeq(text, Open(text) + 1, Min(Closings(text)) - 1))
PipelineOf(text) == Ink(SubSeq(text, Min(Closings(text)) + 1, Len(text)))
=============================================================================
