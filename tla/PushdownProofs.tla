--------------------------- MODULE PushdownProofs ---------------------------
(***************************************************************************)
(* Proofs about Pushdown: for every WHERE clause of predicates the walk    *)
(* translates correctly, however many and in whatever order they are       *)
(* walked, a scan returns the rows the query asks for and no others.       *)
(*                                                                         *)
(* Safe, of Pushdown, says of which predicates that is: it leaves out      *)
(* those for which PushdownCast and PushdownOverclaims show that it is not.*)
(***************************************************************************)
EXTENDS Pushdown, LogQLProofs

-----------------------------------------------------------------------------
(* The walk so far.                                                        *)

Walked == where \ filters

\* The window is not narrower than the timestamp predicates.
Inside(e) == pushedStart <= e.ts /\ (pushedEnd = MaxNs \/ e.ts < pushedEnd)

\* What is pushed keeps every entry that satisfies the predicates walked.
KeepsAsked == \A e \in Entry : (\A p \in Walked : Holds(p, e)) => Filtered(e) /\ Inside(e)

PushesStart(p) == p.kind = "timestamp" /\ Representable(p) /\ StartBound(p) # MinNs
PushesEnd(p) == p.kind = "timestamp" /\ Representable(p) /\ EndBound(p) # MaxNs

\* The default window is given up on a side iff a predicate bounds that side.
BoundsMean ==
    /\ pushedStart # MinNs <=> \E p \in Walked : PushesStart(p)
    /\ pushedEnd # MaxNs <=> \E p \in Walked : PushesEnd(p)

WalkTypes ==
    /\ call \in Call
    /\ where \in SUBSET Predicate
    /\ filters \subseteq where
    /\ residuals \subseteq Walked
    /\ pushedStart \in Ns /\ pushedEnd \in Ns

Sends == phase = "scanning" => filters = {} /\ window = Window

WalkInv == WalkTypes /\ KeepsAsked /\ NeverOverclaims /\ BoundsMean /\ Sends

USE PushdownAssumption

-----------------------------------------------------------------------------
(* Each kind of predicate is translated correctly.                         *)

\* Truncating an instant that is before a multiple of unit leaves it before.
LEMMA TruncatedBefore ==
    ASSUME NEW ts \in Int, NEW ns \in Int, NEW unit \in Nat \ {0},
           ns % unit = 0, ts - (ts % unit) < ns
    PROVE  ts < ns
PROOF
  <1> DEFINE j == ts \div unit
             k == ns \div unit
  <1>1. j \in Int /\ k \in Int
    OBVIOUS
  <1>2. ts = unit * j + (ts % unit) /\ ts % unit \in 0 .. unit - 1
    OBVIOUS
  <1>3. ns = unit * k
    OBVIOUS
  <1> HIDE DEF j, k
  <1>4. unit * j < unit * k
    <2>1. unit * j \in Int /\ ts % unit \in Int
      BY <1>1, <1>2
    <2>2. ts - (ts % unit) = unit * j
      BY <1>2, <2>1
    <2> QED BY <1>3, <2>2
  <1>5. j < k
    BY <1>1, <1>4
  <1>6. unit * (j + 1) <= unit * k
    BY <1>1, <1>5
  <1>7. unit * (j + 1) = unit * j + unit
    BY <1>1
  <1> QED BY <1>1, <1>2, <1>3, <1>6, <1>7

\* The bounds of a timestamp comparison hold of every entry that satisfies it.
LEMMA TimestampBounds ==
    ASSUME NEW p, p.kind = "timestamp", SafeTimestamp(p), Representable(p),
           NEW e \in Entry, Holds(p, e)
    PROVE  StartBound(p) <= e.ts /\ (EndBound(p) = MaxNs \/ e.ts < EndBound(p))
PROOF
  <1>1. e.ts \in Int /\ p.ns \in Int /\ p.unit \in Nat \ {0} /\ MinNs <= e.ts
    <2>1. e.ts \in MinNs .. MaxNs
      BY EntryAssumption
    <2>2. p.ns \in Int /\ p.unit \in Nat \ {0}
      BY DEF SafeTimestamp
    <2>3. MinNs \in Int /\ MaxNs \in Int
      OBVIOUS
    <2> QED BY <2>1, <2>2, <2>3
  <1>2. e.ts % p.unit \in 0 .. p.unit - 1
    BY <1>1
  <1>3. p.unit = 1 => e.ts - (e.ts % p.unit) = e.ts
    BY <1>1, <1>2
  <1>4. Compares(e.ts - (e.ts % p.unit), p.op, p.ns)
    BY DEF Holds
  <1>5. CASE p.op = "="
    BY <1>1, <1>3, <1>4, <1>5 DEF Compares, SafeTimestamp, StartBound, EndBound
  <1>6. CASE p.op = "<="
    BY <1>1, <1>3, <1>4, <1>6 DEF Compares, SafeTimestamp, StartBound, EndBound
  <1>7. CASE p.op = "<"
    <2>1. e.ts < p.ns
      BY <1>1, <1>4, <1>7, TruncatedBefore DEF Compares, SafeTimestamp
    <2> QED BY <1>1, <1>7, <2>1 DEF StartBound, EndBound
  <1>8. CASE p.op \in {">", ">="}
    <2>1. e.ts - (e.ts % p.unit) >= p.ns
      BY <1>1, <1>2, <1>4, <1>8 DEF Compares
    <2>2. e.ts >= p.ns
      BY <1>1, <1>2, <2>1
    <2> QED BY <1>1, <1>8, <2>2 DEF StartBound, EndBound
  <1>9. CASE p.op \notin {"=", "<=", "<", ">", ">="}
    BY <1>1, <1>9 DEF StartBound, EndBound
  <1> QED BY <1>5, <1>6, <1>7, <1>8, <1>9

LEMMA BoundsAreInstants ==
    ASSUME NEW p, p.kind = "timestamp", SafeTimestamp(p), Representable(p)
    PROVE  StartBound(p) \in Ns /\ EndBound(p) \in Ns
  BY DEF SafeTimestamp, Representable, StartBound, EndBound, Ns

\* An erased comparison with a label is what its matcher says.
LEMMA EqualMatches ==
    ASSUME NEW p, p.kind = "label", SafeLabel(p), p.op = "=", NEW e \in Entry
    PROVE  Matches([op |-> "EQ", values |-> {p.value}], e.label) <=> Holds(p, e)
  BY DEF SafeLabel, Matches, Holds, Compares, Text

\* A pushed inequality is weaker than the predicate, which is kept.
LEMMA UnequalMatches ==
    ASSUME NEW p, p.kind = "label", p.op = "!=", NEW e \in Entry, Holds(p, e)
    PROVE  Matches([op |-> "NEQ", values |-> {p.value}], e.label)
PROOF
  <1>1. e.label # Missing /\ e.label # p.value
    BY DEF Holds, Compares
  <1> QED BY <1>1 DEF Matches, Text

\* The regex of a list matches its values that are not empty.
LEMMA ListMatches ==
    ASSUME NEW p, p.kind = "in", SafeList(p), NEW e \in Entry
    PROVE  Matches([op |-> "RE", values |-> Alternatives(p.values)], e.label) <=> Holds(p, e)
PROOF
  <1>0. p.values \in Seq(STRING)
    BY DEF SafeList
  <1>1. Alternatives(p.values) = {p.values[i] : i \in {j \in DOMAIN p.values : p.values[j] # ""}}
    <2>1. ~\A k \in DOMAIN p.values : p.values[k] = ""
      BY DEF SafeList
    <2>2. ASSUME NEW j \in DOMAIN p.values
          PROVE  ~(\A k \in 1 .. j : p.values[k] = "") <=> p.values[j] # ""
      <3>1. DOMAIN p.values = 1 .. Len(p.values)
        BY <1>0
      <3>3. j \in Int /\ 1 <= j
        BY <3>1
      <3>4. j \in 1 .. j
        BY <3>3
      <3>2. p.values[j] = "" => \A k \in 1 .. j : p.values[k] = ""
        BY DEF SafeList
      <3> QED BY <3>2, <3>4
    <2> QED BY <2>1, <2>2 DEF Alternatives
  <1>2. e.label # ""
    BY EntryAssumption
  <1>3. \A i \in DOMAIN p.values : p.values[i] # Missing
    BY DEF SafeList
  <1>4. Matches([op |-> "RE", values |-> Alternatives(p.values)], e.label)
            <=> \E i \in DOMAIN p.values : Text(e.label) = p.values[i] /\ p.values[i] # ""
    BY <1>1 DEF Matches
  <1>5. Holds(p, e) <=> \E i \in DOMAIN p.values : e.label = p.values[i]
    BY DEF Holds
  <1> QED BY <1>2, <1>3, <1>4, <1>5 DEF Text

\* A line filter passes the lines the text function is true of; the negations of
\* !~~ and of an enclosing NOT cancel out.
LEMMA LineFilterPasses ==
    ASSUME NEW p, p.kind = "line", SafeLine(p), NEW e \in Entry,
           p.fn \in {"~~", "!~~"} => IsSubstring(p.pattern)
    PROVE  Passes(LineFilter(p), e.line) <=> Holds(p, e)
PROOF
  <1>0. p.pattern \in Seq(STRING) /\ p.negated \in BOOLEAN
    BY DEF SafeLine
  <1>1. p.fn \in {"~~", "!~~"} => Wild(p.pattern, "_") = Literal(p.pattern)
    <2>1. DOMAIN p.pattern = 1 .. Len(p.pattern)
      BY <1>0
    <2>2. IsSubstring(p.pattern) => \A i \in 1 .. Len(p.pattern) : p.pattern[i] # "_"
      BY <2>1 DEF IsSubstring
    <2> QED BY <2>2 DEF Wild, Literal
  <1> DEFINE found == Occurs(LineFilter(p).body, e.line, LineFilter(p).first, LineFilter(p).last)
             denied == p.negated # (p.fn = "!~~")
  <1>2. /\ \A b, l, x, y : Occurs(b, l, x, y) \in BOOLEAN
        /\ Fits(p.fn, p.pattern, e.line) \in BOOLEAN /\ found \in BOOLEAN /\ denied \in BOOLEAN
    BY DEF Occurs, Fits
  <1>3. Holds(p, e) <=> (Fits(p.fn, p.pattern, e.line) # p.negated)
    BY DEF Holds
  <1>4. LineFilter(p).op \in {"NOT_CONTAINS", "NOT_MATCH"} <=> denied
    BY DEF LineFilter, NegateLineOp
  <1>5. Passes(LineFilter(p), e.line) <=> (found # denied)
    BY <1>4 DEF Passes
  <1>6. Fits(p.fn, p.pattern, e.line) <=> (found # (p.fn = "!~~"))
    <2>1. CASE p.fn = "contains"
      <3>1. found = Occurs(Literal(p.pattern), e.line, FALSE, FALSE)
        BY <2>1 DEF LineFilter
      <3> QED BY <1>2, <2>1, <3>1 DEF Fits
    <2>2. CASE p.fn = "prefix"
      <3>1. found = Occurs(Literal(p.pattern), e.line, TRUE, FALSE)
        BY <2>2 DEF LineFilter
      <3> QED BY <1>2, <2>2, <3>1 DEF Fits
    <2>3. CASE p.fn = "suffix"
      <3>1. found = Occurs(Literal(p.pattern), e.line, FALSE, TRUE)
        BY <2>3 DEF LineFilter
      <3> QED BY <1>2, <2>3, <3>1 DEF Fits
    <2>4. CASE p.fn = "regexp_matches"
      <3>1. found = Occurs(Wild(p.pattern, "."), e.line, FALSE, FALSE)
        BY <2>4 DEF LineFilter
      <3> QED BY <1>2, <2>4, <3>1 DEF Fits
    <2>5. CASE p.fn = "~~"
      <3>1. found = Occurs(Wild(p.pattern, "_"), e.line, FALSE, FALSE)
        BY <1>1, <2>5 DEF LineFilter
      <3> QED BY <1>2, <2>5, <3>1, <1>1 DEF Fits
    <2>6. CASE p.fn = "!~~"
      <3>1. found = Occurs(Wild(p.pattern, "_"), e.line, FALSE, FALSE)
        BY <1>1, <2>6 DEF LineFilter
      <3> QED BY <1>2, <2>6, <3>1, <1>1 DEF Fits
    <2> QED BY <2>1, <2>2, <2>3, <2>4, <2>5, <2>6 DEF SafeLine
  <1> QED BY <1>0, <1>3, <1>5, <1>6, <1>2

-----------------------------------------------------------------------------
(* One step of the walk.                                                   *)

\* What a step has to show of the predicate it walks: what is pushed for it holds of
\* the entries that satisfy it, and enforces it if it is erased.
LEMMA WalkOne ==
    ASSUME WalkInv, NEW p \in filters, Walk(p),
           \/ residuals' = residuals \cup {p}
           \/ residuals' = residuals /\ \A e \in Entry : Filtered(e)' => Holds(p, e),
           \A e \in Entry : Filtered(e) /\ Inside(e) /\ Holds(p, e) => Filtered(e)' /\ Inside(e)',
           \A e \in Entry : Filtered(e)' => Filtered(e),
           pushedStart' \in Ns, pushedEnd' \in Ns,
           pushedStart' # MinNs <=> pushedStart # MinNs \/ PushesStart(p),
           pushedEnd' # MaxNs <=> pushedEnd # MaxNs \/ PushesEnd(p)
    PROVE  WalkInv'
PROOF
  <1>1. /\ phase = "pushdown" /\ filters' = filters \ {p}
        /\ UNCHANGED <<call, where, window, phase>>
    BY DEF Walk, request
  <1>2. p \in where /\ Walked' = Walked \cup {p}
    BY <1>1 DEF WalkInv, WalkTypes, Walked
  <1>3. WalkTypes'
    BY <1>1, <1>2 DEF WalkInv, WalkTypes
  <1>4. KeepsAsked'
    <2> SUFFICES ASSUME NEW e \in Entry, \A q \in Walked' : Holds(q, e)
                 PROVE  Filtered(e)' /\ Inside(e)'
      BY DEF KeepsAsked
    <2>1. Filtered(e) /\ Inside(e) /\ Holds(p, e)
      BY <1>2 DEF WalkInv, KeepsAsked
    <2> QED BY <2>1
  <1>5. NeverOverclaims'
    <2> SUFFICES ASSUME NEW q \in Walked', q \notin residuals', NEW e \in Entry, Filtered(e)'
                 PROVE  Holds(q, e)
      BY DEF NeverOverclaims, Walked
    <2>1. CASE q = p
      BY <2>1
    <2>2. CASE q # p
      <3>1. q \in where \ (filters \cup residuals)
        BY <1>2, <2>2 DEF Walked
      <3> QED BY <3>1 DEF WalkInv, NeverOverclaims
    <2> QED BY <2>1, <2>2
  <1>6. BoundsMean'
    BY <1>2 DEF WalkInv, BoundsMean, PushesStart, PushesEnd
  <1>7. Sends'
    BY <1>1 DEF Sends
  <1> QED BY <1>3, <1>4, <1>5, <1>6, <1>7 DEF WalkInv

\* The filters and the window depend on what is pushed only.
LEMMA PushFrame ==
    /\ UNCHANGED <<matchers, lineFilters>> => \A e \in Entry : Filtered(e)' = Filtered(e)
    /\ UNCHANGED <<pushedStart, pushedEnd>> => \A e \in Entry : Inside(e)' = Inside(e)
  BY DEF Filtered, Inside

\* A predicate that is not of the timestamp bounds nothing.
LEMMA NoBounds ==
    ASSUME NEW p, p.kind # "timestamp" PROVE ~PushesStart(p) /\ ~PushesEnd(p)
  BY DEF PushesStart, PushesEnd

LEMMA TimestampStep ==
    ASSUME AllSafe, WalkInv, NEW p \in filters, TryTimestamp(p) PROVE WalkInv'
PROOF
  <1>1. /\ p.kind = "timestamp" /\ Walk(p) /\ residuals' = residuals \cup {p}
        /\ UNCHANGED <<matchers, lineFilters>>
    BY DEF TryTimestamp, OnColumn, Keep
  <1>2. SafeTimestamp(p)
    BY <1>1 DEF AllSafe, Safe, WalkInv, WalkTypes
  <1>3. pushedStart \in Ns /\ pushedEnd \in Ns
    BY DEF WalkInv, WalkTypes
  <1>4. \A e \in Entry : e.ts \in Ns
    BY EntryAssumption DEF Ns
  <1>5. CASE Representable(p)
    <2>1. /\ pushedStart' = Larger(pushedStart, StartBound(p))
          /\ pushedEnd' = Smaller(pushedEnd, EndBound(p))
      BY <1>5 DEF TryTimestamp
    <2>2. StartBound(p) \in Ns /\ EndBound(p) \in Ns
      BY <1>1, <1>2, <1>5, BoundsAreInstants
    <2>3. pushedStart' \in Ns /\ pushedEnd' \in Ns
      BY <1>3, <2>1, <2>2 DEF Larger, Smaller
    <2>4. ASSUME NEW e \in Entry, Inside(e), Holds(p, e) PROVE Inside(e)'
      <3>1. StartBound(p) <= e.ts /\ (EndBound(p) = MaxNs \/ e.ts < EndBound(p))
        BY <1>1, <1>2, <1>5, <2>4, TimestampBounds
      <3>2. pushedStart' <= e.ts
        BY <2>1, <2>4, <3>1 DEF Inside, Larger
      <3>3. pushedEnd' = MaxNs \/ e.ts < pushedEnd'
        BY <1>3, <1>4, <2>1, <2>2, <2>4, <3>1 DEF Inside, Smaller, Ns
      <3> QED BY <3>2, <3>3 DEF Inside
    <2>5. /\ pushedStart' # MinNs <=> pushedStart # MinNs \/ StartBound(p) # MinNs
          /\ pushedEnd' # MaxNs <=> pushedEnd # MaxNs \/ EndBound(p) # MaxNs
      BY <1>3, <2>1, <2>2 DEF Larger, Smaller, Ns
    <2>6. (PushesStart(p) <=> StartBound(p) # MinNs) /\ (PushesEnd(p) <=> EndBound(p) # MaxNs)
      BY <1>1, <1>5 DEF PushesStart, PushesEnd
    <2> QED BY <1>1, <2>3, <2>4, <2>5, <2>6, PushFrame, WalkOne
  <1>6. CASE ~Representable(p)
    <2>1. UNCHANGED <<pushedStart, pushedEnd>>
      BY <1>6 DEF TryTimestamp
    <2>2. ~PushesStart(p) /\ ~PushesEnd(p)
      BY <1>6 DEF PushesStart, PushesEnd
    <2> QED BY <1>1, <1>3, <2>1, <2>2, PushFrame, WalkOne
  <1> QED BY <1>5, <1>6

\* A step that adds a matcher which the predicate implies, and which implies it if
\* the predicate is erased.
LEMMA MatcherStep ==
    ASSUME WalkInv, NEW p \in filters, Walk(p), p.kind # "timestamp",
           NEW m, matchers' = matchers \cup {m},
           \A e \in Entry : Holds(p, e) => Matches(m, e.label),
           \/ residuals' = residuals \cup {p}
           \/ residuals' = residuals /\ \A e \in Entry : Matches(m, e.label) => Holds(p, e),
           UNCHANGED <<lineFilters, pushedStart, pushedEnd>>
    PROVE  WalkInv'
PROOF
  <1>1. \A e \in Entry : Filtered(e)' <=> Filtered(e) /\ Matches(m, e.label)
    BY DEF Filtered
  <1>2. pushedStart' \in Ns /\ pushedEnd' \in Ns
    BY DEF WalkInv, WalkTypes
  <1> QED BY <1>1, <1>2, NoBounds, PushFrame, WalkOne

LEMMA KeptStep ==
    ASSUME WalkInv, NEW p \in filters, Walk(p), p.kind # "timestamp", Keep(p),
           UNCHANGED <<matchers, lineFilters, pushedStart, pushedEnd>>
    PROVE  WalkInv'
PROOF
  <1>1. pushedStart' \in Ns /\ pushedEnd' \in Ns
    BY DEF WalkInv, WalkTypes
  <1> QED BY <1>1, NoBounds, PushFrame, WalkOne DEF Keep

LEMMA LabelStep ==
    ASSUME AllSafe, WalkInv, NEW p \in filters, TryLabel(p) PROVE WalkInv'
PROOF
  <1>1. /\ p.kind = "label" /\ Walk(p)
        /\ UNCHANGED <<lineFilters, pushedStart, pushedEnd>>
    BY DEF TryLabel, OnColumn
  <1>2. SafeLabel(p)
    BY <1>1 DEF AllSafe, Safe, WalkInv, WalkTypes
  <1>3. CASE p.op = "="
    <2>1. matchers' = matchers \cup {[op |-> "EQ", values |-> {p.value}]} /\ residuals' = residuals
      BY <1>3 DEF TryLabel, Erasable
    <2> QED BY <1>1, <1>2, <1>3, <2>1, EqualMatches, MatcherStep
  <1>4. CASE p.op = "!="
    <2>1. /\ matchers' = matchers \cup {[op |-> "NEQ", values |-> {p.value}]}
          /\ residuals' = residuals \cup {p}
      BY <1>4 DEF TryLabel, Erasable, Keep
    <2> QED BY <1>1, <1>4, <2>1, UnequalMatches, MatcherStep
  <1>5. CASE p.op \notin {"=", "!="}
    <2>1. UNCHANGED matchers /\ Keep(p)
      BY <1>5 DEF TryLabel, Erasable
    <2> QED BY <1>1, <2>1, KeptStep
  <1> QED BY <1>3, <1>4, <1>5

LEMMA ListStep ==
    ASSUME AllSafe, WalkInv, NEW p \in filters, TryInList(p) PROVE WalkInv'
PROOF
  <1>1. /\ p.kind = "in" /\ Walk(p) /\ residuals' = residuals
        /\ matchers' = matchers \cup {[op |-> "RE", values |-> Alternatives(p.values)]}
        /\ UNCHANGED <<lineFilters, pushedStart, pushedEnd>>
    BY DEF TryInList
  <1>2. SafeList(p)
    BY <1>1 DEF AllSafe, Safe, WalkInv, WalkTypes
  <1> QED BY <1>1, <1>2, ListMatches, MatcherStep

LEMMA FunctionStep ==
    ASSUME AllSafe, WalkInv, NEW p \in filters, TryFunction(p) PROVE WalkInv'
PROOF
  <1>1. /\ p.kind = "line" /\ Walk(p)
        /\ UNCHANGED <<matchers, pushedStart, pushedEnd>>
    BY DEF TryFunction, OnColumn
  <1>2. SafeLine(p)
    BY <1>1 DEF AllSafe, Safe, WalkInv, WalkTypes
  <1>3. CASE p.fn \in {"~~", "!~~"} /\ ~IsSubstring(p.pattern)
    BY <1>1, <1>3, KeptStep DEF TryFunction
  <1>4. CASE p.fn \in {"~~", "!~~"} => IsSubstring(p.pattern)
    <2>1. lineFilters' = lineFilters \cup {LineFilter(p)} /\ residuals' = residuals
      BY <1>4 DEF TryFunction
    <2>2. \A e \in Entry : Passes(LineFilter(p), e.line) <=> Holds(p, e)
      BY <1>1, <1>2, <1>4, LineFilterPasses
    <2>3. \A e \in Entry : Filtered(e)' <=> Filtered(e) /\ Passes(LineFilter(p), e.line)
      BY <1>1, <2>1 DEF Filtered
    <2>4. pushedStart' \in Ns /\ pushedEnd' \in Ns
      BY <1>1 DEF WalkInv, WalkTypes
    <2> QED BY <1>1, <2>1, <2>2, <2>3, <2>4, NoBounds, PushFrame, WalkOne
  <1> QED BY <1>3, <1>4

LEMMA OtherStep == ASSUME WalkInv, NEW p \in filters, KeepOther(p) PROVE WalkInv'
  BY KeptStep DEF KeepOther

-----------------------------------------------------------------------------
LEMMA WalkInit == Init => WalkInv
PROOF
  <1> SUFFICES ASSUME Init PROVE WalkInv
    OBVIOUS
  <1>1. /\ call \in Call /\ filters = where /\ residuals = {}
        /\ matchers = {} /\ lineFilters = {}
        /\ pushedStart = MinNs /\ pushedEnd = MaxNs /\ phase = "bind"
    BY DEF Init
  <1>2. where \in SUBSET Predicate
    BY DEF Init
  <1>3. MinNs \in Ns /\ MaxNs \in Ns
    BY DEF Ns
  <1>4. WalkTypes
    BY <1>1, <1>2, <1>3 DEF WalkTypes, Walked
  <1>5. KeepsAsked
    <2>1. \A e \in Entry : e.ts \in MinNs .. MaxNs
      BY EntryAssumption
    <2>2. \A e \in Entry : Inside(e)
      BY <1>1, <2>1 DEF Inside
    <2>3. \A e \in Entry : Filtered(e)
      BY <1>1 DEF Filtered
    <2> QED BY <2>2, <2>3 DEF KeepsAsked
  <1> QED BY <1>1, <1>4, <1>5 DEF WalkInv, NeverOverclaims, BoundsMean, Sends, Walked

\* Only the walk changes what is walked or pushed; the window is set when it is over.
LEMMA PhaseStep ==
    ASSUME WalkInv, LokiBind \/ Refuse \/ InitGlobal \/ UNCHANGED vars PROVE WalkInv'
PROOF
  <1>1. UNCHANGED <<call, where, filters, residuals, matchers, lineFilters, pushedStart, pushedEnd>>
    BY DEF LokiBind, Refuse, InitGlobal, vars, pushed
  <1>2. WalkTypes' /\ KeepsAsked' /\ NeverOverclaims' /\ BoundsMean'
    BY <1>1 DEF WalkInv, WalkTypes, KeepsAsked, NeverOverclaims, BoundsMean, Walked, Filtered, Inside
  <1>3. Window' = Window
    BY <1>1 DEF Window
  <1>4. Sends'
    BY <1>1, <1>3 DEF WalkInv, Sends, LokiBind, Refuse, InitGlobal, vars, request
  <1> QED BY <1>2, <1>4 DEF WalkInv

LEMMA WalkStep == ASSUME AllSafe PROVE WalkInv /\ [Next]_vars => WalkInv'
PROOF
  <1> SUFFICES ASSUME WalkInv, [Next]_vars PROVE WalkInv'
    OBVIOUS
  <1>1. ASSUME NEW p \in filters, Try(p) PROVE WalkInv'
    BY <1>1, TimestampStep, LabelStep, ListStep, FunctionStep, OtherStep DEF Try
  <1> QED BY <1>1, PhaseStep DEF Next

LEMMA WalkInvariance == ASSUME AllSafe PROVE Spec => []WalkInv
PROOF
  <1> QED BY WalkInit, WalkStep, PTL DEF Spec

-----------------------------------------------------------------------------
(* What a scan returns.                                                    *)

\* When the walk is over, a side of the window has a pushed bound iff WHERE bounds it.
LEMMA BoundsOfWhere ==
    ASSUME AllSafe, WalkInv, filters = {}
    PROVE  (pushedStart # MinNs <=> BoundedBelow) /\ (pushedEnd # MaxNs <=> BoundedAbove)
PROOF
  <1>1. Walked = where
    BY DEF Walked
  <1>2. ASSUME NEW p \in where, p.kind = "timestamp", p.ns \in Ns
        PROVE  /\ PushesStart(p) <=> /\ p.op \in {">", ">=", "="}
                                     /\ p.ns > MinNs /\ (p.op = "=" => p.ns < MaxNs)
               /\ PushesEnd(p) <=> /\ p.op \in {"<", "<=", "="}
                                   /\ IF p.op = "<" THEN p.ns < MaxNs ELSE p.ns + 1 < MaxNs
    <2>1. p.ns \in MinNs .. MaxNs /\ Representable(p)
      BY <1>2 DEF Ns, Representable
    <2>2. PushesStart(p) <=> StartBound(p) # MinNs
      BY <1>2, <2>1 DEF PushesStart
    <2>3. PushesEnd(p) <=> EndBound(p) # MaxNs
      BY <1>2, <2>1 DEF PushesEnd
    <2>4. StartBound(p) # MinNs <=>
              p.op \in {">", ">=", "="} /\ p.ns > MinNs /\ (p.op = "=" => p.ns < MaxNs)
      BY <2>1 DEF StartBound
    <2>5. EndBound(p) # MaxNs <=>
              /\ p.op \in {"<", "<=", "="}
              /\ IF p.op = "<" THEN p.ns < MaxNs ELSE p.ns + 1 < MaxNs
      BY <2>1 DEF EndBound
    <2> QED BY <2>2, <2>3, <2>4, <2>5
  <1>3. \A p \in where : PushesStart(p) \/ PushesEnd(p) => p.kind = "timestamp" /\ p.ns \in Ns
    BY DEF PushesStart, PushesEnd, Representable, Ns
  <1>4. (\E p \in where : PushesStart(p)) <=> BoundedBelow
    BY <1>2, <1>3 DEF BoundedBelow, InstantsOf
  <1>5. (\E p \in where : PushesEnd(p)) <=> BoundedAbove
    BY <1>2, <1>3 DEF BoundedAbove, InstantsOf
  <1> QED BY <1>1, <1>4, <1>5 DEF WalkInv, BoundsMean

LEMMA CallTypes ==
    ASSUME WalkInv
    PROVE  /\ call.start \in Int /\ call.end \in Int /\ call.end <= MaxNs
           /\ pushedStart \in Int /\ pushedEnd \in Int
           /\ DefaultStart \in Int /\ DefaultEnd \in Int /\ MinNs \in Int /\ MaxNs \in Int
PROOF
  <1>1. call \in Call /\ pushedStart \in Ns /\ pushedEnd \in Ns
    BY DEF WalkInv, WalkTypes
  <1>2. {call.start, call.end} \subseteq MinNs - 1 .. MaxNs
    BY <1>1, CallAssumption
  <1> QED BY <1>1, <1>2 DEF Ns

\* The window of the requests is the range of the query, cut by what is pushed.
LEMMA WindowMeans ==
    ASSUME AllSafe, WalkInv, phase = "scanning", NEW e \in Entry
    PROVE  /\ InRange(e) /\ Inside(e) => window.start <= e.ts /\ e.ts < window.end
           /\ window.start <= e.ts /\ e.ts < window.end => InRange(e)
PROOF
  <1>1. filters = {} /\ window = Window
    BY DEF WalkInv, Sends
  <1>2. (pushedStart # MinNs <=> BoundedBelow) /\ (pushedEnd # MaxNs <=> BoundedAbove)
    BY <1>1, BoundsOfWhere
  <1>3. /\ window.start = IF call.start # None THEN Larger(call.start, pushedStart)
                          ELSE IF pushedStart # MinNs THEN pushedStart ELSE DefaultStart
        /\ window.end = IF call.end # None THEN Smaller(call.end, pushedEnd)
                        ELSE IF pushedEnd # MaxNs THEN pushedEnd ELSE DefaultEnd
    BY <1>1 DEF Window
  <1>4. e.ts \in Int
    <2>1. e.ts \in MinNs .. MaxNs
      BY EntryAssumption
    <2> QED BY <2>1
  <1>5. InRange(e) /\ Inside(e) => window.start <= e.ts
    BY <1>2, <1>3, <1>4, CallTypes DEF InRange, Inside, Larger
  <1>6. InRange(e) /\ Inside(e) => e.ts < window.end
    BY <1>2, <1>3, <1>4, CallTypes DEF InRange, Inside, Smaller
  <1>7. window.start <= e.ts /\ e.ts < window.end => InRange(e)
    BY <1>2, <1>3, <1>4, CallTypes DEF InRange, Larger, Smaller
  <1> QED BY <1>5, <1>6, <1>7

\* No row the query asks for is lost, whatever predicates are pushed, erased, negated
\* or folded into the window together.
THEOREM NothingLost == ASSUME AllSafe PROVE Spec => []NoLostRows
PROOF
  <1>1. WalkInv => NoLostRows
    <2> SUFFICES ASSUME WalkInv, phase = "scanning", NEW e \in Entry, Asked(e)
                 PROVE  Returned(e)
      BY DEF NoLostRows
    <2>1. filters = {} /\ residuals \subseteq where
      BY DEF WalkInv, WalkTypes, Sends, Walked
    <2>2. \A p \in Walked : Holds(p, e)
      BY DEF Asked, Walked
    <2>3. Filtered(e) /\ Inside(e)
      BY <2>2 DEF WalkInv, KeepsAsked
    <2>4. window.start <= e.ts /\ e.ts < window.end
      BY <2>3, WindowMeans DEF Asked
    <2> QED BY <2>1, <2>3, <2>4 DEF Asked, Returned
  <1> QED BY <1>1, WalkInvariance, PTL

\* No row comes back that fails a predicate or is outside an explicit bound.
THEOREM NothingExtra == ASSUME AllSafe PROVE Spec => []NoExtraRows
PROOF
  <1>1. WalkInv => NoExtraRows
    <2> SUFFICES ASSUME WalkInv, phase = "scanning", NEW e \in Entry, Returned(e)
                 PROVE  Asked(e)
      BY DEF NoExtraRows
    <2>1. Filtered(e) /\ \A p \in residuals : Holds(p, e)
      BY DEF Returned
    <2>2. filters = {}
      BY DEF WalkInv, Sends
    <2>3. \A p \in where : Holds(p, e)
      BY <2>1, <2>2 DEF WalkInv, NeverOverclaims
    <2>4. InRange(e)
      BY WindowMeans DEF Returned
    <2> QED BY <2>3, <2>4 DEF Asked
  <1> QED BY <1>1, WalkInvariance, PTL

\* "Never claim a filter you cannot fully honor" is kept at every step of the walk,
\* as long as no predicate is one that the run PushdownOverclaims shows to break it.
THEOREM ClaimsAreHonored == ASSUME AllSafe PROVE Spec => []NeverOverclaims
PROOF
  <1>1. WalkInv => NeverOverclaims
    BY DEF WalkInv
  <1> QED BY <1>1, WalkInvariance, PTL

-----------------------------------------------------------------------------
(* The text of the query.                                                  *)

MatcherOps == {"EQ", "NEQ", "RE"}
FilterOps == {"CONTAINS", "NOT_CONTAINS", "MATCH", "NOT_MATCH"}

\* What is pushed is finite, and can be written.
Writable ==
    /\ IsFiniteSet(matchers)
    /\ \A m \in matchers : m.op \in MatcherOps /\ IsFiniteSet(m.values) /\ m.values \subseteq DOMAIN Spelling
    /\ IsFiniteSet(lineFilters)
    /\ \A f \in lineFilters : f.op \in FilterOps

QueryInv ==
    /\ call \in Call
    /\ where \in SUBSET Predicate /\ filters \cup residuals \subseteq where
    /\ Writable
    /\ pushedStart \in Ns /\ pushedEnd \in Ns
    /\ window \in [start : Ns, end : Ns]
    /\ query = IF phase = "scanning" THEN Query ELSE <<>>
    /\ phase \in {"bind", "pushdown", "scanning", "refused"}

\* A finite set can be written as a sequence.
LEMMA SetToSeqTypes ==
    ASSUME NEW X, IsFiniteSet(X)
    PROVE  SetToSeq(X) \in Seq(X) /\ Len(SetToSeq(X)) = Cardinality(X) /\ Cardinality(X) \in Nat
PROOF
  <1> DEFINE n == Cardinality(X)
  <1>1. n \in Nat /\ ExistsBijection(1 .. n, X)
    BY FS_CardinalityType
  <1>2. PICK g \in Bijection(1 .. n, X) : TRUE
    BY <1>1 DEF ExistsBijection
  <1>3. g \in [1 .. n -> X] /\ IsInjective(g)
    BY <1>2 DEF Bijection, Injection, IsInjective
  <1>4. \E f \in [1 .. n -> X] : IsInjective(f)
    BY <1>3
  <1>5. SetToSeq(X) \in [1 .. n -> X]
    BY <1>4 DEF SetToSeq
  <1>6. SetToSeq(X) \in Seq(X) /\ Len(SetToSeq(X)) = n
    <2> DEFINE xs == SetToSeq(X)
    <2>1. n \in Nat /\ xs \in [1 .. n -> X]
      BY <1>1, <1>5
    <2> HIDE DEF n, xs
    <2>2. xs \in Seq(X)
      BY <2>1
    <2>3. Len(xs) = n
      BY <2>1, <2>2
    <2> QED BY <2>2, <2>3 DEF xs
  <1> QED BY <1>1, <1>6

LEMMA FiniteSpellings ==
    ASSUME NEW V, IsFiniteSet(V), V \subseteq DOMAIN Spelling
    PROVE  LET X == {Spelling[v] : v \in V} IN IsFiniteSet(X) /\ X \in SUBSET Seq(Token)
PROOF
  <1> DEFINE X == {Spelling[v] : v \in V}
             spell == [v \in V |-> Spelling[v]]
  <1>1. spell \in Surjection(V, X)
    BY DEF Surjection
  <1>2. IsFiniteSet(X)
    BY <1>1, FS_Surjection
  <1>3. X \in SUBSET Seq(Token)
    BY TextAssumption
  <1> QED BY <1>2, <1>3

\* The value of a matcher, as a text in quotes.
LEMMA MatcherValue ==
    ASSUME NEW m, IsFiniteSet(m.values), m.values \subseteq DOMAIN Spelling
    PROVE  Quoted(FlattenSeq(SetToSeq({Spelling[v] : v \in m.values}))) \in CleanTexts(Token)
PROOF
  <1> DEFINE V == m.values
             X == {Spelling[v] : v \in V}
             value == FlattenSeq(SetToSeq(X))
  <1>1. IsFiniteSet(X) /\ X \in SUBSET Seq(Token)
    BY FiniteSpellings
  <1> HIDE DEF X
  <1>2. SetToSeq(X) \in Seq(Seq(Token))
    BY <1>1, SetToSeqTypes, SeqMonotonic
  <1>3. value \in Seq(Token)
    BY <1>2, JoinedTypes
  <1> HIDE DEF value
  <1>4. Quoted(value) \in CleanTexts(Token)
    BY <1>3, QuotedIsClean, TextAssumption DEF CleanTexts
  <1> QED BY <1>4 DEF value, X

LEMMA MatcherIsClean ==
    ASSUME NEW m, m.op \in MatcherOps, IsFiniteSet(m.values), m.values \subseteq DOMAIN Spelling
    PROVE  MatcherToString(m) \in CleanTexts(Token)
PROOF
  <1> DEFINE V == m.values
             X == {Spelling[v] : v \in V}
             name == <<"label">>
             op == <<m.op>>
             value == FlattenSeq(SetToSeq(X))
  <1>4. Quoted(value) \in CleanTexts(Token)
    BY MatcherValue
  <1> HIDE DEF value
  <1>5. "label" # Quote /\ "label" # ClosingBrace /\ m.op # Quote /\ m.op # ClosingBrace
    BY DEF Quote, ClosingBrace, MatcherOps
  <1>6. "label" \in Token /\ m.op \in Token
    BY TextAssumption DEF MatcherOps
  <1>7. name \in CleanTexts(Token) /\ op \in CleanTexts(Token)
    BY <1>5, <1>6, CleanToken DEF CleanTexts
  <1>8. MatcherToString(m) = (name \o op) \o Quoted(value)
    BY DEF MatcherToString, value, X
  <1> HIDE DEF name, op
  <1> QED BY <1>4, <1>7, <1>8, JoinedTexts

LEMMA FilterIsClosed ==
    ASSUME NEW f, f.op \in FilterOps
    PROVE  LineFilterToString(f) \in Closed(Token)
PROOF
  <1> DEFINE op == <<f.op>>
             gap == <<Blank>>
             text == <<"text">>
  <1>1. /\ f.op # Quote /\ f.op # ClosingBrace /\ Blank # Quote /\ Blank # ClosingBrace
    BY DEF Quote, ClosingBrace, Blank, FilterOps
  <1>2. "text" \in Token /\ f.op \in Token /\ Blank \in Token /\ Quote \in Token /\ EscapedQuote \in Token
    BY TextAssumption DEF FilterOps
  <1>3. op \in CleanTexts(Token) /\ gap \in CleanTexts(Token)
    BY <1>1, <1>2, CleanToken DEF CleanTexts
  <1>4. text \in Seq(Token)
    BY <1>2
  <1>5. LineFilterToString(f) = (op \o gap) \o Quoted(text)
    BY DEF LineFilterToString
  <1> HIDE DEF op, gap, text
  <1>6. Quoted(text) \in CleanTexts(Token)
    BY <1>2, <1>4, QuotedIsClean DEF CleanTexts
  <1>7. LineFilterToString(f) \in CleanTexts(Token)
    BY <1>3, <1>5, <1>6, JoinedTexts
  <1> QED BY <1>7, CleanIsClosed

LEMMA PushedTexts ==
    ASSUME Writable
    PROVE  MatcherTexts \in Seq(CleanTexts(Token)) /\ FilterTexts \in Seq(Closed(Token))
PROOF
  <1>1. SetToSeq(matchers) \in Seq(matchers) /\ SetToSeq(lineFilters) \in Seq(lineFilters)
    BY SetToSeqTypes DEF Writable
  <1>2. \A m \in matchers : MatcherToString(m) \in CleanTexts(Token)
    BY MatcherIsClean DEF Writable
  <1>3. \A f \in lineFilters : LineFilterToString(f) \in Closed(Token)
    BY FilterIsClosed DEF Writable
  <1>4. MatcherTexts \in Seq(CleanTexts(Token))
    <2> DEFINE ms == SetToSeq(matchers)
               C == CleanTexts(Token)
    <2>1. MatcherTexts = [i \in DOMAIN ms |-> MatcherToString(ms[i])]
      BY DEF MatcherTexts
    <2>2. Len(ms) \in Nat /\ DOMAIN ms = 1 .. Len(ms) /\ \A i \in 1 .. Len(ms) : ms[i] \in matchers
      <3> HIDE DEF ms
      <3>1. ms \in Seq(matchers)
        BY <1>1 DEF ms
      <3> QED BY <3>1, LenProperties
    <2> HIDE DEF ms, C
    <2>3. MatcherTexts \in [1 .. Len(ms) -> C]
      BY <1>2, <2>1, <2>2 DEF C
    <2> QED BY <2>2, <2>3 DEF C
  <1>5. FilterTexts \in Seq(Closed(Token))
    <2> DEFINE fs == SetToSeq(lineFilters)
               C == Closed(Token)
    <2>1. FilterTexts = [i \in DOMAIN fs |-> LineFilterToString(fs[i])]
      BY DEF FilterTexts
    <2>2. Len(fs) \in Nat /\ DOMAIN fs = 1 .. Len(fs) /\ \A i \in 1 .. Len(fs) : fs[i] \in lineFilters
      <3> HIDE DEF fs
      <3>1. fs \in Seq(lineFilters)
        BY <1>1 DEF fs
      <3> QED BY <3>1, LenProperties
    <2> HIDE DEF fs, C
    <2>3. FilterTexts \in [1 .. Len(fs) -> C]
      BY <1>3, <2>1, <2>2 DEF C
    <2> QED BY <2>2, <2>3 DEF C
  <1> QED BY <1>4, <1>5

LEMMA PushedTextTypes ==
    ASSUME Writable
    PROVE  MatcherTexts \in Seq(Seq(Token)) /\ FilterTexts \in Seq(Seq(Token))
PROOF
  <1>1. CleanTexts(Token) \subseteq Seq(Token) /\ Closed(Token) \subseteq Seq(Token)
    BY CleanIsClosed
  <1> QED BY <1>1, PushedTexts, SeqMonotonic

LEMMA QueryInit == Init => QueryInv
PROOF
  <1> SUFFICES ASSUME Init PROVE QueryInv
    OBVIOUS
  <1>1. /\ call \in Call /\ filters = where /\ residuals = {}
        /\ matchers = {} /\ lineFilters = {}
        /\ pushedStart = MinNs /\ pushedEnd = MaxNs
        /\ query = <<>> /\ window = [start |-> DefaultStart, end |-> DefaultEnd] /\ phase = "bind"
    BY DEF Init
  <1>2. where \in SUBSET Predicate
    BY DEF Init
  <1>3. MinNs \in Ns /\ MaxNs \in Ns /\ DefaultStart \in Ns /\ DefaultEnd \in Ns
    BY DEF Ns
  <1>4. Writable
    BY <1>1, FS_EmptySet DEF Writable
  <1> QED BY <1>1, <1>2, <1>3, <1>4 DEF QueryInv

\* What a step of the walk has to show of what it pushes.
LEMMA WalkTextStep ==
    ASSUME QueryInv, NEW p \in filters, Walk(p), Writable',
           residuals' = residuals \/ Keep(p), pushedStart' \in Ns, pushedEnd' \in Ns
    PROVE  QueryInv'
PROOF
  <1>1. /\ phase = "pushdown" /\ phase' = phase /\ query' = query /\ window' = window
        /\ call' = call /\ where' = where /\ filters' = filters \ {p}
    BY DEF Walk, request
  <1>2. filters' \cup residuals' \subseteq where'
    BY <1>1 DEF QueryInv, Keep
  <1> QED BY <1>1, <1>2 DEF QueryInv

\* A matcher or a line filter is added to those that can be written.
LEMMA WritableMatcher ==
    ASSUME Writable, NEW m, m.op \in MatcherOps, IsFiniteSet(m.values), m.values \subseteq DOMAIN Spelling,
           matchers' = matchers \cup {m}, lineFilters' = lineFilters
    PROVE  Writable'
  BY FS_AddElement DEF Writable

LEMMA WritableFilter ==
    ASSUME Writable, NEW f, f.op \in FilterOps, lineFilters' = lineFilters \cup {f}, matchers' = matchers
    PROVE  Writable'
  BY FS_AddElement DEF Writable

LEMMA WritableFrame ==
    ASSUME Writable, UNCHANGED <<matchers, lineFilters>> PROVE Writable'
  BY DEF Writable

LEMMA TimestampText ==
    ASSUME QueryInv, NEW p \in filters, TryTimestamp(p) PROVE QueryInv'
PROOF
  <1>1. Walk(p) /\ Keep(p) /\ UNCHANGED <<matchers, lineFilters>>
    BY DEF TryTimestamp
  <1>2. pushedStart \in Ns /\ pushedEnd \in Ns /\ Writable
    BY DEF QueryInv
  <1>3. pushedStart' \in Ns /\ pushedEnd' \in Ns
    <2>1. CASE Representable(p)
      <3>1. MinNs \in Ns /\ MaxNs \in Ns /\ p.ns \in Ns
        BY <2>1 DEF Ns, Representable
      <3>2. StartBound(p) \in Ns
        BY <3>1 DEF StartBound
      <3>3. EndBound(p) \in Ns
        BY <3>1 DEF EndBound, Ns
      <3>4. /\ pushedStart' = Larger(pushedStart, StartBound(p))
            /\ pushedEnd' = Smaller(pushedEnd, EndBound(p))
        BY <2>1 DEF TryTimestamp
      <3> QED BY <1>2, <3>2, <3>3, <3>4 DEF Larger, Smaller
    <2>2. CASE ~Representable(p)
      BY <1>2, <2>2 DEF TryTimestamp
    <2> QED BY <2>1, <2>2
  <1>4. Writable'
    BY <1>1, <1>2, WritableFrame
  <1> QED BY <1>1, <1>3, <1>4, WalkTextStep

LEMMA LabelText ==
    ASSUME QueryInv, NEW p \in filters, TryLabel(p) PROVE QueryInv'
PROOF
  <1>1. /\ p.kind = "label" /\ Walk(p) /\ UNCHANGED <<lineFilters, pushedStart, pushedEnd>>
        /\ residuals' = residuals \/ Keep(p)
    BY DEF TryLabel, OnColumn
  <1>2. pushedStart' \in Ns /\ pushedEnd' \in Ns /\ Writable
    BY <1>1 DEF QueryInv
  <1>3. p.value \in DOMAIN Spelling
    BY <1>1, TextAssumption DEF QueryInv
  <1>4. Writable'
    <2> DEFINE Says(op) == [op |-> op, values |-> {p.value}]
    <2>1. CASE matchers' = matchers
      BY <1>1, <1>2, <2>1, WritableFrame
    <2>2. ASSUME NEW op \in MatcherOps, matchers' = matchers \cup {Says(op)} PROVE Writable'
      <3>1. Says(op).op = op /\ Says(op).values = {p.value}
        OBVIOUS
      <3>2. IsFiniteSet({p.value})
        BY FS_Singleton
      <3> QED BY <1>1, <1>2, <1>3, <2>2, <3>1, <3>2, WritableMatcher
    <2>3. \/ matchers' = matchers
          \/ \E op \in MatcherOps : matchers' = matchers \cup {Says(op)}
      BY DEF TryLabel, MatcherOps
    <2> QED BY <2>1, <2>2, <2>3
  <1> QED BY <1>1, <1>2, <1>4, WalkTextStep

LEMMA ListText ==
    ASSUME QueryInv, NEW p \in filters, TryInList(p) PROVE QueryInv'
PROOF
  <1> DEFINE values == p.values
             V == Alternatives(values)
             m == [op |-> "RE", values |-> V]
  <1>1. /\ p.kind = "in" /\ Walk(p) /\ residuals' = residuals
        /\ UNCHANGED <<lineFilters, pushedStart, pushedEnd>>
        /\ matchers' = matchers \cup {m}
    BY DEF TryInList
  <1>2. pushedStart' \in Ns /\ pushedEnd' \in Ns /\ Writable
    BY <1>1 DEF QueryInv
  <1>3. values \in Seq(DOMAIN Spelling)
    BY <1>1, TextAssumption DEF QueryInv
  <1> HIDE DEF values
  <1>4. /\ Len(values) \in Nat /\ DOMAIN values = 1 .. Len(values)
        /\ \A i \in 1 .. Len(values) : values[i] \in DOMAIN Spelling
    BY <1>3, LenProperties
  <1>5. V \subseteq DOMAIN Spelling
    BY <1>4 DEF Alternatives
  <1>6. IsFiniteSet(V)
    <2> DEFINE I == {j \in DOMAIN values :
                        (\A k \in 1 .. j : values[k] = "") => \A k \in DOMAIN values : values[k] = ""}
               value == [i \in I |-> values[i]]
    <2>1. I \in SUBSET (1 .. Len(values))
      BY <1>4
    <2>2. IsFiniteSet(I)
      <3>1. IsFiniteSet(1 .. Len(values))
        BY <1>4, FS_Interval
      <3> HIDE DEF I
      <3> QED BY <2>1, <3>1, FS_Subset
    <2>3. value \in Surjection(I, V)
      BY DEF Alternatives, Surjection
    <2> HIDE DEF I, value, V
    <2> QED BY <2>2, <2>3, FS_Surjection
  <1>7. m.op \in MatcherOps /\ m.values = V
    BY DEF MatcherOps
  <1> HIDE DEF m, V
  <1>8. Writable'
    BY <1>1, <1>2, <1>5, <1>6, <1>7, WritableMatcher
  <1> QED BY <1>1, <1>2, <1>8, WalkTextStep

LEMMA FunctionText ==
    ASSUME QueryInv, NEW p \in filters, TryFunction(p) PROVE QueryInv'
PROOF
  <1>1. /\ Walk(p) /\ UNCHANGED <<matchers, pushedStart, pushedEnd>>
        /\ residuals' = residuals \/ Keep(p)
        /\ lineFilters' = lineFilters \/ lineFilters' = lineFilters \cup {LineFilter(p)}
    BY DEF TryFunction
  <1>2. pushedStart' \in Ns /\ pushedEnd' \in Ns /\ Writable
    BY <1>1 DEF QueryInv
  <1>3. LineFilter(p).op \in FilterOps
    BY DEF LineFilter, NegateLineOp, FilterOps
  <1>4. Writable'
    BY <1>1, <1>2, <1>3, WritableFilter, WritableFrame
  <1> QED BY <1>1, <1>2, <1>4, WalkTextStep

LEMMA OtherText ==
    ASSUME QueryInv, NEW p \in filters, KeepOther(p) PROVE QueryInv'
PROOF
  <1>1. Walk(p) /\ Keep(p) /\ UNCHANGED <<matchers, lineFilters, pushedStart, pushedEnd>>
    BY DEF KeepOther
  <1>2. pushedStart' \in Ns /\ pushedEnd' \in Ns /\ Writable
    BY <1>1 DEF QueryInv
  <1> QED BY <1>1, <1>2, WritableFrame, WalkTextStep

\* The text is written once, when the walk is over; after that nothing changes it.
LEMMA PhaseText ==
    ASSUME QueryInv, LokiBind \/ Refuse \/ InitGlobal \/ UNCHANGED vars PROVE QueryInv'
PROOF
  <1>1. UNCHANGED <<call, where, filters, residuals, matchers, lineFilters, pushedStart, pushedEnd>>
    BY DEF LokiBind, Refuse, InitGlobal, vars, pushed
  <1>2. Query' = Query
    BY <1>1 DEF Query, MatcherTexts, FilterTexts
  <1>3. Writable'
    BY <1>1, WritableFrame DEF QueryInv
  <1>4. Window \in [start : Ns, end : Ns]
    <2>1. /\ pushedStart \in Ns /\ pushedEnd \in Ns /\ DefaultStart \in Ns /\ DefaultEnd \in Ns
          /\ call \in Call
      BY DEF QueryInv, Ns
    <2>2. (call.start = None \/ call.start \in Ns) /\ (call.end = None \/ call.end \in Ns)
      <3>1. {call.start, call.end} \subseteq MinNs - 1 .. MaxNs
        BY <2>1, CallAssumption
      <3> QED BY <3>1 DEF None, Ns
    <2> QED BY <2>1, <2>2 DEF Window, Larger, Smaller
  <1>5. CASE InitGlobal
    <2>1. phase' = "scanning" /\ query' = Query /\ window' = Window
      BY <1>5 DEF InitGlobal
    <2> QED BY <1>1, <1>2, <1>3, <1>4, <2>1 DEF QueryInv
  <1>6. CASE LokiBind \/ Refuse
    <2>1. /\ phase \notin {"scanning"} /\ phase' \in {"pushdown", "refused"}
          /\ query' = query /\ window' = window
      BY <1>6 DEF LokiBind, Refuse, request
    <2> QED BY <1>1, <1>3, <2>1 DEF QueryInv
  <1>7. CASE UNCHANGED vars
    <2>1. phase' = phase /\ query' = query /\ window' = window
      BY <1>7 DEF vars, request
    <2> QED BY <1>1, <1>2, <1>3, <2>1 DEF QueryInv
  <1> QED BY <1>5, <1>6, <1>7

LEMMA QueryInvariance == Spec => []QueryInv
PROOF
  <1>1. QueryInv /\ [Next]_vars => QueryInv'
    <2> SUFFICES ASSUME QueryInv, [Next]_vars PROVE QueryInv'
      OBVIOUS
    <2>1. ASSUME NEW p \in filters, Try(p) PROVE QueryInv'
      BY <2>1, TimestampText, LabelText, ListText, FunctionText, OtherText DEF Try
    <2> QED BY <2>1, PhaseText DEF Next
  <1> QED BY <1>1, QueryInit, PTL DEF Spec

\* The state has its types, whatever the predicates: what is pushed names operators
\* Loki has, the window stays within int64_t, and the query is a text.
THEOREM TypeCorrect == Spec => []TypeOK
PROOF
  <1>1. QueryInv => TypeOK
    <2> SUFFICES ASSUME QueryInv PROVE TypeOK
      OBVIOUS
    <2>1. call.selector \in Seq(Token)
      BY TextAssumption DEF QueryInv
    <2>2. {OpeningBrace, ClosingBrace, Separator, Blank} \subseteq Token
      BY TextAssumption
    <2>3. MatcherTexts \in Seq(Seq(Token)) /\ FilterTexts \in Seq(Seq(Token))
      BY PushedTextTypes DEF QueryInv
    <2>4. Query \in Seq(Token)
      BY <2>1, <2>2, <2>3, QueryTypes DEF Query
    <2>5. query \in Seq(Token)
      BY <2>4, EmptySeq DEF QueryInv
    <2> QED BY <2>5 DEF QueryInv, Writable, MatcherOps, FilterOps, TypeOK
  <1> QED BY <1>1, QueryInvariance, PTL

\* Whatever is pushed, the matchers and the pipeline of the user's selector reach Loki
\* as written, as long as no pipeline of a call has a closing brace: for those that
\* have one, also in a string, PushdownPipeline shows that they do not.
THEOREM SelectorIsKept ==
    ASSUME \A c \in Call : WellFormed(c.selector) => PlainPipeline(Trim(c.selector))
    PROVE  Spec => []KeepsSelector
PROOF
  <1>1. QueryInv => KeepsSelector
    <2> SUFFICES ASSUME QueryInv, phase = "scanning", WellFormed(call.selector)
                 PROVE  LET written == Trim(call.selector)
                        IN /\ WellFormed(query)
                           /\ MatchersOf(query) = Ink(Listed(MatchersOf(written), MatcherTexts))
                           /\ PipelineOf(query) = PipelineOf(written) \o Ink(Piped(FilterTexts))
      BY DEF KeepsSelector
    <2>1. call.selector \in Seq(Token)
      BY TextAssumption DEF QueryInv
    <2>2. PlainPipeline(Trim(call.selector))
      BY DEF QueryInv
    <2>3. {OpeningBrace, ClosingBrace, Separator, Blank} \subseteq Token
      BY TextAssumption
    <2>4. MatcherTexts \in Seq(CleanTexts(Token)) /\ FilterTexts \in Seq(Closed(Token))
      BY PushedTexts DEF QueryInv
    <2>5. query = BuildSelectorQuery(call.selector, MatcherTexts, FilterTexts)
      BY DEF QueryInv, Query
    <2> QED BY <2>1, <2>2, <2>3, <2>4, <2>5, WrittenIsKept
  <1> QED BY <1>1, QueryInvariance, PTL

-----------------------------------------------------------------------------
(* Which scans are refused.                                                *)

\* The scan is refused for its text, if not for what is before the brace.
Decided ==
    /\ phase = "scanning" => ~StartsEmpty(Query)
    /\ phase = "refused" /\ SelectorPrefixBeforeBrace(call.selector) = <<>> => StartsEmpty(Query)

LEMMA DecidedInvariance == Spec => []Decided
PROOF
  <1>1. Init => Decided
    BY DEF Init, Decided
  <1>2. Decided /\ [Next]_vars => Decided'
    <2> SUFFICES ASSUME Decided, [Next]_vars PROVE Decided'
      OBVIOUS
    <2>1. ASSUME NEW p \in filters, Try(p) PROVE Decided'
      <3>1. phase = "pushdown" /\ phase' = phase
        BY <2>1 DEF Try, TryTimestamp, TryLabel, TryInList, TryFunction, KeepOther, Walk
      <3> QED BY <3>1 DEF Decided
    <2>2. ASSUME UNCHANGED <<call, matchers, lineFilters>> PROVE Query' = Query /\ call' = call
      BY <2>2 DEF Query, MatcherTexts, FilterTexts
    <2>3. CASE LokiBind
      BY <2>3 DEF LokiBind, Decided
    <2>4. CASE Refuse
      <3>1. StartsEmpty(Query) /\ phase' = "refused" /\ UNCHANGED <<call, matchers, lineFilters>>
        BY <2>4 DEF Refuse, pushed
      <3> QED BY <2>2, <3>1 DEF Decided
    <2>5. CASE InitGlobal
      <3>1. ~StartsEmpty(Query) /\ phase' = "scanning" /\ UNCHANGED <<call, matchers, lineFilters>>
        BY <2>5 DEF InitGlobal, pushed
      <3> QED BY <2>2, <3>1 DEF Decided
    <2>6. CASE UNCHANGED vars
      <3>1. phase' = phase /\ UNCHANGED <<call, matchers, lineFilters>>
        BY <2>6 DEF vars, pushed
      <3> QED BY <2>2, <3>1 DEF Decided
    <2> QED BY <2>1, <2>3, <2>4, <2>5, <2>6 DEF Next
  <1> QED BY <1>1, <1>2, PTL DEF Spec

\* There is a text of each matcher, and it does not begin with a brace.
LEMMA MatcherTextsBegin ==
    ASSUME Writable
    PROVE  /\ MatcherTexts = <<>> <=> matchers = {}
           /\ \A i \in 1 .. Len(MatcherTexts) : Begins(MatcherTexts[i])
PROOF
  <1> DEFINE ms == SetToSeq(matchers)
             n == Cardinality(matchers)
  <1>1. ms \in Seq(matchers) /\ MatcherTexts \in Seq(CleanTexts(Token))
    BY SetToSeqTypes, PushedTexts DEF Writable
  <1>2. MatcherTexts = [i \in DOMAIN ms |-> MatcherToString(ms[i])]
    BY DEF MatcherTexts
  <1>3. ms = <<>> <=> matchers = {}
    <2>1. matchers = {} => ms = <<>>
      <3> HIDE DEF ms
      <3>1. Len(ms) \in Nat /\ \A i \in 1 .. Len(ms) : ms[i] \in matchers
        BY <1>1, LenProperties
      <3>2. matchers = {} => Len(ms) = 0
        <4>1. Len(ms) # 0 => 1 \in 1 .. Len(ms)
          BY <3>1
        <4> QED BY <3>1, <4>1
      <3> QED BY <1>1, <3>2, EmptySeq
    <2>2. matchers # {} => ms # <<>>
      <3>1. IsFiniteSet(matchers)
        BY DEF Writable
      <3>2. Len(ms) = n /\ n \in Nat
        BY <3>1, SetToSeqTypes
      <3>3. n = 0 <=> matchers = {}
        BY <3>1, FS_EmptySet
      <3> HIDE DEF ms, n
      <3> QED BY <3>2, <3>3
    <2> QED BY <2>1, <2>2
  <1> HIDE DEF ms
  <1>4. DOMAIN ms = 1 .. Len(ms) /\ Len(ms) \in Nat
    BY <1>1, LenProperties
  <1>5. Len(MatcherTexts) = Len(ms)
    <2>1. DOMAIN MatcherTexts = 1 .. Len(ms)
      BY <1>2, <1>4
    <2>2. DOMAIN MatcherTexts = 1 .. Len(MatcherTexts) /\ Len(MatcherTexts) \in Nat
      BY <1>1, LenProperties
    <2> HIDE DEF MatcherTexts
    <2> QED BY <1>4, <2>1, <2>2
  <1>6. MatcherTexts = <<>> <=> matchers = {}
    BY <1>1, <1>3, <1>5, EmptySeq
  <1>7. ASSUME NEW i \in 1 .. Len(MatcherTexts) PROVE Begins(MatcherTexts[i])
    <2> DEFINE m == ms[i]
               name == <<"label", m.op>>
               value == Quoted(FlattenSeq(SetToSeq({Spelling[v] : v \in m.values})))
    <2>1. i \in 1 .. Len(ms)
      BY <1>5, <1>7
    <2>2. m \in matchers
      BY <1>1, <2>1, LenProperties
    <2>3. MatcherTexts[i] = MatcherToString(m)
      BY <1>2, <1>4, <2>1
    <2> HIDE DEF m
    <2>4. MatcherToString(m) \in CleanTexts(Token)
      BY <2>2, MatcherIsClean DEF Writable
    <2>5. MatcherToString(m) = name \o value
      BY DEF MatcherToString
    <2>6. value \in Seq(Token) /\ name \in Seq(Token)
      <3>1. IsFiniteSet(m.values) /\ m.values \subseteq DOMAIN Spelling /\ m.op \in MatcherOps
        BY <2>2 DEF Writable
      <3>2. value \in CleanTexts(Token)
        BY <3>1, MatcherValue
      <3>3. {"label", m.op} \subseteq Token
        BY <3>1, TextAssumption DEF MatcherOps
      <3>4. value \in Seq(Token)
        <4> HIDE DEF value
        <4> QED BY <3>2, CleanIsClosed
      <3>5. name \in Seq(Token)
        BY <3>3
      <3> QED BY <3>4, <3>5
    <2>7. Len(name) = 2 /\ name[1] = "label"
      OBVIOUS
    <2> HIDE DEF name, value
    <2>8. /\ Len(name \o value) = Len(name) + Len(value) /\ Len(value) \in Nat
          /\ \A j \in 1 .. Len(name) + Len(value) :
                (name \o value)[j] = IF j <= Len(name) THEN name[j] ELSE value[j - Len(name)]
      BY <2>6, ConcatProperties, LenProperties
    <2>9. (name \o value)[1] = "label" /\ Len(name \o value) # 0
      BY <2>7, <2>8
    <2>10. "label" # ClosingBrace
      BY DEF ClosingBrace
    <2> QED BY <2>3, <2>5, <2>9, <2>10, EmptySeq DEF Begins
  <1> QED BY <1>6, <1>7

\* A scan is refused exactly if it has no selector and no matcher, whatever is pushed.
\* Left out are selectors that what is between their braces would close at once, such
\* as {}}, which no grammar accepts.
THEOREM RefusedForSelector ==
    ASSUME \A c \in Call : Inner(Trim(c.selector)) # <<>> => Begins(Inner(Trim(c.selector)))
    PROVE  Spec => []SelectorRequired
PROOF
  <1>1. QueryInv /\ Decided => SelectorRequired
    <2> SUFFICES ASSUME QueryInv, Decided PROVE SelectorRequired
      OBVIOUS
    <2>1. call.selector \in Seq(Token) /\ Writable
      BY TextAssumption DEF QueryInv
    <2>2. Inner(Trim(call.selector)) # <<>> => Begins(Inner(Trim(call.selector)))
      BY DEF QueryInv
    <2>3. {OpeningBrace, ClosingBrace, Separator, Blank} \subseteq Token
      BY TextAssumption
    <2>4. MatcherTexts \in Seq(Seq(Token)) /\ FilterTexts \in Seq(Seq(Token))
      BY <2>1, PushedTextTypes
    <2>5. /\ MatcherTexts = <<>> <=> matchers = {}
          /\ \A i \in 1 .. Len(MatcherTexts) : Begins(MatcherTexts[i])
      BY <2>1, MatcherTextsBegin
    <2>6. StartsEmpty(Query) <=> Inner(Trim(call.selector)) = <<>> /\ MatcherTexts = <<>>
      BY <2>1, <2>2, <2>3, <2>4, <2>5, BareQuery DEF StartsEmpty, Query
    <2> QED BY <2>5, <2>6 DEF Decided, SelectorRequired
  <1> QED BY <1>1, QueryInvariance, DecidedInvariance, PTL

\* What a matcher of an equality or of a list accepts is not empty.
MatchersSelect == \A m \in matchers : m.op # "NEQ" /\ "" \notin m.values

NoExclusions == \A p \in Predicate : p.kind = "label" => p.op # "!="

LEMMA ListValues ==
    ASSUME NEW p, p.kind = "in", SafeList(p) PROVE "" \notin Alternatives(p.values)
PROOF
  <1>1. \E k \in DOMAIN p.values : p.values[k] # ""
    BY DEF SafeList
  <1>2. ASSUME NEW j \in DOMAIN p.values, p.values[j] = ""
        PROVE  \A k \in 1 .. j : p.values[k] = ""
    BY <1>2 DEF SafeList
  <1> QED BY <1>1, <1>2 DEF Alternatives

LEMMA SelectInvariance == ASSUME AllSafe, NoExclusions PROVE Spec => []MatchersSelect
PROOF
  <1>1. Init => MatchersSelect
    BY DEF Init, MatchersSelect
  <1>2. QueryInv /\ MatchersSelect /\ [Next]_vars => MatchersSelect'
    <2> SUFFICES ASSUME QueryInv, MatchersSelect, [Next]_vars PROVE MatchersSelect'
      OBVIOUS
    <2>0. ASSUME NEW m, m.op # "NEQ", "" \notin m.values, matchers' = matchers \cup {m}
          PROVE  MatchersSelect'
      BY <2>0 DEF MatchersSelect
    <2>1. ASSUME NEW p \in filters, TryLabel(p) PROVE MatchersSelect'
      <3> DEFINE equal == [op |-> "EQ", values |-> {p.value}]
      <3>1. p.kind = "label" /\ p.op # "!=" /\ SafeLabel(p)
        BY <2>1 DEF TryLabel, OnColumn, QueryInv, NoExclusions, AllSafe, Safe
      <3>2. \/ matchers' = matchers
            \/ matchers' = matchers \cup {equal} /\ p.value # ""
        BY <2>1, <3>1 DEF TryLabel, SafeLabel
      <3>3. equal.op # "NEQ" /\ (p.value # "" => "" \notin equal.values)
        OBVIOUS
      <3>4. matchers' = matchers => MatchersSelect'
        BY DEF MatchersSelect
      <3> HIDE DEF equal
      <3> QED BY <2>0, <3>2, <3>3, <3>4
    <2>2. ASSUME NEW p \in filters, TryInList(p) PROVE MatchersSelect'
      <3> DEFINE list == [op |-> "RE", values |-> Alternatives(p.values)]
      <3>1. p.kind = "in" /\ SafeList(p)
        BY <2>2 DEF TryInList, QueryInv, AllSafe, Safe
      <3>2. matchers' = matchers \cup {list}
        BY <2>2 DEF TryInList
      <3>3. list.op # "NEQ" /\ "" \notin list.values
        BY <3>1, ListValues
      <3> HIDE DEF list
      <3> QED BY <2>0, <3>2, <3>3
    <2>3. ASSUME NEW p \in filters, TryTimestamp(p) \/ TryFunction(p) \/ KeepOther(p)
          PROVE  MatchersSelect'
      <3>1. matchers' = matchers
        BY <2>3 DEF TryTimestamp, TryFunction, KeepOther
      <3> QED BY <3>1 DEF MatchersSelect
    <2>4. CASE LokiBind \/ Refuse \/ InitGlobal \/ UNCHANGED vars
      <3>1. matchers' = matchers
        BY <2>4 DEF LokiBind, Refuse, InitGlobal, vars, pushed
      <3> QED BY <3>1 DEF MatchersSelect
    <2> QED BY <2>1, <2>2, <2>3, <2>4 DEF Next, Try
  <1> QED BY <1>1, <1>2, QueryInvariance, PTL DEF Spec

\* Loki accepts every query that is sent, as long as no WHERE clause excludes the value
\* of a label: PushdownSelector shows what is sent if that is all it does.
THEOREM AcceptedIfNothingExcluded ==
    ASSUME AllSafe, NoExclusions,
           \A c \in Call : Inner(Trim(c.selector)) # <<>> => Begins(Inner(Trim(c.selector)))
    PROVE  Spec => []SentOnlyIfAccepted
PROOF
  <1>1. SelectorRequired /\ MatchersSelect => SentOnlyIfAccepted
    <2> SUFFICES ASSUME SelectorRequired, MatchersSelect, phase = "scanning",
                        Inner(Trim(call.selector)) = <<>>
                 PROVE  \E m \in matchers : ~Matches(m, Missing)
      BY DEF SentOnlyIfAccepted, Accepted
    <2>1. PICK m \in matchers : TRUE
      BY DEF SelectorRequired
    <2>2. ~Matches(m, Missing)
      BY <2>1 DEF MatchersSelect, Matches, Text
    <2> QED BY <2>2
  <1> QED BY <1>1, RefusedForSelector, SelectInvariance, PTL
=============================================================================
