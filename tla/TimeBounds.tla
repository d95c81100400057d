----------------------------- MODULE TimeBounds -----------------------------
(***************************************************************************)
(* Checked nanosecond arithmetic (src/loki/time_bounds.cpp) and its two    *)
(* uses: a `start :=` / `end :=` bound given as an INTERVAL from now or as *)
(* an instant (connection.cpp, ResolveTimeBound), and the duration string  *)
(* of the ATTACH option label_cache_ttl (ParseDurationToNanos), read digit *)
(* by digit.  The integers are those of a two's complement word.           *)
(***************************************************************************)
EXTENDS Integers, Sequences

CONSTANTS
    MaxNs,          \* the largest int64_t
    NanosPerDay,    \* IntervalToNanos's two factors
    NanosPerMicro,
    Radix,          \* 10
    Bound,          \* [months, days, micros] from now, or [at] in microseconds
    Now,            \* instants the clock may show
    Duration,       \* [digits, unit]: a duration string, "" for no unit
    UnitMap,        \* nanoseconds of "ms", "s", "m", "h" and "d"
    Pending,        \* no outcome yet
    Rejected        \* an error is thrown

ASSUME WordAssumption == MaxNs \in Nat /\ Now \subseteq (0 - MaxNs - 1) .. MaxNs

MinNs == 0 - MaxNs - 1
Word == MinNs .. MaxNs

ASSUME FactorAssumption ==
    /\ {NanosPerDay, NanosPerMicro, Radix} \subseteq 1 .. MaxNs
    /\ UnitMap \in [{"ms", "s", "m", "h", "d"} -> 1 .. MaxNs]

\* DuckDB's intervals and instants are int64_t as well; a digit is below the radix.
ASSUME InputAssumption ==
    /\ \A b \in Bound :
          IF "at" \in DOMAIN b THEN b.at \in Word
          ELSE b.months \in Int /\ b.days \in Word /\ b.micros \in Word
    /\ \A d \in Duration : d.digits \in Seq(0 .. Radix - 1)

ASSUME OutcomeAssumption == Pending \notin Word /\ Rejected \notin Word /\ Pending # Rejected

VARIABLES
    input,      \* an interval bound and now, or a duration string
    value,      \* ParseDurationToNanos's accumulator
    read,       \* digits it has consumed
    outcome     \* a number of nanoseconds, Pending or Rejected

vars == <<input, value, read, outcome>>

-----------------------------------------------------------------------------
\* Mutated form of Quotient: rounded down.
QuotientFloor(a, b) == IF b > 0 THEN a \div b ELSE (0 - a) \div (0 - b)

\* C++ division rounds towards zero.
Quotient(a, b) ==
    LET size == (IF a < 0 THEN 0 - a ELSE a) \div (IF b < 0 THEN 0 - b ELSE b)
    IN IF (a < 0) = (b < 0) THEN size ELSE 0 - size

TryAddNanos(left, right) ==
    /\ right > 0 => left <= MaxNs - right
    /\ right < 0 => left >= MinNs - right

\* Mutated form of TryMultiplyNanos: only the factors' signs are looked at.
TryMultiplyUnchecked(left, right) == left >= 0 \/ right >= 0

TryMultiplyNanos(left, right) ==
    \/ left = 0 \/ right = 0
    \/ left = -1 /\ right # MinNs
    \/ left # -1 /\ right = -1 /\ left # MinNs
    \/ left > 0 /\ right > 0 /\ left <= Quotient(MaxNs, right)
    \/ left > 0 /\ right < -1 /\ right >= Quotient(MinNs, left)
    \/ left < -1 /\ right > 0 /\ left >= Quotient(MinNs, right)
    \/ left < -1 /\ right < -1 /\ left >= Quotient(MaxNs, right)

\* IntervalToNanos
IntervalFits(i) ==
    /\ i.months = 0
    /\ TryMultiplyNanos(i.days, NanosPerDay)
    /\ TryMultiplyNanos(i.micros, NanosPerMicro)
    /\ TryAddNanos(i.days * NanosPerDay, i.micros * NanosPerMicro)

Offset(i) == i.days * NanosPerDay + i.micros * NanosPerMicro

IsInstant(bound) == "at" \in DOMAIN bound

\* Mutated form of Resolved: the sum with the clock is not checked.
ResolvedUnchecked(bound, now) ==
    IF IsInstant(bound) THEN bound.at * NanosPerMicro
    ELSE IF IntervalFits(bound) THEN now + Offset(bound) ELSE Rejected

\* An instant is scaled to nanoseconds, an interval added to the clock.
Resolved(bound, now) ==
    IF IsInstant(bound)
      THEN IF bound.at * NanosPerMicro \in Word THEN bound.at * NanosPerMicro ELSE Rejected
      ELSE IF IntervalFits(bound) /\ TryAddNanos(now, Offset(bound))
             THEN now + Offset(bound) ELSE Rejected

ResolveTimeBound ==
    /\ outcome = Pending
    /\ input.kind = "bound"
    /\ outcome' = Resolved(input.bound, input.now)
    /\ UNCHANGED <<input, value, read>>

-----------------------------------------------------------------------------
\* Mutated form of UnitNanos: a bare number is milliseconds.
UnitNanosBare(unit) == IF unit = "" THEN UnitMap["ms"] ELSE UnitMap[unit]

\* A bare number is seconds.
UnitNanos(unit) == IF unit = "" THEN UnitMap["s"] ELSE UnitMap[unit]

Malformed(text) == text.digits = <<>> \/ text.unit \notin DOMAIN UnitMap \cup {""}

Parsing == outcome = Pending /\ input.kind = "duration"

Refuse ==
    /\ Parsing
    /\ Malformed(input.text)
    /\ outcome' = Rejected
    /\ UNCHANGED <<input, value, read>>

ReadDigit ==
    /\ Parsing
    /\ ~Malformed(input.text)
    /\ read < Len(input.text.digits)
    /\ LET digit == input.text.digits[read + 1]
       IN IF TryMultiplyNanos(value, Radix) /\ TryAddNanos(value * Radix, digit)
            THEN /\ value' = value * Radix + digit
                 /\ read' = read + 1
                 /\ UNCHANGED outcome
            ELSE outcome' = Rejected /\ UNCHANGED <<value, read>>
    /\ UNCHANGED input

Scale ==
    /\ Parsing
    /\ ~Malformed(input.text)
    /\ read = Len(input.text.digits)
    /\ LET unit == UnitNanos(input.text.unit)
       IN outcome' = IF TryMultiplyNanos(value, unit) THEN value * unit ELSE Rejected
    /\ UNCHANGED <<input, value, read>>

Init ==
    /\ input \in [kind : {"bound"}, bound : Bound, now : Now]
                    \cup [kind : {"duration"}, text : Duration]
    /\ value = 0
    /\ read = 0
    /\ outcome = Pending

Next == ResolveTimeBound \/ Refuse \/ ReadDigit \/ Scale

Spec == Init /\ [][Next]_vars

-----------------------------------------------------------------------------
(* Properties.                                                             *)

\* No intermediate value and no result leaves the word: signed overflow, which
\* is undefined behaviour, never happens.
TypeOK == value \in Word /\ read \in Nat /\ outcome \in Word \cup {Pending, Rejected}

\* The numbers that the beginnings of a digit string stand for.
Numbers(digits) ==
    LET number[i \in 0 .. Len(digits)] ==
            IF i = 0 THEN 0 ELSE number[i - 1] * Radix + digits[i]
    IN number

Number(digits) == Numbers(digits)[Len(digits)]

\* What the user wrote, in unbounded arithmetic; a bare number is seconds.
Meaning ==
    IF input.kind = "bound"
      THEN IF IsInstant(input.bound) THEN input.bound.at * NanosPerMicro
           ELSE input.now + (input.bound.days * NanosPerDay + input.bound.micros * NanosPerMicro)
      ELSE Number(input.text.digits)
             * (IF input.text.unit = "" THEN UnitMap["s"] ELSE UnitMap[input.text.unit])

\* An accepted bound or duration is the exact number the user wrote, never a
\* wrapped one that would invert the query window.
Exact == outcome \notin {Pending, Rejected} => outcome = Meaning

\* A bound is rejected exactly when it is malformed, calendar-dependent, or needs
\* a number, also an intermediate one, that no int64_t can hold; the largest and
\* the smallest representable bounds are accepted.
RejectedForCause ==
    outcome # Pending =>
        (outcome = Rejected <=>
            IF input.kind = "bound"
              THEN IF IsInstant(input.bound) THEN Meaning \notin Word
                   ELSE \/ input.bound.months # 0
                        \/ ~({input.bound.days * NanosPerDay, input.bound.micros * NanosPerMicro,
                              Offset(input.bound), Meaning} \subseteq Word)
              ELSE Malformed(input.text) \/ Meaning \notin Word)
=============================================================================
