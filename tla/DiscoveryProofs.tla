-------------------------- MODULE DiscoveryProofs ---------------------------
(***************************************************************************)
(* Proofs about TimeBounds and Discovery: the overflow checks are exact    *)
(* for words of any size, a duration of any length is read without         *)
(* overflow, and a discovery returns one whole answer.                     *)
(***************************************************************************)
EXTENDS Discovery, CollectionProofs

USE WordAssumption DEF Word, MinNs

-----------------------------------------------------------------------------
(* The checks of the arithmetic.                                           *)

\* A quotient of naturals bounds a factor of a product.
LEMMA DivisionBounds ==
    ASSUME NEW n \in Nat, NEW y \in Nat \ {0}, NEW x \in Nat
    PROVE  n \div y \in Nat /\ (x <= n \div y <=> x * y <= n)
PROOF
  <1> DEFINE q == n \div y
  <1>1. q \in Nat
    OBVIOUS
  <1>2. y * q <= n /\ n < y * q + y
    <2>1. n = y * q + (n % y) /\ n % y \in 0 .. y - 1
      OBVIOUS
    <2> HIDE DEF q
    <2>2. y * q \in Int /\ n % y \in Int
      BY <1>1, <2>1
    <2> QED BY <2>1, <2>2
  <1> HIDE DEF q
  <1>3. ASSUME x <= q PROVE x * y <= n
    <2>1. x * y <= y * q
      BY <1>1, <1>3
    <2> QED BY <1>1, <1>2, <2>1
  <1>4. ASSUME x > q PROVE x * y > n
    <2>1. x * y >= (q + 1) * y
      BY <1>1, <1>4
    <2>2. (q + 1) * y = y * q + y
      BY <1>1
    <2> QED BY <1>1, <1>2, <2>1, <2>2
  <1>5. q \in Nat /\ (x <= q <=> x * y <= n)
    BY <1>1, <1>3, <1>4
  <1> QED BY <1>5 DEF q

LEMMA AdditionFits ==
    ASSUME NEW left \in Word, NEW right \in Word
    PROVE  TryAddNanos(left, right) <=> left + right \in Word
  BY DEF TryAddNanos

\* The comparisons with C++ quotients are exact in every combination of signs, so
\* also at the two ends of the word, where a negation or a quotient overflows.
LEMMA MultiplicationFits ==
    ASSUME NEW left \in Word, NEW right \in Word
    PROVE  TryMultiplyNanos(left, right) <=> left * right \in Word
PROOF
  <1>1. MaxNs \in Nat /\ MaxNs + 1 \in Nat /\ left \in Int /\ right \in Int
    OBVIOUS
  <1>2. CASE left = 0 \/ right = 0
    BY <1>2 DEF TryMultiplyNanos
  <1>3. CASE left = -1
    <2>1. left * right = 0 - right
      BY <1>3
    <2> QED BY <1>1, <1>3, <2>1 DEF TryMultiplyNanos
  <1>4. CASE left # -1 /\ right = -1
    <2>1. left * right = 0 - left
      BY <1>4
    <2> QED BY <1>1, <1>4, <2>1 DEF TryMultiplyNanos
  <1>5. CASE left > 0 /\ right > 0
    <2>1. Quotient(MaxNs, right) = MaxNs \div right
      BY <1>1, <1>5 DEF Quotient
    <2>2. left <= MaxNs \div right <=> left * right <= MaxNs
      BY <1>1, <1>5, DivisionBounds
    <2>3. left * right >= 0 /\ left * right \in Int
      BY <1>1, <1>5
    <2>4. TryMultiplyNanos(left, right) <=> left <= MaxNs \div right
      BY <1>1, <1>5, <2>1 DEF TryMultiplyNanos
    <2> QED BY <2>2, <2>3, <2>4
  <1>6. CASE left > 0 /\ right < -1
    <2> DEFINE q == (MaxNs + 1) \div left
    <2>1. Quotient(MinNs, left) = 0 - q
      BY <1>1, <1>6 DEF Quotient
    <2>2. q \in Nat /\ (0 - right <= q <=> (0 - right) * left <= MaxNs + 1)
      BY <1>1, <1>6, DivisionBounds
    <2>3. (0 - right) * left = 0 - left * right /\ left * right <= 0 /\ left * right \in Int
      BY <1>1, <1>6
    <2>4. TryMultiplyNanos(left, right) <=> right >= 0 - q
      BY <1>1, <1>6, <2>1 DEF TryMultiplyNanos
    <2> HIDE DEF q
    <2> QED BY <1>1, <2>2, <2>3, <2>4
  <1>7. CASE left < -1 /\ right > 0
    <2> DEFINE q == (MaxNs + 1) \div right
    <2>1. Quotient(MinNs, right) = 0 - q
      BY <1>1, <1>7 DEF Quotient
    <2>2. q \in Nat /\ (0 - left <= q <=> (0 - left) * right <= MaxNs + 1)
      BY <1>1, <1>7, DivisionBounds
    <2>3. (0 - left) * right = 0 - left * right /\ left * right <= 0 /\ left * right \in Int
      BY <1>1, <1>7
    <2>4. TryMultiplyNanos(left, right) <=> left >= 0 - q
      BY <1>1, <1>7, <2>1 DEF TryMultiplyNanos
    <2> HIDE DEF q
    <2> QED BY <1>1, <2>2, <2>3, <2>4
  <1>8. CASE left < -1 /\ right < -1
    <2> DEFINE q == MaxNs \div (0 - right)
    <2>1. Quotient(MaxNs, right) = 0 - q
      BY <1>1, <1>8 DEF Quotient
    <2>2. q \in Nat /\ (0 - left <= q <=> (0 - left) * (0 - right) <= MaxNs)
      BY <1>1, <1>8, DivisionBounds
    <2>3. (0 - left) * (0 - right) = left * right /\ left * right >= 0 /\ left * right \in Int
      BY <1>1, <1>8
    <2>4. TryMultiplyNanos(left, right) <=> left >= 0 - q
      BY <1>1, <1>8, <2>1 DEF TryMultiplyNanos
    <2> HIDE DEF q
    <2> QED BY <1>1, <2>2, <2>3, <2>4
  <1> QED BY <1>1, <1>2, <1>3, <1>4, <1>5, <1>6, <1>7, <1>8

-----------------------------------------------------------------------------
(* Digit strings.                                                          *)

Digits == Seq(0 .. Radix - 1)

\* Each further digit multiplies by the radix.
LEMMA NumbersGrow ==
    ASSUME NEW digits \in Digits
    PROVE  /\ Numbers(digits)[0] = 0
           /\ \A i \in 1 .. Len(digits) :
                 Numbers(digits)[i] = Numbers(digits)[i - 1] * Radix + digits[i]
PROOF
  <1> DEFINE size == Len(digits)
             Extends(g, n) ==
                 g[0] = 0 /\ \A i \in 1 .. n : i <= size => g[i] = g[i - 1] * Radix + digits[i]
             Built == {n \in Nat : \E g \in [0 .. n -> Int] : Extends(g, n)}
  <1>0. size \in Nat /\ Radix \in Int /\ \A i \in 1 .. size : digits[i] \in Int
    BY FactorAssumption DEF Digits
  <1>1. 0 \in Built
    <2>1. [i \in 0 .. 0 |-> 0] \in [0 .. 0 -> Int] /\ Extends([i \in 0 .. 0 |-> 0], 0)
      OBVIOUS
    <2> QED BY <2>1
  <1>2. ASSUME NEW n \in Nat, n \in Built PROVE n + 1 \in Built
    <2>1. PICK g \in [0 .. n -> Int] : Extends(g, n)
      BY <1>2
    <2> DEFINE next == IF n + 1 <= size THEN g[n] * Radix + digits[n + 1] ELSE 0
               h == [i \in 0 .. n + 1 |-> IF i = n + 1 THEN next ELSE g[i]]
    <2>2. next \in Int
      BY <1>0
    <2>3. h \in [0 .. n + 1 -> Int]
      BY <2>2
    <2>4. h[0] = 0
      BY <2>1
    <2>5. ASSUME NEW i \in 1 .. n + 1, i <= size PROVE h[i] = h[i - 1] * Radix + digits[i]
      <3>1. i - 1 \in 0 .. n /\ h[i - 1] = g[i - 1]
        OBVIOUS
      <3>2. CASE i = n + 1
        BY <2>5, <3>1, <3>2
      <3>3. CASE i # n + 1
        <4>1. i \in 1 .. n /\ h[i] = g[i]
          BY <3>3
        <4> QED BY <2>1, <2>5, <3>1, <4>1
      <3> QED BY <3>2, <3>3
    <2>6. Extends(h, n + 1)
      BY <2>4, <2>5
    <2> HIDE DEF h, Extends
    <2> QED BY <2>3, <2>6
  <1>3. size \in Built
    <2> HIDE DEF Built, size
    <2>1. Nat \subseteq Built
      BY <1>1, <1>2, NatSetInduction
    <2> QED BY <1>0, <2>1
  <1> DEFINE IsNumbers(g) ==
        g = [i \in 0 .. Len(digits) |-> IF i = 0 THEN 0 ELSE g[i - 1] * Radix + digits[i]]
  <1>4. \E g : IsNumbers(g)
    <2>1. PICK g \in [0 .. size -> Int] : Extends(g, size)
      BY <1>3
    <2>2. \A i \in 0 .. size : g[i] = IF i = 0 THEN 0 ELSE g[i - 1] * Radix + digits[i]
      BY <1>0, <2>1
    <2>3. IsNumbers(g)
      BY <2>2
    <2> QED BY <2>3
  <1>5. Numbers(digits) = CHOOSE g : IsNumbers(g)
    BY DEF Numbers
  <1>6. IsNumbers(Numbers(digits))
    BY <1>4, <1>5
  <1> QED BY <1>0, <1>6

LEMMA NumbersRise ==
    ASSUME NEW digits \in Digits
    PROVE  /\ \A i \in 0 .. Len(digits) : Numbers(digits)[i] \in Nat
           /\ \A i, j \in 0 .. Len(digits) : i <= j => Numbers(digits)[i] <= Numbers(digits)[j]
PROOF
  <1> DEFINE size == Len(digits)
             number == Numbers(digits)
  <1>1. /\ size \in Nat /\ Radix \in Nat /\ Radix >= 1
        /\ \A i \in 1 .. size : digits[i] \in Nat
    BY FactorAssumption DEF Digits
  <1>2. number[0] = 0 /\ \A i \in 1 .. size : number[i] = number[i - 1] * Radix + digits[i]
    BY NumbersGrow
  <1> HIDE DEF size, number
  <1>3. \A i \in 0 .. size : number[i] \in Nat
    <2> DEFINE T == {n \in Nat : n <= size => number[n] \in Nat}
    <2>1. 0 \in T
      BY <1>2
    <2>2. ASSUME NEW n \in Nat, n \in T, n + 1 <= size PROVE number[n + 1] \in Nat
      <3>1. number[n] \in Nat /\ n + 1 \in 1 .. size /\ (n + 1) - 1 = n
        BY <1>1, <2>2
      <3>2. number[n + 1] = number[n] * Radix + digits[n + 1] /\ digits[n + 1] \in Nat
        BY <1>1, <1>2, <3>1
      <3> QED BY <1>1, <3>1, <3>2
    <2>3. \A n \in Nat : n \in T => n + 1 \in T
      BY <2>2
    <2>4. Nat \subseteq T
      <3> HIDE DEF T
      <3> QED BY <2>1, <2>3, NatSetInduction
    <2> QED BY <1>1, <2>4
  <1>4. ASSUME NEW i \in 0 .. size, NEW j \in 0 .. size, i <= j PROVE number[i] <= number[j]
    <2> DEFINE T == {n \in Nat : i + n <= size => number[i] <= number[i + n]}
    <2>1. 0 \in T
      BY <1>3
    <2>2. ASSUME NEW n \in Nat, n \in T, i + (n + 1) <= size PROVE number[i] <= number[i + (n + 1)]
      <3>1. i + (n + 1) \in 1 .. size /\ (i + (n + 1)) - 1 = i + n /\ i + n \in 0 .. size
        BY <1>1, <2>2
      <3>2. number[i + (n + 1)] = number[i + n] * Radix + digits[i + (n + 1)]
        BY <1>2, <3>1
      <3>3. number[i + n] \in Nat /\ number[i] \in Nat /\ digits[i + (n + 1)] \in Nat
        BY <1>1, <1>3, <3>1
      <3>4. number[i + n] * Radix >= number[i + n]
        BY <1>1, <3>3
      <3>5. number[i] <= number[i + n]
        BY <2>2, <3>1
      <3>6. number[i + n] * Radix \in Nat
        BY <1>1, <3>3
      <3> QED BY <3>2, <3>3, <3>4, <3>5, <3>6
    <2>3. \A n \in Nat : n \in T => n + 1 \in T
      BY <2>2
    <2>4. Nat \subseteq T
      <3> HIDE DEF T
      <3> QED BY <2>1, <2>3, NatSetInduction
    <2>5. j - i \in Nat /\ i + (j - i) = j
      BY <1>1, <1>4
    <2> QED BY <1>1, <2>4, <2>5
  <1> QED BY <1>3, <1>4 DEF size, number

-----------------------------------------------------------------------------
(* Time bounds.                                                            *)

\* Why a bound has no answer: it is calendar-dependent, or needs a number that no
\* int64_t can hold.
OutOfRange(bound, now) ==
    IF IsInstant(bound) THEN bound.at * NanosPerMicro \notin Word
    ELSE \/ bound.months # 0
         \/ ~({bound.days * NanosPerDay, bound.micros * NanosPerMicro,
               Offset(bound), now + Offset(bound)} \subseteq Word)

\* The checks of an interval let exactly those through that fit.
LEMMA ResolvedExactly ==
    ASSUME NEW bound \in Bound, NEW now \in Word
    PROVE  /\ OutOfRange(bound, now) => Resolved(bound, now) = Rejected
           /\ ~OutOfRange(bound, now) =>
                 /\ Resolved(bound, now) \in Word
                 /\ Resolved(bound, now) = IF IsInstant(bound) THEN bound.at * NanosPerMicro
                                           ELSE now + Offset(bound)
PROOF
  <1>1. CASE IsInstant(bound)
    BY <1>1 DEF OutOfRange, Resolved
  <1>2. CASE ~IsInstant(bound)
    <2>1. /\ bound.days \in Word /\ bound.micros \in Word
          /\ NanosPerDay \in Word /\ NanosPerMicro \in Word
      BY <1>2, InputAssumption, FactorAssumption DEF IsInstant
    <2>2. /\ TryMultiplyNanos(bound.days, NanosPerDay) <=> bound.days * NanosPerDay \in Word
          /\ TryMultiplyNanos(bound.micros, NanosPerMicro) <=> bound.micros * NanosPerMicro \in Word
      BY <2>1, MultiplicationFits
    <2> DEFINE days == bound.days * NanosPerDay
               micros == bound.micros * NanosPerMicro
    <2>3. days \in Word /\ micros \in Word =>
              (TryAddNanos(days, micros) <=> Offset(bound) \in Word)
      <3> HIDE DEF days, micros
      <3>1. days \in Word /\ micros \in Word =>
                (TryAddNanos(days, micros) <=> days + micros \in Word)
        BY AdditionFits
      <3> QED BY <3>1 DEF Offset, days, micros
    <2>4. IntervalFits(bound) <=>
              /\ bound.months = 0
              /\ days \in Word /\ micros \in Word /\ Offset(bound) \in Word
      BY <2>2, <2>3 DEF IntervalFits
    <2>5. Offset(bound) \in Word => (TryAddNanos(now, Offset(bound)) <=> now + Offset(bound) \in Word)
      BY AdditionFits
    <2>6. OutOfRange(bound, now) <=> ~(IntervalFits(bound) /\ TryAddNanos(now, Offset(bound)))
      <3>1. OutOfRange(bound, now) <=>
                ~(/\ bound.months = 0
                  /\ days \in Word /\ micros \in Word /\ Offset(bound) \in Word
                  /\ now + Offset(bound) \in Word)
        BY <1>2 DEF OutOfRange
      <3> HIDE DEF days, micros
      <3> QED BY <2>4, <2>5, <3>1
    <2>7. Resolved(bound, now) = IF ~OutOfRange(bound, now) THEN now + Offset(bound) ELSE Rejected
      BY <1>2, <2>6 DEF Resolved
    <2>8. ~OutOfRange(bound, now) => now + Offset(bound) \in Word
      BY <1>2 DEF OutOfRange
    <2> QED BY <1>2, <2>7, <2>8
  <1> QED BY <1>1, <1>2

-----------------------------------------------------------------------------
(* The two resolutions as they proceed.                                    *)

BoundState ==
    /\ input.kind = "bound" /\ input.bound \in Bound /\ input.now \in Word
    /\ value = 0 /\ read = 0
    /\ outcome \in {Pending, Resolved(input.bound, input.now)}

\* What a duration must come to, whenever that is found out.
Verdict == IF Malformed(input.text) \/ Meaning \notin Word THEN Rejected ELSE Meaning

\* The digits read so far stand for the accumulated value.
DurationState ==
    /\ input.kind = "duration" /\ input.text \in Duration
    /\ read \in 0 .. Len(input.text.digits)
    /\ value \in Word
    /\ value = Numbers(input.text.digits)[read]
    /\ outcome \in {Pending, Verdict}

LookupState ==
    /\ input.kind = "discovery" /\ input \in Lookup
    /\ value = 0 /\ read = 0 /\ outcome = Pending

BoundsInv == BoundState \/ DurationState \/ LookupState

LEMMA BoundsInit == DiscoveryInit => BoundsInv
PROOF
  <1> SUFFICES ASSUME DiscoveryInit PROVE BoundsInv
    OBVIOUS
  <1>0. value = 0 /\ read = 0 /\ outcome = Pending
    BY DEF DiscoveryInit, Init
  <1>1. CASE input \in Lookup
    BY <1>0, <1>1, DiscoveryAssumption DEF BoundsInv, LookupState
  <1>2. CASE input \in [kind : {"bound"}, bound : Bound, now : Now]
    BY <1>0, <1>2 DEF BoundsInv, BoundState
  <1>3. CASE input \in [kind : {"duration"}, text : Duration]
    <2>1. input.text \in Duration /\ input.kind = "duration"
      BY <1>3
    <2>2. input.text.digits \in Digits
      BY <2>1, InputAssumption DEF Digits
    <2>3. Len(input.text.digits) \in Nat /\ Numbers(input.text.digits)[0] = 0
      BY <2>2, NumbersGrow DEF Digits
    <2>4. 0 \in Word /\ read \in 0 .. Len(input.text.digits)
      BY <1>0, <2>3
    <2> QED BY <1>0, <2>1, <2>3, <2>4 DEF BoundsInv, DurationState
  <1> QED BY <1>1, <1>2, <1>3 DEF DiscoveryInit, Init

\* An unread digit that does not fit dooms the whole duration.
LEMMA TooLongForWord ==
    ASSUME NEW digits \in Digits, NEW i \in 0 .. Len(digits), NEW unit \in 1 .. MaxNs,
           Numbers(digits)[i] \notin Word
    PROVE  Number(digits) * unit \notin Word
PROOF
  <1> DEFINE last == Numbers(digits)[Len(digits)]
             some == Numbers(digits)[i]
  <1>1. Len(digits) \in 0 .. Len(digits) /\ i <= Len(digits)
    BY DEF Digits
  <1>2. some \in Nat /\ last \in Nat /\ some <= last
    BY <1>1, NumbersRise
  <1>3. some > MaxNs
    <2>1. some \notin Word
      OBVIOUS
    <2> HIDE DEF some
    <2> QED BY <1>2, <2>1
  <1> HIDE DEF last, some
  <1>4. last * unit >= last /\ last * unit \in Int
    BY <1>2
  <1>5. last * unit \notin Word
    BY <1>2, <1>3, <1>4
  <1> QED BY <1>5 DEF last, Number

LEMMA WellFormed ==
    ASSUME DurationState, ~Malformed(input.text)
    PROVE  /\ UnitNanos(input.text.unit) \in 1 .. MaxNs
           /\ Meaning = Number(input.text.digits) * UnitNanos(input.text.unit)
PROOF
  <1>1. input.text.unit \in {"ms", "s", "m", "h", "d", ""}
    BY FactorAssumption DEF Malformed
  <1>2. UnitNanos(input.text.unit) \in 1 .. MaxNs
    BY <1>1, FactorAssumption DEF UnitNanos
  <1>3. Meaning = Number(input.text.digits) * UnitNanos(input.text.unit)
    BY DEF Meaning, UnitNanos, DurationState
  <1> QED BY <1>2, <1>3

LEMMA ReadDigitKeeps ==
    ASSUME DurationState, ReadDigit
    PROVE  DurationState'
PROOF
  <1> DEFINE digits == input.text.digits
             digit == digits[read + 1]
             unit == UnitNanos(input.text.unit)
             next == Numbers(digits)[read + 1]
  <1>1. /\ input.kind = "duration" /\ input.text \in Duration
        /\ read \in 0 .. Len(digits) /\ read < Len(digits)
        /\ value \in Word /\ value = Numbers(digits)[read]
        /\ input' = input /\ outcome = Pending
        /\ ~Malformed(input.text)
    BY DEF DurationState, ReadDigit, Parsing
  <1>2. digits \in Digits /\ Len(digits) \in Nat
    BY <1>1, InputAssumption DEF Digits
  <1>3. read \in Nat /\ read + 1 \in 1 .. Len(digits) /\ (read + 1) - 1 = read
        /\ read + 1 \in 0 .. Len(digits)
    BY <1>1, <1>2
  <1>4. digit \in 0 .. Radix - 1 /\ Radix \in 1 .. MaxNs
    <2>1. digit \in 0 .. Radix - 1
      <3>1. digits \in Seq(0 .. Radix - 1)
        BY <1>2 DEF Digits
      <3> HIDE DEF digits
      <3> QED BY <1>3, <3>1, ElementOfSeq, Zenon
    <2> QED BY <2>1, FactorAssumption
  <1>5. digit \in Word /\ Radix \in Word /\ digit \in Nat
    BY <1>4
  <1>6. next = value * Radix + digit
    BY <1>1, <1>2, <1>3, NumbersGrow
  <1>7. value \in Nat
    BY <1>1, <1>2, NumbersRise
  <1> DEFINE product == value * Radix
  <1>8. product \in Nat
    BY <1>4, <1>7
  <1>9. TryMultiplyNanos(value, Radix) <=> product \in Word
    BY <1>1, <1>5, MultiplicationFits
  <1>10. product \in Word => (TryAddNanos(product, digit) <=> product + digit \in Word)
    <2> HIDE DEF product, digit, digits
    <2> QED BY <1>5, AdditionFits
  <1>11. product + digit \in Word => product \in Word
    <2> HIDE DEF product, digit
    <2> QED BY <1>5, <1>8
  <1>12. TryMultiplyNanos(value, Radix) /\ TryAddNanos(value * Radix, digit) <=> next \in Word
    <2> HIDE DEF digit, digits, next
    <2>1. next = product + digit
      BY <1>6
    <2>2. TryMultiplyNanos(value, Radix) /\ TryAddNanos(product, digit) <=> product + digit \in Word
      <3>1. TryMultiplyNanos(value, Radix) \in BOOLEAN /\ TryAddNanos(product, digit) \in BOOLEAN
        BY DEF TryMultiplyNanos, TryAddNanos
      <3> HIDE DEF product
      <3> QED BY <1>9, <1>10, <1>11, <3>1
    <2> QED BY <2>1, <2>2
  <1>13. CASE next \in Word
    <2>1. value' = next /\ read' = read + 1 /\ outcome' = outcome
      BY <1>6, <1>12, <1>13 DEF ReadDigit
    <2>2. value' \in Word /\ value' = Numbers(digits)[read'] /\ read' \in 0 .. Len(digits)
      BY <1>3, <1>13, <2>1
    <2> QED BY <1>1, <2>1, <2>2 DEF DurationState
  <1>14. CASE next \notin Word
    <2>1. value' = value /\ read' = read /\ outcome' = Rejected
      BY <1>12, <1>14 DEF ReadDigit
    <2>2. unit \in 1 .. MaxNs /\ Meaning = Number(digits) * unit
      BY <1>1, WellFormed
    <2>3. Meaning \notin Word
      <3> HIDE DEF unit, digits
      <3>1. Number(digits) * unit \notin Word
        BY <1>2, <1>3, <1>14, <2>2, TooLongForWord
      <3> QED BY <2>2, <3>1
    <2>4. Verdict' = Rejected
      BY <1>1, <2>3 DEF Verdict, Meaning
    <2> QED BY <1>1, <2>1, <2>4 DEF DurationState
  <1> QED BY <1>13, <1>14

LEMMA ScaleKeeps ==
    ASSUME DurationState, Scale
    PROVE  DurationState'
PROOF
  <1> DEFINE unit == UnitNanos(input.text.unit)
             digits == input.text.digits
  <1>1. /\ input.kind = "duration" /\ input.text \in Duration
        /\ read \in 0 .. Len(digits) /\ read = Len(digits)
        /\ value \in Word /\ value = Numbers(digits)[read]
        /\ input' = input /\ value' = value /\ read' = read
        /\ ~Malformed(input.text)
    BY DEF DurationState, Scale
  <1>2. unit \in 1 .. MaxNs /\ Meaning = value * unit
    BY <1>1, WellFormed DEF Number
  <1>3. unit \in Word
    BY <1>2
  <1>4. TryMultiplyNanos(value, unit) <=> value * unit \in Word
    <2> HIDE DEF unit
    <2> QED BY <1>1, <1>3, MultiplicationFits
  <1>5. outcome' = IF TryMultiplyNanos(value, unit) THEN value * unit ELSE Rejected
    BY DEF Scale
  <1>6. outcome' = Verdict
    <2> HIDE DEF unit
    <2> QED BY <1>1, <1>2, <1>4, <1>5 DEF Verdict
  <1>7. Verdict' = Verdict
    BY <1>1 DEF Verdict, Meaning
  <1> QED BY <1>1, <1>6, <1>7 DEF DurationState

LEMMA BoundsStep == BoundsInv /\ [DiscoveryNext]_<<vars, scan>> => BoundsInv'
PROOF
  <1> SUFFICES ASSUME BoundsInv, [DiscoveryNext]_<<vars, scan>> PROVE BoundsInv'
    OBVIOUS
  <1>1. CASE UNCHANGED vars
    BY <1>1 DEF BoundsInv, BoundState, DurationState, LookupState, Verdict, Meaning, vars
  <1>2. CASE ResolveTimeBound
    <2>1. BoundState
      BY <1>2 DEF BoundsInv, DurationState, LookupState, ResolveTimeBound
    <2> QED BY <1>2, <2>1 DEF BoundsInv, BoundState, ResolveTimeBound
  <1>3. CASE Refuse
    <2>1. DurationState /\ Verdict = Rejected
      BY <1>3 DEF BoundsInv, BoundState, LookupState, Refuse, Parsing, Verdict
    <2>2. Verdict' = Verdict
      BY <1>3 DEF Verdict, Meaning, Refuse
    <2> QED BY <1>3, <2>1, <2>2 DEF BoundsInv, DurationState, Refuse
  <1>4. CASE ReadDigit
    <2>1. DurationState
      BY <1>4 DEF BoundsInv, BoundState, LookupState, ReadDigit, Parsing
    <2> QED BY <1>4, <2>1, ReadDigitKeeps DEF BoundsInv
  <1>5. CASE Scale
    <2>1. DurationState
      BY <1>5 DEF BoundsInv, BoundState, LookupState, Scale, Parsing
    <2> QED BY <1>5, <2>1, ScaleKeeps DEF BoundsInv
  <1> QED BY <1>1, <1>2, <1>3, <1>4, <1>5
          DEF DiscoveryNext, Next, RefuseLookup, Bind, Function, FirstCall, FailedCall, NextCall, scan

LEMMA BoundsHold == DiscoverySpec => []BoundsInv
  BY BoundsInit, BoundsStep, PTL DEF DiscoverySpec

-----------------------------------------------------------------------------
LEMMA DurationOutcome ==
    ASSUME DurationState
    PROVE  TypeOK /\ Exact /\ RejectedForCause
PROOF
  <1>1. outcome = Pending => outcome \in Word \cup {Pending, Rejected}
    OBVIOUS
  <1>2. outcome # Pending => outcome = Verdict
    BY DEF DurationState
  <1>3. /\ Malformed(input.text) \/ Meaning \notin Word => Verdict = Rejected
        /\ ~(Malformed(input.text) \/ Meaning \notin Word) =>
              Verdict = Meaning /\ Meaning \in Word /\ Meaning # Rejected
    BY OutcomeAssumption DEF Verdict
  <1>4. value \in Word /\ read \in Nat /\ input.kind = "duration"
    <2>1. input.text.digits \in Seq(0 .. Radix - 1)
      BY InputAssumption DEF DurationState
    <2> QED BY <2>1 DEF DurationState
  <1>5. TypeOK
    BY <1>2, <1>3, <1>4 DEF TypeOK
  <1>6. Exact
    BY <1>2, <1>3 DEF Exact
  <1>7. RejectedForCause
    BY <1>2, <1>3, <1>4 DEF RejectedForCause
  <1> QED BY <1>5, <1>6, <1>7

LEMMA BoundOutcome ==
    ASSUME BoundState
    PROVE  TypeOK /\ Exact /\ RejectedForCause
PROOF
  <1> DEFINE result == Resolved(input.bound, input.now)
  <1>1. input.kind = "bound" /\ value = 0 /\ read = 0 /\ (outcome # Pending => outcome = result)
    BY DEF BoundState
  <1>2. /\ OutOfRange(input.bound, input.now) => result = Rejected
        /\ ~OutOfRange(input.bound, input.now) =>
              /\ result \in Word
              /\ result = IF IsInstant(input.bound) THEN input.bound.at * NanosPerMicro
                          ELSE input.now + Offset(input.bound)
    BY ResolvedExactly DEF BoundState
  <1>3. Meaning = IF IsInstant(input.bound) THEN input.bound.at * NanosPerMicro
                  ELSE input.now + Offset(input.bound)
    BY <1>1 DEF Meaning, Offset
  <1> HIDE DEF result
  <1>4. result \in Word \cup {Rejected}
    BY <1>2
  <1>5. TypeOK
    BY <1>1, <1>4 DEF TypeOK
  <1>6. Exact
    BY <1>1, <1>2, <1>3 DEF Exact
  <1>7. result = Rejected <=> OutOfRange(input.bound, input.now)
    <2>1. OutOfRange(input.bound, input.now) \in BOOLEAN
      BY DEF OutOfRange
    <2> QED BY <1>2, <2>1, OutcomeAssumption
  <1>8. OutOfRange(input.bound, input.now) <=>
            IF IsInstant(input.bound) THEN Meaning \notin Word
            ELSE \/ input.bound.months # 0
                 \/ ~({input.bound.days * NanosPerDay, input.bound.micros * NanosPerMicro,
                       Offset(input.bound), Meaning} \subseteq Word)
    BY <1>3 DEF OutOfRange
  <1>9. RejectedForCause
    BY <1>1, <1>7, <1>8 DEF RejectedForCause
  <1> QED BY <1>5, <1>6, <1>9

LEMMA BoundsMeanWell == BoundsInv => TypeOK /\ Exact /\ RejectedForCause
PROOF
  <1>1. CASE LookupState
    BY <1>1 DEF LookupState, TypeOK, Exact, RejectedForCause
  <1> QED BY <1>1, BoundOutcome, DurationOutcome DEF BoundsInv

\* No value of the arithmetic ever leaves the word, whatever its width, and however
\* long the duration.
THEOREM ArithmeticStaysInRange == DiscoverySpec => []TypeOK
  BY BoundsHold, BoundsMeanWell, PTL

\* What is accepted is the number the user wrote.
THEOREM BoundsAreExact == DiscoverySpec => []Exact
  BY BoundsHold, BoundsMeanWell, PTL

\* What is rejected is malformed, calendar-dependent or does not fit, and everything
\* that is is rejected: the parser that stops at the first digit that does not fit
\* never refuses a duration that would have.
THEOREM RejectionsAreExact == DiscoverySpec => []RejectedForCause
  BY BoundsHold, BoundsMeanWell, PTL

-----------------------------------------------------------------------------
(* The window of a discovery.                                              *)

\* An open lookup has a complete request, made of its resolved bounds.
WindowInv ==
    input.kind = "discovery" /\ status = "open" =>
        /\ Complete
        /\ request = [start |-> Sent(StartNs), end |-> Sent(EndNs)]

LEMMA WindowHolds == DiscoverySpec => []WindowInv
PROOF
  <1>1. DiscoveryInit => WindowInv
    BY DEF DiscoveryInit, WindowInv
  <1>2. WindowInv /\ [DiscoveryNext]_<<vars, scan>> => WindowInv'
    <2> SUFFICES ASSUME WindowInv, [DiscoveryNext]_<<vars, scan>> PROVE WindowInv'
      OBVIOUS
    <2> USE DEF WindowInv
    <2>0. input' = input => (Complete' = Complete /\ StartNs' = StartNs /\ EndNs' = EndNs)
      BY DEF Complete, StartNs, EndNs, DiscoveryBound
    <2>1. CASE Bind
      BY <2>0, <2>1 DEF Bind, vars
    <2>2. CASE Function
      <3>1. input' = input /\ request' = request /\ status = "open"
        BY <2>2 DEF Function, FirstCall, FailedCall, NextCall, vars
      <3> QED BY <2>0, <3>1
    <2>3. CASE UNCHANGED scan /\ input' = input
      BY <2>0, <2>3 DEF scan
    <2>4. CASE RefuseLookup
      BY <2>4 DEF RefuseLookup
    <2> QED BY <2>1, <2>2, <2>3, <2>4
            DEF DiscoveryNext, Next, ResolveTimeBound, Refuse, ReadDigit, Scale, vars
  <1> QED BY <1>1, <1>2, PTL DEF DiscoverySpec

\* Loki gets the window that is asked for and no other bound, for words of any size.
THEOREM WindowIsAsked == DiscoverySpec => []AskedWindow
PROOF
  <1>1. ASSUME NEW side \in {"start", "end"}, input.via \notin {"series table", "labels table"},
               DiscoveryBound(input[side]) # Rejected
        PROVE  Sent(DiscoveryBound(input[side]))
                   = IF Asks(side) /\ AskedNs(side) >= 0 THEN AskedNs(side) ELSE Omitted
    <2>1. CASE input[side] = Omitted
      <3>1. ~Asks(side) /\ DiscoveryBound(input[side]) = -1
        BY <1>1, <2>1 DEF Asks, DiscoveryBound
      <3> QED BY <3>1 DEF Sent
    <2>2. CASE input[side] # Omitted
      <3>1. Asks(side) /\ DiscoveryBound(input[side]) = AskedNs(side)
        BY <1>1, <2>2 DEF Asks, AskedNs, DiscoveryBound, Resolved
      <3> QED BY <3>1 DEF Sent
    <2> QED BY <2>1, <2>2
  <1>2. WindowInv => AskedWindow
    <2> SUFFICES ASSUME WindowInv, input.kind = "discovery", status = "open",
                        NEW side \in {"start", "end"}
                 PROVE  request[side]
                            = IF Asks(side) /\ AskedNs(side) >= 0 THEN AskedNs(side) ELSE Omitted
      BY DEF AskedWindow
    <2>1. Complete /\ request = [start |-> Sent(StartNs), end |-> Sent(EndNs)]
      BY DEF WindowInv
    <2>2. /\ request.start = Sent(StartNs) /\ StartNs # Rejected
          /\ request.end = Sent(EndNs) /\ EndNs # Rejected
      <3>1. request.start = Sent(StartNs) /\ request.end = Sent(EndNs)
        BY <2>1
      <3> QED BY <2>1, <3>1 DEF Complete
    <2>3. CASE input.via = "series table"
      <3>1. Asks(side) /\ StartNs = AskedNs("start") /\ EndNs = AskedNs("end")
        BY <2>3 DEF Asks, AskedNs, StartNs, EndNs
      <3> QED BY <2>2, <3>1 DEF Sent
    <2>4. CASE input.via = "labels table"
      <3>1. ~Asks(side) /\ StartNs = -1 /\ EndNs = -1
        BY <2>4 DEF Asks, StartNs, EndNs
      <3> QED BY <2>2, <3>1 DEF Sent
    <2>5. CASE input.via \notin {"series table", "labels table"}
      <3>1. StartNs = DiscoveryBound(input.start) /\ EndNs = DiscoveryBound(input.end)
        BY <2>5 DEF StartNs, EndNs
      <3>2. /\ request[side] = Sent(DiscoveryBound(input[side]))
            /\ DiscoveryBound(input[side]) # Rejected
        BY <2>2, <3>1
      <3> QED BY <1>1, <2>5, <3>2
    <2> QED BY <2>3, <2>4, <2>5
  <1> QED BY <1>2, WindowHolds, PTL

-----------------------------------------------------------------------------
(* The answer of a discovery.                                              *)

LEMMA ParsedIsSequence ==
    ASSUME NEW answer \in Seq(Item)
    PROVE  Parsed(answer) \in Seq(Item)
PROOF
  <1> DEFINE kept == {i \in DOMAIN answer : answer[i] \notin Unreadable}
  <1>1. kept \in SUBSET DOMAIN answer
    OBVIOUS
  <1> HIDE DEF kept
  <1>2. Subsequence(answer, kept) \in Seq(Item)
    BY <1>1, SubsequenceKeeps
  <1> QED BY <1>2 DEF Parsed, kept

LEMMA AnswersAreSequences == Answer \subseteq Seq(Item)
  BY DiscoveryAssumption DEF Answer

\* What is handed out is a beginning of the rows read from one answer.
AnswerInv ==
    /\ rows \in Seq(Item) /\ offset \in 0 .. Len(rows)
    /\ answers \in Seq(Seq(Item))
    /\ output = SubSeq(rows, 1, offset)
    /\ ~fetched => offset = 0
    /\ fetched => \E k \in DOMAIN answers : rows = Parsed(answers[k])
    /\ fetched /\ status = "done" => offset = Len(rows)

LEMMA EmitAdvances ==
    ASSUME NEW from \in Seq(Item), offset \in 0 .. Len(from), output = SubSeq(from, 1, offset), Emit(from)
    PROVE  /\ offset' \in 0 .. Len(from)
           /\ output' = SubSeq(from, 1, offset')
           /\ status' = "done" => offset' = Len(from)
PROOF
  <1> DEFINE left == Len(from) - offset
             count == IF VectorSize <= left THEN VectorSize ELSE left
  <1>1. Len(from) \in Nat /\ left \in Nat /\ offset \in Nat /\ VectorSize \in Nat /\ VectorSize > 0
    BY DiscoveryAssumption
  <1>2. Min({VectorSize, left}) = count
    <2> HIDE DEF left
    <2> QED BY <1>1, MinOfTwo
  <1>3. count \in 0 .. left /\ (count = 0 => left = 0)
    BY <1>1
  <1>4. /\ output' = output \o SubSeq(from, offset + 1, offset + count)
        /\ offset' = offset + count
        /\ status' = "done" => count = 0
    BY <1>2 DEF Emit
  <1>5. output' = SubSeq(from, 1, offset')
    <2> HIDE DEF count
    <2>1. /\ 1 \in 1 .. Len(from) + 1 /\ offset \in 1 - 1 .. Len(from)
          /\ offset + count \in offset .. Len(from)
      BY <1>1, <1>3
    <2>2. SubSeq(from, 1, offset) \o SubSeq(from, offset + 1, offset + count)
              = SubSeq(from, 1, offset + count)
      BY <2>1, ConcatAdjacentSubSeq
    <2> QED BY <1>4, <2>2
  <1>6. offset' \in 0 .. Len(from) /\ (status' = "done" => offset' = Len(from))
    <2> HIDE DEF count
    <2> QED BY <1>1, <1>3, <1>4
  <1> QED BY <1>5, <1>6

LEMMA AnswerStep == AnswerInv /\ [DiscoveryNext]_<<vars, scan>> => AnswerInv'
PROOF
  <1> SUFFICES ASSUME AnswerInv, [DiscoveryNext]_<<vars, scan>> PROVE AnswerInv'
    OBVIOUS
  <1>0. input' = input
    BY DEF DiscoveryNext, Next, ResolveTimeBound, Refuse, ReadDigit, Scale, RefuseLookup, Bind,
           Function, FirstCall, FailedCall, NextCall, vars
  <1>1. \A answer : Parsed(answer)' = Parsed(answer)
    BY <1>0 DEF Parsed, IsSeries
  <1>2. CASE UNCHANGED <<fetched, rows, offset, output, answers>> /\ (status' = "done" => status = "done")
    <2>1. ASSUME fetched PROVE \E k \in DOMAIN answers' : rows' = Parsed(answers'[k])
      BY <1>2, <2>1 DEF AnswerInv
    <2> QED BY <1>0, <1>2, <2>1 DEF AnswerInv, Parsed, IsSeries
  <1>3. ASSUME NEW answer \in Answer, FirstCall(answer)
        PROVE  AnswerInv'
    <2>1. answer \in Seq(Item) /\ Parsed(answer) \in Seq(Item)
      BY AnswersAreSequences, ParsedIsSequence
    <2>2. /\ answers' \in Seq(Seq(Item))
          /\ \A k \in DOMAIN answers : k \in DOMAIN answers' /\ answers'[k] = answers[k]
          /\ Len(answers') \in DOMAIN answers' /\ answers'[Len(answers')] = answer
      BY <1>3, <2>1 DEF FirstCall, AnswerInv
    <2>3. ~fetched /\ offset = 0
      BY <1>3 DEF FirstCall, AnswerInv
    <2>4. CASE UNCHANGED <<fetched, rows, offset, output>>
      BY <1>0, <1>1, <2>2, <2>3, <2>4 DEF AnswerInv
    <2>5. CASE fetched' /\ rows' = Parsed(answer) /\ Emit(rows')
      <3>1. output = SubSeq(rows, 1, 0) /\ SubSeq(rows, 1, 0) = <<>> /\ SubSeq(rows', 1, 0) = <<>>
        BY <2>1, <2>3, <2>5 DEF AnswerInv
      <3>2. rows' \in Seq(Item) /\ offset \in 0 .. Len(rows')
        BY <2>1, <2>3, <2>5
      <3>3. /\ offset' \in 0 .. Len(rows') /\ output' = SubSeq(rows', 1, offset')
            /\ (status' = "done" => offset' = Len(rows'))
        BY <2>3, <2>5, <3>1, <3>2, EmitAdvances
      <3>4. \E k \in DOMAIN answers' : rows' = Parsed(answers'[k])
        BY <1>1, <2>2, <2>5
      <3> QED BY <1>0, <2>2, <2>5, <3>2, <3>3, <3>4 DEF AnswerInv, Parsed, IsSeries
    <2> QED BY <1>3, <2>4, <2>5 DEF FirstCall, Capped, Latched
  <1>4. CASE NextCall
    <2>1. /\ UNCHANGED <<fetched, rows, answers>> /\ fetched /\ Emit(rows)
      BY <1>4 DEF NextCall
    <2>2. rows \in Seq(Item) /\ offset \in 0 .. Len(rows) /\ output = SubSeq(rows, 1, offset)
      BY DEF AnswerInv
    <2>3. /\ offset' \in 0 .. Len(rows) /\ output' = SubSeq(rows, 1, offset')
          /\ (status' = "done" => offset' = Len(rows))
      BY <2>1, <2>2, EmitAdvances
    <2>4. \E k \in DOMAIN answers' : rows' = Parsed(answers'[k])
      BY <1>1, <2>1 DEF AnswerInv
    <2> QED BY <1>0, <2>1, <2>2, <2>3, <2>4 DEF AnswerInv, Parsed, IsSeries
  <1>5. CASE FailedCall
    BY <1>2, <1>5 DEF FailedCall
  <1>6. CASE RefuseLookup \/ Bind
    BY <1>2, <1>6 DEF RefuseLookup, Bind
  <1>7. CASE UNCHANGED scan
    BY <1>2, <1>7 DEF scan
  <1> QED BY <1>3, <1>4, <1>5, <1>6, <1>7 DEF DiscoveryNext, Function

\* No chunk is lost, repeated or mixed with another answer, whatever the sizes of the
\* answer and of a chunk.
THEOREM DiscoveryIsWhole == DiscoverySpec => []OneWholeAnswer
PROOF
  <1>1. DiscoveryInit => AnswerInv
    BY DEF DiscoveryInit, AnswerInv
  <1>2. AnswerInv => OneWholeAnswer
    <2> SUFFICES ASSUME AnswerInv, output # <<>> PROVE OneWholeAnswer
      BY DEF OneWholeAnswer
    <2>1. rows \in Seq(Item) /\ offset \in 0 .. Len(rows) /\ output = SubSeq(rows, 1, offset)
      BY DEF AnswerInv
    <2>2. Len(output) = offset /\ (offset = 0 => output = <<>>) /\ (offset = Len(rows) => output = rows)
      <3>1. Len(output) = offset /\ (offset = 0 => output = <<>>)
        BY <2>1
      <3>2. SubSeq(rows, 1, Len(rows)) = rows
        BY <2>1
      <3> QED BY <2>1, <3>1, <3>2
    <2>3. fetched
      BY <2>2 DEF AnswerInv
    <2>4. PICK k \in DOMAIN answers : rows = Parsed(answers[k])
      BY <2>3 DEF AnswerInv
    <2>5. /\ Len(output) <= Len(rows)
          /\ output = SubSeq(rows, 1, Len(output))
          /\ (status = "done" => output = rows)
      <3>1. Len(rows) \in Nat
        BY <2>1
      <3> QED BY <2>1, <2>2, <2>3, <3>1 DEF AnswerInv
    <2> QED BY <2>4, <2>5 DEF OneWholeAnswer
  <1> QED BY <1>1, <1>2, AnswerStep, PTL DEF DiscoverySpec
=============================================================================
