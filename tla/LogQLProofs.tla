----------------------------- MODULE LogQLProofs -----------------------------
(***************************************************************************)
(* Proofs about LogQL: what Loki reads in a text that is put together from *)
(* others, for texts of every length.  A text is a sequence over any set S *)
(* of tokens.                                                              *)
(***************************************************************************)
EXTENDS LogQL, CollectionProofs

\* The strings of the text are closed.
Balanced(text) == ~InString(text, Len(text) + 1)

\* Nothing in the text ends a selector it is written into.
Clean(text) == Balanced(text) /\ Closings(text) = {}

\* The indices of what Loki does not skip.
Inked(text) == {i \in DOMAIN text : text[i] # Blank \/ InString(text, i)}

-----------------------------------------------------------------------------
(* Where the strings are.                                                  *)

LEMMA InStringTypes ==
    /\ \A text, i : InString(text, i) \in BOOLEAN
    /\ \A text : Balanced(text) \in BOOLEAN
  BY DEF InString, Balanced

LEMMA FirstOutside ==
    ASSUME NEW S, NEW t \in Seq(S)
    PROVE  ~InString(t, 1)
PROOF
  <1>1. {j \in 1 .. 1 - 1 : t[j] = Quote} = {}
    OBVIOUS
  <1>2. Cardinality({j \in 1 .. 1 - 1 : t[j] = Quote}) = 0
    BY <1>1, FS_EmptySet
  <1>3. 0 % 2 # 1
    OBVIOUS
  <1> QED BY <1>2, <1>3 DEF InString

\* A quote opens or closes a string; nothing else does.
LEMMA InStringStep ==
    ASSUME NEW S, NEW t \in Seq(S), NEW i \in 1 .. Len(t)
    PROVE  InString(t, i + 1) <=> IF t[i] = Quote THEN ~InString(t, i) ELSE InString(t, i)
PROOF
  <1> DEFINE before == {j \in 1 .. i - 1 : t[j] = Quote}
             upto == {j \in 1 .. (i + 1) - 1 : t[j] = Quote}
  <1>1. i \in Nat /\ i >= 1 /\ (i + 1) - 1 = i
    OBVIOUS
  <1>2. IsFiniteSet(before) /\ Cardinality(before) \in Nat
    <2>1. before \in SUBSET (1 .. i - 1)
      OBVIOUS
    <2>2. IsFiniteSet(1 .. i - 1)
      BY <1>1, FS_Interval
    <2> QED BY <2>1, <2>2, FS_Subset, FS_CardinalityType
  <1>3. i \notin before
    BY <1>1
  <1>4. CASE t[i] = Quote
    <2>1. upto = before \cup {i}
      BY <1>1, <1>4
    <2>2. Cardinality(upto) = Cardinality(before) + 1
      BY <1>2, <1>3, <2>1, FS_AddElement
    <2> HIDE DEF before, upto
    <2>3. Cardinality(upto) % 2 = 1 <=> ~(Cardinality(before) % 2 = 1)
      BY <1>2, <2>2
    <2> QED BY <1>4, <2>3 DEF InString, before, upto
  <1>5. CASE t[i] # Quote
    <2>1. upto = before
      BY <1>1, <1>5
    <2> QED BY <1>5, <2>1 DEF InString
  <1> QED BY <1>4, <1>5

\* Texts that agree up to an index have the same strings up to it.
LEMMA InStringPrefix ==
    ASSUME NEW S, NEW s \in Seq(S), NEW t \in Seq(S), NEW i \in 1 .. Len(s) + 1
    PROVE  InString(s \o t, i) <=> InString(s, i)
PROOF
  <1>1. \A j \in 1 .. i - 1 : (s \o t)[j] = s[j]
    BY ConcatProperties
  <1>2. {j \in 1 .. i - 1 : (s \o t)[j] = Quote} = {j \in 1 .. i - 1 : s[j] = Quote}
    BY <1>1
  <1> QED BY <1>2 DEF InString

\* After a text with an open string, inside and outside are exchanged.
LEMMA InStringConcat ==
    ASSUME NEW S, NEW s \in Seq(S), NEW t \in Seq(S), NEW i \in 1 .. Len(t) + 1
    PROVE  InString(s \o t, Len(s) + i) <=> IF Balanced(s) THEN InString(t, i) ELSE ~InString(t, i)
PROOF
  <1> DEFINE n == Len(s)
             st == s \o t
             Agrees(k) == InString(st, n + (k + 1)) <=>
                              IF Balanced(s) THEN InString(t, k + 1) ELSE ~InString(t, k + 1)
             T == {k \in Nat : k <= Len(t) => Agrees(k)}
  <1>1. /\ n \in Nat /\ Len(t) \in Nat /\ st \in Seq(S) /\ Len(st) = n + Len(t)
        /\ \A k \in 1 .. n + Len(t) : st[k] = IF k <= n THEN s[k] ELSE t[k - n]
    BY ConcatProperties, LenProperties
  <1>2. 0 \in T
    <2>1. InString(st, n + 1) <=> ~Balanced(s)
      <3>1. n + 1 \in 1 .. Len(s) + 1
        BY <1>1
      <3>2. InString(st, n + 1) <=> InString(s, n + 1)
        BY <3>1, InStringPrefix
      <3> QED BY <3>2 DEF Balanced
    <2>2. ~InString(t, 1)
      BY FirstOutside
    <2> HIDE DEF st, n
    <2>3. Agrees(0)
      BY <2>1, <2>2, InStringTypes
    <2> QED BY <2>3
  <1>3. ASSUME NEW k \in 0 .. Len(t) - 1, k \in T PROVE k + 1 \in T
    <2>1. k + 1 \in 1 .. Len(t) /\ n + (k + 1) \in 1 .. n + Len(t)
          /\ ~(n + (k + 1) <= n) /\ (n + (k + 1)) - n = k + 1
      BY <1>1
    <2>2. st[n + (k + 1)] = t[k + 1]
      <3> HIDE DEF st, n
      <3> QED BY <1>1, <2>1
    <2> HIDE DEF st
    <2>3. InString(t, (k + 1) + 1) <=>
              IF t[k + 1] = Quote THEN ~InString(t, k + 1) ELSE InString(t, k + 1)
      BY <2>1, InStringStep
    <2>4. InString(st, (n + (k + 1)) + 1) <=>
              IF st[n + (k + 1)] = Quote THEN ~InString(st, n + (k + 1)) ELSE InString(st, n + (k + 1))
      <3> HIDE DEF n
      <3> QED BY <1>1, <2>1, InStringStep
    <2>5. (n + (k + 1)) + 1 = n + ((k + 1) + 1)
      BY <1>1
    <2> HIDE DEF n
    <2>6. Agrees(k)
      BY <1>3, <2>1
    <2>7. Agrees(k + 1)
      BY <2>2, <2>3, <2>4, <2>5, <2>6, InStringTypes
    <2> QED BY <2>1, <2>7
  <1>4. 0 .. Len(t) \subseteq T
    <2> HIDE DEF T
    <2> QED BY <1>1, <1>2, <1>3, InductionUpTo
  <1>5. i - 1 \in 0 .. Len(t) /\ (i - 1) + 1 = i
    BY <1>1
  <1>6. Agrees(i - 1)
    <2> HIDE DEF Agrees
    <2> QED BY <1>4, <1>5
  <1> QED BY <1>5, <1>6

LEMMA BalancedConcat ==
    ASSUME NEW S, NEW s \in Seq(S), NEW t \in Seq(S), Balanced(s)
    PROVE  /\ Balanced(s \o t) <=> Balanced(t)
           /\ \A i \in 1 .. Len(t) + 1 : InString(s \o t, Len(s) + i) <=> InString(t, i)
PROOF
  <1>1. \A i \in 1 .. Len(t) + 1 : InString(s \o t, Len(s) + i) <=> InString(t, i)
    BY InStringConcat
  <1>2. /\ Len(s \o t) = Len(s) + Len(t) /\ Len(s) \in Nat /\ Len(t) \in Nat
        /\ Len(t) + 1 \in 1 .. Len(t) + 1
        /\ (Len(s) + Len(t)) + 1 = Len(s) + (Len(t) + 1)
    BY ConcatProperties, LenProperties
  <1>3. Balanced(s \o t) <=> Balanced(t)
    BY <1>1, <1>2 DEF Balanced
  <1> QED BY <1>1, <1>3

LEMMA BalancedAppend ==
    ASSUME NEW S, NEW s \in Seq(S), NEW e \in S
    PROVE  Balanced(Append(s, e)) <=> IF e = Quote THEN ~Balanced(s) ELSE Balanced(s)
PROOF
  <1> DEFINE n == Len(s)
             se == Append(s, e)
  <1>1. /\ n \in Nat /\ se \in Seq(S) /\ Len(se) = n + 1 /\ se[n + 1] = e
        /\ se = s \o <<e>> /\ <<e>> \in Seq(S)
    BY AppendProperties, AppendIsConcat, LenProperties
  <1>2. n + 1 \in 1 .. Len(s) + 1 /\ n + 1 \in 1 .. n + 1
    BY <1>1
  <1>3. InString(s \o <<e>>, n + 1) <=> InString(s, n + 1)
    BY <1>1, <1>2, InStringPrefix
  <1> HIDE DEF se
  <1>4. InString(se, (n + 1) + 1) <=>
            IF se[n + 1] = Quote THEN ~InString(se, n + 1) ELSE InString(se, n + 1)
    <2> HIDE DEF n
    <2> QED BY <1>1, <1>2, InStringStep
  <1>5. InString(se, (n + 1) + 1) <=>
            IF e = Quote THEN ~InString(s, n + 1) ELSE InString(s, n + 1)
    BY <1>1, <1>3, <1>4, InStringTypes
  <1> QED BY <1>1, <1>5, InStringTypes DEF Balanced, se

-----------------------------------------------------------------------------
(* What Loki does not skip.                                                *)

LEMMA InkTypes ==
    ASSUME NEW S, NEW s \in Seq(S)
    PROVE  Ink(s) \in Seq(S) /\ Ink(s) = Subsequence(s, Inked(s)) /\ Inked(s) \in SUBSET DOMAIN s
PROOF
  <1>1. Inked(s) \in SUBSET DOMAIN s /\ Ink(s) = Subsequence(s, Inked(s))
    BY DEF Ink, Inked
  <1> QED BY <1>1, SubsequenceKeeps

LEMMA SubsequenceOfNone == \A s : Subsequence(s, {}) = <<>>
PROOF
  <1>1. Cardinality({}) = 0
    BY FS_EmptySet
  <1> QED BY <1>1 DEF Subsequence

LEMMA InkEmpty == Ink(<<>>) = <<>>
PROOF
  <1>1. {i \in DOMAIN <<>> : <<>>[i] # Blank \/ InString(<<>>, i)} = {}
    OBVIOUS
  <1> QED BY <1>1, SubsequenceOfNone DEF Ink

LEMMA InkAppend ==
    ASSUME NEW S, NEW s \in Seq(S), NEW e \in S
    PROVE  Ink(Append(s, e)) = IF e = Blank /\ Balanced(s) THEN Ink(s) ELSE Append(Ink(s), e)
PROOF
  <1> DEFINE n == Len(s)
             one == <<e>>
             se == s \o one
             L == IF e = Blank /\ Balanced(s) THEN {} ELSE {1}
  <1>1. /\ n \in Nat /\ se \in Seq(S) /\ Len(se) = n + 1 /\ DOMAIN s = 1 .. n
        /\ \A i \in 1 .. n : se[i] = s[i]
        /\ se[n + 1] = e /\ se = Append(s, e)
        /\ one \in Seq(S) /\ Len(one) = 1 /\ DOMAIN one = {1} /\ one[1] = e
    BY AppendProperties, AppendIsConcat, LenProperties
  <1>2. DOMAIN se = 1 .. n + 1
    <2> HIDE DEF se
    <2> QED BY <1>1, LenProperties
  <1>3. \A i \in 1 .. n + 1 : InString(se, i) <=> InString(s, i)
    BY <1>1, InStringPrefix
  <1> HIDE DEF se
  <1>4. Inked(se) \in SUBSET Int /\ \A i \in Int : i \in Inked(se) <=> i \in Inked(s) \/ i - n \in L
    <2>1. \A i \in 1 .. n : i \in Inked(se) <=> i \in Inked(s)
      BY <1>1, <1>2, <1>3, InStringTypes DEF Inked
    <2>2. n + 1 \in Inked(se) <=> 1 \in L
      BY <1>1, <1>2, <1>3, InStringTypes DEF Inked, Balanced
    <2>3. Inked(se) \subseteq 1 .. n + 1 /\ Inked(s) \subseteq 1 .. n /\ L \subseteq {1}
      BY <1>1, <1>2 DEF Inked
    <2> HIDE DEF L, n
    <2>4. \A i \in Int : i - n = 1 <=> i = n + 1
      BY <1>1
    <2>5. \A i \in Int : i \in 1 .. n + 1 <=> i \in 1 .. n \/ i = n + 1
      BY <1>1
    <2>6. n \in Nat /\ n + 1 \notin 1 .. n
      BY <1>1
    <2>7. \A i \in Int : i \in Inked(se) <=> i \in Inked(s) \/ i - n \in L
      BY <2>1, <2>2, <2>3, <2>4, <2>5, <2>6
    <2>8. Inked(se) \subseteq Int
      BY <2>3, <2>6
    <2> QED BY <2>7, <2>8
  <1>5. Subsequence(se, Inked(se)) = Subsequence(s, Inked(s)) \o Subsequence(one, L)
    <2>1. L \in SUBSET DOMAIN one /\ Inked(s) \in SUBSET DOMAIN s
      BY <1>1, InkTypes
    <2>2. one \in Seq(S) /\ s \in Seq(S)
      BY <1>1
    <2> DEFINE W == Inked(se)
               K == Inked(s)
    <2>3. W \in SUBSET Int /\ \A i \in Int : i \in W <=> i \in K \/ i - Len(s) \in L
      BY <1>4
    <2>4. K \in SUBSET DOMAIN s
      BY <2>1
    <2> HIDE DEF L, one, W, K
    <2>5. Subsequence(s \o one, W) = Subsequence(s, K) \o Subsequence(one, L)
      BY <2>1, <2>2, <2>3, <2>4, SubsequenceConcat
    <2> QED BY <2>5 DEF se, W, K
  <1>6. Ink(se) = Ink(s) \o Subsequence(one, L) /\ Ink(s) \in Seq(S)
    BY <1>1, <1>5, InkTypes
  <1>7. CASE e = Blank /\ Balanced(s)
    BY <1>1, <1>6, <1>7, SubsequenceOfNone, ConcatEmptySeq
  <1>8. CASE ~(e = Blank /\ Balanced(s))
    <2>1. L = {1}
      BY <1>8
    <2>2. Subsequence(one, {1}) = <<e>>
      <3> DEFINE sub == Subsequence(one, {1})
      <3>1. {1} \in SUBSET DOMAIN one /\ Cardinality({1}) = 1
        BY <1>1, FS_Singleton
      <3>2. /\ sub \in Seq(S) /\ Len(sub) = 1
            /\ \A k \in DOMAIN sub : Kth({1}, k) \in {1} /\ sub[k] = one[Kth({1}, k)]
        <4> HIDE DEF one
        <4> QED BY <1>1, <3>1, SubsequenceKeeps
      <3> HIDE DEF sub
      <3>3. DOMAIN sub = 1 .. 1
        BY <3>2, LenProperties
      <3>4. sub[1] = e
        BY <1>1, <3>2, <3>3
      <3>5. sub = one
        BY <1>1, <3>2, <3>4, SeqEqual
      <3> QED BY <3>5 DEF sub
    <2> QED BY <1>1, <1>6, <1>8, <2>1, <2>2, AppendIsConcat
  <1> QED BY <1>1, <1>7, <1>8

-----------------------------------------------------------------------------
(* Induction over the length of a sequence, stated of sets.                *)

LEMMA SequenceInduction ==
    ASSUME NEW S, NEW T, <<>> \in T, \A s \in Seq(S), e \in S : s \in T => Append(s, e) \in T
    PROVE  Seq(S) \subseteq T
PROOF
  <1> DEFINE U == {n \in Nat : \A s \in Seq(S) : Len(s) = n => s \in T}
  <1>1. 0 \in U
    <2>1. \A s \in Seq(S) : Len(s) = 0 => s = <<>>
      OBVIOUS
    <2> QED BY <2>1
  <1>2. ASSUME NEW n \in Nat, n \in U PROVE n + 1 \in U
    <2> SUFFICES ASSUME NEW s \in Seq(S), Len(s) = n + 1 PROVE s \in T
      OBVIOUS
    <2>1. s # <<>>
      BY EmptySeq
    <2>2. PICK r \in Seq(S), e \in S : s = Append(r, e)
      BY <2>1, SequenceEmptyOrAppend
    <2>3. Len(r) = n
      <3>1. Len(s) = Len(r) + 1 /\ Len(r) \in Nat
        BY <2>2, AppendProperties, LenProperties
      <3> QED BY <3>1
    <2> QED BY <1>2, <2>2, <2>3
  <1>3. Nat \subseteq U
    <2> HIDE DEF U
    <2> QED BY <1>1, <1>2, NatSetInduction
  <1>4. \A s \in Seq(S) : Len(s) \in Nat
    BY LenProperties
  <1> QED BY <1>3, <1>4

\* Loki reads what it does not skip as it reads the whole.
LEMMA InkOfInk ==
    ASSUME NEW S, NEW t \in Seq(S)
    PROVE  Ink(Ink(t)) = Ink(t) /\ (Balanced(Ink(t)) <=> Balanced(t))
PROOF
  <1> DEFINE T == {s \in Seq(S) : Ink(Ink(s)) = Ink(s) /\ (Balanced(Ink(s)) <=> Balanced(s))}
  <1>1. <<>> \in T
    BY InkEmpty
  <1>2. ASSUME NEW s \in Seq(S), NEW e \in S, s \in T PROVE Append(s, e) \in T
    <2>1. /\ Append(s, e) \in Seq(S) /\ Ink(s) \in Seq(S)
          /\ Ink(Append(s, e)) = IF e = Blank /\ Balanced(s) THEN Ink(s) ELSE Append(Ink(s), e)
          /\ Balanced(Append(s, e)) <=> IF e = Quote THEN ~Balanced(s) ELSE Balanced(s)
      BY AppendProperties, InkTypes, InkAppend, BalancedAppend
    <2>2. CASE e = Blank /\ Balanced(s)
      <3>1. e # Quote
        BY <2>2 DEF Blank, Quote
      <3> QED BY <1>2, <2>1, <2>2, <3>1
    <2>3. CASE ~(e = Blank /\ Balanced(s))
      <3>1. Ink(Append(Ink(s), e)) =
                IF e = Blank /\ Balanced(Ink(s)) THEN Ink(Ink(s)) ELSE Append(Ink(Ink(s)), e)
        BY <2>1, InkAppend
      <3>2. Balanced(Append(Ink(s), e)) <=> IF e = Quote THEN ~Balanced(Ink(s)) ELSE Balanced(Ink(s))
        BY <2>1, BalancedAppend
      <3>3. Balanced(Ink(s)) <=> Balanced(s)
        BY <1>2
      <3>4. Ink(Append(s, e)) = Append(Ink(s), e)
        BY <2>1, <2>3
      <3>5. Ink(Append(Ink(s), e)) = Append(Ink(s), e)
        BY <1>2, <2>3, <3>1, <3>3
      <3>6. Balanced(Append(Ink(s), e)) <=> Balanced(Append(s, e))
        BY <2>1, <3>2, <3>3, InStringTypes
      <3> QED BY <2>1, <3>4, <3>5, <3>6
    <2> QED BY <2>2, <2>3
  <1>3. Seq(S) \subseteq T
    <2> HIDE DEF T
    <2> QED BY <1>1, <1>2, SequenceInduction
  <1> QED BY <1>3

\* After a text with its strings closed, another is read as on its own.
LEMMA InkConcat ==
    ASSUME NEW S, NEW s \in Seq(S), NEW t \in Seq(S), Balanced(s)
    PROVE  Ink(s \o t) = Ink(s) \o Ink(t)
PROOF
  <1> DEFINE T == {u \in Seq(S) : Ink(s \o u) = Ink(s) \o Ink(u)}
  <1>0. Ink(s) \in Seq(S)
    BY InkTypes
  <1>1. <<>> \in T
    BY <1>0, InkEmpty, ConcatEmptySeq
  <1>2. ASSUME NEW u \in Seq(S), NEW e \in S, u \in T PROVE Append(u, e) \in T
    <2>1. /\ Append(u, e) \in Seq(S) /\ s \o u \in Seq(S) /\ Ink(u) \in Seq(S) /\ <<e>> \in Seq(S)
          /\ Append(u, e) = u \o <<e>>
      BY AppendProperties, AppendIsConcat, ConcatProperties, InkTypes
    <2>2. s \o Append(u, e) = Append(s \o u, e)
      BY <2>1, ConcatAssociative, AppendIsConcat
    <2>3. Balanced(s \o u) <=> Balanced(u)
      BY BalancedConcat
    <2>4. Ink(Append(s \o u, e)) =
              IF e = Blank /\ Balanced(s \o u) THEN Ink(s \o u) ELSE Append(Ink(s \o u), e)
      BY <2>1, InkAppend
    <2>5. Ink(Append(u, e)) = IF e = Blank /\ Balanced(u) THEN Ink(u) ELSE Append(Ink(u), e)
      BY InkAppend
    <2>6. Append(Ink(s) \o Ink(u), e) = Ink(s) \o Append(Ink(u), e)
      <3>1. Ink(s) \o Ink(u) \in Seq(S)
        BY <1>0, <2>1, ConcatProperties
      <3>2. (Ink(s) \o Ink(u)) \o <<e>> = Ink(s) \o (Ink(u) \o <<e>>)
        <4>1. Ink(s) \in Seq(S) /\ Ink(u) \in Seq(S) /\ <<e>> \in Seq(S)
          BY <1>0, <2>1
        <4> HIDE DEF T
        <4> QED BY <4>1, ConcatAssociative
      <3>3. Append(Ink(s) \o Ink(u), e) = (Ink(s) \o Ink(u)) \o <<e>>
        BY <3>1, AppendIsConcat
      <3>4. Append(Ink(u), e) = Ink(u) \o <<e>>
        BY <2>1, AppendIsConcat
      <3> QED BY <3>2, <3>3, <3>4
    <2> QED BY <1>2, <2>1, <2>2, <2>3, <2>4, <2>5, <2>6
  <1>3. Seq(S) \subseteq T
    <2> HIDE DEF T
    <2> QED BY <1>1, <1>2, SequenceInduction
  <1> QED BY <1>3

-----------------------------------------------------------------------------
(* Closing braces.                                                         *)

LEMMA ClosingsConcat ==
    ASSUME NEW S, NEW s \in Seq(S), NEW t \in Seq(S), Balanced(s)
    PROVE  /\ Closings(s \o t) \subseteq 1 .. Len(s) + Len(t)
           /\ \A i \in 1 .. Len(s) : i \in Closings(s \o t) <=> i \in Closings(s)
           /\ \A i \in 1 .. Len(t) : Len(s) + i \in Closings(s \o t) <=> i \in Closings(t)
PROOF
  <1> DEFINE n == Len(s)
             st == s \o t
  <1>1. /\ n \in Nat /\ Len(t) \in Nat /\ DOMAIN s = 1 .. n /\ DOMAIN t = 1 .. Len(t)
        /\ st \in Seq(S) /\ Len(st) = n + Len(t)
        /\ \A i \in 1 .. n + Len(t) : st[i] = IF i <= n THEN s[i] ELSE t[i - n]
    BY ConcatProperties, LenProperties
  <1>2. \A i \in 1 .. n : InString(st, i) <=> InString(s, i)
    BY <1>1, InStringPrefix
  <1>3. \A i \in 1 .. Len(t) : InString(st, n + i) <=> InString(t, i)
    <2>1. \A i \in 1 .. Len(t) + 1 : InString(st, n + i) <=> InString(t, i)
      BY BalancedConcat
    <2> QED BY <1>1, <2>1
  <1> HIDE DEF st
  <1>4. DOMAIN st = 1 .. n + Len(t)
    BY <1>1, LenProperties
  <1>5. Closings(st) \subseteq 1 .. n + Len(t)
    BY <1>4 DEF Closings
  <1>6. ASSUME NEW i \in 1 .. n PROVE i \in Closings(st) <=> i \in Closings(s)
    <2>1. i \in 1 .. n + Len(t) /\ i <= n
      BY <1>1
    <2>2. st[i] = s[i]
      BY <1>1, <2>1
    <2> QED BY <1>1, <1>2, <1>4, <2>1, <2>2, InStringTypes DEF Closings
  <1>7. ASSUME NEW i \in 1 .. Len(t) PROVE n + i \in Closings(st) <=> i \in Closings(t)
    <2> HIDE DEF n
    <2>1. n + i \in 1 .. n + Len(t) /\ ~(n + i <= n) /\ (n + i) - n = i
      BY <1>1
    <2>2. st[n + i] = t[i]
      BY <1>1, <2>1
    <2> QED BY <1>1, <1>3, <1>4, <2>1, <2>2, InStringTypes DEF Closings
  <1> QED BY <1>5, <1>6, <1>7 DEF st

LEMMA CleanConcat ==
    ASSUME NEW S, NEW s \in Seq(S), NEW t \in Seq(S), Clean(s)
    PROVE  /\ Clean(s \o t) <=> Clean(t)
           /\ Closings(s \o t) = {} <=> Closings(t) = {}
PROOF
  <1>1. /\ Len(s) \in Nat /\ Len(t) \in Nat /\ Balanced(s) /\ Closings(s) = {}
        /\ Closings(t) \subseteq 1 .. Len(t)
    BY LenProperties DEF Clean, Closings
  <1>2. /\ Closings(s \o t) \subseteq 1 .. Len(s) + Len(t)
        /\ \A i \in 1 .. Len(s) : i \in Closings(s \o t) <=> i \in Closings(s)
        /\ \A i \in 1 .. Len(t) : Len(s) + i \in Closings(s \o t) <=> i \in Closings(t)
    BY <1>1, ClosingsConcat
  <1>3. \A i \in 1 .. Len(s) + Len(t) : i \in 1 .. Len(s) \/ (i - Len(s) \in 1 .. Len(t) /\ Len(s) + (i - Len(s)) = i)
    BY <1>1
  <1>4. Closings(s \o t) = {} <=> Closings(t) = {}
    BY <1>1, <1>2, <1>3
  <1>5. Balanced(s \o t) <=> Balanced(t)
    BY <1>1, BalancedConcat
  <1> QED BY <1>4, <1>5, InStringTypes DEF Clean

\* A text without quotes has no strings, and without a brace none that closes.
LEMMA PlainText ==
    ASSUME NEW S, NEW t \in Seq(S), \A i \in 1 .. Len(t) : t[i] # Quote
    PROVE  /\ \A i \in 1 .. Len(t) + 1 : ~InString(t, i)
           /\ Balanced(t)
           /\ (\A i \in 1 .. Len(t) : t[i] # ClosingBrace) => Clean(t)
PROOF
  <1>1. Len(t) \in Nat /\ DOMAIN t = 1 .. Len(t)
    BY LenProperties
  <1>2. ASSUME NEW i \in 1 .. Len(t) + 1 PROVE ~InString(t, i)
    <2>1. {j \in 1 .. i - 1 : t[j] = Quote} = {}
      BY <1>1
    <2>2. Cardinality({j \in 1 .. i - 1 : t[j] = Quote}) = 0
      BY <2>1, FS_EmptySet
    <2>3. 0 % 2 # 1
      OBVIOUS
    <2> QED BY <2>2, <2>3 DEF InString
  <1>3. Balanced(t)
    BY <1>1, <1>2 DEF Balanced
  <1>4. (\A i \in 1 .. Len(t) : t[i] # ClosingBrace) => Closings(t) = {}
    BY <1>1 DEF Closings
  <1> QED BY <1>2, <1>3, <1>4 DEF Clean

LEMMA CleanToken ==
    ASSUME NEW S, NEW e \in S, e # Quote, e # ClosingBrace
    PROVE  <<e>> \in Seq(S) /\ Clean(<<e>>)
PROOF
  <1> DEFINE one == <<e>>
  <1>1. one \in Seq(S)
    OBVIOUS
  <1>2. Len(one) = 1 /\ one[1] = e
    OBVIOUS
  <1> HIDE DEF one
  <1>3. \A i \in 1 .. Len(one) : i = 1
    BY <1>2
  <1>4. \A i \in 1 .. Len(one) : one[i] # Quote /\ one[i] # ClosingBrace
    BY <1>2, <1>3
  <1>5. Clean(one)
    BY <1>1, <1>4, PlainText
  <1> QED BY <1>1, <1>5 DEF one

LEMMA CleanEmpty == Clean(<<>>)
PROOF
  <1> DEFINE none == <<>>
  <1>1. none \in Seq({Quote}) /\ Len(none) = 0
    OBVIOUS
  <1> HIDE DEF none
  <1>2. \A i \in 1 .. Len(none) : none[i] # Quote /\ none[i] # ClosingBrace
    BY <1>1
  <1>3. Clean(none)
    BY <1>1, <1>2, PlainText
  <1> QED BY <1>3 DEF none

\* A quoted value is one string: its quotes are escaped, its braces inside.
LEMMA QuotedIsClean ==
    ASSUME NEW S, Quote \in S, EscapedQuote \in S, NEW value \in Seq(S)
    PROVE  Quoted(value) \in Seq(S) /\ Clean(Quoted(value))
PROOF
  <1> DEFINE u == EscapeLogQLString(value)
             q == <<Quote>>
             x == q \o u
  <1>1. EscapedQuote # Quote /\ Quote # ClosingBrace
    BY DEF EscapedQuote, Quote, ClosingBrace
  <1>2. /\ Len(value) \in Nat /\ DOMAIN value = 1 .. Len(value)
        /\ \A i \in 1 .. Len(value) : value[i] \in S
    BY LenProperties
  <1>3. /\ u \in Seq(S) /\ Len(u) = Len(value)
        /\ \A i \in 1 .. Len(u) : u[i] # Quote
    <2>1. u = [i \in 1 .. Len(value) |-> IF value[i] = Quote THEN EscapedQuote ELSE value[i]]
      BY <1>2 DEF EscapeLogQLString
    <2> HIDE DEF u
    <2>2. \A i \in 1 .. Len(value) : u[i] = IF value[i] = Quote THEN EscapedQuote ELSE value[i]
      BY <2>1
    <2>3. \A i \in 1 .. Len(value) : u[i] \in S /\ u[i] # Quote
      BY <1>1, <1>2, <2>2
    <2>4. u = [i \in 1 .. Len(value) |-> u[i]]
      BY <2>1
    <2>5. u \in [1 .. Len(value) -> S]
      BY <2>3, <2>4
    <2>6. u \in Seq(S) /\ Len(u) = Len(value)
      BY <1>2, <2>5
    <2> QED BY <2>3, <2>6
  <1>4. q \in Seq(S) /\ Len(q) = 1 /\ q[1] = Quote
    OBVIOUS
  <1>5. ~Balanced(q)
    <2>1. <<>> \in Seq(S) /\ Append(<<>>, Quote) = q /\ Balanced(<<>>)
      BY CleanEmpty DEF Clean
    <2> QED BY <2>1, BalancedAppend
  <1> HIDE DEF u, q
  <1>6. /\ x \in Seq(S) /\ Len(x) = Len(u) + 1 /\ DOMAIN x = 1 .. Len(u) + 1
        /\ x[1] = Quote
    <2>1. /\ x \in Seq(S) /\ Len(x) = Len(q) + Len(u)
          /\ \A i \in 1 .. Len(q) + Len(u) : x[i] = IF i <= Len(q) THEN q[i] ELSE u[i - Len(q)]
      BY <1>3, <1>4, ConcatProperties
    <2>2. DOMAIN x = 1 .. Len(x)
      <3> HIDE DEF x
      <3> QED BY <2>1, LenProperties
    <2>3. Len(q) = 1 /\ 1 \in 1 .. 1 + Len(u) /\ 1 + Len(u) = Len(u) + 1
      BY <1>2, <1>3, <1>4
    <2> HIDE DEF x
    <2> QED BY <1>4, <2>1, <2>2, <2>3
  <1>7. \A i \in 1 .. Len(u) + 1 : InString(x, 1 + i)
    <2>1. \A i \in 1 .. Len(u) + 1 : ~InString(u, i)
      BY <1>3, PlainText
    <2>2. \A i \in 1 .. Len(u) + 1 : InString(x, Len(q) + i) <=> ~InString(u, i)
      BY <1>3, <1>4, <1>5, InStringConcat
    <2> QED BY <1>4, <2>1, <2>2
  <1> HIDE DEF x
  <1>8. ~Balanced(x)
    <2>1. Len(u) + 1 \in 1 .. Len(u) + 1 /\ Len(x) + 1 = 1 + (Len(u) + 1)
      BY <1>2, <1>3, <1>6
    <2> QED BY <1>7, <2>1 DEF Balanced
  <1>9. Append(x, Quote) \in Seq(S) /\ Balanced(Append(x, Quote))
    BY <1>6, <1>8, AppendProperties, BalancedAppend
  <1>10. Closings(Append(x, Quote)) = {}
    <2> SUFFICES ASSUME NEW i \in Closings(Append(x, Quote)) PROVE FALSE
      OBVIOUS
    <2> DEFINE y == Append(x, Quote)
    <2>1. /\ y \in Seq(S) /\ Len(y) = Len(x) + 1 /\ y = x \o <<Quote>> /\ <<Quote>> \in Seq(S)
          /\ \A j \in 1 .. Len(x) : y[j] = x[j]
          /\ y[Len(x) + 1] = Quote
      BY <1>6, AppendProperties, AppendIsConcat
    <2>2. DOMAIN y = 1 .. Len(x) + 1
      <3> HIDE DEF y
      <3> QED BY <2>1, LenProperties
    <2>3. i \in 1 .. Len(x) + 1 /\ y[i] = ClosingBrace /\ ~InString(y, i)
      BY <2>2 DEF Closings
    <2>4. InString(y, i) <=> InString(x, i)
      BY <1>6, <2>1, <2>3, InStringPrefix
    <2> HIDE DEF y
    <2>5. i # 1 /\ i # Len(x) + 1
      <3>1. 1 \in 1 .. Len(x)
        BY <1>2, <1>3, <1>6
      <3> QED BY <1>1, <1>6, <2>1, <2>3, <3>1
    <2>6. i - 1 \in 1 .. Len(u) + 1 /\ 1 + (i - 1) = i
      <3>1. Len(u) \in Nat /\ Len(x) = Len(u) + 1 /\ i \in Int /\ 1 <= i /\ i <= Len(x) + 1
        BY <1>2, <1>3, <1>6, <2>3
      <3> QED BY <2>5, <3>1
    <2>7. InString(x, i)
      BY <1>7, <2>6
    <2> QED BY <2>3, <2>4, <2>7
  <1>11. Quoted(value) = Append(x, Quote)
    BY <1>6, AppendIsConcat DEF Quoted, x, q, u
  <1> QED BY <1>9, <1>10, <1>11 DEF Clean

-----------------------------------------------------------------------------
(* Blanks at the ends of a text.                                           *)

\* Nothing but blanks.
Void(text) == \A i \in 1 .. Len(text) : text[i] = Blank

LEMMA VoidText ==
    ASSUME NEW S, NEW t \in Seq(S), Void(t)
    PROVE  Clean(t) /\ Ink(t) = <<>>
PROOF
  <1>1. Blank # Quote /\ Blank # ClosingBrace
    BY DEF Blank, Quote, ClosingBrace
  <1>2. Len(t) \in Nat /\ DOMAIN t = 1 .. Len(t) /\ \A i \in 1 .. Len(t) : t[i] = Blank
    BY LenProperties DEF Void
  <1>3. /\ \A i \in 1 .. Len(t) + 1 : ~InString(t, i)
        /\ Clean(t)
    BY <1>1, <1>2, PlainText
  <1>4. Inked(t) = {}
    BY <1>2, <1>3, InStringTypes DEF Inked
  <1> QED BY <1>3, <1>4, InkTypes, SubsequenceOfNone

LEMMA SubSeqTypes ==
    ASSUME NEW S, NEW t \in Seq(S), NEW m \in 1 .. Len(t) + 1, NEW n \in m - 1 .. Len(t)
    PROVE  /\ SubSeq(t, m, n) \in Seq(S)
           /\ Len(SubSeq(t, m, n)) = n - m + 1
           /\ \A i \in 1 .. n - m + 1 : SubSeq(t, m, n)[i] = t[m + i - 1]
PROOF
  <1>1. Len(t) \in Nat /\ \A i \in 1 .. Len(t) : t[i] \in S
    BY LenProperties
  <1>2. m \in Int /\ n \in Int /\ \A i \in m .. n : t[i] \in S
    BY <1>1
  <1>3. /\ SubSeq(t, m, n) \in Seq(S)
        /\ Len(SubSeq(t, m, n)) = IF m <= n THEN n - m + 1 ELSE 0
        /\ \A i \in 1 .. n - m + 1 : SubSeq(t, m, n)[i] = t[m + i - 1]
    BY <1>2, SubSeqProperties
  <1>4. (IF m <= n THEN n - m + 1 ELSE 0) = n - m + 1
    BY <1>1, <1>2
  <1> QED BY <1>3, <1>4

\* Trimming takes blanks away, and all of them, at both ends.
LEMMA TrimParts ==
    ASSUME NEW S, NEW t \in Seq(S)
    PROVE  /\ Trim(t) \in Seq(S)
           /\ \E front, back \in Seq(S) :
                 Void(front) /\ Void(back) /\ t = (front \o Trim(t)) \o back
           /\ Trim(t) # <<>> => Trim(t)[1] # Blank
           /\ Trim(t) = <<>> => Void(t)
PROOF
  <1> DEFINE n == Len(t)
             ink == {i \in DOMAIN t : t[i] # Blank}
  <1>1. n \in Nat /\ DOMAIN t = 1 .. n
    BY LenProperties
  <1>2. CASE ink = {}
    <2>1. Trim(t) = <<>>
      BY <1>2 DEF Trim
    <2>2. Void(t)
      BY <1>1, <1>2 DEF Void
    <2>3. <<>> \in Seq(S) /\ Len(<<>>) = 0
      BY EmptySeq
    <2>4. Void(<<>>)
      BY <2>3 DEF Void
    <2>5. t = (<<>> \o <<>>) \o t
      BY <2>3, ConcatEmptySeq
    <2>6. Trim(t) \in Seq(S)
      BY <2>1, <2>3
    <2> QED BY <2>1, <2>2, <2>3, <2>4, <2>5, <2>6
  <1>3. CASE ink # {}
    <2> DEFINE a == Min(ink)
               b == Max(ink)
               front == SubSeq(t, 1, a - 1)
               back == SubSeq(t, b + 1, n)
    <2>1. /\ a \in ink /\ b \in ink
          /\ \A i \in ink : a <= i /\ i <= b
      <3>1. ink \in SUBSET (1 .. n)
        BY <1>1
      <3>2. IsFiniteSet(1 .. n)
        BY <1>1, FS_Interval
      <3>3. ink \in SUBSET Int /\ IsFiniteSet(ink) /\ ink # {}
        BY <1>3, <3>1, <3>2, FS_Subset
      <3> HIDE DEF ink
      <3>4. /\ Max(ink) \in ink /\ \A i \in ink : Max(ink) >= i
            /\ Min(ink) \in ink /\ \A i \in ink : Min(ink) <= i
        BY <3>3, MaxMin
      <3> QED BY <3>3, <3>4
    <2>2. a \in 1 .. n /\ b \in 1 .. n /\ a <= b /\ t[a] # Blank
      BY <1>1, <2>1
    <2>3. ASSUME NEW i \in 1 .. n, i < a \/ b < i PROVE t[i] = Blank
      <3>1. i \notin ink
        <4> HIDE DEF ink, a, b
        <4>1. a \in Int /\ b \in Int /\ i \in Int
          BY <2>2
        <4> QED BY <2>1, <2>3, <4>1
      <3> QED BY <1>1, <3>1
    <2>4. Trim(t) = SubSeq(t, a, b)
      BY <1>3 DEF Trim
    <2> HIDE DEF a, b, ink
    <2>5. /\ SubSeq(t, a, b) \in Seq(S) /\ Len(SubSeq(t, a, b)) = b - a + 1
          /\ \A i \in 1 .. b - a + 1 : SubSeq(t, a, b)[i] = t[a + i - 1]
      BY <1>1, <2>2, SubSeqTypes
    <2>6. Trim(t)[1] = t[a] /\ Trim(t) # <<>>
      <3>1. 1 \in 1 .. b - a + 1 /\ a + 1 - 1 = a /\ b - a + 1 # 0
        BY <2>2
      <3>2. SubSeq(t, a, b)[1] = t[a + 1 - 1]
        BY <2>5, <3>1
      <3>3. Len(Trim(t)) # 0
        BY <2>2, <2>4, <2>5
      <3>4. Len(<<>>) = 0
        OBVIOUS
      <3> QED BY <2>4, <3>1, <3>2, <3>3, <3>4
    <2>7. /\ front \in Seq(S) /\ Len(front) = a - 1
          /\ \A i \in 1 .. a - 1 : front[i] = t[i]
      <3>1. /\ 1 \in 1 .. n + 1 /\ a - 1 \in 1 - 1 .. n /\ (a - 1) - 1 + 1 = a - 1
            /\ \A i \in 1 .. a - 1 : 1 + i - 1 = i
        BY <1>1, <2>2
      <3>2. /\ front \in Seq(S) /\ Len(front) = (a - 1) - 1 + 1
            /\ \A i \in 1 .. (a - 1) - 1 + 1 : front[i] = t[1 + i - 1]
        BY <3>1, SubSeqTypes
      <3> QED BY <3>1, <3>2
    <2>8. Void(front)
      <3> HIDE DEF front
      <3> QED BY <2>2, <2>3, <2>7 DEF Void
    <2>9. /\ back \in Seq(S) /\ Len(back) = n - b
          /\ \A i \in 1 .. n - b : back[i] = t[b + i]
      <3>1. /\ b + 1 \in 1 .. n + 1 /\ n \in (b + 1) - 1 .. n /\ n - (b + 1) + 1 = n - b
            /\ \A i \in 1 .. n - b : (b + 1) + i - 1 = b + i
        BY <1>1, <2>2
      <3>2. /\ back \in Seq(S) /\ Len(back) = n - (b + 1) + 1
            /\ \A i \in 1 .. n - (b + 1) + 1 : back[i] = t[(b + 1) + i - 1]
        BY <3>1, SubSeqTypes
      <3> QED BY <3>1, <3>2
    <2>10. Void(back)
      <3>1. \A i \in 1 .. n - b : b + i \in 1 .. n /\ b < b + i
        BY <1>1, <2>2
      <3> HIDE DEF back
      <3> QED BY <2>3, <2>9, <3>1 DEF Void
    <2>11. t = (front \o SubSeq(t, a, b)) \o back
      <3>1. front \o SubSeq(t, a, b) = SubSeq(t, 1, b)
        <4>1. 1 \in 1 .. n + 1 /\ a - 1 \in 1 - 1 .. n /\ b \in a - 1 .. n /\ (a - 1) + 1 = a
          BY <1>1, <2>2
        <4>2. SubSeq(t, 1, a - 1) \o SubSeq(t, (a - 1) + 1, b) = SubSeq(t, 1, b)
          BY <4>1, ConcatAdjacentSubSeq
        <4> QED BY <4>1, <4>2
      <3>2. SubSeq(t, 1, b) \o back = SubSeq(t, 1, n)
        <4>1. 1 \in 1 .. n + 1 /\ b \in 1 - 1 .. n /\ n \in b .. n
          BY <1>1, <2>2
        <4> QED BY <4>1, ConcatAdjacentSubSeq
      <3>3. SubSeq(t, 1, n) = t
        BY SubSeqFull
      <3> QED BY <3>1, <3>2, <3>3
    <2>12. Trim(t) \in Seq(S) /\ t = (front \o Trim(t)) \o back
      BY <2>4, <2>5, <2>11
    <2> HIDE DEF front, back
    <2> QED BY <2>2, <2>6, <2>7, <2>8, <2>9, <2>10, <2>12
  <1> QED BY <1>2, <1>3

\* A text that does not begin with a blank keeps its beginning.
LEMMA TrimFirst ==
    ASSUME NEW S, NEW t \in Seq(S), t # <<>>, t[1] # Blank
    PROVE  Trim(t) # <<>> /\ Trim(t)[1] = t[1]
PROOF
  <1>1. /\ Trim(t) \in Seq(S)
        /\ Trim(t) # <<>> => Trim(t)[1] # Blank
        /\ Trim(t) = <<>> => Void(t)
    BY TrimParts
  <1>2. Len(t) \in Nat /\ 1 \in 1 .. Len(t)
    <2>1. Len(t) \in Nat /\ Len(t) # 0
      BY EmptySeq, LenProperties
    <2> QED BY <2>1
  <1>3. Trim(t) # <<>>
    BY <1>1, <1>2 DEF Void
  <1>4. PICK front \in Seq(S), back \in Seq(S) :
            Void(front) /\ Void(back) /\ t = (front \o Trim(t)) \o back
    BY TrimParts
  <1> DEFINE r == Trim(t)
             x == front \o r
  <1>5. Len(front) \in Nat /\ Len(r) \in Nat /\ Len(back) \in Nat /\ Len(r) # 0
    BY <1>1, <1>3, EmptySeq, LenProperties
  <1> HIDE DEF r
  <1>6. /\ x \in Seq(S) /\ Len(x) = Len(front) + Len(r)
        /\ \A i \in 1 .. Len(front) + Len(r) : x[i] = IF i <= Len(front) THEN front[i] ELSE r[i - Len(front)]
    BY <1>1, ConcatProperties DEF r
  <1> HIDE DEF x
  <1>7. /\ Len(x \o back) = Len(x) + Len(back)
        /\ \A i \in 1 .. Len(x) + Len(back) : (x \o back)[i] = IF i <= Len(x) THEN x[i] ELSE back[i - Len(x)]
    BY <1>6, ConcatProperties
  <1>8. t = x \o back
    BY <1>4 DEF x, r
  <1>9. 1 \in 1 .. Len(front) + Len(r) /\ 1 \in 1 .. Len(x) + Len(back) /\ 1 <= Len(x)
    BY <1>5, <1>6
  <1>10. t[1] = x[1]
    BY <1>7, <1>8, <1>9
  <1>11. Len(front) = 0
    <2> SUFFICES ASSUME Len(front) # 0 PROVE FALSE
      OBVIOUS
    <2>1. 1 <= Len(front) /\ 1 \in 1 .. Len(front)
      BY <1>5
    <2>2. x[1] = front[1] /\ front[1] = Blank
      BY <1>4, <1>6, <1>9, <2>1 DEF Void
    <2> QED BY <1>10, <2>2
  <1>12. x[1] = r[1]
    <2>1. ~(1 <= Len(front)) /\ 1 - Len(front) = 1
      BY <1>11
    <2> QED BY <1>6, <1>9, <2>1
  <1> QED BY <1>3, <1>10, <1>12 DEF r

\* Loki reads a trimmed text as it reads the text.
LEMMA TrimReads ==
    ASSUME NEW S, NEW t \in Seq(S), Balanced(t)
    PROVE  /\ Balanced(Trim(t))
           /\ Ink(Trim(t)) = Ink(t)
           /\ Closings(Trim(t)) = {} <=> Closings(t) = {}
           /\ Trim(t) = <<>> <=> Ink(t) = <<>>
PROOF
  <1>1. PICK front \in Seq(S), back \in Seq(S) :
            Void(front) /\ Void(back) /\ t = (front \o Trim(t)) \o back
    BY TrimParts
  <1> DEFINE r == Trim(t)
             x == front \o r
  <1>2. r \in Seq(S) /\ (r # <<>> => r[1] # Blank) /\ (r = <<>> => Void(t))
    BY TrimParts
  <1>3. /\ Clean(front) /\ Ink(front) = <<>> /\ Clean(back) /\ Ink(back) = <<>>
        /\ Balanced(front) /\ Balanced(back) /\ Closings(back) = {}
    BY <1>1, VoidText DEF Clean
  <1> HIDE DEF r
  <1>4. x \in Seq(S) /\ (Balanced(x) <=> Balanced(r)) /\ (Closings(x) = {} <=> Closings(r) = {})
    BY <1>2, <1>3, ConcatProperties, BalancedConcat, CleanConcat
  <1>5. Ink(r) \in Seq(S) /\ Ink(x) = Ink(front) \o Ink(r)
    BY <1>2, <1>3, InkTypes, InkConcat
  <1>6. Ink(x) = Ink(r)
    BY <1>3, <1>5, ConcatEmptySeq
  <1>7. t = x \o back
    BY <1>1 DEF r
  <1> HIDE DEF x
  <1>8. Balanced(x)
    <2>1. Len(back) \in Nat /\ Len(x) \in Nat /\ Len(t) = Len(x) + Len(back)
      BY <1>4, <1>7, ConcatProperties, LenProperties
    <2>2. Len(back) + 1 \in 1 .. Len(back) + 1 /\ Len(t) + 1 = Len(x) + (Len(back) + 1)
      BY <2>1
    <2>3. InString(t, Len(x) + (Len(back) + 1)) <=>
              IF Balanced(x) THEN InString(back, Len(back) + 1) ELSE ~InString(back, Len(back) + 1)
      BY <1>4, <1>7, <2>2, InStringConcat
    <2> QED BY <1>3, <2>2, <2>3, InStringTypes DEF Balanced
  <1>9. Ink(t) = Ink(x) \o Ink(back)
    BY <1>4, <1>7, <1>8, InkConcat
  <1>10. Ink(t) = Ink(r)
    BY <1>3, <1>5, <1>6, <1>9, ConcatEmptySeq
  <1>11. Closings(t) = {} <=> Closings(x) = {}
    <2>1. Len(back) \in Nat /\ Len(x) \in Nat
      BY <1>4, LenProperties
    <2>2. /\ Closings(t) \subseteq 1 .. Len(x) + Len(back)
          /\ \A i \in 1 .. Len(x) : i \in Closings(t) <=> i \in Closings(x)
          /\ \A i \in 1 .. Len(back) : Len(x) + i \in Closings(t) <=> i \in Closings(back)
      BY <1>4, <1>7, <1>8, ClosingsConcat
    <2>3. \A i \in 1 .. Len(x) + Len(back) :
              i \in 1 .. Len(x) \/ (i - Len(x) \in 1 .. Len(back) /\ Len(x) + (i - Len(x)) = i)
      BY <2>1
    <2>4. Closings(x) \subseteq 1 .. Len(x)
      BY <1>4, LenProperties DEF Closings
    <2>5. 1 .. Len(x) \subseteq 1 .. Len(x) + Len(back)
      BY <2>1
    <2> QED BY <1>3, <2>2, <2>3, <2>4, <2>5
  <1>12. ASSUME r # <<>> PROVE Ink(r) # <<>>
    <2>1. Len(r) \in Nat /\ DOMAIN r = 1 .. Len(r) /\ Len(r) # 0
      BY <1>2, <1>12, EmptySeq, LenProperties
    <2>2. 1 \in Inked(r)
      BY <1>2, <1>12, <2>1 DEF Inked
    <2>3. \E k \in DOMAIN Ink(r) : Ink(r)[k] = r[1]
      <3> DEFINE kept == Inked(r)
      <3>1. r \in Seq(S) /\ kept \in SUBSET DOMAIN r /\ 1 \in kept /\ Ink(r) = Subsequence(r, kept)
        BY <1>2, <2>2, InkTypes
      <3> HIDE DEF kept
      <3>2. \E k \in DOMAIN Subsequence(r, kept) : Subsequence(r, kept)[k] = r[1]
        BY <3>1, SubsequenceKeeps
      <3> QED BY <3>1, <3>2
    <2>4. DOMAIN <<>> = {}
      OBVIOUS
    <2> QED BY <2>3, <2>4
  <1>13. r = <<>> => Ink(r) = <<>>
    BY InkEmpty
  <1> QED BY <1>4, <1>8, <1>10, <1>11, <1>12, <1>13 DEF r

-----------------------------------------------------------------------------
(* Texts joined to one.                                                    *)

LEMMA FlattenDef ==
    ASSUME NEW S, NEW ss \in Seq(Seq(S)), Len(ss) # 0
    PROVE  \E f : /\ f[1] = ss[1]
                  /\ \A i \in 2 .. Len(ss) : f[i] = f[i - 1] \o ss[i]
                  /\ FlattenSeq(ss) = f[Len(ss)]
PROOF
  <1> DEFINE size == Len(ss)
             Joins(g, n) == \A i \in 1 .. n : g[i] = IF i = 1 THEN ss[i] ELSE g[i - 1] \o ss[i]
             Built == {n \in Nat : \E g \in [1 .. n -> Seq(S)] : Joins(g, n)}
             IsFlatten(g) == g = [i \in 1 .. Len(ss) |-> IF i = 1 THEN ss[i] ELSE g[i - 1] \o ss[i]]
  <1>1. size \in Nat /\ size # 0 /\ \A i \in 1 .. size : ss[i] \in Seq(S)
    BY LenProperties
  <1>2. 0 \in Built
    <2>1. [i \in 1 .. 0 |-> <<>>] \in [1 .. 0 -> Seq(S)] /\ Joins([i \in 1 .. 0 |-> <<>>], 0)
      OBVIOUS
    <2> QED BY <2>1
  <1>3. ASSUME NEW n \in 0 .. size - 1, n \in Built PROVE n + 1 \in Built
    <2>1. PICK g \in [1 .. n -> Seq(S)] : Joins(g, n)
      BY <1>3
    <2> DEFINE next == IF n = 0 THEN ss[1] ELSE g[n] \o ss[n + 1]
               h == [i \in 1 .. n + 1 |-> IF i = n + 1 THEN next ELSE g[i]]
    <2>2. n \in Nat /\ n + 1 \in 1 .. size /\ (n # 0 => n \in 1 .. n)
      BY <1>1
    <2>3. next \in Seq(S)
      <3>1. n # 0 => g[n] \in Seq(S)
        BY <2>2
      <3>2. ss[n + 1] \in Seq(S) /\ (n = 0 => n + 1 = 1)
        BY <1>1, <2>2
      <3> QED BY <2>2, <3>1, <3>2, ConcatProperties
    <2>4. h[n + 1] = IF n + 1 = 1 THEN ss[n + 1] ELSE h[(n + 1) - 1] \o ss[n + 1]
      BY <2>2
    <2>5. ASSUME NEW i \in 1 .. n PROVE h[i] = IF i = 1 THEN ss[i] ELSE h[i - 1] \o ss[i]
      <3>1. h[i] = g[i] /\ (i # 1 => h[i - 1] = g[i - 1])
        <4>1. i \in 1 .. n + 1 /\ i # n + 1
          BY <2>2
        <4>2. i # 1 => i - 1 \in 1 .. n + 1 /\ i - 1 # n + 1
          BY <2>2
        <4> HIDE DEF next
        <4> QED BY <4>1, <4>2
      <3>2. g[i] = IF i = 1 THEN ss[i] ELSE g[i - 1] \o ss[i]
        BY <2>1
      <3> HIDE DEF h
      <3> QED BY <3>1, <3>2
    <2>6. h \in [1 .. n + 1 -> Seq(S)]
      <3> HIDE DEF next
      <3>1. \A i \in 1 .. n + 1 : i = n + 1 \/ i \in 1 .. n
        BY <2>2
      <3> QED BY <2>3, <3>1
    <2> HIDE DEF h
    <2>7. Joins(h, n + 1)
      <3>1. \A i \in 1 .. n + 1 : i = n + 1 \/ i \in 1 .. n
        BY <2>2
      <3> QED BY <2>4, <2>5, <3>1
    <2> HIDE DEF Joins
    <2> QED BY <2>2, <2>6, <2>7
  <1>4. size \in Built
    <2> HIDE DEF Built, size
    <2>1. 0 .. size \subseteq Built
      BY <1>1, <1>2, <1>3, InductionUpTo
    <2> QED BY <1>1, <2>1
  <1>5. \E g : IsFlatten(g)
    <2>1. PICK g \in [1 .. size -> Seq(S)] : Joins(g, size)
      BY <1>4
    <2>2. IsFlatten(g)
      BY <2>1
    <2> QED BY <2>2
  <1> DEFINE f == CHOOSE g : IsFlatten(g)
  <1>6. IsFlatten(f)
    BY <1>5
  <1>7. FlattenSeq(ss) = f[Len(ss)]
    BY <1>1 DEF FlattenSeq
  <1> HIDE DEF f
  <1>8. \A i \in 1 .. size : f[i] = IF i = 1 THEN ss[i] ELSE f[i - 1] \o ss[i]
    BY <1>6
  <1>9. 1 \in 1 .. size /\ \A i \in 2 .. size : i \in 1 .. size /\ i # 1
    BY <1>1
  <1>10. f[1] = ss[1] /\ \A i \in 2 .. size : f[i] = f[i - 1] \o ss[i]
    BY <1>8, <1>9
  <1> QED BY <1>7, <1>10

LEMMA FlattenEmpty == FlattenSeq(<<>>) = <<>>
  BY DEF FlattenSeq

LEMMA FlattenAppend ==
    ASSUME NEW S, NEW ss \in Seq(Seq(S)), NEW x \in Seq(S)
    PROVE  FlattenSeq(Append(ss, x)) = FlattenSeq(ss) \o x
PROOF
  <1> DEFINE n == Len(ss)
             more == Append(ss, x)
  <1>1. /\ n \in Nat /\ more \in Seq(Seq(S)) /\ Len(more) = n + 1 /\ more[n + 1] = x
        /\ \A i \in 1 .. n : more[i] = ss[i]
    BY AppendProperties, LenProperties
  <1> HIDE DEF more
  <1>2. PICK f : /\ f[1] = more[1]
                 /\ \A i \in 2 .. n + 1 : f[i] = f[i - 1] \o more[i]
                 /\ FlattenSeq(more) = f[n + 1]
    <2>1. Len(more) # 0
      BY <1>1
    <2> QED BY <1>1, <2>1, FlattenDef
  <1>3. CASE n = 0
    <2>1. ss = <<>>
      BY <1>3
    <2>2. FlattenSeq(more) = x
      BY <1>1, <1>2, <1>3
    <2>3. FlattenSeq(ss) \o x = x
      BY <2>1, FlattenEmpty, ConcatEmptySeq
    <2> QED BY <2>2, <2>3 DEF more
  <1>4. CASE n # 0
    <2>1. PICK g : /\ g[1] = ss[1]
                   /\ \A i \in 2 .. n : g[i] = g[i - 1] \o ss[i]
                   /\ FlattenSeq(ss) = g[n]
      BY <1>4, FlattenDef
    <2> DEFINE T == {k \in Nat : f[k + 1] = g[k + 1]}
    <2>2. 0 \in T
      <3>1. 1 \in 1 .. n
        BY <1>1, <1>4
      <3> QED BY <1>1, <1>2, <2>1, <3>1
    <2>3. ASSUME NEW k \in 0 .. (n - 1) - 1, k \in T PROVE k + 1 \in T
      <3> DEFINE i == (k + 1) + 1
      <3>1. i \in 2 .. n /\ i \in 2 .. n + 1 /\ i \in 1 .. n /\ i - 1 = k + 1 /\ k + 1 \in Nat
        BY <1>1
      <3>2. f[k + 1] = g[k + 1]
        BY <2>3
      <3> HIDE DEF i
      <3>3. f[i] = f[i - 1] \o more[i] /\ g[i] = g[i - 1] \o ss[i] /\ more[i] = ss[i]
        BY <1>1, <1>2, <2>1, <3>1
      <3>4. f[i] = g[i]
        BY <3>1, <3>2, <3>3
      <3> QED BY <3>1, <3>4 DEF i
    <2>4. f[n] = g[n]
      <3>1. n - 1 \in Nat /\ n - 1 \in 0 .. n - 1 /\ (n - 1) + 1 = n
        BY <1>1, <1>4
      <3>2. 0 .. n - 1 \subseteq T
        <4> HIDE DEF T
        <4> QED BY <2>2, <2>3, <3>1, InductionUpTo
      <3>3. n - 1 \in T
        <4> HIDE DEF T
        <4> QED BY <3>1, <3>2
      <3> QED BY <3>1, <3>3
    <2>5. n + 1 \in 2 .. n + 1 /\ (n + 1) - 1 = n
      BY <1>1, <1>4
    <2>6. f[n + 1] = f[n] \o x
      BY <1>1, <1>2, <2>5
    <2> QED BY <1>2, <2>1, <2>4, <2>6 DEF more
  <1> QED BY <1>3, <1>4

\* What holds of every text and of the join of two holds of all of them joined.
LEMMA FlattenClosed ==
    ASSUME NEW S, NEW T \in SUBSET Seq(S), <<>> \in T, \A x, y \in T : x \o y \in T,
           NEW ss \in Seq(T)
    PROVE  FlattenSeq(ss) \in T
PROOF
  <1> DEFINE U == {rr \in Seq(T) : FlattenSeq(rr) \in T}
  <1>1. <<>> \in U
    BY FlattenEmpty, EmptySeq
  <1>2. ASSUME NEW rr \in Seq(T), NEW x \in T, rr \in U PROVE Append(rr, x) \in U
    <2>1. rr \in Seq(Seq(S)) /\ x \in Seq(S)
      BY SeqMonotonic
    <2>2. FlattenSeq(Append(rr, x)) = FlattenSeq(rr) \o x
      BY <2>1, FlattenAppend
    <2> QED BY <1>2, <2>2, AppendProperties
  <1>3. Seq(T) \subseteq U
    <2> HIDE DEF U
    <2> QED BY <1>1, <1>2, SequenceInduction
  <1> QED BY <1>3

LEMMA FlattenCons ==
    ASSUME NEW S, NEW x \in Seq(S), NEW ss \in Seq(Seq(S))
    PROVE  FlattenSeq(<<x>> \o ss) = x \o FlattenSeq(ss)
PROOF
  <1> DEFINE A == Seq(S)
             one == <<x>>
             T == {rr \in Seq(A) : FlattenSeq(rr) \in A /\ FlattenSeq(one \o rr) = x \o FlattenSeq(rr)}
  <1>1. one \in Seq(A) /\ x \in A /\ <<>> \in A /\ <<>> \in Seq(A)
    BY EmptySeq
  <1>2. <<>> \in T
    <2>1. one = Append(<<>>, x) /\ one \o <<>> = one
      BY <1>1, ConcatEmptySeq
    <2>2. FlattenSeq(one) = <<>> \o x
      BY <1>1, <2>1, FlattenAppend, FlattenEmpty
    <2>3. <<>> \o x = x \o <<>>
      BY ConcatEmptySeq
    <2> HIDE DEF one, A
    <2> QED BY <1>1, <2>1, <2>2, <2>3, FlattenEmpty
  <1>3. ASSUME NEW rr \in Seq(A), NEW y \in A, rr \in T PROVE Append(rr, y) \in T
    <2>1. /\ Append(rr, y) \in Seq(A) /\ FlattenSeq(rr) \in Seq(S) /\ y \in Seq(S) /\ x \in Seq(S)
          /\ one \o rr \in Seq(A)
      BY <1>1, <1>3, AppendProperties, ConcatProperties
    <2>2. FlattenSeq(Append(rr, y)) = FlattenSeq(rr) \o y /\ FlattenSeq(rr) \o y \in A
      BY <2>1, FlattenAppend, ConcatProperties
    <2>3. one \o Append(rr, y) = Append(one \o rr, y)
      <3>1. Append(rr, y) = rr \o <<y>> /\ <<y>> \in Seq(A)
        BY AppendIsConcat
      <3> HIDE DEF A, one
      <3>2. (one \o rr) \o <<y>> = one \o (rr \o <<y>>)
        BY <1>1, <3>1, ConcatAssociative
      <3>3. Append(one \o rr, y) = (one \o rr) \o <<y>>
        BY <2>1, AppendIsConcat
      <3> QED BY <3>1, <3>2, <3>3
    <2>4. FlattenSeq(Append(one \o rr, y)) = FlattenSeq(one \o rr) \o y
      BY <2>1, FlattenAppend
    <2>5. (x \o FlattenSeq(rr)) \o y = x \o (FlattenSeq(rr) \o y)
      BY <2>1, ConcatAssociative
    <2> HIDE DEF A, one
    <2> QED BY <1>3, <2>1, <2>2, <2>3, <2>4, <2>5
  <1>4. Seq(A) \subseteq T
    <2> HIDE DEF T, A
    <2> QED BY <1>2, <1>3, SequenceInduction
  <1> QED BY <1>4

-----------------------------------------------------------------------------
(* The parts of a query.                                                   *)

Closed(S) == {t \in Seq(S) : Balanced(t)}
CleanTexts(S) == {t \in Seq(S) : Clean(t)}

LEMMA CleanIsClosed ==
    ASSUME NEW S PROVE CleanTexts(S) \subseteq Closed(S) /\ Closed(S) \subseteq Seq(S)
  BY DEF Closed, CleanTexts, Clean

\* Both kinds of text can be joined.
LEMMA JoinedTexts ==
    ASSUME NEW S
    PROVE  /\ <<>> \in CleanTexts(S)
           /\ \A x, y \in CleanTexts(S) : x \o y \in CleanTexts(S)
           /\ \A x, y \in Closed(S) : x \o y \in Closed(S)
           /\ \A ss \in Seq(CleanTexts(S)) : FlattenSeq(ss) \in CleanTexts(S)
           /\ \A ss \in Seq(Closed(S)) : FlattenSeq(ss) \in Closed(S)
PROOF
  <1>1. <<>> \in CleanTexts(S)
    BY CleanEmpty, EmptySeq DEF CleanTexts
  <1>2. ASSUME NEW x \in CleanTexts(S), NEW y \in CleanTexts(S) PROVE x \o y \in CleanTexts(S)
    <2>1. x \in Seq(S) /\ y \in Seq(S) /\ Clean(x) /\ Clean(y)
      BY DEF CleanTexts
    <2> QED BY <2>1, CleanConcat, ConcatProperties DEF CleanTexts
  <1>3. ASSUME NEW x \in Closed(S), NEW y \in Closed(S) PROVE x \o y \in Closed(S)
    <2>1. x \in Seq(S) /\ y \in Seq(S) /\ Balanced(x) /\ Balanced(y)
      BY DEF Closed
    <2> QED BY <2>1, BalancedConcat, ConcatProperties DEF Closed
  <1>4. \A ss \in Seq(CleanTexts(S)) : FlattenSeq(ss) \in CleanTexts(S)
    <2>1. CleanTexts(S) \in SUBSET Seq(S)
      BY DEF CleanTexts
    <2> QED BY <1>1, <1>2, <2>1, FlattenClosed
  <1>5. \A ss \in Seq(Closed(S)) : FlattenSeq(ss) \in Closed(S)
    <2>1. Closed(S) \in SUBSET Seq(S) /\ <<>> \in Closed(S)
      BY <1>1, CleanIsClosed DEF Closed
    <2> QED BY <1>3, <2>1, FlattenClosed
  <1> QED BY <1>1, <1>2, <1>3, <1>4, <1>5

\* Loki reads texts joined to one by reading each.
LEMMA InkFlatten ==
    ASSUME NEW S, NEW ss \in Seq(Closed(S)), NEW rr \in Seq(Closed(S)), Len(ss) = Len(rr),
           \A i \in 1 .. Len(ss) : Ink(ss[i]) = Ink(rr[i])
    PROVE  Ink(FlattenSeq(ss)) = Ink(FlattenSeq(rr))
PROOF
  <1> DEFINE C == Closed(S)
             Same(a, b) == Len(a) = Len(b) /\ \A i \in 1 .. Len(a) : Ink(a[i]) = Ink(b[i])
             T == {a \in Seq(C) :
                      \A b \in Seq(C) : Same(a, b) => Ink(FlattenSeq(a)) = Ink(FlattenSeq(b))}
  <1>0. C \subseteq Seq(S)
    BY DEF Closed
  <1>1. <<>> \in T
    <2>1. \A b \in Seq(C) : Len(<<>>) = Len(b) => b = <<>>
      OBVIOUS
    <2>2. <<>> \in Seq(C)
      OBVIOUS
    <2> QED BY <2>1, <2>2
  <1> HIDE DEF C
  <1>2. ASSUME NEW a \in Seq(C), NEW x \in C, a \in T PROVE Append(a, x) \in T
    <2>1. /\ Append(a, x) \in Seq(C) /\ Len(Append(a, x)) = Len(a) + 1
          /\ Append(a, x)[Len(a) + 1] = x
          /\ \A i \in 1 .. Len(a) : Append(a, x)[i] = a[i]
          /\ Len(a) \in Nat
      BY AppendProperties, LenProperties
    <2> SUFFICES ASSUME NEW b \in Seq(C), Same(Append(a, x), b)
                 PROVE  Ink(FlattenSeq(Append(a, x))) = Ink(FlattenSeq(b))
      BY <2>1
    <2>2. /\ Len(b) = Len(a) + 1
          /\ \A i \in 1 .. Len(a) + 1 : Ink(Append(a, x)[i]) = Ink(b[i])
      BY <2>1
    <2>3. b # <<>>
      <3>1. Len(<<>>) = 0 /\ Len(a) + 1 # 0
        BY <2>1
      <3> QED BY <2>2, <3>1
    <2>4. PICK d \in Seq(C), y \in C : b = Append(d, y)
      BY <2>3, SequenceEmptyOrAppend
    <2>5. /\ Len(b) = Len(d) + 1 /\ Len(d) \in Nat /\ b[Len(d) + 1] = y
          /\ \A i \in 1 .. Len(d) : b[i] = d[i]
      BY <2>4, AppendProperties, LenProperties
    <2>6. Len(d) = Len(a)
      BY <2>1, <2>2, <2>5
    <2>7. Ink(x) = Ink(y)
      <3>1. Len(a) + 1 \in 1 .. Len(a) + 1
        BY <2>1
      <3> QED BY <2>1, <2>2, <2>5, <2>6, <3>1
    <2>8. Same(a, d)
      <3>1. \A i \in 1 .. Len(a) : i \in 1 .. Len(a) + 1
        BY <2>1
      <3>2. ASSUME NEW i \in 1 .. Len(a) PROVE Ink(a[i]) = Ink(d[i])
        <4>1. Append(a, x)[i] = a[i] /\ b[i] = d[i]
          BY <2>1, <2>5, <2>6
        <4> QED BY <2>2, <3>1, <4>1
      <3> QED BY <2>6, <3>2
    <2>9. Ink(FlattenSeq(a)) = Ink(FlattenSeq(d))
      <3> HIDE DEF Same
      <3> QED BY <1>2, <2>8
    <2>10. /\ FlattenSeq(Append(a, x)) = FlattenSeq(a) \o x
           /\ FlattenSeq(b) = FlattenSeq(d) \o y
      <3>1. a \in Seq(Seq(S)) /\ d \in Seq(Seq(S)) /\ x \in Seq(S) /\ y \in Seq(S)
        BY <1>0, SeqMonotonic
      <3> QED BY <2>4, <3>1, FlattenAppend
    <2>11. FlattenSeq(a) \in C /\ FlattenSeq(d) \in C
      BY JoinedTexts DEF C
    <2>12. /\ Ink(FlattenSeq(a) \o x) = Ink(FlattenSeq(a)) \o Ink(x)
           /\ Ink(FlattenSeq(d) \o y) = Ink(FlattenSeq(d)) \o Ink(y)
      <3>1. \A z \in C : z \in Seq(S) /\ Balanced(z)
        BY DEF C, Closed
      <3> QED BY <2>11, <3>1, InkConcat
    <2> QED BY <2>7, <2>9, <2>10, <2>12
  <1>3. Seq(C) \subseteq T
    <2> HIDE DEF T
    <2> QED BY <1>1, <1>2, SequenceInduction
  <1>4. ss \in Seq(C) /\ rr \in Seq(C)
    BY DEF C
  <1> QED BY <1>3, <1>4

Items(all) == [i \in DOMAIN all |-> IF i = 1 THEN all[i] ELSE Comma \o all[i]]

LEMMA ListedIsJoined ==
    \A inner, matchers :
        Listed(inner, matchers) =
            FlattenSeq(Items((IF inner = <<>> THEN <<>> ELSE <<inner>>) \o matchers))
  BY DEF Listed, Items

LEMMA ItemTypes ==
    ASSUME NEW S, Separator \in S, Blank \in S
    PROVE  /\ \A all \in Seq(CleanTexts(S)) : Items(all) \in Seq(CleanTexts(S))
           /\ \A all \in Seq(Closed(S)) :
                 /\ Items(all) \in Seq(Closed(S)) /\ Len(Items(all)) = Len(all)
                 /\ \A i \in 1 .. Len(all) :
                       Ink(Items(all)[i]) = IF i = 1 THEN Ink(all[i]) ELSE Ink(Comma) \o Ink(all[i])
PROOF
  <1>1. Comma \in CleanTexts(S)
    <2>1. Separator # Quote /\ Separator # ClosingBrace /\ Blank # Quote /\ Blank # ClosingBrace
      BY DEF Separator, Quote, ClosingBrace, Blank
    <2> DEFINE a == <<Separator>>
               b == <<Blank>>
    <2>2. a \in CleanTexts(S) /\ b \in CleanTexts(S)
      BY <2>1, CleanToken DEF CleanTexts
    <2>3. Comma = a \o b
      BY DEF Comma
    <2> HIDE DEF a, b
    <2> QED BY <2>2, <2>3, JoinedTexts
  <1>2. Comma \in Closed(S)
    BY <1>1, CleanIsClosed
  <1>3. ASSUME NEW all \in Seq(CleanTexts(S)) PROVE Items(all) \in Seq(CleanTexts(S))
    <2> DEFINE C == CleanTexts(S)
    <2>1. Len(all) \in Nat /\ DOMAIN all = 1 .. Len(all) /\ \A i \in 1 .. Len(all) : all[i] \in C
      BY LenProperties
    <2>2. \A x \in C : Comma \o x \in C
      BY <1>1, JoinedTexts
    <2> HIDE DEF C
    <2>3. Items(all) \in [1 .. Len(all) -> C]
      BY <2>1, <2>2 DEF Items
    <2> QED BY <2>1, <2>3 DEF C
  <1>4. ASSUME NEW all \in Seq(Closed(S))
        PROVE  /\ Items(all) \in Seq(Closed(S)) /\ Len(Items(all)) = Len(all)
               /\ \A i \in 1 .. Len(all) :
                     Ink(Items(all)[i]) = IF i = 1 THEN Ink(all[i]) ELSE Ink(Comma) \o Ink(all[i])
    <2> DEFINE C == Closed(S)
    <2>1. Len(all) \in Nat /\ DOMAIN all = 1 .. Len(all) /\ \A i \in 1 .. Len(all) : all[i] \in C
      BY LenProperties
    <2>2. \A x \in C : Comma \o x \in C
      BY <1>2, JoinedTexts
    <2>3. \A x \in C : Ink(Comma \o x) = Ink(Comma) \o Ink(x)
      BY <1>2, InkConcat DEF Closed
    <2> HIDE DEF C
    <2>4. Items(all) \in [1 .. Len(all) -> C]
      BY <2>1, <2>2 DEF Items
    <2>5. \A i \in 1 .. Len(all) : Items(all)[i] = IF i = 1 THEN all[i] ELSE Comma \o all[i]
      BY <2>1 DEF Items
    <2>6. Items(all) \in Seq(C) /\ Len(Items(all)) = Len(all)
      BY <2>1, <2>4
    <2> QED BY <2>1, <2>3, <2>5, <2>6 DEF C
  <1> QED BY <1>3, <1>4

LEMMA ListedIsClean ==
    ASSUME NEW S, Separator \in S, Blank \in S,
           NEW inner \in CleanTexts(S), NEW matchers \in Seq(CleanTexts(S))
    PROVE  Listed(inner, matchers) \in CleanTexts(S)
PROOF
  <1> DEFINE C == CleanTexts(S)
             all == (IF inner = <<>> THEN <<>> ELSE <<inner>>) \o matchers
  <1>1. <<>> \in Seq(C) /\ <<inner>> \in Seq(C) /\ matchers \in Seq(C)
    OBVIOUS
  <1>2. all \in Seq(C)
    <2> HIDE DEF C
    <2> QED BY <1>1, ConcatProperties
  <1>3. Listed(inner, matchers) = FlattenSeq(Items(all))
    BY ListedIsJoined
  <1> HIDE DEF all
  <1> QED BY <1>2, <1>3, ItemTypes, JoinedTexts

\* Matchers that Loki reads alike are read alike in a list.
LEMMA ListedReads ==
    ASSUME NEW S, Separator \in S, Blank \in S,
           NEW a \in Closed(S), NEW b \in Closed(S), NEW matchers \in Seq(CleanTexts(S)),
           Ink(a) = Ink(b), a = <<>> <=> b = <<>>
    PROVE  Ink(Listed(a, matchers)) = Ink(Listed(b, matchers))
PROOF
  <1> DEFINE C == Closed(S)
             allA == (IF a = <<>> THEN <<>> ELSE <<a>>) \o matchers
             allB == (IF b = <<>> THEN <<>> ELSE <<b>>) \o matchers
  <1>0. Listed(a, matchers) = FlattenSeq(Items(allA)) /\ Listed(b, matchers) = FlattenSeq(Items(allB))
    BY ListedIsJoined
  <1>1. matchers \in Seq(C)
    BY CleanIsClosed, SeqMonotonic
  <1>2. CASE a = <<>>
    <2>1. Listed(a, matchers) = Listed(b, matchers)
      BY <1>2
    <2> QED BY <2>1
  <1>3. CASE a # <<>>
    <2> DEFINE oneA == <<a>>
               oneB == <<b>>
    <2>1. a \in C /\ b \in C
      OBVIOUS
    <2> HIDE DEF C
    <2>2. /\ oneA \in Seq(C) /\ Len(oneA) = 1 /\ oneA[1] = a
          /\ oneB \in Seq(C) /\ Len(oneB) = 1 /\ oneB[1] = b
      BY <2>1
    <2>3. allA = oneA \o matchers /\ allB = oneB \o matchers
      BY <1>3
    <2> HIDE DEF oneA, oneB, allA, allB
    <2>4. /\ allA \in Seq(C) /\ Len(allA) = 1 + Len(matchers) /\ Len(matchers) \in Nat
          /\ \A i \in 1 .. 1 + Len(matchers) : allA[i] = IF i <= 1 THEN oneA[i] ELSE matchers[i - 1]
      <3>1. /\ oneA \o matchers \in Seq(C) /\ Len(oneA \o matchers) = Len(oneA) + Len(matchers)
            /\ \A i \in 1 .. Len(oneA) + Len(matchers) :
                  (oneA \o matchers)[i] = IF i <= Len(oneA) THEN oneA[i] ELSE matchers[i - Len(oneA)]
        BY <1>1, <2>2, ConcatProperties
      <3>2. Len(oneA) = 1 /\ Len(matchers) \in Nat
        BY <1>1, <2>2, LenProperties
      <3> QED BY <2>3, <3>1, <3>2
    <2>5. /\ allB \in Seq(C) /\ Len(allB) = 1 + Len(matchers)
          /\ \A i \in 1 .. 1 + Len(matchers) : allB[i] = IF i <= 1 THEN oneB[i] ELSE matchers[i - 1]
      <3>1. /\ oneB \o matchers \in Seq(C) /\ Len(oneB \o matchers) = Len(oneB) + Len(matchers)
            /\ \A i \in 1 .. Len(oneB) + Len(matchers) :
                  (oneB \o matchers)[i] = IF i <= Len(oneB) THEN oneB[i] ELSE matchers[i - Len(oneB)]
        BY <1>1, <2>2, ConcatProperties
      <3>2. Len(oneB) = 1 /\ Len(matchers) \in Nat
        BY <1>1, <2>2, LenProperties
      <3> QED BY <2>3, <3>1, <3>2
    <2>6. ASSUME NEW i \in 1 .. 1 + Len(matchers) PROVE Ink(allA[i]) = Ink(allB[i])
      <3>1. CASE i = 1
        <4>1. allA[i] = a /\ allB[i] = b
          BY <2>2, <2>4, <2>5, <3>1
        <4> QED BY <4>1
      <3>2. CASE i # 1
        <4>1. ~(i <= 1)
          BY <2>4, <3>2
        <4>2. allA[i] = matchers[i - 1] /\ allB[i] = matchers[i - 1]
          BY <2>4, <2>5, <4>1
        <4> QED BY <4>2
      <3> QED BY <3>1, <3>2
    <2>7. /\ Items(allA) \in Seq(C) /\ Len(Items(allA)) = Len(allA)
          /\ \A i \in 1 .. Len(allA) :
                Ink(Items(allA)[i]) = IF i = 1 THEN Ink(allA[i]) ELSE Ink(Comma) \o Ink(allA[i])
      BY <2>4, ItemTypes DEF C
    <2>8. /\ Items(allB) \in Seq(C) /\ Len(Items(allB)) = Len(allB)
          /\ \A i \in 1 .. Len(allB) :
                Ink(Items(allB)[i]) = IF i = 1 THEN Ink(allB[i]) ELSE Ink(Comma) \o Ink(allB[i])
      BY <2>5, ItemTypes DEF C
    <2> DEFINE ia == Items(allA)
               ib == Items(allB)
    <2>9. Len(allA) = 1 + Len(matchers) /\ Len(allB) = 1 + Len(matchers)
      BY <2>4, <2>5
    <2>10. ia \in Seq(C) /\ ib \in Seq(C) /\ Len(ia) = Len(ib)
      BY <2>7, <2>8, <2>9
    <2>11. \A i \in 1 .. Len(ia) : Ink(ia[i]) = Ink(ib[i])
      BY <2>6, <2>7, <2>8, <2>9
    <2> HIDE DEF ia, ib
    <2>12. Ink(FlattenSeq(ia)) = Ink(FlattenSeq(ib))
      BY <2>10, <2>11, InkFlatten DEF C
    <2> QED BY <1>0, <2>12 DEF ia, ib
  <1> QED BY <1>2, <1>3

\* Piped stages follow each other, each after a blank.
LEMMA PipedParts ==
    ASSUME NEW S, Blank \in S, NEW stages \in Seq(Closed(S))
    PROVE  /\ Piped(stages) \in Closed(S)
           /\ \A r \in Closed(S) : Piped(<<r>> \o stages) = (<<Blank>> \o r) \o Piped(stages)
PROOF
  <1> DEFINE C == Closed(S)
             gap == <<Blank>>
             Spaced(fs) == [i \in DOMAIN fs |-> gap \o fs[i]]
  <1>1. gap \in C
    <2>1. Blank # Quote /\ Blank # ClosingBrace
      BY DEF Blank, Quote, ClosingBrace
    <2> QED BY <2>1, CleanToken DEF Closed, Clean
  <1>2. \A fs : Piped(fs) = FlattenSeq(Spaced(fs))
    BY DEF Piped
  <1>3. \A x \in C : gap \o x \in C
    BY <1>1, JoinedTexts
  <1> HIDE DEF C, gap
  <1>4. ASSUME NEW fs \in Seq(C)
        PROVE  /\ Spaced(fs) \in Seq(C) /\ Len(Spaced(fs)) = Len(fs)
               /\ \A i \in 1 .. Len(fs) : Spaced(fs)[i] = gap \o fs[i]
    <2>1. Len(fs) \in Nat /\ DOMAIN fs = 1 .. Len(fs) /\ \A i \in 1 .. Len(fs) : fs[i] \in C
      BY LenProperties
    <2>2. Spaced(fs) \in [1 .. Len(fs) -> C]
      BY <1>3, <2>1
    <2>3. \A i \in 1 .. Len(fs) : Spaced(fs)[i] = gap \o fs[i]
      BY <2>1
    <2> HIDE DEF Spaced
    <2> QED BY <2>1, <2>2, <2>3
  <1> HIDE DEF Spaced
  <1>5. stages \in Seq(C)
    BY DEF C
  <1>6. Piped(stages) \in C
    BY <1>2, <1>4, <1>5, JoinedTexts DEF C
  <1>7. ASSUME NEW r \in C PROVE Piped(<<r>> \o stages) = (gap \o r) \o Piped(stages)
    <2> DEFINE one == <<r>>
               head == <<gap \o r>>
               all == one \o stages
    <2>1. /\ one \in Seq(C) /\ Len(one) = 1 /\ one[1] = r
          /\ head \in Seq(C) /\ Len(head) = 1 /\ head[1] = gap \o r
      <3>1. gap \o r \in C
        BY <1>3
      <3> QED BY <3>1
    <2> HIDE DEF one, head
    <2>2. /\ all \in Seq(C) /\ Len(all) = Len(one) + Len(stages)
          /\ \A i \in 1 .. Len(one) + Len(stages) :
                all[i] = IF i <= Len(one) THEN one[i] ELSE stages[i - Len(one)]
      BY <1>5, <2>1, ConcatProperties
    <2> HIDE DEF all
    <2>3. /\ Spaced(stages) \in Seq(C) /\ Len(Spaced(stages)) = Len(stages) /\ Len(stages) \in Nat
          /\ \A i \in 1 .. Len(stages) : Spaced(stages)[i] = gap \o stages[i]
      BY <1>4, <1>5, LenProperties
    <2>4. /\ Spaced(all) \in Seq(C) /\ Len(Spaced(all)) = Len(all)
          /\ \A i \in 1 .. Len(all) : Spaced(all)[i] = gap \o all[i]
      BY <1>4, <2>2
    <2> DEFINE rest == Spaced(stages)
               both == head \o rest
    <2>5. rest \in Seq(C) /\ Len(rest) = Len(stages)
      BY <2>3
    <2>6. \A i \in 1 .. Len(stages) : rest[i] = gap \o stages[i]
      BY <2>3
    <2> HIDE DEF rest
    <2>7. /\ both \in Seq(C) /\ Len(both) = Len(head) + Len(rest)
          /\ \A i \in 1 .. Len(head) + Len(rest) :
                both[i] = IF i <= Len(head) THEN head[i] ELSE rest[i - Len(head)]
      <3>1. head \in Seq(C) /\ rest \in Seq(C)
        BY <2>1, <2>5
      <3> QED BY <3>1, ConcatProperties
    <2> HIDE DEF both
    <2>8. Len(head) = 1 /\ Len(one) = 1 /\ Len(rest) = Len(stages) /\ Len(stages) \in Nat
      BY <2>1, <2>3, <2>5
    <2>9. Len(both) = 1 + Len(stages) /\ Len(Spaced(all)) = 1 + Len(stages)
      BY <2>2, <2>4, <2>7, <2>8
    <2>10. ASSUME NEW i \in 1 .. 1 + Len(stages) PROVE Spaced(all)[i] = both[i]
      <3>1. Spaced(all)[i] = gap \o all[i]
        BY <2>2, <2>4, <2>8
      <3>2. CASE i = 1
        <4>1. all[i] = r /\ both[i] = gap \o r
          BY <2>1, <2>2, <2>7, <2>8, <3>2
        <4> QED BY <3>1, <4>1
      <3>3. CASE i # 1
        <4>1. ~(i <= 1) /\ i - 1 \in 1 .. Len(stages)
          BY <2>8, <3>3
        <4>2. all[i] = stages[i - 1] /\ both[i] = rest[i - 1]
          BY <2>2, <2>7, <2>8, <4>1
        <4> QED BY <2>6, <3>1, <4>1, <4>2
      <3> QED BY <3>2, <3>3
    <2>11. Spaced(all) = both
      <3> DEFINE sp == Spaced(all)
      <3>1. sp \in Seq(C) /\ Len(sp) = Len(both) /\ \A i \in 1 .. Len(sp) : sp[i] = both[i]
        BY <2>4, <2>9, <2>10
      <3> HIDE DEF sp
      <3>2. sp = both
        BY <2>7, <3>1, SeqEqual
      <3> QED BY <3>2 DEF sp
    <2>12. FlattenSeq(both) = (gap \o r) \o FlattenSeq(rest)
      <3>1. gap \o r \in C /\ C \subseteq Seq(S)
        BY <1>3, CleanIsClosed DEF C
      <3>2. gap \o r \in Seq(S) /\ rest \in Seq(Seq(S))
        BY <2>5, <3>1, SeqMonotonic
      <3> QED BY <3>2, FlattenCons DEF both, head
    <2> QED BY <1>2, <2>11, <2>12 DEF all, one, rest
  <1> QED BY <1>6, <1>7 DEF C, gap

\* The middle one of three texts.
LEMMA MiddleText ==
    ASSUME NEW S, NEW x \in Seq(S), NEW y \in Seq(S), NEW z \in Seq(S)
    PROVE  SubSeq((x \o y) \o z, Len(x) + 1, Len(x) + Len(y)) = y
PROOF
  <1> DEFINE n == Len(x)
             m == Len(y)
             xy == x \o y
             t == xy \o z
             mid == SubSeq(t, n + 1, n + m)
  <1>1. n \in Nat /\ m \in Nat /\ Len(z) \in Nat
    BY LenProperties
  <1>2. /\ xy \in Seq(S) /\ Len(xy) = n + m
        /\ \A i \in 1 .. n + m : xy[i] = IF i <= n THEN x[i] ELSE y[i - n]
    BY ConcatProperties
  <1> HIDE DEF xy
  <1>3. /\ t \in Seq(S) /\ Len(t) = Len(xy) + Len(z)
        /\ \A i \in 1 .. Len(xy) + Len(z) : t[i] = IF i <= Len(xy) THEN xy[i] ELSE z[i - Len(xy)]
    <2>1. xy \in Seq(S) /\ z \in Seq(S)
      BY <1>2
    <2> QED BY <2>1, ConcatProperties
  <1> HIDE DEF t
  <1>4. /\ n + 1 \in 1 .. Len(t) + 1 /\ n + m \in (n + 1) - 1 .. Len(t)
        /\ (n + m) - (n + 1) + 1 = m
    BY <1>1, <1>2, <1>3
  <1>5. /\ mid \in Seq(S) /\ Len(mid) = (n + m) - (n + 1) + 1
        /\ \A i \in 1 .. (n + m) - (n + 1) + 1 : mid[i] = t[(n + 1) + i - 1]
    <2> HIDE DEF n, m
    <2> QED BY <1>3, <1>4, SubSeqTypes
  <1> HIDE DEF mid
  <1>6. ASSUME NEW i \in 1 .. m PROVE mid[i] = y[i]
    <2>1. /\ (n + 1) + i - 1 = n + i /\ n + i \in 1 .. n + m /\ ~(n + i <= n) /\ (n + i) - n = i
          /\ n + i \in 1 .. Len(xy) + Len(z) /\ n + i <= Len(xy)
      BY <1>1, <1>2
    <2>2. mid[i] = t[n + i]
      BY <1>4, <1>5, <2>1
    <2>3. t[n + i] = xy[n + i]
      BY <1>3, <2>1
    <2>4. xy[n + i] = y[i]
      BY <1>2, <2>1
    <2> QED BY <2>2, <2>3, <2>4
  <1>7. Len(mid) = Len(y) /\ \A i \in 1 .. Len(mid) : mid[i] = y[i]
    BY <1>4, <1>5, <1>6
  <1>8. mid = y
    BY <1>5, <1>7, SeqEqual
  <1> QED BY <1>8 DEF mid, t, xy

-----------------------------------------------------------------------------
(* The selector, taken apart and put together again.                       *)

LEMMA Opened ==
    ASSUME NEW S, NEW t \in Seq(S), t # <<>>, t[1] = OpeningBrace
    PROVE  Open(t) = 1 /\ 1 \in 1 .. Len(t)
PROOF
  <1> DEFINE I == {i \in 1 .. Len(t) : t[i] = OpeningBrace}
  <1>1. Len(t) \in Nat /\ Len(t) # 0
    BY LenProperties, EmptySeq
  <1>2. 1 \in I /\ I \in SUBSET Int
    BY <1>1
  <1>3. IsFiniteSet(I)
    <2>1. IsFiniteSet(1 .. Len(t)) /\ I \in SUBSET (1 .. Len(t))
      BY <1>1, FS_Interval
    <2> QED BY <2>1, FS_Subset
  <1>4. Open(t) = Min(I)
    BY <1>2 DEF Open, SelectInSeq
  <1>5. \A i \in I : i >= 1
    BY <1>1
  <1> HIDE DEF I
  <1>6. Min(I) \in I /\ \A i \in I : Min(I) <= i
    BY <1>2, <1>3, MaxMin
  <1>7. Min(I) = 1
    <2>1. Min(I) \in Int /\ Min(I) <= 1 /\ Min(I) >= 1
      BY <1>2, <1>5, <1>6
    <2> QED BY <2>1
  <1> QED BY <1>1, <1>4, <1>7

\* A text is well formed with its matchers and its pipeline where they were put.
LEMMA PutTogether ==
    ASSUME NEW S, OpeningBrace \in S, ClosingBrace \in S,
           NEW list \in CleanTexts(S), NEW stages \in Closed(S)
    PROVE  LET q == <<OpeningBrace>> \o list \o <<ClosingBrace>> \o stages
           IN /\ q \in Seq(S) /\ WellFormed(q)
              /\ MatchersOf(q) = Ink(list)
              /\ PipelineOf(q) = Ink(stages)
PROOF
  <1> DEFINE open == <<OpeningBrace>>
             close == <<ClosingBrace>>
             a == open \o list
             b == a \o close
             q == b \o stages
             n == Len(list)
  <1>1. /\ OpeningBrace # Quote /\ OpeningBrace # ClosingBrace
        /\ ClosingBrace # Quote /\ OpeningBrace # Blank
    BY DEF OpeningBrace, ClosingBrace, Quote, Blank
  <1>2. /\ open \in Seq(S) /\ Len(open) = 1 /\ open[1] = OpeningBrace
        /\ close \in Seq(S) /\ Len(close) = 1 /\ close[1] = ClosingBrace
    OBVIOUS
  <1>3. Clean(open)
    BY <1>1, CleanToken
  <1>4. /\ list \in Seq(S) /\ Clean(list) /\ stages \in Seq(S) /\ Balanced(stages)
        /\ n \in Nat /\ Len(stages) \in Nat
    BY LenProperties DEF CleanTexts, Closed
  <1>5. Balanced(close) /\ Closings(close) = {1}
    <2>1. \A i \in 1 .. Len(close) : close[i] # Quote
      BY <1>1, <1>2
    <2> HIDE DEF close
    <2>2. Balanced(close) /\ ~InString(close, 1) /\ DOMAIN close = 1 .. 1
      <3>1. 1 \in 1 .. Len(close) + 1
        BY <1>2
      <3> QED BY <1>2, <2>1, <3>1, PlainText, LenProperties
    <2>3. \A i \in 1 .. 1 : i = 1
      OBVIOUS
    <2> QED BY <1>2, <2>2, <2>3, InStringTypes DEF Closings
  <1> HIDE DEF open, close
  <1>6. a \in Seq(S) /\ Clean(a) /\ Len(a) = 1 + n /\ a[1] = OpeningBrace
    <2>1. /\ a \in Seq(S) /\ Len(a) = Len(open) + Len(list)
          /\ \A i \in 1 .. Len(open) + Len(list) : a[i] = IF i <= Len(open) THEN open[i] ELSE list[i - Len(open)]
      BY <1>2, <1>4, ConcatProperties
    <2>2. Clean(a)
      BY <1>2, <1>3, <1>4, CleanConcat
    <2>3. 1 \in 1 .. 1 + n /\ 1 <= 1
      BY <1>4
    <2> HIDE DEF a
    <2> QED BY <1>2, <2>1, <2>2, <2>3
  <1> HIDE DEF a
  <1>7. Balanced(a) /\ Closings(a) = {} /\ Len(a) \in Nat
    BY <1>4, <1>6 DEF Clean
  <1>8. b \in Seq(S) /\ Len(b) = n + 2 /\ b[1] = OpeningBrace
    <2>1. /\ b \in Seq(S) /\ Len(b) = Len(a) + Len(close)
          /\ \A i \in 1 .. Len(a) + Len(close) : b[i] = IF i <= Len(a) THEN a[i] ELSE close[i - Len(a)]
      BY <1>2, <1>6, ConcatProperties
    <2>2. /\ Len(a) = 1 + n /\ Len(close) = 1 /\ 1 \in 1 .. (1 + n) + 1 /\ 1 <= 1 + n
          /\ (1 + n) + 1 = n + 2
      BY <1>2, <1>4, <1>6
    <2> HIDE DEF b
    <2> QED BY <1>6, <2>1, <2>2
  <1>9. Balanced(b)
    BY <1>2, <1>5, <1>6, <1>7, BalancedConcat
  <1>10. Closings(b) = {n + 2}
    <2>1. /\ Closings(b) \subseteq 1 .. Len(a) + Len(close)
          /\ \A i \in 1 .. Len(a) : i \in Closings(b) <=> i \in Closings(a)
          /\ \A i \in 1 .. Len(close) : Len(a) + i \in Closings(b) <=> i \in Closings(close)
      BY <1>2, <1>6, <1>7, ClosingsConcat
    <2>2. /\ Len(a) = 1 + n /\ Len(close) = 1 /\ (1 + n) + 1 = n + 2 /\ 1 \in 1 .. 1
          /\ \A i \in 1 .. n + 2 : i \in 1 .. 1 + n \/ i = n + 2
      BY <1>2, <1>4, <1>6
    <2> HIDE DEF b
    <2> QED BY <1>5, <1>7, <2>1, <2>2
  <1> HIDE DEF b
  <1>11. q \in Seq(S) /\ Len(q) = n + 2 + Len(stages) /\ q[1] = OpeningBrace
    <2>1. /\ q \in Seq(S) /\ Len(q) = Len(b) + Len(stages)
          /\ \A i \in 1 .. Len(b) + Len(stages) : q[i] = IF i <= Len(b) THEN b[i] ELSE stages[i - Len(b)]
      BY <1>4, <1>8, ConcatProperties
    <2>2. Len(b) = n + 2 /\ 1 \in 1 .. n + 2 + Len(stages) /\ 1 <= n + 2
      BY <1>4, <1>8
    <2> HIDE DEF q
    <2> QED BY <1>8, <2>1, <2>2
  <1>12. Balanced(q)
    BY <1>4, <1>8, <1>9, BalancedConcat
  <1>13. n + 2 \in Closings(q) /\ \A i \in Closings(q) : n + 2 <= i
    <2>1. /\ Closings(q) \subseteq 1 .. Len(b) + Len(stages)
          /\ \A i \in 1 .. Len(b) : i \in Closings(q) <=> i \in Closings(b)
      BY <1>4, <1>8, <1>9, ClosingsConcat
    <2>2. Len(b) = n + 2 /\ n + 2 \in 1 .. n + 2
      BY <1>4, <1>8
    <2> HIDE DEF q
    <2>3. ASSUME NEW i \in Closings(q), i <= n + 2 PROVE i = n + 2
      <3>1. i \in 1 .. n + 2 + Len(stages)
        BY <2>1, <2>2
      <3>2. i \in 1 .. Len(b)
        BY <1>4, <2>2, <2>3, <3>1
      <3> QED BY <1>10, <2>1, <3>2
    <2>4. \A i \in Closings(q) : i \in Int
      BY <2>1
    <2>5. \A i \in Closings(q) : n + 2 <= i
      <3> SUFFICES ASSUME NEW i \in Closings(q), ~(n + 2 <= i) PROVE FALSE
        OBVIOUS
      <3>1. i \in Int /\ i <= n + 2
        BY <1>4, <2>4
      <3>2. i = n + 2
        BY <2>3, <3>1
      <3> QED BY <1>4, <3>2
    <2> QED BY <1>10, <2>1, <2>2, <2>5
  <1>14. Min(Closings(q)) = n + 2
    <2> DEFINE K == Closings(q)
    <2>1. K \in SUBSET (1 .. Len(q)) /\ Len(q) \in Nat
      BY <1>11, LenProperties DEF Closings
    <2>2. IsFiniteSet(1 .. Len(q)) /\ K \in SUBSET Int
      BY <2>1, FS_Interval
    <2>3. n + 2 \in K /\ \A i \in K : n + 2 <= i
      BY <1>13
    <2> HIDE DEF K, q
    <2>4. IsFiniteSet(K) /\ K # {}
      BY <2>1, <2>2, <2>3, FS_Subset
    <2>5. Min(K) \in K /\ \A i \in K : Min(K) <= i
      BY <2>2, <2>4, MaxMin
    <2>6. Min(K) \in Int /\ Min(K) <= n + 2 /\ n + 2 <= Min(K)
      BY <2>2, <2>3, <2>5
    <2>7. Min(K) = n + 2
      BY <1>4, <2>6
    <2> QED BY <2>7 DEF K
  <1>15. Open(q) = 1 /\ q # <<>>
    <2> HIDE DEF q
    <2>1. q # <<>>
      <3>1. Len(<<>>) = 0 /\ Len(q) # 0
        BY <1>4, <1>11
      <3> QED BY <3>1
    <2> QED BY <1>11, <2>1, Opened
  <1>16. MatchersOf(q) = Ink(list)
    <2>1. SubSeq((open \o list) \o (close \o stages), Len(open) + 1, Len(open) + Len(list)) = list
      <3>1. close \o stages \in Seq(S)
        BY <1>2, <1>4, ConcatProperties
      <3> QED BY <1>2, <1>4, <3>1, MiddleText
    <2>2. q = (open \o list) \o (close \o stages)
      <3>1. (a \o close) \o stages = a \o (close \o stages)
        <4>1. a \in Seq(S) /\ close \in Seq(S) /\ stages \in Seq(S)
          BY <1>2, <1>4, <1>6
        <4> QED BY <4>1, ConcatAssociative
      <3> QED BY <3>1 DEF b, a
    <2>3. Len(open) + 1 = Open(q) + 1 /\ Len(open) + Len(list) = Min(Closings(q)) - 1
      BY <1>2, <1>4, <1>14, <1>15
    <2>4. SubSeq(q, Open(q) + 1, Min(Closings(q)) - 1) = list
      BY <2>1, <2>2, <2>3
    <2> QED BY <2>4 DEF MatchersOf
  <1>17. PipelineOf(q) = Ink(stages)
    <2>1. SubSeq((b \o stages) \o <<>>, Len(b) + 1, Len(b) + Len(stages)) = stages
      BY <1>4, <1>8, EmptySeq, MiddleText
    <2>2. (b \o stages) \o <<>> = q
      BY <1>11, ConcatEmptySeq
    <2>3. Len(b) + 1 = Min(Closings(q)) + 1 /\ Len(b) + Len(stages) = Len(q)
      BY <1>4, <1>8, <1>11, <1>14
    <2>4. SubSeq(q, Min(Closings(q)) + 1, Len(q)) = stages
      BY <2>1, <2>2, <2>3
    <2> QED BY <2>4 DEF PipelineOf
  <1>18. WellFormed(q)
    <2>1. Trim(q) # <<>> /\ Trim(q)[1] = OpeningBrace
      <3> HIDE DEF q
      <3>1. q \in Seq(S) /\ q # <<>> /\ q[1] # Blank
        BY <1>1, <1>11, <1>15
      <3> QED BY <1>11, <3>1, TrimFirst
    <2>2. Closings(q) # {}
      BY <1>13
    <2> QED BY <1>12, <2>1, <2>2 DEF WellFormed, Balanced
  <1> QED BY <1>11, <1>16, <1>17, <1>18 DEF q, b, a, open, close

\* No brace closes in the pipeline, not even one in a string: the selector ends at the
\* last one of the text.  PushdownPipeline shows what becomes of the others.
PlainPipeline(text) ==
    \A i \in Closings(text), j \in DOMAIN text : text[j] = ClosingBrace => j <= i

\* A text that opens with a brace is its matchers and its pipeline.
LEMMA TakenApart ==
    ASSUME NEW S, NEW t \in Seq(S), t # <<>>, t[1] = OpeningBrace,
           Closings(t) # {}, Balanced(t), PlainPipeline(t)
    PROVE  \E inner \in CleanTexts(S), rest \in Closed(S) :
              /\ MatchersOf(t) = Ink(inner) /\ PipelineOf(t) = Ink(rest)
              /\ Inner(t) = Trim(inner) /\ Rest(t) = Trim(rest)
PROOF
  <1> DEFINE n == Len(t)
             K == Closings(t)
             c == Min(K)
             a == SubSeq(t, 1, c - 1)
             b == SubSeq(t, 1, c)
             inner == SubSeq(t, 2, c - 1)
             rest == SubSeq(t, c + 1, n)
             open == <<OpeningBrace>>
             close == <<ClosingBrace>>
  <1>1. /\ OpeningBrace # Quote /\ OpeningBrace # ClosingBrace /\ ClosingBrace # Quote
    BY DEF OpeningBrace, ClosingBrace, Quote
  <1>2. n \in Nat /\ DOMAIN t = 1 .. n /\ 1 \in 1 .. n /\ Open(t) = 1
    BY Opened, LenProperties
  <1>3. c \in K /\ \A i \in K : c <= i
    <2>1. K \in SUBSET (1 .. n) /\ IsFiniteSet(1 .. n)
      BY <1>2, FS_Interval DEF Closings
    <2>2. K \in SUBSET Int /\ IsFiniteSet(K) /\ K # {}
      BY <2>1, FS_Subset
    <2> HIDE DEF K
    <2> QED BY <2>2, MaxMin
  <1>4. c \in 1 .. n /\ t[c] = ClosingBrace /\ ~InString(t, c)
    BY <1>2, <1>3 DEF Closings
  <1>5. c \in 2 .. n
    <2> HIDE DEF c
    <2> QED BY <1>1, <1>2, <1>4
  <1>6. Close(t) = c
    <2> DEFINE J == {j \in 1 .. Len(t) : t[j] = ClosingBrace}
    <2>1. c \in J
      BY <1>4
    <2>2. \A j \in J : j <= c
      BY <1>2, <1>3 DEF PlainPipeline
    <2>3. Close(t) = Max(J)
      BY <2>1 DEF Close, SelectLastInSeq
    <2>4. J \in SUBSET Int /\ IsFiniteSet(J)
      <3>1. J \in SUBSET (1 .. n) /\ IsFiniteSet(1 .. n)
        BY <1>2, FS_Interval
      <3> QED BY <3>1, FS_Subset
    <2> HIDE DEF J, c
    <2>5. Max(J) \in J /\ \A j \in J : Max(J) >= j
      BY <2>1, <2>4, MaxMin
    <2>6. Max(J) \in Int /\ c \in Int /\ Max(J) <= c /\ Max(J) >= c
      BY <2>1, <2>2, <2>4, <2>5
    <2> QED BY <2>3, <2>6
  <1> HIDE DEF c, K
  <1>7. InnerEnd(t) = c
    <2>1. Open(t) # 0 /\ Close(t) > Open(t)
      BY <1>2, <1>5, <1>6
    <2> QED BY <1>6, <2>1 DEF InnerEnd
  <1>8. /\ a \in Seq(S) /\ Len(a) = c - 1
        /\ b \in Seq(S) /\ Len(b) = c
        /\ inner \in Seq(S) /\ rest \in Seq(S)
    <2>1. /\ 1 \in 1 .. n + 1 /\ c - 1 \in 1 - 1 .. n /\ c \in 1 - 1 .. n
          /\ 2 \in 1 .. n + 1 /\ c - 1 \in 2 - 1 .. n
          /\ c + 1 \in 1 .. n + 1 /\ n \in (c + 1) - 1 .. n
          /\ (c - 1) - 1 + 1 = c - 1 /\ c - 1 + 1 = c
      BY <1>2, <1>5
    <2>2. a \in Seq(S) /\ Len(a) = (c - 1) - 1 + 1
      BY <2>1, SubSeqTypes
    <2>3. b \in Seq(S) /\ Len(b) = c - 1 + 1
      BY <2>1, SubSeqTypes
    <2>4. inner \in Seq(S)
      BY <2>1, SubSeqTypes
    <2>5. rest \in Seq(S)
      BY <2>1, SubSeqTypes
    <2> QED BY <2>1, <2>2, <2>3, <2>4, <2>5
  <1>9. /\ open \in Seq(S) /\ Len(open) = 1 /\ close \in Seq(S) /\ Len(close) = 1
        /\ Clean(open)
    <2>1. OpeningBrace \in S /\ ClosingBrace \in S
      BY <1>2, <1>4, ElementOfSeq
    <2> QED BY <1>1, <2>1, CleanToken
  <1>10. t = b \o rest /\ b = a \o close /\ a = open \o inner
    <2>1. SubSeq(t, 1, c) \o SubSeq(t, c + 1, n) = SubSeq(t, 1, n) /\ SubSeq(t, 1, n) = t
      <3>1. 1 \in 1 .. n + 1 /\ c \in 1 - 1 .. n /\ n \in c .. n
        BY <1>2, <1>5
      <3> QED BY <3>1, ConcatAdjacentSubSeq, SubSeqFull
    <2>2. SubSeq(t, 1, c) = SubSeq(t, 1, c - 1) \o <<t[c]>>
      <3>1. 1 \in 1 .. n /\ c \in 1 .. n
        BY <1>2, <1>5
      <3> QED BY <3>1, SubSeqRecursiveSecond
    <2>3. SubSeq(t, 1, c - 1) = <<t[1]>> \o SubSeq(t, 1 + 1, c - 1)
      <3>1. 1 \in 1 .. n /\ c - 1 \in 1 .. n
        BY <1>2, <1>5
      <3> QED BY <3>1, SubSeqRecursiveFirst
    <2>4. 1 + 1 = 2
      OBVIOUS
    <2> QED BY <1>4, <2>1, <2>2, <2>3, <2>4
  <1> HIDE DEF a, b, inner, rest, open, close
  <1>11. c \in 1 .. Len(a) + 1 /\ c = Len(a) + 1
    BY <1>2, <1>5, <1>8
  <1>12. Balanced(a)
    <2>1. t = a \o (close \o rest) /\ close \o rest \in Seq(S)
      <3>1. a \in Seq(S) /\ close \in Seq(S) /\ rest \in Seq(S)
        BY <1>8, <1>9
      <3>2. (a \o close) \o rest = a \o (close \o rest)
        BY <3>1, ConcatAssociative
      <3>3. close \o rest \in Seq(S)
        BY <3>1, ConcatProperties
      <3> QED BY <1>10, <3>2, <3>3
    <2>2. InString(t, c) <=> InString(a, c)
      BY <1>8, <1>11, <2>1, InStringPrefix
    <2> QED BY <1>4, <1>11, <2>2 DEF Balanced
  <1>13. Balanced(b)
    <2>1. Balanced(close)
      <3>1. \A i \in 1 .. Len(close) : close[i] # Quote
        BY <1>1, <1>9 DEF close
      <3> QED BY <1>9, <3>1, PlainText
    <2> QED BY <1>8, <1>9, <1>10, <1>12, <2>1, BalancedConcat
  <1>14. Clean(a)
    <2> SUFFICES ASSUME NEW i \in Closings(a) PROVE FALSE
      BY <1>12 DEF Clean
    <2>1. i \in 1 .. Len(a) /\ i < c /\ i \in 1 .. Len(b) /\ i \in Int /\ c \in Int
      <3>1. i \in 1 .. Len(a)
        BY <1>8, LenProperties DEF Closings
      <3>2. Len(a) = c - 1 /\ Len(b) = c
        BY <1>8
      <3> QED BY <1>5, <3>1, <3>2
    <2>2. i \in Closings(b)
      <3>1. a \in Seq(S) /\ close \in Seq(S) /\ i \in 1 .. Len(a)
        BY <1>8, <1>9, <2>1
      <3>2. i \in Closings(a \o close) <=> i \in Closings(a)
        BY <1>12, <3>1, ClosingsConcat
      <3> QED BY <1>10, <3>2
    <2>3. i \in K
      <3>1. i \in Closings(b \o rest) <=> i \in Closings(b)
        BY <1>8, <1>13, <2>1, ClosingsConcat
      <3> QED BY <1>10, <2>2, <3>1 DEF K
    <2> QED BY <1>3, <2>1, <2>3
  <1>15. inner \in CleanTexts(S)
    BY <1>8, <1>9, <1>10, <1>14, CleanConcat DEF CleanTexts
  <1>16. rest \in Closed(S)
    BY <1>8, <1>10, <1>13, BalancedConcat DEF Closed
  <1>17. MatchersOf(t) = Ink(inner) /\ Inner(t) = Trim(inner)
    BY <1>2, <1>7 DEF MatchersOf, Inner, inner, c, K
  <1>18. PipelineOf(t) = Ink(rest) /\ Rest(t) = Trim(rest)
    BY <1>7 DEF PipelineOf, Rest, rest, c, K
  <1> QED BY <1>15, <1>16, <1>17, <1>18

\* What the user wrote between the braces and after them is read as written, and what
\* is pushed after it, for every selector with a plain pipeline.
THEOREM WrittenIsKept ==
    ASSUME NEW S, {OpeningBrace, ClosingBrace, Separator, Blank} \subseteq S,
           NEW selector \in Seq(S), WellFormed(selector), PlainPipeline(Trim(selector)),
           NEW matchers \in Seq(CleanTexts(S)), NEW filters \in Seq(Closed(S))
    PROVE  LET query == BuildSelectorQuery(selector, matchers, filters)
               written == Trim(selector)
           IN /\ query \in Seq(S)
              /\ WellFormed(query)
              /\ MatchersOf(query) = Ink(Listed(MatchersOf(written), matchers))
              /\ PipelineOf(query) = PipelineOf(written) \o Ink(Piped(filters))
PROOF
  <1> DEFINE t == Trim(selector)
             query == BuildSelectorQuery(selector, matchers, filters)
             stages == (IF Rest(t) = <<>> THEN <<>> ELSE <<Rest(t)>>) \o filters
  <1>1. OpeningBrace \in S /\ ClosingBrace \in S /\ Separator \in S /\ Blank \in S
    OBVIOUS
  <1>2. /\ t # <<>> /\ t[1] = OpeningBrace /\ Closings(selector) # {} /\ Balanced(selector)
    BY DEF WellFormed, Balanced
  <1>3. t \in Seq(S) /\ Balanced(t) /\ Closings(t) # {}
    BY <1>2, TrimParts, TrimReads
  <1>4. PICK inner \in CleanTexts(S), rest \in Closed(S) :
            /\ MatchersOf(t) = Ink(inner) /\ PipelineOf(t) = Ink(rest)
            /\ Inner(t) = Trim(inner) /\ Rest(t) = Trim(rest)
    <2> HIDE DEF t
    <2>1. PlainPipeline(t)
      BY DEF t
    <2> QED BY <1>2, <1>3, <2>1, TakenApart
  <1> HIDE DEF t
  <1>5. /\ inner \in Seq(S) /\ Clean(inner) /\ Balanced(inner) /\ Closings(inner) = {}
        /\ rest \in Seq(S) /\ Balanced(rest)
    BY DEF CleanTexts, Closed, Clean
  <1>6. /\ Trim(inner) \in CleanTexts(S) /\ Ink(Trim(inner)) = Ink(inner)
        /\ Trim(inner) = <<>> <=> Ink(inner) = <<>>
    BY <1>5, TrimParts, TrimReads DEF CleanTexts, Clean
  <1>7. /\ Trim(rest) \in Closed(S) /\ Ink(Trim(rest)) = Ink(rest)
        /\ Trim(rest) = <<>> <=> Ink(rest) = <<>>
    BY <1>5, TrimParts, TrimReads DEF Closed
  <1>8. Listed(Inner(t), matchers) \in CleanTexts(S)
    BY <1>1, <1>4, <1>6, ListedIsClean
  <1>9. Ink(Listed(Inner(t), matchers)) = Ink(Listed(MatchersOf(t), matchers))
    <2>1. Ink(inner) \in Closed(S) /\ Ink(Ink(inner)) = Ink(inner)
      BY <1>5, InkTypes, InkOfInk DEF Closed
    <2>2. Trim(inner) \in Closed(S)
      BY <1>6, CleanIsClosed
    <2>3. Ink(Trim(inner)) = Ink(Ink(inner)) /\ (Trim(inner) = <<>> <=> Ink(inner) = <<>>)
      BY <1>6, <2>1
    <2> QED BY <1>1, <1>4, <2>1, <2>2, <2>3, ListedReads
  <1>10. Piped(filters) \in Closed(S)
    BY <1>1, PipedParts
  <1>11. Piped(stages) \in Closed(S) /\ Ink(Piped(stages)) = Ink(rest) \o Ink(Piped(filters))
    <2>1. CASE Trim(rest) = <<>>
      <3>1. stages = filters
        <4>1. stages = <<>> \o filters
          BY <1>4, <2>1
        <4> QED BY <4>1, ConcatEmptySeq
      <3>2. Ink(Piped(filters)) \in Seq(S) /\ Ink(rest) = <<>>
        BY <1>7, <1>10, <2>1, InkTypes DEF Closed
      <3> QED BY <1>10, <3>1, <3>2, ConcatEmptySeq
    <2>2. CASE Trim(rest) # <<>>
      <3> DEFINE r == Trim(rest)
                 gap == <<Blank>>
                 p == Piped(filters)
      <3>1. r \in Closed(S) /\ Ink(r) = Ink(rest)
        BY <1>7
      <3>2. stages = <<r>> \o filters
        BY <1>4, <2>2
      <3> HIDE DEF r, stages
      <3>3. Piped(stages) = (gap \o r) \o p
        BY <1>1, <3>1, <3>2, PipedParts
      <3>4. gap \in Seq(S) /\ Balanced(gap) /\ Ink(gap) = <<>>
        <4>1. gap \in Seq(S) /\ Len(gap) = 1 /\ gap[1] = Blank
          BY <1>1
        <4> HIDE DEF gap
        <4>2. \A i \in 1 .. Len(gap) : gap[i] = Blank
          <5>1. \A i \in 1 .. Len(gap) : i = 1
            BY <4>1
          <5> QED BY <4>1, <5>1
        <4> QED BY <4>1, <4>2, VoidText DEF Void, Clean
      <3> HIDE DEF gap, p
      <3>5. r \in Seq(S) /\ Balanced(r) /\ p \in Seq(S) /\ Balanced(p) /\ gap \in Closed(S) /\ p \in Closed(S)
        BY <1>10, <3>1, <3>4 DEF Closed, p
      <3>6. gap \o r \in Closed(S)
        BY <3>1, <3>5, JoinedTexts
      <3>7. (gap \o r) \o p \in Closed(S)
        BY <3>5, <3>6, JoinedTexts
      <3>8. Ink(gap \o r) = Ink(gap) \o Ink(r) /\ Ink(r) \in Seq(S)
        BY <3>4, <3>5, InkConcat, InkTypes
      <3>9. Ink(gap \o r) = Ink(rest)
        BY <3>1, <3>4, <3>8, ConcatEmptySeq
      <3>10. Ink((gap \o r) \o p) = Ink(gap \o r) \o Ink(p)
        BY <3>5, <3>6, InkConcat DEF Closed
      <3> QED BY <3>3, <3>7, <3>9, <3>10 DEF p
    <2> QED BY <2>1, <2>2
  <1>12. query = <<OpeningBrace>> \o Listed(Inner(t), matchers) \o <<ClosingBrace>> \o Piped(stages)
    BY DEF BuildSelectorQuery, t
  <1>13. /\ query \in Seq(S) /\ WellFormed(query)
         /\ MatchersOf(query) = Ink(Listed(Inner(t), matchers))
         /\ PipelineOf(query) = Ink(Piped(stages))
    <2> HIDE DEF query, stages
    <2> QED BY <1>1, <1>8, <1>11, <1>12, PutTogether
  <1> QED BY <1>4, <1>9, <1>11, <1>13 DEF t

-----------------------------------------------------------------------------
(* Whatever the selector is, the query is a text.                          *)

LEMMA JoinedTypes ==
    ASSUME NEW S, NEW ss \in Seq(Seq(S)) PROVE FlattenSeq(ss) \in Seq(S)
PROOF
  <1>1. <<>> \in Seq(S) /\ \A x, y \in Seq(S) : x \o y \in Seq(S)
    BY EmptySeq, ConcatProperties
  <1> QED BY <1>1, FlattenClosed

LEMMA BraceTypes ==
    ASSUME NEW S, NEW t \in Seq(S)
    PROVE  Open(t) \in 0 .. Len(t) /\ InnerEnd(t) \in 1 .. Len(t) + 1
PROOF
  <1> DEFINE I == {i \in 1 .. Len(t) : t[i] = OpeningBrace}
             J == {i \in 1 .. Len(t) : t[i] = ClosingBrace}
  <1>1. Len(t) \in Nat /\ IsFiniteSet(1 .. Len(t))
    BY LenProperties, FS_Interval
  <1>2. I \in SUBSET (1 .. Len(t)) /\ J \in SUBSET (1 .. Len(t))
    OBVIOUS
  <1>3. Open(t) = IF I # {} THEN Min(I) ELSE 0
    BY DEF Open, SelectInSeq
  <1>4. Close(t) = IF J # {} THEN Max(J) ELSE 0
    BY DEF Close, SelectLastInSeq
  <1> HIDE DEF I, J
  <1>5. I \in SUBSET Int /\ J \in SUBSET Int /\ IsFiniteSet(I) /\ IsFiniteSet(J)
    <2>1. 1 .. Len(t) \subseteq Int
      OBVIOUS
    <2>2. IsFiniteSet(I) /\ IsFiniteSet(J)
      BY <1>1, <1>2, FS_Subset
    <2> QED BY <1>2, <2>1, <2>2
  <1>6. Open(t) \in 0 .. Len(t)
    <2>1. I # {} => Min(I) \in I
      BY <1>5, MaxMin
    <2>2. I # {} => Min(I) \in 1 .. Len(t)
      BY <1>2, <2>1
    <2>3. \A i \in 1 .. Len(t) : i \in 0 .. Len(t)
      BY <1>1
    <2>4. 0 \in 0 .. Len(t)
      BY <1>1
    <2> QED BY <1>3, <2>2, <2>3, <2>4
  <1>7. Close(t) \in 0 .. Len(t)
    <2>1. J # {} => Max(J) \in J
      BY <1>5, MaxMin
    <2>2. J # {} => Max(J) \in 1 .. Len(t)
      BY <1>2, <2>1
    <2>3. \A i \in 1 .. Len(t) : i \in 0 .. Len(t)
      BY <1>1
    <2>4. 0 \in 0 .. Len(t)
      BY <1>1
    <2> QED BY <1>4, <2>2, <2>3, <2>4
  <1>8. InnerEnd(t) \in 1 .. Len(t) + 1
    BY <1>1, <1>6, <1>7 DEF InnerEnd
  <1> QED BY <1>6, <1>8

\* The text is first, and then some tokens of S.
Continues(text, first, S) == \E r \in Seq(S) : text = first \o r

\* Texts that are joined begin with the first of them.
LEMMA FlattenFirst ==
    ASSUME NEW S, NEW ss \in Seq(Seq(S)), Len(ss) # 0
    PROVE  Continues(FlattenSeq(ss), ss[1], S)
PROOF
  <1> DEFINE A == Seq(S)
             n == Len(ss)
             tl == SubSeq(ss, 1 + 1, n)
  <1>1. n \in Nat /\ n >= 1 /\ \A i \in 1 .. n : ss[i] \in A
    BY LenProperties
  <1>2. ss[1] \in A /\ tl \in Seq(A)
    <2>1. 1 \in 1 .. n
      BY <1>1
    <2>2. \A i \in 1 + 1 .. n : ss[i] \in A
      BY <1>1
    <2> HIDE DEF A
    <2> QED BY <1>1, <2>1, <2>2, SubSeqProperties
  <1>3. ss = <<ss[1]>> \o tl
    <2>1. SubSeq(ss, 1, n) = <<ss[1]>> \o tl
      <3>1. 1 \in 1 .. n /\ n \in 1 .. n
        BY <1>1
      <3> HIDE DEF A
      <3> QED BY <3>1, SubSeqRecursiveFirst
    <2>2. SubSeq(ss, 1, n) = ss
      BY SubSeqFull
    <2> QED BY <2>1, <2>2
  <1>4. FlattenSeq(tl) \in A /\ FlattenSeq(<<ss[1]>> \o tl) = ss[1] \o FlattenSeq(tl)
    BY <1>2, JoinedTypes, FlattenCons
  <1> HIDE DEF tl
  <1> QED BY <1>3, <1>4 DEF Continues

\* The matchers of the query are those of the selector, if it has any, and the others.
Matchers(inner, matchers) == (IF inner = <<>> THEN <<>> ELSE <<inner>>) \o matchers

LEMMA QueryParts ==
    ASSUME NEW S, {OpeningBrace, ClosingBrace, Separator, Blank} \subseteq S, NEW selector \in Seq(S),
           NEW matchers \in Seq(Seq(S)), NEW filters \in Seq(Seq(S)),
           NEW inner, inner = Inner(Trim(selector))
    PROVE  /\ inner \in Seq(S) /\ Matchers(inner, matchers) \in Seq(Seq(S))
           /\ Listed(inner, matchers) \in Seq(S)
           /\ Matchers(inner, matchers) = <<>> => Listed(inner, matchers) = <<>>
           /\ Matchers(inner, matchers) # <<>> =>
                  Continues(Listed(inner, matchers), Matchers(inner, matchers)[1], S)
           /\ BuildSelectorQuery(selector, matchers, filters) \in Seq(S)
           /\ Continues(BuildSelectorQuery(selector, matchers, filters),
                        (<<OpeningBrace>> \o Listed(inner, matchers)) \o <<ClosingBrace>>, S)
PROOF
  <1> DEFINE t == Trim(selector)
             A == Seq(S)
             all == Matchers(Inner(t), matchers)
             stages == (IF Rest(t) = <<>> THEN <<>> ELSE <<Rest(t)>>) \o filters
             open == <<OpeningBrace>>
             close == <<ClosingBrace>>
             gap == <<Blank>>
             comma == <<Separator>>
  <1>1. t \in A
    BY TrimParts
  <1>2. open \in A /\ close \in A /\ gap \in A /\ comma \in A
    OBVIOUS
  <1>3. \A x, y \in A : x \o y \in A
    BY ConcatProperties
  <1> HIDE DEF t
  <1>4. \A m, n \in Int : 1 <= m /\ n <= Len(t) => Trim(SubSeq(t, m, n)) \in A
    <2> SUFFICES ASSUME NEW m \in Int, NEW n \in Int, 1 <= m, n <= Len(t)
                 PROVE  Trim(SubSeq(t, m, n)) \in A
      OBVIOUS
    <2>1. \A i \in 1 .. Len(t) : t[i] \in S
      BY <1>1, LenProperties
    <2>2. \A i \in m .. n : t[i] \in S
      <3>1. Len(t) \in Nat
        BY <1>1, LenProperties
      <3> QED BY <2>1, <3>1
    <2>3. SubSeq(t, m, n) \in Seq(S)
      BY <2>2, SubSeqProperties
    <2> QED BY <2>3, TrimParts
  <1>5. /\ Len(t) \in Nat /\ Open(t) \in 0 .. Len(t) /\ InnerEnd(t) \in 1 .. Len(t) + 1
    BY <1>1, BraceTypes, LenProperties
  <1>6. Inner(t) \in A /\ Rest(t) \in A
    <2>1. /\ Open(t) + 1 \in Int /\ InnerEnd(t) - 1 \in Int /\ InnerEnd(t) + 1 \in Int /\ Len(t) \in Int
          /\ 1 <= Open(t) + 1 /\ InnerEnd(t) - 1 <= Len(t) /\ 1 <= InnerEnd(t) + 1 /\ Len(t) <= Len(t)
      BY <1>5
    <2> HIDE DEF A
    <2> QED BY <1>4, <2>1 DEF Inner, Rest
  <1>7. Comma \in A
    <2>1. Comma = comma \o gap
      BY DEF Comma
    <2> HIDE DEF A, comma, gap
    <2> QED BY <1>2, <1>3, <2>1
  <1>8. matchers \in Seq(A) /\ filters \in Seq(A)
    OBVIOUS
  <1> HIDE DEF A, open, close, gap
  <1>9. all \in Seq(A) /\ stages \in Seq(A)
    <2>1. /\ (IF Inner(t) = <<>> THEN <<>> ELSE <<Inner(t)>>) \in Seq(A)
          /\ (IF Rest(t) = <<>> THEN <<>> ELSE <<Rest(t)>>) \in Seq(A)
      BY <1>6
    <2> QED BY <1>8, <2>1, ConcatProperties DEF Matchers
  <1> HIDE DEF all, stages
  <1>10. /\ Len(all) \in Nat /\ DOMAIN all = 1 .. Len(all) /\ \A i \in 1 .. Len(all) : all[i] \in A
         /\ Len(stages) \in Nat /\ DOMAIN stages = 1 .. Len(stages)
         /\ \A i \in 1 .. Len(stages) : stages[i] \in A
    BY <1>9, LenProperties
  <1>11. /\ Listed(Inner(t), matchers) \in A
         /\ all = <<>> => Listed(Inner(t), matchers) = <<>>
         /\ all # <<>> => Continues(Listed(Inner(t), matchers), all[1], S)
    <2>1. Items(all) \in [1 .. Len(all) -> A]
      BY <1>3, <1>7, <1>10 DEF Items
    <2>2. Items(all) \in Seq(A)
      <3>1. Len(all) \in Nat
        BY <1>10
      <3> DEFINE items == Items(all)
      <3>2. items \in [1 .. Len(all) -> A]
        BY <2>1
      <3> HIDE DEF items
      <3>3. items \in Seq(A)
        BY <3>1, <3>2
      <3> QED BY <3>3 DEF items
    <2>3. Listed(Inner(t), matchers) = FlattenSeq(Items(all))
      BY ListedIsJoined DEF all, Matchers
    <2>4. all = <<>> => Listed(Inner(t), matchers) = <<>>
      <3> SUFFICES ASSUME all = <<>> PROVE Items(all) = <<>>
        BY <2>3, FlattenEmpty
      <3>1. DOMAIN all = {}
        OBVIOUS
      <3> QED BY <3>1 DEF Items
    <2>5. all # <<>> => Continues(Listed(Inner(t), matchers), all[1], S)
      <3> SUFFICES ASSUME all # <<>> PROVE Continues(FlattenSeq(Items(all)), all[1], S)
        BY <2>3
      <3>1. Len(all) # 0
        BY <1>9, EmptySeq
      <3>2. 1 \in DOMAIN all
        BY <1>10, <3>1
      <3>3. Items(all)[1] = all[1]
        BY <3>2 DEF Items
      <3>4. Len(Items(all)) # 0
        <4>1. Len(Items(all)) = Len(all)
          BY <1>10, <2>1, <2>2
        <4> QED BY <3>1, <4>1
      <3>5. Continues(FlattenSeq(Items(all)), Items(all)[1], S)
        BY <2>2, <3>4, FlattenFirst DEF A
      <3> QED BY <3>3, <3>5
    <2>6. FlattenSeq(Items(all)) \in A
      BY <2>2, JoinedTypes DEF A
    <2> QED BY <2>3, <2>4, <2>5, <2>6
  <1>12. Piped(stages) \in A
    <2> DEFINE spaced == [i \in DOMAIN stages |-> gap \o stages[i]]
    <2>1. spaced \in [1 .. Len(stages) -> A]
      BY <1>2, <1>3, <1>10
    <2>2. Piped(stages) = FlattenSeq(spaced)
      BY DEF Piped, gap
    <2> HIDE DEF spaced
    <2>3. spaced \in Seq(A)
      <3>1. Len(stages) \in Nat
        BY <1>10
      <3> QED BY <2>1, <3>1
    <2> QED BY <2>2, <2>3, JoinedTypes DEF A
  <1>13. BuildSelectorQuery(selector, matchers, filters) =
             ((open \o Listed(Inner(t), matchers)) \o close) \o Piped(stages)
    BY DEF BuildSelectorQuery, t, open, close, stages
  <1>14. ((open \o Listed(Inner(t), matchers)) \o close) \o Piped(stages) \in A
    <2>1. open \o Listed(Inner(t), matchers) \in A
      BY <1>2, <1>3, <1>11
    <2>2. (open \o Listed(Inner(t), matchers)) \o close \in A
      BY <1>2, <1>3, <2>1
    <2> QED BY <1>3, <1>12, <2>2
  <1>15. Continues(BuildSelectorQuery(selector, matchers, filters),
                   (open \o Listed(Inner(t), matchers)) \o close, S)
    BY <1>12, <1>13 DEF Continues, A
  <1> QED BY <1>6, <1>9, <1>11, <1>13, <1>14, <1>15 DEF A, all, t, open, close

LEMMA QueryTypes ==
    ASSUME NEW S, {OpeningBrace, ClosingBrace, Separator, Blank} \subseteq S, NEW selector \in Seq(S),
           NEW matchers \in Seq(Seq(S)), NEW filters \in Seq(Seq(S))
    PROVE  BuildSelectorQuery(selector, matchers, filters) \in Seq(S)
  BY QueryParts

\* The text has a first token, and that is no closing brace.
Begins(text) == text # <<>> /\ text[1] # ClosingBrace

\* A query begins with a pair of braces if there is nothing to write between them.
LEMMA BareQuery ==
    ASSUME NEW S, {OpeningBrace, ClosingBrace, Separator, Blank} \subseteq S, NEW selector \in Seq(S),
           NEW matchers \in Seq(Seq(S)), NEW filters \in Seq(Seq(S)),
           Inner(Trim(selector)) # <<>> => Begins(Inner(Trim(selector))),
           \A i \in 1 .. Len(matchers) : Begins(matchers[i])
    PROVE  SubSeq(BuildSelectorQuery(selector, matchers, filters), 1, 2) = <<OpeningBrace, ClosingBrace>>
               <=> Inner(Trim(selector)) = <<>> /\ matchers = <<>>
PROOF
  <1> DEFINE inner == Inner(Trim(selector))
             all == Matchers(inner, matchers)
             listed == Listed(inner, matchers)
             query == BuildSelectorQuery(selector, matchers, filters)
             open == <<OpeningBrace>>
             close == <<ClosingBrace>>
             parts == (open \o listed) \o close
  <1>0. inner = Inner(Trim(selector))
    OBVIOUS
  <1> HIDE DEF inner
  <1>1. /\ inner \in Seq(S) /\ all \in Seq(Seq(S)) /\ query \in Seq(S) /\ listed \in Seq(S)
        /\ all = <<>> => listed = <<>>
        /\ all # <<>> => Continues(listed, all[1], S)
        /\ Continues(query, parts, S)
    BY <1>0, QueryParts
  <1>2. inner # <<>> => Begins(inner)
    BY <1>0
  <1> HIDE DEF listed, query
  <1>3. all = <<>> <=> inner = <<>> /\ matchers = <<>>
    <2>1. inner = <<>> => all = matchers
      BY ConcatEmptySeq DEF Matchers
    <2>2. inner # <<>> => all # <<>>
      <3> SUFFICES ASSUME inner # <<>> PROVE all # <<>>
        OBVIOUS
      <3> DEFINE one == <<inner>>
      <3>1. one \in Seq(Seq(S)) /\ Len(one) = 1
        BY <1>1
      <3>2. all = one \o matchers
        BY DEF Matchers
      <3> HIDE DEF one, all
      <3>3. Len(one \o matchers) = Len(one) + Len(matchers) /\ Len(matchers) \in Nat
        BY <3>1, ConcatProperties, LenProperties
      <3>4. Len(all) # 0
        BY <3>1, <3>2, <3>3
      <3> QED BY <3>4, EmptySeq
    <2> QED BY <2>1, <2>2
  <1>4. all # <<>> => Begins(all[1])
    <2>1. CASE inner = <<>>
      <3>1. all = matchers
        BY <2>1, ConcatEmptySeq DEF Matchers
      <3>2. matchers # <<>> => 1 \in 1 .. Len(matchers)
        <4>1. Len(matchers) \in Nat /\ (Len(matchers) = 0 => matchers = <<>>)
          BY LenProperties, EmptySeq
        <4> QED BY <4>1
      <3> HIDE DEF all
      <3> QED BY <3>1, <3>2
    <2>2. CASE inner # <<>>
      <3> DEFINE one == <<inner>>
      <3>1. one \in Seq(Seq(S)) /\ Len(one) = 1 /\ one[1] = inner
        BY <1>1
      <3>2. all = one \o matchers
        BY <2>2 DEF Matchers
      <3> HIDE DEF one, all
      <3>3. /\ \A i \in 1 .. Len(one) + Len(matchers) :
                  (one \o matchers)[i] = IF i <= Len(one) THEN one[i] ELSE matchers[i - Len(one)]
            /\ Len(matchers) \in Nat
        BY <3>1, ConcatProperties, LenProperties
      <3>4. (one \o matchers)[1] = one[1]
        <4>1. 1 \in 1 .. Len(one) + Len(matchers) /\ 1 <= Len(one)
          BY <3>1, <3>3
        <4> QED BY <3>3, <4>1
      <3> QED BY <1>2, <2>2, <3>1, <3>2, <3>4
    <2> QED BY <2>1, <2>2
  <1> HIDE DEF all
  <1>5. listed # <<>> => listed[1] # ClosingBrace
    <2> SUFFICES ASSUME listed # <<>> PROVE listed[1] # ClosingBrace
      OBVIOUS
    <2>1. PICK r \in Seq(S) : listed = all[1] \o r
      BY <1>1 DEF Continues
    <2>2. all # <<>>
      BY <1>1
    <2> DEFINE first == all[1]
    <2>3. first \in Seq(S) /\ first # <<>> /\ first[1] # ClosingBrace
      <3>1. Len(all) \in Nat /\ Len(all) # 0 /\ \A i \in 1 .. Len(all) : all[i] \in Seq(S)
        BY <1>1, <2>2, LenProperties, EmptySeq
      <3>2. 1 \in 1 .. Len(all)
        BY <3>1
      <3> QED BY <1>4, <2>2, <3>1, <3>2 DEF Begins
    <2> HIDE DEF first
    <2>4. /\ Len(first) \in Nat /\ Len(first) # 0 /\ Len(r) \in Nat
          /\ \A i \in 1 .. Len(first) + Len(r) :
                (first \o r)[i] = IF i <= Len(first) THEN first[i] ELSE r[i - Len(first)]
      BY <2>3, ConcatProperties, LenProperties, EmptySeq
    <2>5. 1 \in 1 .. Len(first) + Len(r) /\ 1 <= Len(first)
      BY <2>4
    <2>6. (first \o r)[1] = first[1]
      BY <2>4, <2>5
    <2> QED BY <2>1, <2>3, <2>6 DEF first
  <1>6. all # <<>> => listed # <<>>
    <2> SUFFICES ASSUME all # <<>> PROVE listed # <<>>
      OBVIOUS
    <2>1. PICK r \in Seq(S) : listed = all[1] \o r
      BY <1>1 DEF Continues
    <2> DEFINE first == all[1]
    <2>2. first \in Seq(S) /\ first # <<>>
      <3>1. Len(all) \in Nat /\ Len(all) # 0 /\ \A i \in 1 .. Len(all) : all[i] \in Seq(S)
        BY <1>1, LenProperties, EmptySeq
      <3>2. 1 \in 1 .. Len(all)
        BY <3>1
      <3> QED BY <1>4, <3>1, <3>2 DEF Begins
    <2> HIDE DEF first
    <2>3. /\ Len(first \o r) = Len(first) + Len(r)
          /\ Len(first) \in Nat /\ Len(first) # 0 /\ Len(r) \in Nat
      BY <2>2, ConcatProperties, LenProperties, EmptySeq
    <2>4. Len(listed) # 0
      BY <2>1, <2>3 DEF first
    <2> QED BY <2>4, EmptySeq
  <1>7. query[1] = OpeningBrace /\ query[2] = IF listed = <<>> THEN ClosingBrace ELSE listed[1]
    <2>1. PICK tail \in Seq(S) : query = parts \o tail
      BY <1>1 DEF Continues
    <2>2. open \in Seq(S) /\ Len(open) = 1 /\ open[1] = OpeningBrace
          /\ close \in Seq(S) /\ Len(close) = 1 /\ close[1] = ClosingBrace
      OBVIOUS
    <2> HIDE DEF open, close
    <2> DEFINE first == open \o listed
    <2>3. /\ first \in Seq(S) /\ Len(first) = 1 + Len(listed) /\ Len(listed) \in Nat
          /\ first[1] = OpeningBrace
          /\ Len(listed) # 0 => first[2] = listed[1]
      <3>1. /\ open \o listed \in Seq(S) /\ Len(open \o listed) = Len(open) + Len(listed)
            /\ Len(listed) \in Nat
            /\ \A i \in 1 .. Len(open) + Len(listed) :
                  (open \o listed)[i] = IF i <= Len(open) THEN open[i] ELSE listed[i - Len(open)]
        BY <1>1, <2>2, ConcatProperties, LenProperties
      <3>2. (open \o listed)[1] = open[1]
        BY <2>2, <3>1
      <3>3. Len(listed) # 0 => (open \o listed)[2] = listed[2 - 1]
        <4> SUFFICES ASSUME Len(listed) # 0 PROVE (open \o listed)[2] = listed[2 - Len(open)]
          BY <2>2
        <4>1. 2 \in 1 .. Len(open) + Len(listed) /\ ~(2 <= Len(open))
          BY <2>2, <3>1
        <4> QED BY <3>1, <4>1
      <3> QED BY <2>2, <3>1, <3>2, <3>3
    <2> HIDE DEF first
    <2> DEFINE both == first \o close
    <2>4. /\ both \in Seq(S) /\ Len(both) = 2 + Len(listed)
          /\ both[1] = OpeningBrace
          /\ both[2] = IF Len(listed) = 0 THEN ClosingBrace ELSE listed[1]
      <3>1. /\ first \o close \in Seq(S) /\ Len(first \o close) = Len(first) + Len(close)
            /\ \A i \in 1 .. Len(first) + Len(close) :
                  (first \o close)[i] = IF i <= Len(first) THEN first[i] ELSE close[i - Len(first)]
        BY <2>2, <2>3, ConcatProperties
      <3>2. (first \o close)[1] = first[1]
        BY <2>2, <2>3, <3>1
      <3>3. CASE Len(listed) = 0
        <4>1. (first \o close)[2] = close[2 - 1]
          BY <2>2, <2>3, <3>1, <3>3
        <4> QED BY <2>2, <2>3, <3>1, <3>2, <3>3, <4>1
      <3>4. CASE Len(listed) # 0
        <4>1. (first \o close)[2] = first[2]
          BY <2>2, <2>3, <3>1, <3>4
        <4> QED BY <2>2, <2>3, <3>1, <3>2, <3>4, <4>1
      <3> QED BY <3>3, <3>4
    <2> HIDE DEF both
    <2>5. (both \o tail)[1] = both[1] /\ (both \o tail)[2] = both[2]
      <3>1. /\ \A i \in 1 .. Len(both) + Len(tail) :
                  (both \o tail)[i] = IF i <= Len(both) THEN both[i] ELSE tail[i - Len(both)]
            /\ Len(tail) \in Nat
        BY <2>4, ConcatProperties, LenProperties
      <3>2. /\ 1 \in 1 .. Len(both) + Len(tail) /\ 1 <= Len(both)
            /\ 2 \in 1 .. Len(both) + Len(tail) /\ 2 <= Len(both)
        BY <2>3, <2>4, <3>1
      <3> QED BY <3>1, <3>2
    <2>6. query = both \o tail
      BY <2>1 DEF both, first
    <2>7. Len(listed) = 0 <=> listed = <<>>
      BY <1>1, EmptySeq
    <2> QED BY <2>4, <2>5, <2>6, <2>7
  <1>8. SubSeq(query, 1, 2) = <<OpeningBrace, ClosingBrace>> <=> query[1] = OpeningBrace /\ query[2] = ClosingBrace
    <2> DEFINE two == SubSeq(query, 1, 2)
               braces == <<OpeningBrace, ClosingBrace>>
    <2>1. \A i \in 1 .. 2 : query[i] \in S
      <3>1. \A i \in 1 .. Len(listed) : listed[i] \in S
        BY <1>1, LenProperties
      <3>2. Len(listed) \in Nat /\ (Len(listed) = 0 => listed = <<>>)
        BY <1>1, LenProperties, EmptySeq
      <3>3. listed # <<>> => listed[1] \in S
        BY <3>1, <3>2
      <3> QED BY <1>7, <3>3
    <2>2. /\ two \in Seq(S) /\ Len(two) = 2
          /\ two[1] = query[1] /\ two[2] = query[2]
      BY <2>1, SubSeqProperties
    <2>3. /\ braces \in Seq(S) /\ Len(braces) = 2
          /\ braces[1] = OpeningBrace /\ braces[2] = ClosingBrace
      OBVIOUS
    <2> HIDE DEF two, braces
    <2>4. two = braces <=> two[1] = braces[1] /\ two[2] = braces[2]
      <3> SUFFICES ASSUME two[1] = braces[1], two[2] = braces[2] PROVE two = braces
        OBVIOUS
      <3>1. \A i \in 1 .. 2 : two[i] = braces[i]
        OBVIOUS
      <3> QED BY <2>2, <2>3, <3>1, SeqEqual
    <2> QED BY <2>2, <2>3, <2>4 DEF two, braces
  <1>9. SubSeq(query, 1, 2) = <<OpeningBrace, ClosingBrace>> <=> all = <<>>
    BY <1>1, <1>5, <1>6, <1>7, <1>8
  <1> QED BY <1>3, <1>9 DEF query, inner
=============================================================================
