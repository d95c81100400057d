-------------------------- MODULE CollectionProofs --------------------------
(***************************************************************************)
(* Lemmas on naturals, finite sets of integers and subsequences that the   *)
(* proofs of several components need.                                      *)
(***************************************************************************)
EXTENDS Subsequences, FiniteSetsExt, FiniteSetTheorems, SequenceTheorems, WellFoundedInduction, TLAPS

-----------------------------------------------------------------------------
(* Induction over the naturals, stated of sets: no operator is a parameter. *)

LEMMA NatOrder ==
    \E R : IsWellFoundedOn(R, Nat) /\ \A x, y \in Nat : x < y => <<x, y>> \in R
PROOF
  <1>1. \A x, y \in Nat : x < y => <<x, y>> \in OpToRel(<, Nat)
    BY DEF OpToRel
  <1> QED BY <1>1, NatLessThanWellFounded

LEMMA NatSetInduction ==
    ASSUME NEW T, 0 \in T, \A n \in Nat : n \in T => n + 1 \in T
    PROVE  Nat \subseteq T
PROOF
  <1> DEFINE U == Nat \ T
  <1> SUFFICES ASSUME U # {} PROVE FALSE
    OBVIOUS
  <1>1. PICK R : IsWellFoundedOn(R, Nat) /\ \A x, y \in Nat : x < y => <<x, y>> \in R
    BY NatOrder
  <1>2. PICK x \in U : \A y \in U : ~(<<y, x>> \in R)
    <2>1. U \subseteq Nat /\ U # {}
      OBVIOUS
    <2> HIDE DEF U
    <2>2. IsWellFoundedOn(R, Nat)
      BY <1>1
    <2> QED BY <2>1, <2>2, WFMin, Zenon
  <1>3. x # 0 /\ x - 1 \in Nat /\ x - 1 < x
    BY <1>2
  <1>4. x - 1 \in T
    BY <1>1, <1>2, <1>3
  <1> QED BY <1>2, <1>3, <1>4

\* The same for the numbers up to n.
LEMMA InductionUpTo ==
    ASSUME NEW n \in Nat, NEW T, 0 \in T, \A k \in 0 .. n - 1 : k \in T => k + 1 \in T
    PROVE  0 .. n \subseteq T
PROOF
  <1> DEFINE U == {k \in Nat : k <= n => k \in T}
  <1>1. 0 \in U
    OBVIOUS
  <1>2. \A k \in Nat : k \in U => k + 1 \in U
    OBVIOUS
  <1>3. Nat \subseteq U
    <2> HIDE DEF U
    <2> QED BY <1>1, <1>2, NatSetInduction
  <1> QED BY <1>3

-----------------------------------------------------------------------------
(* Finite sets of integers have a least and a greatest element.            *)

\* Induction on finite sets, by a least counterexample in the subset order.
LEMMA FiniteHasMax ==
    ASSUME NEW S \in SUBSET Int, IsFiniteSet(S), S # {}
    PROVE  \E x \in S : \A y \in S : x >= y
PROOF
  <1> DEFINE Bad == {T \in FiniteSubsetsOf(Int) :
                        T # {} /\ \A x \in T : \E y \in T : ~(x >= y)}
  <1>1. SUFFICES ASSUME Bad # {} PROVE FALSE
    <2>1. S \in FiniteSubsetsOf(Int)
      BY DEF FiniteSubsetsOf
    <2>2. S \notin Bad
      BY <1>1
    <2> QED BY <2>1, <2>2
  <1>2. PICK T \in Bad : \A U \in Bad : <<U, T>> \notin StrictSubsetOrdering(Int)
    <2>1. IsWellFoundedOn(StrictSubsetOrdering(Int), FiniteSubsetsOf(Int))
      BY FS_StrictSubsetOrderingWellFounded
    <2>2. Bad \subseteq FiniteSubsetsOf(Int)
      OBVIOUS
    <2> HIDE DEF Bad
    <2> QED BY <1>1, <2>1, <2>2, WFMin
  <1>3. PICK z \in T : TRUE
    BY <1>2
  <1> DEFINE U == T \ {z}
  <1>4. U \subseteq T /\ U # T /\ T \subseteq Int /\ IsFiniteSet(U)
    <2>1. T \subseteq Int /\ IsFiniteSet(T)
      BY <1>2 DEF FiniteSubsetsOf
    <2> QED BY <1>3, <2>1, FS_Subset
  <1>5. <<U, T>> \in StrictSubsetOrdering(Int)
    BY <1>4 DEF StrictSubsetOrdering
  <1>6. U \notin Bad
    BY <1>2, <1>5
  <1>7. CASE U = {}
    <2>1. T = {z}
      BY <1>3, <1>7
    <2> QED BY <1>2, <2>1, <1>4
  <1>8. CASE U # {}
    <2>1. U \in FiniteSubsetsOf(Int)
      BY <1>4 DEF FiniteSubsetsOf
    <2>2. PICK x \in U : \A y \in U : x >= y
      BY <1>6, <1>8, <2>1
    <2>3. z \in Int /\ x \in Int
      BY <1>3, <1>4
    <2>4. \A y \in T : y = z \/ y \in U
      OBVIOUS
    <2>5. CASE x >= z
      BY <1>2, <1>4, <2>2, <2>4, <2>5
    <2>6. CASE z >= x
      <3>1. \A y \in T : z >= y
        BY <1>4, <2>2, <2>3, <2>4, <2>6
      <3> QED BY <1>2, <1>3, <3>1
    <2> QED BY <2>3, <2>5, <2>6
  <1> QED BY <1>7, <1>8

LEMMA FiniteHasMin ==
    ASSUME NEW S \in SUBSET Int, IsFiniteSet(S), S # {}
    PROVE  \E x \in S : \A y \in S : x <= y
PROOF
  <1> DEFINE neg == [x \in S |-> 0 - x]
             T == {0 - x : x \in S}
  <1>1. neg \in Surjection(S, T)
    BY DEF Surjection
  <1>2. IsFiniteSet(T)
    BY <1>1, FS_Surjection
  <1>3. T \in SUBSET Int /\ T # {}
    <2>1. PICK x \in S : 0 - x \in T
      OBVIOUS
    <2>2. \A y \in T : y \in Int
      OBVIOUS
    <2> HIDE DEF T
    <2> QED BY <2>1, <2>2
  <1> HIDE DEF T
  <1>4. PICK z \in T : \A y \in T : z >= y
    BY <1>2, <1>3, FiniteHasMax
  <1>5. PICK x \in S : z = 0 - x
    BY DEF T
  <1>6. ASSUME NEW y \in S PROVE x <= y
    <2>1. 0 - y \in T
      BY DEF T
    <2>2. 0 - x >= 0 - y
      BY <1>4, <1>5, <2>1
    <2> QED BY <2>2
  <1> QED BY <1>6

\* The community module's Max and Min of such a set are what they say.
LEMMA MaxMin ==
    ASSUME NEW S \in SUBSET Int, IsFiniteSet(S), S # {}
    PROVE  /\ Max(S) \in S /\ \A y \in S : Max(S) >= y
           /\ Min(S) \in S /\ \A y \in S : Min(S) <= y
PROOF
  <1>1. \E x \in S : \A y \in S : x >= y
    BY FiniteHasMax
  <1>2. \E x \in S : \A y \in S : x <= y
    BY FiniteHasMin
  <1> QED BY <1>1, <1>2 DEF Max, Min

LEMMA MinOfTwo ==
    ASSUME NEW i \in Int, NEW j \in Int
    PROVE  Min({i, j}) = IF i <= j THEN i ELSE j
PROOF
  <1>1. {i, j} \in SUBSET Int /\ {i, j} # {}
    OBVIOUS
  <1>2. IsFiniteSet({i, j})
    <2>1. IsFiniteSet({i})
      BY FS_Singleton
    <2>2. {i} \cup {j} = {i, j}
      OBVIOUS
    <2> QED BY <2>1, <2>2, FS_AddElement
  <1>3. Min({i, j}) \in {i, j} /\ \A y \in {i, j} : Min({i, j}) <= y
    BY <1>1, <1>2, MaxMin
  <1> QED BY <1>3

-----------------------------------------------------------------------------
(* What Subsequence keeps, and that it keeps it in order.                  *)

\* The k-th index kept.
Kth(kept, k) == CHOOSE i \in kept : Rank(kept, i) = k

LEMMA RankGrows ==
    ASSUME NEW n \in Nat, NEW kept \in SUBSET (1 .. n)
    PROVE  /\ IsFiniteSet(kept) /\ Cardinality(kept) \in Nat
           /\ \A i \in kept : Rank(kept, i) \in 1 .. Cardinality(kept)
           /\ \A i, j \in kept : i < j => Rank(kept, i) < Rank(kept, j)
PROOF
  <1> DEFINE upto(i) == {j \in kept : j <= i}
  <1>0. \A i \in kept : i \in Int
    OBVIOUS
  <1>1. IsFiniteSet(kept) /\ Cardinality(kept) \in Nat
    <2>1. IsFiniteSet(1 .. n)
      BY FS_Interval
    <2> QED BY <2>1, FS_Subset, FS_CardinalityType
  <1>2. \A i \in kept : /\ IsFiniteSet(upto(i)) /\ Cardinality(upto(i)) \in Nat
                        /\ Cardinality(upto(i)) <= Cardinality(kept)
                        /\ Cardinality(upto(i)) = Rank(kept, i)
    BY <1>1, FS_Subset, FS_CardinalityType DEF Rank
  <1>3. ASSUME NEW i \in kept PROVE Rank(kept, i) >= 1
    <2>1. i \in upto(i)
      OBVIOUS
    <2>2. Cardinality(upto(i)) # 0
      BY <1>2, <2>1, FS_EmptySet
    <2> QED BY <1>2, <2>2
  <1>4. ASSUME NEW i \in kept, NEW j \in kept, i < j PROVE Rank(kept, i) < Rank(kept, j)
    <2>1. upto(i) \in SUBSET upto(j) /\ j \in upto(j) /\ j \notin upto(i)
      <3>1. i < j /\ i \in Int /\ j \in Int
        BY <1>0, <1>4
      <3>2. \A x \in kept : x <= i => x <= j
        BY <1>0, <3>1
      <3>3. j <= j /\ ~(j <= i)
        BY <3>1
      <3> QED BY <3>2, <3>3
    <2>2. /\ Cardinality(upto(i)) <= Cardinality(upto(j))
          /\ Cardinality(upto(i)) # Cardinality(upto(j))
      <3> HIDE DEF upto
      <3> QED BY <1>2, <2>1, FS_Subset
    <2> QED BY <1>2, <2>2
  <1>5. ASSUME NEW i \in kept PROVE Rank(kept, i) \in 1 .. Cardinality(kept)
    <2>1. Rank(kept, i) \in Nat /\ Rank(kept, i) <= Cardinality(kept) /\ Rank(kept, i) >= 1
      BY <1>2, <1>3
    <2> HIDE DEF upto
    <2> QED BY <1>1, <2>1
  <1> QED BY <1>1, <1>4, <1>5

\* Every rank is that of one index, and the later of two has the higher rank.
LEMMA KthIsKept ==
    ASSUME NEW n \in Nat, NEW kept \in SUBSET (1 .. n)
    PROVE  /\ \A k \in 1 .. Cardinality(kept) : Kth(kept, k) \in kept /\ Rank(kept, Kth(kept, k)) = k
           /\ \A i \in kept : i = Kth(kept, Rank(kept, i))
           /\ \A k, l \in 1 .. Cardinality(kept) : k < l => Kth(kept, k) < Kth(kept, l)
PROOF
  <1> DEFINE ranks == [i \in kept |-> Rank(kept, i)]
             places == 1 .. Cardinality(kept)
  <1>0. \A i \in kept : i \in Int
    OBVIOUS
  <1>1. /\ IsFiniteSet(kept) /\ Cardinality(kept) \in Nat
        /\ \A i \in kept : Rank(kept, i) \in places
        /\ \A i, j \in kept : i < j => Rank(kept, i) < Rank(kept, j)
    BY RankGrows
  <1>2. \A i, j \in kept : Rank(kept, i) = Rank(kept, j) => i = j
    <2>1. \A i, j \in kept : i # j => i < j \/ j < i
      OBVIOUS
    <2> QED BY <1>1, <2>1
  <1>3. ranks \in Injection(kept, places)
    BY <1>1, <1>2 DEF Injection, IsInjective
  <1>4. IsFiniteSet(places) /\ Cardinality(places) = Cardinality(kept)
    BY <1>1, FS_Interval
  <1>5. ranks \in Surjection(kept, places)
    BY <1>3, <1>4, FS_Injection
  <1>6. \A k \in places : \E i \in kept : Rank(kept, i) = k
    BY <1>5 DEF Surjection
  <1>7. \A k \in places : Kth(kept, k) \in kept /\ Rank(kept, Kth(kept, k)) = k
    BY <1>6 DEF Kth
  <1>8. \A i \in kept : i = Kth(kept, Rank(kept, i))
    BY <1>1, <1>2, <1>7
  <1>9. ASSUME NEW k \in places, NEW l \in places, k < l PROVE Kth(kept, k) < Kth(kept, l)
    <2>1. /\ Kth(kept, k) \in kept /\ Kth(kept, l) \in kept
          /\ Rank(kept, Kth(kept, k)) = k /\ Rank(kept, Kth(kept, l)) = l
      BY <1>7
    <2>2. ~(Kth(kept, l) < Kth(kept, k)) /\ Kth(kept, l) # Kth(kept, k)
      <3>1. k \in Int /\ l \in Int /\ ~(l < k) /\ l # k
        BY <1>1, <1>9
      <3> QED BY <1>1, <2>1, <3>1
    <2>3. Kth(kept, k) \in Int /\ Kth(kept, l) \in Int
      BY <1>0, <2>1
    <2> QED BY <2>2, <2>3
  <1> QED BY <1>7, <1>8, <1>9

\* A subsequence is a sequence of elements of s, of those that are kept, in order.
LEMMA SubsequenceKeeps ==
    ASSUME NEW S, NEW s \in Seq(S), NEW kept \in SUBSET DOMAIN s
    PROVE  /\ Subsequence(s, kept) \in Seq(S)
           /\ Len(Subsequence(s, kept)) = Cardinality(kept)
           /\ \A k \in DOMAIN Subsequence(s, kept) :
                 Kth(kept, k) \in kept /\ Subsequence(s, kept)[k] = s[Kth(kept, k)]
           /\ \A k, l \in DOMAIN Subsequence(s, kept) : k < l => Kth(kept, k) < Kth(kept, l)
           /\ \A i \in kept : \E k \in DOMAIN Subsequence(s, kept) : Subsequence(s, kept)[k] = s[i]
PROOF
  <1>1. Len(s) \in Nat /\ kept \in SUBSET (1 .. Len(s)) /\ DOMAIN s = 1 .. Len(s)
    OBVIOUS
  <1>2. Subsequence(s, kept) = [k \in 1 .. Cardinality(kept) |-> s[Kth(kept, k)]]
    BY DEF Subsequence, Kth
  <1>3. /\ Cardinality(kept) \in Nat
        /\ \A i \in kept : Rank(kept, i) \in 1 .. Cardinality(kept)
    BY <1>1, RankGrows
  <1>4. /\ \A k \in 1 .. Cardinality(kept) : Kth(kept, k) \in kept
        /\ \A i \in kept : i = Kth(kept, Rank(kept, i))
        /\ \A k, l \in 1 .. Cardinality(kept) : k < l => Kth(kept, k) < Kth(kept, l)
    BY <1>1, KthIsKept
  <1>5. \A i \in 1 .. Len(s) : s[i] \in S
    BY <1>1
  <1>6. \A k \in 1 .. Cardinality(kept) : s[Kth(kept, k)] \in S
    BY <1>1, <1>4, <1>5
  <1> DEFINE sub == Subsequence(s, kept)
  <1>7. sub \in Seq(S) /\ Len(sub) = Cardinality(kept) /\ DOMAIN sub = 1 .. Cardinality(kept)
    BY <1>2, <1>3, <1>6
  <1>8. \A k \in DOMAIN sub : sub[k] = s[Kth(kept, k)]
    BY <1>2
  <1> QED BY <1>3, <1>4, <1>7, <1>8

\* A set moved along the integers keeps its size.
LEMMA ShiftedSize ==
    ASSUME NEW n \in Int, NEW L \in SUBSET Int, IsFiniteSet(L)
    PROVE  /\ IsFiniteSet({n + l : l \in L})
           /\ Cardinality({n + l : l \in L}) = Cardinality(L)
PROOF
  <1> DEFINE M == {n + l : l \in L}
             shift == [l \in L |-> n + l]
  <1>1. \A k, l \in L : n + k = n + l => k = l
    OBVIOUS
  <1>2. shift \in Bijection(L, M)
    BY <1>1 DEF Bijection, Injection, Surjection, IsInjective
  <1>3. ExistsBijection(L, M)
    BY <1>2 DEF ExistsBijection
  <1> QED BY <1>3, FS_Bijection

\* What is kept of two sequences together is what is kept of each.
LEMMA SubsequenceConcat ==
    ASSUME NEW S, NEW s \in Seq(S), NEW t \in Seq(S),
           NEW K \in SUBSET DOMAIN s, NEW L \in SUBSET DOMAIN t,
           NEW W \in SUBSET Int, \A i \in Int : i \in W <=> i \in K \/ i - Len(s) \in L
    PROVE  Subsequence(s \o t, W) = Subsequence(s, K) \o Subsequence(t, L)
PROOF
  <1> DEFINE n == Len(s)
             M == {n + l : l \in L}
             st == s \o t
             subK == Subsequence(s, K)
             subL == Subsequence(t, L)
             subW == Subsequence(st, W)
  <1>1. /\ n \in Nat /\ Len(t) \in Nat /\ DOMAIN s = 1 .. n /\ DOMAIN t = 1 .. Len(t)
        /\ K \in SUBSET (1 .. n) /\ L \in SUBSET (1 .. Len(t))
    BY LenProperties
  <1>2. /\ st \in Seq(S) /\ Len(st) = n + Len(t)
        /\ \A i \in 1 .. n + Len(t) : st[i] = IF i <= n THEN s[i] ELSE t[i - n]
    BY ConcatProperties
  <1>3. DOMAIN st = 1 .. n + Len(t)
    BY <1>2, LenProperties
  <1> HIDE DEF st
  <1>4. W = K \cup M
    <2>1. \A i \in Int : i \in M <=> i - n \in L
      BY <1>1
    <2>2. M \subseteq Int /\ K \subseteq Int
      BY <1>1
    <2> HIDE DEF M
    <2> QED BY <2>1, <2>2
  <1>5. \A l \in L : n + l \in n + 1 .. n + Len(t)
    BY <1>1
  <1>6. W \in SUBSET (1 .. n + Len(t)) /\ W \in SUBSET DOMAIN st
    BY <1>1, <1>3, <1>4, <1>5
  <1>7. /\ IsFiniteSet(K) /\ Cardinality(K) \in Nat /\ IsFiniteSet(L) /\ Cardinality(L) \in Nat
        /\ \A l \in L : Rank(L, l) \in 1 .. Cardinality(L)
    BY <1>1, RankGrows
  <1>8. \A l \in L : IsFiniteSet({k \in L : k <= l})
    BY <1>7, FS_Subset
  <1>9. ASSUME NEW T, IsFiniteSet(T), T \in SUBSET L
        PROVE  Cardinality(K \cup {n + l : l \in T}) = Cardinality(K) + Cardinality(T)
    <2> DEFINE U == {n + l : l \in T}
    <2>1. IsFiniteSet(U) /\ Cardinality(U) = Cardinality(T)
      <3>1. T \in SUBSET Int /\ n \in Int
        BY <1>1, <1>9
      <3> HIDE DEF n
      <3> QED BY <1>9, <3>1, ShiftedSize
    <2>2. K \cap U = {}
      BY <1>1, <1>5, <1>9
    <2>3. Cardinality(T) \in Nat
      BY <1>9, FS_CardinalityType
    <2> HIDE DEF U
    <2>4. Cardinality(K \cup U) = Cardinality(K) + Cardinality(U) - Cardinality(K \cap U)
      BY <1>7, <2>1, FS_Union
    <2>5. Cardinality(K \cap U) = 0
      BY <2>2, FS_EmptySet
    <2> QED BY <1>7, <2>1, <2>3, <2>4, <2>5 DEF U
  <1>10. Cardinality(W) = Cardinality(K) + Cardinality(L)
    BY <1>4, <1>7, <1>9
  <1>11. ASSUME NEW i \in K PROVE Rank(W, i) = Rank(K, i)
    <2>1. i <= n /\ i \in Int
      BY <1>1
    <2>2. \A j \in M : ~(j <= i)
      BY <1>1, <1>5, <2>1
    <2>3. {j \in W : j <= i} = {j \in K : j <= i}
      BY <1>4, <2>2
    <2> QED BY <2>3 DEF Rank
  <1>12. ASSUME NEW l \in L PROVE Rank(W, n + l) = Cardinality(K) + Rank(L, l)
    <2> DEFINE T == {k \in L : k <= l}
    <2>1. \A i \in K : i <= n + l
      BY <1>1
    <2>2. \A k \in L : n + k <= n + l <=> k <= l
      BY <1>1
    <2>3. {j \in W : j <= n + l} = K \cup {n + k : k \in T}
      BY <1>4, <2>1, <2>2
    <2> QED BY <1>8, <1>9, <2>3 DEF Rank
  <1>13. /\ subW \in Seq(S) /\ Len(subW) = Cardinality(W)
         /\ \A k \in DOMAIN subW : subW[k] = st[Kth(W, k)]
    BY <1>2, <1>6, SubsequenceKeeps
  <1>14. /\ subK \in Seq(S) /\ Len(subK) = Cardinality(K)
         /\ \A k \in DOMAIN subK : Kth(K, k) \in K /\ subK[k] = s[Kth(K, k)]
    BY SubsequenceKeeps
  <1>15. /\ subL \in Seq(S) /\ Len(subL) = Cardinality(L)
         /\ \A k \in DOMAIN subL : Kth(L, k) \in L /\ subL[k] = t[Kth(L, k)]
    BY SubsequenceKeeps
  <1>16. \A i \in W : i = Kth(W, Rank(W, i))
    <2>1. n + Len(t) \in Nat
      BY <1>1
    <2> QED BY <1>6, <2>1, KthIsKept
  <1>17. /\ \A k \in 1 .. Cardinality(K) : Kth(K, k) \in K /\ Rank(K, Kth(K, k)) = k
         /\ \A k \in 1 .. Cardinality(L) : Kth(L, k) \in L /\ Rank(L, Kth(L, k)) = k
    BY <1>1, KthIsKept
  <1>18. /\ DOMAIN subW = 1 .. Cardinality(W)
         /\ DOMAIN subK = 1 .. Cardinality(K) /\ DOMAIN subL = 1 .. Cardinality(L)
    <2> HIDE DEF subW, subK, subL
    <2> QED BY <1>13, <1>14, <1>15, LenProperties
  <1>19. ASSUME NEW k \in 1 .. Cardinality(K) PROVE subW[k] = subK[k]
    <2>1. /\ Kth(K, k) \in K /\ Rank(W, Kth(K, k)) = k
      BY <1>11, <1>17
    <2>2. Kth(W, k) = Kth(K, k)
      BY <1>16, <2>1
    <2>3. k \in DOMAIN subW /\ k \in DOMAIN subK
      BY <1>7, <1>10, <1>18
    <2>4. st[Kth(K, k)] = s[Kth(K, k)]
      BY <1>1, <1>2, <2>1
    <2> HIDE DEF subW, subK
    <2> QED BY <1>13, <1>14, <2>2, <2>3, <2>4
  <1>20. ASSUME NEW k \in 1 .. Cardinality(L) PROVE subW[Cardinality(K) + k] = subL[k]
    <2>1. /\ Kth(L, k) \in L /\ Rank(W, n + Kth(L, k)) = Cardinality(K) + k
      BY <1>12, <1>17
    <2>2. Kth(W, Cardinality(K) + k) = n + Kth(L, k)
      BY <1>16, <2>1
    <2>3. Cardinality(K) + k \in DOMAIN subW /\ k \in DOMAIN subL
      BY <1>7, <1>10, <1>18
    <2>4. st[n + Kth(L, k)] = t[Kth(L, k)]
      <3>1. Kth(L, k) \in 1 .. Len(t)
        BY <1>1, <2>1
      <3> HIDE DEF n
      <3>2. /\ n + Kth(L, k) \in 1 .. n + Len(t) /\ ~(n + Kth(L, k) <= n)
            /\ (n + Kth(L, k)) - n = Kth(L, k)
        BY <1>1, <3>1
      <3> QED BY <1>2, <3>2
    <2> HIDE DEF subW, subL
    <2> QED BY <1>13, <1>15, <2>2, <2>3, <2>4
  <1>21. /\ subK \o subL \in Seq(S) /\ Len(subK \o subL) = Cardinality(K) + Cardinality(L)
         /\ \A k \in 1 .. Cardinality(K) + Cardinality(L) :
               (subK \o subL)[k] = IF k <= Cardinality(K) THEN subK[k] ELSE subL[k - Cardinality(K)]
    <2>1. subK \in Seq(S) /\ subL \in Seq(S)
      BY <1>14, <1>15
    <2>2. Len(subK) = Cardinality(K) /\ Len(subL) = Cardinality(L)
      BY <1>14, <1>15
    <2> HIDE DEF subK, subL
    <2>3. /\ subK \o subL \in Seq(S) /\ Len(subK \o subL) = Len(subK) + Len(subL)
          /\ \A k \in 1 .. Len(subK) + Len(subL) :
                (subK \o subL)[k] = IF k <= Len(subK) THEN subK[k] ELSE subL[k - Len(subK)]
      BY <2>1, ConcatProperties
    <2> QED BY <2>2, <2>3
  <1> HIDE DEF subW, subK, subL
  <1>22. ASSUME NEW k \in 1 .. Cardinality(K) + Cardinality(L) PROVE subW[k] = (subK \o subL)[k]
    <2>1. CASE k <= Cardinality(K)
      BY <1>7, <1>19, <1>21, <2>1
    <2>2. CASE ~(k <= Cardinality(K))
      <3>1. k - Cardinality(K) \in 1 .. Cardinality(L) /\ Cardinality(K) + (k - Cardinality(K)) = k
        BY <1>7, <2>2
      <3> QED BY <1>20, <1>21, <2>2, <3>1
    <2> QED BY <2>1, <2>2
  <1>23. Len(subW) = Len(subK \o subL)
    BY <1>10, <1>13, <1>21
  <1>24. subW = subK \o subL
    BY <1>10, <1>13, <1>21, <1>22, <1>23, SeqEqual
  <1> QED BY <1>24 DEF subW, subK, subL, st, n
=============================================================================
