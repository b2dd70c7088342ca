------------------------- MODULE SequenceParts_proofs -------------------------
(***************************************************************************)
(* Ranks and selections: what the daemon's lists keep when elements are    *)
(* taken out, and what a ranking that is cut off returns; the elements of  *)
(* a list that is worked through, or backwards; and what is proved by a    *)
(* least counterexample.                                                   *)
(***************************************************************************)
EXTENDS SequenceParts, SequencesExt, FiniteSetTheorems, SequenceTheorems,
        WellFoundedInduction, TLAPS

(* The elements of a finite set in a total order, each one given with      *)
(* those that are not after it ...                                         *)
Ranking(P, upTo) ==
  /\ IsFiniteSet(P) /\ upTo \in [P -> SUBSET P]
  /\ \A i \in P : i \in upTo[i]
  /\ \A i, j \in P : upTo[i] \subseteq upTo[j] \/ upTo[j] \subseteq upTo[i]
  /\ \A i, j \in P : upTo[i] = upTo[j] => i = j

(* ... and every rank one element's.                                       *)
Ranked(P, upTo) ==
  /\ Cardinality(P) \in Nat
  /\ \A i \in P : Cardinality(upTo[i]) \in 1..Cardinality(P)
  /\ \A i, j \in P : Cardinality(upTo[i]) = Cardinality(upTo[j]) => i = j
  /\ \A n \in 1..Cardinality(P) : \E i \in P : Cardinality(upTo[i]) = n

LEMMA Ranks == ASSUME NEW P, NEW upTo, Ranking(P, upTo) PROVE Ranked(P, upTo)
<1> USE DEF Ranking
<1> DEFINE N == Cardinality(P)
           rank == [i \in P |-> Cardinality(upTo[i])]
<1>1. N \in Nat
  BY FS_CardinalityType
<1>2. ASSUME NEW i \in P
      PROVE  IsFiniteSet(upTo[i]) /\ Cardinality(upTo[i]) \in 1..N
  <2>1. IsFiniteSet(upTo[i]) /\ Cardinality(upTo[i]) <= N
    BY FS_Subset
  <2>2. Cardinality(upTo[i]) \in Nat /\ (Cardinality(upTo[i]) = 0 <=> upTo[i] = {})
    BY <2>1, FS_CardinalityType, FS_EmptySet
  <2> QED
    BY <1>1, <2>1, <2>2
<1>3. ASSUME NEW i \in P, NEW j \in P, Cardinality(upTo[i]) = Cardinality(upTo[j])
      PROVE  i = j
  <2>1. CASE upTo[i] \subseteq upTo[j]
    BY <1>2, <1>3, <2>1, FS_Subset
  <2>2. CASE upTo[j] \subseteq upTo[i]
    BY <1>2, <1>3, <2>2, FS_Subset
  <2> QED
    BY <2>1, <2>2
<1>4. rank \in Injection(P, 1..N)
  BY <1>2, <1>3 DEF Injection, IsInjective
<1>5. IsFiniteSet(1..N) /\ Cardinality(1..N) = N
  BY <1>1, FS_Interval
<1>6. rank \in Surjection(P, 1..N)
  BY <1>4, <1>5, FS_Injection
<1> QED
  BY <1>1, <1>2, <1>3, <1>6 DEF Surjection, Ranked

(* A selection is a sequence of elements of the set, and of all of them    *)
(* that were there, none of them twice if none was there twice.            *)
LEMMA SelectionElements ==
  ASSUME NEW T, NEW s \in Seq(T), NEW S
  PROVE  /\ Selection(s, S) \in Seq(T) /\ Elements(Selection(s, S)) = Elements(s) \cap S
         /\ IsInjective(s) => IsInjective(Selection(s, S))
<1> DEFINE P == Places(s, S)
           upTo == [i \in P |-> UpTo(P, i)]
           N == Cardinality(P)
           place(n) == CHOOSE i \in P : Cardinality(UpTo(P, i)) = n
<1>1. IsFiniteSet(P) /\ P \subseteq 1..Len(s) /\ P \subseteq Nat
  BY FS_Interval, FS_Subset DEF Places
<1>2. /\ N \in Nat
      /\ \A i \in P : Cardinality(upTo[i]) \in 1..N
      /\ \A i, j \in P : Cardinality(upTo[i]) = Cardinality(upTo[j]) => i = j
      /\ \A n \in 1..N : \E i \in P : Cardinality(upTo[i]) = n
  <2>1. upTo \in [P -> SUBSET P] /\ \A i \in P : i \in upTo[i]
    BY <1>1 DEF UpTo
  <2>2. \A i, j \in P : upTo[i] \subseteq upTo[j] \/ upTo[j] \subseteq upTo[i]
    BY <1>1 DEF UpTo
  <2>3. \A i, j \in P : upTo[i] = upTo[j] => i = j
    BY <1>1 DEF UpTo
  <2> HIDE DEF upTo, P
  <2>4. Ranked(P, upTo)
    <3>1. Ranking(P, upTo)
      BY <1>1, <2>1, <2>2, <2>3 DEF Ranking
    <3> QED
      BY <3>1, Ranks
  <2> QED
    BY <2>4 DEF Ranked
<1>3. \A n \in 1..N : place(n) \in P
  BY <1>2
<1>4. \A i \in P : Cardinality(upTo[i]) \in 1..N /\ place(Cardinality(upTo[i])) = i
  BY <1>2
<1>5. \A n \in 1..N : Cardinality(upTo[place(n)]) = n
  BY <1>2
<1>6. Selection(s, S) = [n \in 1..N |-> s[place(n)]]
  BY DEF Selection
<1> HIDE DEF P, place, N, upTo
<1>7. Selection(s, S) \in Seq(T) /\ Len(Selection(s, S)) = N
  <2>3. \A i \in P : s[i] \in T
    BY <1>1
  <2>1. \A n \in 1..N : s[place(n)] \in T
    BY <1>3, <2>3
  <2>2. N \in Nat
    BY <1>2
  <2> QED
    BY <1>6, <2>1, <2>2
<1>8. Elements(Selection(s, S)) = {s[place(n)] : n \in 1..N}
  BY <1>6, <1>7 DEF Elements
<1>9. {s[place(n)] : n \in 1..N} = {s[i] : i \in P}
  BY <1>3, <1>4
<1>10. {s[i] : i \in P} = Elements(s) \cap S
  BY DEF P, Places, Elements
<1>11. ASSUME IsInjective(s) PROVE IsInjective(Selection(s, S))
  <2>1. \A i, j \in P : s[i] = s[j] => i = j
    BY <1>1, <1>11 DEF IsInjective
  <2>2. \A m, n \in 1..N : place(m) = place(n) => m = n
    BY <1>3, <1>5
  <2>3. DOMAIN Selection(s, S) = 1..N /\ \A n \in 1..N : Selection(s, S)[n] = s[place(n)]
    BY <1>6
  <2> QED
    BY <1>3, <2>1, <2>2, <2>3 DEF IsInjective
<1> QED
  BY <1>7, <1>8, <1>9, <1>10, <1>11

LEMMA ElementsAre ==
  ASSUME NEW T, NEW s \in Seq(T)
  PROVE  Elements(s) = ToSet(s) /\ Elements(s) \subseteq T
<1>1. DOMAIN s = 1..Len(s) /\ \A i \in 1..Len(s) : s[i] \in T
  OBVIOUS
<1> QED
  BY <1>1 DEF Elements, ToSet

(* A nonempty set of numbers has a least one. *)
LEMMA LeastNumber ==
  ASSUME NEW T, T \subseteq Nat, T # {}
  PROVE  \E x \in T : \A y \in T : x <= y
<1> DEFINE R == OpToRel(<, Nat)
<1>1. IsWellFoundedOn(R, Nat)
  BY NatLessThanWellFounded
<1>2. \A x, y \in Nat : <<x, y>> \in R <=> x < y
  BY DEF OpToRel
<1> HIDE DEF R
<1>3. PICK x \in T : \A y \in T : ~(<<y, x>> \in R)
  BY <1>1, WFMin
<1>4. \A y \in T : ~(y < x)
  BY <1>2, <1>3
<1>5. \A y \in T : y \in Nat /\ x \in Nat
  OBVIOUS
<1> QED
  BY <1>4, <1>5

(* A function applied again and again, as far as one likes. *)
Orbits(S, b, F, N) == {g \in [0..N -> S] : g[0] = b /\ \A i \in 1..N : g[i] = F[g[i - 1]]}

LEMMA Iterated ==
  ASSUME NEW S, NEW b \in S, NEW F \in [S -> S], NEW N \in Nat
  PROVE  Orbits(S, b, F, N) # {}
<1> DEFINE Has(n) == \E g \in [0..n -> S] : g[0] = b /\ \A i \in 1..n : g[i] = F[g[i - 1]]
           T == {n \in Nat : ~Has(n)}
<1>1. SUFFICES ASSUME T # {} PROVE FALSE
  BY DEF Orbits
<1>2. PICK n \in T : \A m \in T : n <= m
  <2>1. T \subseteq Nat
    OBVIOUS
  <2> HIDE DEF T
  <2> QED
    BY <1>1, <2>1, LeastNumber
<1>3. n \in Nat /\ ~Has(n)
  OBVIOUS
<1>4. n # 0
  <2>1. ASSUME n = 0 PROVE FALSE
    <3> DEFINE g == [i \in 0..0 |-> b]
    <3>1. g \in [0..0 -> S] /\ g[0] = b /\ \A i \in 1..0 : g[i] = F[g[i - 1]]
      OBVIOUS
    <3> QED
      BY <1>3, <2>1, <3>1
  <2> QED
    BY <2>1
<1>5. n - 1 \in Nat /\ Has(n - 1)
  <2>1. n - 1 \in Nat /\ ~(n <= n - 1)
    BY <1>3, <1>4
  <2> QED
    BY <1>2, <2>1
<1>6. PICK g \in [0..(n - 1) -> S] : g[0] = b /\ \A i \in 1..(n - 1) : g[i] = F[g[i - 1]]
  BY <1>5
<1> DEFINE h == [i \in 0..n |-> IF i = n THEN F[g[n - 1]] ELSE g[i]]
<1>7. h \in [0..n -> S]
  BY <1>3, <1>5
<1>8. h[0] = b
  BY <1>3, <1>4, <1>6
<1>9. ASSUME NEW i \in 1..n PROVE h[i] = F[h[i - 1]]
  BY <1>3, <1>5, <1>6
<1> HIDE DEF h
<1>10. Has(n)
  BY <1>7, <1>8, <1>9
<1> QED
  BY <1>3, <1>10

(* Every element of a finite set is somewhere in the sequence of it.       *)
LEMMA SequenceOfSet ==
  ASSUME NEW S, IsFiniteSet(S)
  PROVE  SetToSeq(S) \in Seq(S) /\ ToSet(SetToSeq(S)) = S
<1> DEFINE n == Cardinality(S)
<1>1. n \in Nat
  BY FS_CardinalityType
<1>2. \E f \in [1..n -> S] : IsInjective(f)
  <2>1. ExistsBijection(1..n, S)
    BY FS_CardinalityType
  <2> QED
    BY <2>1 DEF ExistsBijection, Bijection, Injection
<1> DEFINE f == SetToSeq(S)
<1>3. f \in [1..n -> S] /\ IsInjective(f)
  <2> HIDE DEF n
  <2> QED
    BY <1>2, Zenon DEF SetToSeq, n
<1> HIDE DEF f
<1> DEFINE T == ToSet(f)
<1>4. T \subseteq S /\ DOMAIN f = 1..n
  BY <1>3 DEF ToSet
<1>5. ExistsBijection(1..n, T)
  <2>1. f \in Bijection(1..n, T)
    BY <1>3, <1>4 DEF ToSet, Bijection, Injection, Surjection
  <2> QED
    BY <2>1 DEF ExistsBijection
<1>6. Cardinality(T) = n
  <2>1. IsFiniteSet(1..n) /\ Cardinality(1..n) = n
    BY <1>1, FS_Interval
  <2> QED
    BY <1>5, <2>1, FS_Bijection
<1>7. T = S
  BY <1>4, <1>6, FS_Subset
<1> QED
  BY <1>1, <1>3, <1>7 DEF f

LEMMA ElementsOfConcat ==
  ASSUME NEW S, NEW s \in Seq(S), NEW t \in Seq(S)
  PROVE  s \o t \in Seq(S) /\ ToSet(s \o t) = ToSet(s) \cup ToSet(t)
<1>1. s \o t \in Seq(S) /\ Len(s \o t) = Len(s) + Len(t)
  BY ConcatProperties
<1>2. ASSUME NEW x \in ToSet(s) \cup ToSet(t) PROVE x \in ToSet(s \o t)
  <2>1. CASE x \in ToSet(s)
    BY <2>1, <1>1 DEF ToSet
  <2>2. CASE x \in ToSet(t)
    <3>1. PICK i \in 1..Len(t) : x = t[i]
      BY <2>2 DEF ToSet
    <3>2. Len(s) + i \in 1..Len(s \o t) /\ (s \o t)[Len(s) + i] = t[i]
      BY <1>1
    <3> QED
      BY <3>1, <3>2, <1>1 DEF ToSet
  <2> QED
    BY <1>2, <2>1, <2>2
<1>3. ASSUME NEW x \in ToSet(s \o t) PROVE x \in ToSet(s) \cup ToSet(t)
  <2>1. PICK i \in 1..Len(s \o t) : x = (s \o t)[i]
    BY <1>3, <1>1 DEF ToSet
  <2>2. CASE i <= Len(s)
    BY <2>1, <2>2, <1>1 DEF ToSet
  <2>3. CASE i > Len(s)
    <3>1. i - Len(s) \in 1..Len(t) /\ (s \o t)[i] = t[i - Len(s)]
      BY <2>3, <1>1
    <3> QED
      BY <2>1, <3>1 DEF ToSet
  <2> QED
    BY <2>2, <2>3
<1> QED
  BY <1>1, <1>2, <1>3

LEMMA ElementsOfTail ==
  ASSUME NEW S, NEW s \in Seq(S), s # <<>>
  PROVE  /\ Head(s) \in S /\ Tail(s) \in Seq(S)
         /\ ToSet(s) = {Head(s)} \cup ToSet(Tail(s))
<1>1. /\ Head(s) \in S /\ Tail(s) \in Seq(S) /\ Len(s) > 0 /\ Head(s) = s[1]
      /\ Len(Tail(s)) = Len(s) - 1
      /\ \A i \in 1..Len(s) - 1 : Tail(s)[i] = s[i + 1]
  BY HeadTailProperties
<1>2. ASSUME NEW x \in ToSet(s) PROVE x \in {Head(s)} \cup ToSet(Tail(s))
  <2>1. PICK i \in 1..Len(s) : x = s[i]
    BY <1>2 DEF ToSet
  <2>2. CASE i = 1
    BY <1>1, <2>1, <2>2
  <2>3. CASE i # 1
    <3>1. i - 1 \in 1..Len(Tail(s)) /\ Tail(s)[i - 1] = s[i]
      BY <1>1, <2>3
    <3>2. DOMAIN Tail(s) = 1..Len(Tail(s))
      BY <1>1
    <3> QED
      BY <2>1, <3>1, <3>2 DEF ToSet
  <2> QED
    BY <2>2, <2>3
<1>3. ASSUME NEW x \in ToSet(Tail(s)) PROVE x \in ToSet(s)
  <2>1. PICK i \in 1..Len(Tail(s)) : x = Tail(s)[i]
    BY <1>1, <1>3 DEF ToSet
  <2>2. i + 1 \in 1..Len(s) /\ s[i + 1] = Tail(s)[i]
    BY <1>1
  <2> QED
    BY <2>1, <2>2 DEF ToSet
<1>4. Head(s) \in ToSet(s)
  BY <1>1 DEF ToSet
<1> QED
  BY <1>1, <1>2, <1>3, <1>4

LEMMA ElementsOfReverse ==
  ASSUME NEW S, NEW s \in Seq(S)
  PROVE  Reverse(s) \in Seq(S) /\ ToSet(Reverse(s)) = ToSet(s)
<1>1. Len(s) \in Nat /\ DOMAIN s = 1..Len(s) /\ \A i \in 1..Len(s) : s[i] \in S
  OBVIOUS
<1>2. \A i \in 1..Len(s) : (Len(s) - i) + 1 \in 1..Len(s)
  BY <1>1
<1>3. Reverse(s) \in Seq(S) /\ DOMAIN Reverse(s) = 1..Len(s)
  BY <1>1, <1>2, IsASeq DEF Reverse
<1>4. \A i \in 1..Len(s) : Reverse(s)[i] = s[(Len(s) - i) + 1]
  BY DEF Reverse
<1>5. \A i \in 1..Len(s) : s[i] = Reverse(s)[(Len(s) - i) + 1]
  BY <1>1, <1>2, <1>4
<1>6. ASSUME NEW x \in ToSet(s) PROVE x \in ToSet(Reverse(s))
  <2>1. PICK i \in 1..Len(s) : x = s[i]
    BY <1>1, <1>6 DEF ToSet
  <2>2. (Len(s) - i) + 1 \in DOMAIN Reverse(s)
    BY <1>2, <1>3
  <2>3. x = Reverse(s)[(Len(s) - i) + 1]
    BY <2>1, <1>5
  <2> HIDE DEF Reverse
  <2> QED
    BY <2>2, <2>3 DEF ToSet
<1>7. ASSUME NEW x \in ToSet(Reverse(s)) PROVE x \in ToSet(s)
  BY <1>7, <1>1, <1>2, <1>3, <1>4 DEF ToSet
<1> QED
  BY <1>3, <1>6, <1>7
=============================================================================
