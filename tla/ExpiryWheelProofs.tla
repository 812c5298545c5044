------------------------- MODULE ExpiryWheelProofs -------------------------
(***************************************************************************)
(* The expiry wheel for every set of entries, bucket size, budget and      *)
(* batch: its counter is exact, and it implements the set of entries the   *)
(* value cache takes it for.                                               *)
(***************************************************************************)
EXTENDS ExpiryWheel, TLAPS, FiniteSetTheorems, SequenceTheorems, FunctionTheorems,
        WellFoundedInduction

-----------------------------------------------------------------------------
(* Sublist: what a sublist of a sequence without duplicates holds.         *)

\* The elements of K up to n.
UpTo(K, n) == {j \in K : j <= n}

LEMMA UpToFinite ==
    ASSUME NEW top \in Nat, NEW K, \A j \in K : j \in Nat /\ j <= top, NEW n
    PROVE  /\ IsFiniteSet(UpTo(K, n)) /\ Cardinality(UpTo(K, n)) \in Nat
           /\ Cardinality(UpTo(K, n)) <= Cardinality(K)
           /\ IsFiniteSet(K) /\ Cardinality(K) \in Nat
<1>1. IsFiniteSet(0..top)
  BY FS_Interval
<1>2. IsFiniteSet(K)
  <2>1. K \subseteq 0..top
    OBVIOUS
  <2>2. QED
    BY <1>1, <2>1, FS_Subset
<1>3. UpTo(K, n) \subseteq K
  BY DEF UpTo
<1>4. QED
  BY <1>2, <1>3, FS_Subset, FS_CardinalityType

LEMMA NthExists ==
    ASSUME NEW top \in Nat, NEW K, \A j \in K : j \in Nat /\ j <= top, NEW m \in 1..Cardinality(K)
    PROVE  Nth(K, m) \in K /\ Cardinality(UpTo(K, Nth(K, m))) = m
<1> DEFINE Enough == {n \in Nat : m <= Cardinality(UpTo(K, n))}
<1>1. /\ Cardinality(K) \in Nat /\ m \in Nat /\ 1 <= m /\ m <= Cardinality(K)
      /\ IsFiniteSet(K) /\ \A j \in K : j \in Nat
  <2>1. Cardinality(K) \in Nat /\ IsFiniteSet(K)
    BY UpToFinite
  <2>2. QED
    BY <2>1
<1>2. Enough # {}
  <2>1. UpTo(K, top) = K
    BY DEF UpTo
  <2>2. Cardinality(UpTo(K, top)) = Cardinality(K)
    BY <2>1
  <2>3. top \in Enough
    BY <2>2, <1>1
  <2>4. QED
    BY <2>3
<1>3. PICK n \in Enough : \A j \in Enough : ~ (<<j, n>> \in OpToRel(<, Nat))
  BY <1>2, NatLessThanWellFounded, WFMin
<1>4. n \in Nat /\ \A j \in Enough : ~(j < n)
  BY <1>3 DEF OpToRel
<1> HIDE DEF Enough
<1> DEFINE Below == {j \in K : j < n}
<1>5. IsFiniteSet(Below) /\ Cardinality(Below) \in Nat
  BY <1>1, FS_Subset, FS_CardinalityType
<1>6. Cardinality(Below) < m
  <2>1. CASE n = 0
    <3>1. Below = {}
      <4>1. \A j \in K : ~(j < n)
        BY <2>1
      <4>2. QED
        BY <4>1
    <3>2. QED
      BY <3>1, <1>1, FS_EmptySet
  <2>2. CASE n # 0
    <3>1. n - 1 \in Nat /\ n - 1 \notin Enough
      BY <2>2, <1>4
    <3>2. UpTo(K, n - 1) = Below
      <4>1. \A j \in K : j \in Nat /\ (j <= n - 1 <=> j < n)
        BY <1>4
      <4>2. QED
        BY <4>1 DEF UpTo
    <3>3. ~(m <= Cardinality(UpTo(K, n - 1)))
      BY <3>1 DEF Enough
    <3>4. QED
      BY <3>2, <3>3, <1>1, <1>5
  <2>3. QED
    BY <2>1, <2>2
<1>7. m <= Cardinality(UpTo(K, n))
  BY <1>3 DEF Enough
<1>8. n \in K
  <2>1. SUFFICES ASSUME n \notin K PROVE FALSE
    OBVIOUS
  <2>2. UpTo(K, n) = Below
    <3>1. \A j \in K : j <= n <=> j < n
      BY <2>1, <1>4
    <3>2. QED
      BY <3>1 DEF UpTo
  <2>3. QED
    BY <2>2, <1>6, <1>7, <1>1, <1>5
<1>9. Cardinality(UpTo(K, n)) = m
  <2>1. UpTo(K, n) = Below \cup {n} /\ n \notin Below
    <3>1. \A j \in K : j <= n <=> (j < n \/ j = n)
      BY <1>4
    <3>2. QED
      BY <3>1, <1>4, <1>8 DEF UpTo
  <2>2. Cardinality(UpTo(K, n)) = Cardinality(Below) + 1
    BY <2>1, <1>5, FS_AddElement
  <2>3. QED
    BY <2>2, <1>5, <1>6, <1>7, <1>1
<1>10. QED
  BY <1>8, <1>9 DEF Nth, UpTo

-----------------------------------------------------------------------------
(* Sequences without duplicates.                                           *)

Elems(s) == {s[n] : n \in 1..Len(s)}

NoDup(s) == \A m, n \in 1..Len(s) : m # n => s[m] # s[n]

\* The positions of a sublist are different ones, and all of K.
LEMMA NthInjective ==
    ASSUME NEW top \in Nat, NEW K, \A j \in K : j \in Nat /\ j <= top
    PROVE  /\ IsFiniteSet(K) /\ Cardinality(K) \in Nat
           /\ \A m \in 1..Cardinality(K) : Nth(K, m) \in K
           /\ \A a, b \in 1..Cardinality(K) : a # b => Nth(K, a) # Nth(K, b)
           /\ \A n \in K : \E m \in 1..Cardinality(K) : Nth(K, m) = n
<1>1. IsFiniteSet(K) /\ Cardinality(K) \in Nat
  BY UpToFinite
<1>2. \A m \in 1..Cardinality(K) : Nth(K, m) \in K /\ Cardinality(UpTo(K, Nth(K, m))) = m
  BY NthExists
<1>3. \A a, b \in 1..Cardinality(K) : Nth(K, a) = Nth(K, b) => a = b
  <2> SUFFICES ASSUME NEW a \in 1..Cardinality(K), NEW b \in 1..Cardinality(K),
                      Nth(K, a) = Nth(K, b)
               PROVE  a = b
    OBVIOUS
  <2>1. Cardinality(UpTo(K, Nth(K, a))) = a /\ Cardinality(UpTo(K, Nth(K, b))) = b
    BY <1>2
  <2>2. QED
    BY <2>1
<1> DEFINE f == [m \in 1..Cardinality(K) |-> Nth(K, m)]
<1>4. f \in [1..Cardinality(K) -> K]
  BY <1>2
<1>5. \A a, b \in 1..Cardinality(K) : f[a] = f[b] => a = b
  BY <1>3
<1>6. \A m \in 1..Cardinality(K) : f[m] = Nth(K, m)
  OBVIOUS
<1> HIDE DEF f
<1>7. f \in Injection(1..Cardinality(K), K)
  BY <1>4, <1>5, Fun_IsInj
<1>8. Cardinality(1..Cardinality(K)) = Cardinality(K)
  BY <1>1, FS_Interval
<1>9. f \in Surjection(1..Cardinality(K), K)
  BY <1>1, <1>7, <1>8, FS_Injection
<1>10. \A n \in K : \E m \in 1..Cardinality(K) : f[m] = n
  BY <1>9 DEF Surjection
<1>11. QED
  BY <1>1, <1>2, <1>3, <1>6, <1>10

\* t holds the elements of s at the positions K, and nothing else.
HoldsAt(s, K, t) ==
    /\ \A m \in 1..Len(t) : \E n \in K : t[m] = s[n]
    /\ \A n \in K : \E m \in 1..Len(t) : t[m] = s[n]

LEMMA SublistFacts ==
    ASSUME NEW S, NEW s \in Seq(S), NoDup(s), NEW K, K \subseteq 1..Len(s)
    PROVE  /\ Sublist(s, K) \in Seq(S) /\ NoDup(Sublist(s, K))
           /\ HoldsAt(s, K, Sublist(s, K))
<1>1. Len(s) \in Nat /\ \A n \in 1..Len(s) : s[n] \in S
  BY LenProperties
<1>2. \A j \in K : j \in Nat /\ j <= Len(s)
  <2>1. \A j \in 1..Len(s) : j \in Nat /\ j <= Len(s)
    BY <1>1
  <2>2. QED
    BY <2>1
<1>3. /\ Cardinality(K) \in Nat
      /\ \A m \in 1..Cardinality(K) : Nth(K, m) \in K
      /\ \A a, b \in 1..Cardinality(K) : a # b => Nth(K, a) # Nth(K, b)
      /\ \A n \in K : \E m \in 1..Cardinality(K) : Nth(K, m) = n
  BY <1>1, <1>2, NthInjective
<1>4. \A m \in 1..Cardinality(K) : s[Nth(K, m)] \in S
  BY <1>1, <1>3
<1>5. Sublist(s, K) \in [1..Cardinality(K) -> S]
  BY <1>4 DEF Sublist
<1>6. Sublist(s, K) \in Seq(S) /\ Len(Sublist(s, K)) = Cardinality(K)
  BY <1>3, <1>5
<1>7. \A m \in 1..Cardinality(K) : Sublist(s, K)[m] = s[Nth(K, m)]
  BY DEF Sublist
<1> HIDE DEF Sublist
<1>8. \A a, b \in 1..Cardinality(K) : a # b => Sublist(s, K)[a] # Sublist(s, K)[b]
  <2> SUFFICES ASSUME NEW a \in 1..Cardinality(K), NEW b \in 1..Cardinality(K), a # b
               PROVE  Sublist(s, K)[a] # Sublist(s, K)[b]
    OBVIOUS
  <2>1. Nth(K, a) \in 1..Len(s) /\ Nth(K, b) \in 1..Len(s) /\ Nth(K, a) # Nth(K, b)
    BY <1>3
  <2>2. s[Nth(K, a)] # s[Nth(K, b)]
    BY <2>1 DEF NoDup
  <2>3. QED
    BY <1>7, <2>2
<1>9. \A m \in 1..Cardinality(K) : \E n \in K : Sublist(s, K)[m] = s[n]
  BY <1>3, <1>7
<1>10. \A n \in K : \E m \in 1..Cardinality(K) : Sublist(s, K)[m] = s[n]
  BY <1>3, <1>7
<1>11. QED
  BY <1>6, <1>8, <1>9, <1>10 DEF NoDup, HoldsAt

\* As long as a set.
LEMMA NoDupLength ==
    ASSUME NEW S, NEW s \in Seq(S), NoDup(s)
    PROVE  IsFiniteSet(Elems(s)) /\ Len(s) = Cardinality(Elems(s))
<1>1. Len(s) \in Nat /\ s \in [1..Len(s) -> S]
  BY LenProperties
<1>2. s \in [1..Len(s) -> Elems(s)]
  BY <1>1 DEF Elems
<1>3. \A m, n \in 1..Len(s) : s[m] = s[n] => m = n
  BY DEF NoDup
<1>4. \A x \in Elems(s) : \E n \in 1..Len(s) : s[n] = x
  BY DEF Elems
<1>5. s \in Bijection(1..Len(s), Elems(s))
  BY <1>2, <1>3, <1>4, Fun_IsBij
<1>6. IsFiniteSet(1..Len(s)) /\ Cardinality(1..Len(s)) = Len(s)
  BY <1>1, FS_Interval
<1>7. ExistsBijection(1..Len(s), Elems(s))
  BY <1>5 DEF ExistsBijection
<1>8. QED
  BY <1>6, <1>7, FS_Bijection

\* One more element.
LEMMA NoDupAppend ==
    ASSUME NEW S, NEW s \in Seq(S), NoDup(s), NEW x \in S, x \notin Elems(s)
    PROVE  /\ Append(s, x) \in Seq(S) /\ NoDup(Append(s, x))
           /\ Elems(Append(s, x)) = Elems(s) \cup {x}
<1> DEFINE t == Append(s, x)
           n == Len(s)
<1>1. /\ n \in Nat /\ t \in Seq(S) /\ Len(t) = n + 1 /\ t[n + 1] = x
      /\ \A i \in 1..n : t[i] = s[i]
  BY AppendProperties, LenProperties
<1>2. \A i \in 1..n : s[i] # x
  BY DEF Elems
<1>3. \A a, b \in 1..n : a # b => s[a] # s[b]
  BY DEF NoDup
<1>4. Elems(s) = {s[i] : i \in 1..n}
  BY DEF Elems
<1> HIDE DEF t, n
<1>5. \A i \in 1..Len(t) : i \in 1..n \/ i = n + 1
  BY <1>1
<1>6. \A a, b \in 1..Len(t) : a # b => t[a] # t[b]
  BY <1>1, <1>2, <1>3, <1>5
<1>7. \A y : y \in Elems(t) <=> y \in Elems(s) \cup {x}
  <2>1. \A y \in Elems(t) : y \in Elems(s) \cup {x}
    BY <1>1, <1>4, <1>5 DEF Elems
  <2>2. \A i \in 1..n : i \in 1..Len(t)
    BY <1>1
  <2>3. n + 1 \in 1..Len(t)
    BY <1>1
  <2>4. \A y \in Elems(s) \cup {x} : y \in Elems(t)
    BY <1>1, <1>4, <2>2, <2>3 DEF Elems
  <2>5. QED
    BY <2>1, <2>4
<1>8. QED
  BY <1>1, <1>6, <1>7 DEF t, NoDup

\* kept holds what s holds but for the positions of its front that are not in K.
KeptOf(s, b, K, kept) ==
    /\ NoDup(kept)
    /\ Elems(kept) = Elems(s) \ {s[n] : n \in (1..b) \ K}

SameFront(s, b, front) == \A n \in 1..b : front[n] = s[n]

\* The front of a sequence is cut off, and some of it is put back at the end.
LEMMA CutFacts ==
    ASSUME NEW S, NEW s \in Seq(S), NoDup(s), NEW b \in 0..Len(s),
           NEW K, K \subseteq 1..b
    PROVE  /\ SameFront(s, b, SubSeq(s, 1, b))
           /\ SubSeq(s, b + 1, Len(s)) \o Sublist(SubSeq(s, 1, b), K) \in Seq(S)
           /\ KeptOf(s, b, K, SubSeq(s, b + 1, Len(s)) \o Sublist(SubSeq(s, 1, b), K))
<1> DEFINE front == SubSeq(s, 1, b)
           rest  == SubSeq(s, b + 1, Len(s))
           back  == Sublist(front, K)
           kept  == rest \o back
           l     == Len(s)
<1>1. l \in Nat /\ b \in Nat /\ b <= l /\ \A n \in 1..l : s[n] \in S
  BY LenProperties
<1>2. /\ front \in Seq(S) /\ Len(front) = b
      /\ \A n \in 1..b : front[n] = s[n]
  <2>1. \A n \in 1..b : s[n] \in S
    BY <1>1
  <2>2. /\ front \in Seq(S) /\ Len(front) = IF 1 <= b THEN b - 1 + 1 ELSE 0
        /\ \A n \in 1..(b - 1 + 1) : front[n] = s[1 + n - 1]
    BY <1>1, <2>1, SubSeqProperties
  <2>3. \A n \in 1..b : n \in 1..(b - 1 + 1) /\ 1 + n - 1 = n
    BY <1>1
  <2>4. QED
    BY <1>1, <2>2, <2>3
<1>3. /\ rest \in Seq(S) /\ Len(rest) = l - b
      /\ \A n \in 1..(l - b) : rest[n] = s[b + n]
  <2>1. \A n \in (b + 1)..l : s[n] \in S
    BY <1>1
  <2>2. /\ rest \in Seq(S) /\ Len(rest) = IF b + 1 <= l THEN l - (b + 1) + 1 ELSE 0
        /\ \A n \in 1..(l - (b + 1) + 1) : rest[n] = s[b + 1 + n - 1]
    BY <1>1, <2>1, SubSeqProperties
  <2>3. \A n \in 1..(l - b) : n \in 1..(l - (b + 1) + 1) /\ b + 1 + n - 1 = b + n
    BY <1>1
  <2>4. QED
    BY <1>1, <2>2, <2>3
<1>4. NoDup(front)
  <2>1. \A n \in 1..b : n \in 1..l
    BY <1>1
  <2>2. \A m, n \in 1..b : m # n => s[m] # s[n]
    BY <2>1 DEF NoDup
  <2>3. \A m, n \in 1..b : m # n => front[m] # front[n]
    BY <1>2, <2>2
  <2>4. QED
    BY <1>2, <2>3 DEF NoDup
<1>5. K \subseteq 1..Len(front)
  BY <1>2
<1> DEFINE c == Len(back)
<1> HIDE DEF front, rest
<1>6. /\ back \in Seq(S) /\ NoDup(back)
      /\ \A m \in 1..c : \E n \in K : back[m] = front[n]
      /\ \A n \in K : \E m \in 1..c : back[m] = front[n]
  <2>1. front \in Seq(S)
    BY <1>2
  <2>2. /\ Sublist(front, K) \in Seq(S) /\ NoDup(Sublist(front, K))
        /\ HoldsAt(front, K, Sublist(front, K))
    BY <2>1, <1>4, <1>5, SublistFacts
  <2>3. QED
    BY <2>2 DEF HoldsAt
<1>7. c \in Nat
  BY <1>6, LenProperties
<1> HIDE DEF back
<1>8. /\ kept \in Seq(S) /\ Len(kept) = (l - b) + c
      /\ \A i \in 1..((l - b) + c) : kept[i] = IF i <= l - b THEN rest[i] ELSE back[i - (l - b)]
  <2>1. rest \in Seq(S) /\ back \in Seq(S)
    BY <1>3, <1>6
  <2>2. /\ kept \in Seq(S) /\ Len(kept) = Len(rest) + Len(back)
        /\ \A i \in 1..Len(rest) + Len(back) :
             kept[i] = IF i <= Len(rest) THEN rest[i] ELSE back[i - Len(rest)]
    BY ONLY <2>1, ConcatProperties
  <2>3. Len(rest) = l - b /\ Len(back) = c
    BY <1>3
  <2> HIDE DEF kept, l, c
  <2>4. QED
    BY <2>2, <2>3
<1> HIDE DEF kept, l, c
\* Its elements: the rest of s, and the positions K of its front.
<1>9. \A i \in 1..Len(kept) :
        \/ i \in 1..(l - b) /\ kept[i] = s[b + i]
        \/ i - (l - b) \in 1..c /\ kept[i] = back[i - (l - b)]
  <2> SUFFICES ASSUME NEW i \in 1..Len(kept)
               PROVE  \/ i \in 1..(l - b) /\ kept[i] = s[b + i]
                      \/ i - (l - b) \in 1..c /\ kept[i] = back[i - (l - b)]
    OBVIOUS
  <2>1. i \in 1..((l - b) + c)
    BY <1>8
  <2>2. CASE i <= l - b
    <3>1. i \in 1..(l - b)
      BY <1>1, <1>7, <2>1, <2>2
    <3>2. QED
      BY <1>3, <1>8, <2>1, <2>2, <3>1
  <2>3. CASE ~(i <= l - b)
    <3>1. i - (l - b) \in 1..c
      BY <1>1, <1>7, <2>1, <2>3
    <3>2. QED
      BY <1>8, <2>1, <2>3, <3>1
  <2>4. QED
    BY <2>2, <2>3
<1>10. \A n \in K : n \in 1..l /\ n <= b
  BY <1>1
<1>11. \A m \in 1..c : \E n \in K : back[m] = s[n]
  BY <1>2, <1>6 DEF c
<1>12. \A m, n \in 1..l : s[m] = s[n] => m = n
  BY DEF NoDup, l
<1>13. \A i, j \in 1..Len(kept) : kept[i] = kept[j] => i = j
  <2> SUFFICES ASSUME NEW i \in 1..Len(kept), NEW j \in 1..Len(kept), kept[i] = kept[j]
               PROVE  i = j
    OBVIOUS
  <2>1. i \in Nat /\ j \in Nat
    BY <1>1, <1>7, <1>8
  <2>2. \A x \in 1..(l - b), m \in 1..c : s[b + x] # back[m]
    <3> SUFFICES ASSUME NEW x \in 1..(l - b), NEW m \in 1..c, s[b + x] = back[m]
                 PROVE  FALSE
      OBVIOUS
    <3>1. PICK n \in K : back[m] = s[n]
      BY <1>11
    <3>2. b + x \in 1..l /\ n \in 1..l /\ b + x # n
      BY <1>1, <1>10
    <3>3. QED
      BY <1>12, <3>1, <3>2
  <2>3. CASE i \in 1..(l - b) /\ j \in 1..(l - b) /\ kept[i] = s[b + i] /\ kept[j] = s[b + j]
    <3>1. b + i \in 1..l /\ b + j \in 1..l
      BY <1>1, <2>3
    <3>2. b + i = b + j
      BY <1>12, <2>3, <3>1
    <3>3. QED
      BY <1>1, <2>1, <3>2
  <2>4. CASE /\ i - (l - b) \in 1..c /\ kept[i] = back[i - (l - b)]
             /\ j - (l - b) \in 1..c /\ kept[j] = back[j - (l - b)]
    <3>1. \A m, n \in 1..c : back[m] = back[n] => m = n
      BY <1>6 DEF NoDup, c
    <3>2. i - (l - b) = j - (l - b)
      BY <2>4, <3>1
    <3>3. QED
      BY <1>1, <2>1, <3>2
  <2>5. QED
    BY <1>9, <2>2, <2>3, <2>4
<1>14. NoDup(kept)
  BY <1>13 DEF NoDup
<1> DEFINE Gone == {s[n] : n \in (1..b) \ K}
<1>15. \A y \in Elems(kept) : y \in Elems(s) \ Gone
  <2> SUFFICES ASSUME NEW i \in 1..Len(kept) PROVE kept[i] \in Elems(s) \ Gone
    BY DEF Elems
  <2>1. \E n \in 1..l : kept[i] = s[n] /\ n \notin (1..b) \ K
    <3>1. CASE i \in 1..(l - b) /\ kept[i] = s[b + i]
      <4>1. b + i \in 1..l /\ b + i \notin 1..b
        BY <1>1, <3>1
      <4>2. QED
        BY <3>1, <4>1
    <3>2. CASE i - (l - b) \in 1..c /\ kept[i] = back[i - (l - b)]
      BY <1>10, <1>11, <3>2
    <3>3. QED
      BY <1>9, <3>1, <3>2
  <2>2. PICK n \in 1..l : kept[i] = s[n] /\ n \notin (1..b) \ K
    BY <2>1
  <2>3. \A m \in (1..b) \ K : m \in 1..l
    BY <1>1
  <2>4. \A m \in (1..b) \ K : s[m] # s[n]
    BY <1>12, <2>2, <2>3
  <2>5. QED
    BY <2>2, <2>4 DEF Elems, l
<1>16. \A y \in Elems(s) \ Gone : y \in Elems(kept)
  <2> SUFFICES ASSUME NEW n \in 1..l, s[n] \notin Gone PROVE s[n] \in Elems(kept)
    BY DEF Elems, l
  <2>1. \E i \in 1..((l - b) + c) : kept[i] = s[n]
    <3>1. CASE n <= b
      <4>1. n \in K
        BY <1>1, <3>1
      <4>2. PICK m \in 1..c : back[m] = front[n]
        BY <1>6, <4>1 DEF c
      <4>3. front[n] = s[n]
        BY <1>2, <4>1
      <4>4. /\ (l - b) + m \in 1..((l - b) + c) /\ ~((l - b) + m <= l - b)
            /\ ((l - b) + m) - (l - b) = m
        BY <1>1, <1>7
      <4>5. kept[(l - b) + m] = back[m]
        BY <1>8, <4>4
      <4>6. QED
        BY <4>2, <4>3, <4>4, <4>5
    <3>2. CASE ~(n <= b)
      <4>1. n - b \in 1..((l - b) + c) /\ n - b <= l - b /\ n - b \in 1..(l - b) /\ b + (n - b) = n
        BY <1>1, <1>7, <3>2
      <4>2. kept[n - b] = s[n]
        BY <1>3, <1>8, <4>1
      <4>3. QED
        BY <4>1, <4>2
    <3>3. QED
      BY <3>1, <3>2
  <2>2. PICK i \in 1..Len(kept) : kept[i] = s[n]
    BY <1>8, <2>1
  <2>3. QED
    BY <2>2 DEF Elems
<1>17. Elems(kept) = Elems(s) \ Gone
  BY <1>15, <1>16
<1>18. QED
  <2>1. SameFront(s, b, front) /\ kept \in Seq(S) /\ KeptOf(s, b, K, kept)
    BY <1>2, <1>8, <1>14, <1>17 DEF SameFront, KeptOf
  <2>2. QED
    BY <2>1 DEF kept, back, front, rest, l

-----------------------------------------------------------------------------
(* The inductive invariant.                                                *)

RoundRecord == [pc : {"idle", "scan", "last"}, at : Nat, processed : 0 .. MaxEntriesPerRun,
                active : BOOLEAN, key : Nat, remaining : Nat]

\* The instant a round began is not in the future.
Shape ==
    /\ now \in Nat /\ registered \subseteq Entry /\ candidates \subseteq registered
    /\ buckets \in [Keys -> Seq(Entry)]
    /\ round \in RoundRecord /\ round.at <= now

\* An entry is in the bucket of its minute, once, and nowhere else.
AtHome ==
    \A k \in Keys :
        /\ NoDup(buckets[k])
        /\ \A x \in Elems(buckets[k]) :
             x \in registered /\ x \notin candidates /\ expiryBucketKey(x.expireAt) = k

Counted == pendingEntries = Cardinality(InWheel)

IInv == Shape /\ AtHome /\ Counted

LEMMA KeyFacts ==
    /\ \A x \in Entry : expiryBucketKey(x.expireAt) \in Keys
    /\ \A k \in Keys : k \in Nat
<1>1. \A at \in Nat : at \div BucketSize \in Nat
  BY WheelAssumption
<1>2. QED
  BY <1>1, WheelAssumption DEF Keys, expiryBucketKey

\* Who is in the wheel.
LEMMA InWheelElems ==
    /\ \A k : InBucket(k) = Elems(buckets[k])
    /\ \A x : x \in InWheel <=> \E k \in Keys : x \in Elems(buckets[k])
    /\ \A k : InBucket(k)' = Elems(buckets'[k])
    /\ \A x : x \in InWheel' <=> \E k \in Keys : x \in Elems(buckets'[k])
BY DEF InBucket, InWheel, Elems

LEMMA WheelFinite ==
    ASSUME Shape, AtHome
    PROVE  /\ InWheel \subseteq registered /\ InWheel \cap candidates = {}
           /\ IsFiniteSet(InWheel) /\ Cardinality(InWheel) \in Nat
<1>1. \A x \in InWheel : x \in registered /\ x \notin candidates
  BY InWheelElems DEF AtHome
<1>2. InWheel \subseteq Entry
  BY <1>1 DEF Shape
<1>3. IsFiniteSet(InWheel)
  BY <1>2, WheelAssumption, FS_Subset
<1>4. QED
  BY <1>1, <1>3, FS_CardinalityType

-----------------------------------------------------------------------------
(* One turn of ExpireDue's loop.                                           *)

\* The batch is within the bucket, the rest of the bucket that this round has to
\* look at, and the budget.
LEMMA BatchFits ==
    ASSUME Shape, NEW k \in Keys
    PROVE  /\ BatchSize(k) \in 0..Len(buckets[k])
           /\ Remaining(k) - BatchSize(k) \in Nat
           /\ round.processed + BatchSize(k) \in 0..MaxEntriesPerRun
<1>1. buckets[k] \in Seq(Entry)
  BY DEF Shape
<1>2. Len(buckets[k]) \in Nat
  BY <1>1, LenProperties
<1>3. Remaining(k) \in Nat
  BY <1>2 DEF Remaining, Shape, RoundRecord
<1>4. /\ MaxEntriesPerRun - round.processed \in Nat /\ round.processed \in Nat
      /\ MaxEntriesPerRun \in Nat /\ DeleteBatchSize \in Nat
  BY WheelAssumption DEF Shape, RoundRecord
<1>5. \A x, most \in Nat : AtMost(x, most) \in Nat /\ AtMost(x, most) <= x /\ AtMost(x, most) <= most
  BY DEF AtMost
<1> DEFINE a == AtMost(Remaining(k), MaxEntriesPerRun - round.processed)
           b == AtMost(a, DeleteBatchSize)
<1>6. a \in Nat /\ a <= Remaining(k) /\ a <= MaxEntriesPerRun - round.processed
  BY <1>3, <1>4, <1>5
<1> HIDE DEF a
<1>7. b \in Nat /\ b <= a
  BY <1>4, <1>5, <1>6
<1> HIDE DEF b
<1>8. BatchSize(k) = AtMost(b, Len(buckets[k]))
  BY DEF BatchSize, a, b
<1>9. BatchSize(k) \in Nat /\ BatchSize(k) <= b /\ BatchSize(k) <= Len(buckets[k])
  BY <1>2, <1>5, <1>7, <1>8
<1>10. QED
  BY <1>2, <1>3, <1>4, <1>6, <1>7, <1>9

\* The bucket keeps exactly what is not due yet.
LEMMA ScanKeeps ==
    ASSUME Shape, AtHome, NEW k \in Keys
    PROVE  /\ Kept(k) \in Seq(Entry) /\ NoDup(Kept(k))
           /\ Elems(Kept(k)) = Elems(buckets[k]) \ Candidates(k)
           /\ Candidates(k) \subseteq Elems(buckets[k])
           /\ \A x \in Candidates(k) : x.expireAt <= now
<1> DEFINE s == buckets[k]
           b == BatchSize(k)
           front == SubSeq(s, 1, b)
           K == {n \in 1..b : Later(front[n])}
           kept == SubSeq(s, b + 1, Len(s)) \o Sublist(front, K)
<1>1. s \in Seq(Entry) /\ NoDup(s) /\ b \in 0..Len(s)
  BY BatchFits DEF Shape, AtHome
<1>2. Kept(k) = kept /\ Front(k) = front
  BY DEF Kept, Rest, PutBack, Front
<1>3. K \subseteq 1..b /\ \A n \in 1..b : n \in K <=> Later(front[n])
  OBVIOUS
<1>4. Len(s) \in Nat
  BY <1>1, LenProperties
<1>5. Candidates(k) = {x \in {front[n] : n \in 1..b} : ~Later(x)}
  BY <1>2 DEF Candidates
<1> HIDE DEF s, b, K
<1>6. /\ \A n \in 1..b : front[n] = s[n]
      /\ kept \in Seq(Entry) /\ NoDup(kept)
      /\ Elems(kept) = Elems(s) \ {s[n] : n \in (1..b) \ K}
  <2>1. SameFront(s, b, front) /\ kept \in Seq(Entry) /\ KeptOf(s, b, K, kept)
    BY <1>1, <1>3, CutFacts
  <2>2. QED
    BY <2>1 DEF SameFront, KeptOf
<1> HIDE DEF front, kept
<1>7. Candidates(k) = {s[n] : n \in (1..b) \ K}
  <2>1. \A x \in Candidates(k) : \E n \in (1..b) \ K : x = s[n]
    BY <1>3, <1>5, <1>6
  <2>2. \A n \in (1..b) \ K : s[n] \in Candidates(k)
    BY <1>3, <1>5, <1>6
  <2>3. QED
    BY <2>1, <2>2
<1>8. Candidates(k) \subseteq Elems(s)
  <2>1. \A n \in 1..b : n \in 1..Len(s)
    BY <1>1, <1>4
  <2>2. QED
    BY <1>7, <2>1 DEF Elems
<1>9. \A x \in Candidates(k) : x.expireAt <= now
  <2> SUFFICES ASSUME NEW x \in Candidates(k) PROVE x.expireAt <= now
    OBVIOUS
  <2>1. ~(x.expireAt > round.at)
    BY <1>5 DEF Later
  <2>2. x \in Entry
    <3>1. \A n \in 1..Len(s) : s[n] \in Entry
      BY <1>1, LenProperties
    <3>2. QED
      BY <1>8, <3>1 DEF Elems
  <2>3. x.expireAt \in Nat /\ round.at \in Nat /\ round.at <= now /\ now \in Nat
    BY <2>2, WheelAssumption DEF Shape, RoundRecord
  <2>4. QED
    BY <2>1, <2>3
<1>10. QED
  BY <1>2, <1>6, <1>7, <1>8, <1>9 DEF s

\* What a turn of the loop does to the set of entries in the wheel.
LEMMA ScanTakes ==
    ASSUME Shape, AtHome, NEW k \in Keys, ScanBatch(k)
    PROVE  /\ candidates = {} /\ candidates' = Candidates(k)
           /\ Candidates(k) \subseteq InWheel
           /\ InWheel' = InWheel \ Candidates(k)
           /\ buckets' \in [Keys -> Seq(Entry)] /\ AtHome'
<1>1. /\ candidates = {} /\ candidates' = Candidates(k) /\ registered' = registered
      /\ buckets' = [buckets EXCEPT ![k] = Kept(k)] /\ buckets \in [Keys -> Seq(Entry)]
  BY DEF ScanBatch, Shape
<1>2. /\ Kept(k) \in Seq(Entry) /\ NoDup(Kept(k))
      /\ Elems(Kept(k)) = Elems(buckets[k]) \ Candidates(k)
      /\ Candidates(k) \subseteq Elems(buckets[k])
  BY ScanKeeps
<1>3. /\ buckets' \in [Keys -> Seq(Entry)] /\ buckets'[k] = Kept(k)
      /\ \A j \in Keys : j # k => buckets'[j] = buckets[j]
  BY <1>1, <1>2
<1>4. \A j \in Keys : j # k => \A x \in Elems(buckets[j]) : x \notin Candidates(k)
  <2> SUFFICES ASSUME NEW j \in Keys, NEW x \in Elems(buckets[j]), j # k, x \in Candidates(k)
               PROVE  FALSE
    OBVIOUS
  <2>1. expiryBucketKey(x.expireAt) = j /\ expiryBucketKey(x.expireAt) = k
    BY <1>2 DEF AtHome
  <2>2. QED
    BY <2>1
<1>5. InWheel' = InWheel \ Candidates(k) /\ Candidates(k) \subseteq InWheel
  <2>1. \A x \in InWheel' : x \in InWheel /\ x \notin Candidates(k)
    BY <1>2, <1>3, <1>4, InWheelElems
  <2>2. \A x \in InWheel : x \notin Candidates(k) => x \in InWheel'
    BY <1>2, <1>3, InWheelElems
  <2>3. Candidates(k) \subseteq InWheel
    BY <1>2, InWheelElems
  <2>4. QED
    BY <2>1, <2>2, <2>3
<1>6. AtHome'
  <2> SUFFICES ASSUME NEW j \in Keys
               PROVE  /\ NoDup(buckets'[j])
                      /\ \A x \in Elems(buckets'[j]) :
                           /\ x \in registered /\ x \notin Candidates(k)
                           /\ expiryBucketKey(x.expireAt) = j
    BY <1>1 DEF AtHome
  <2>1. CASE j = k
    BY <1>2, <1>3, <2>1 DEF AtHome
  <2>2. CASE j # k
    BY <1>3, <1>4, <2>2 DEF AtHome
  <2>3. QED
    BY <2>1, <2>2
<1>7. QED
  BY <1>1, <1>3, <1>5, <1>6

\* RegisterExpiry: one more.
LEMMA RegisterAdds ==
    ASSUME Shape, AtHome, NEW x \in Entry, RegisterExpiry(x)
    PROVE  /\ x \notin InWheel /\ InWheel' = InWheel \cup {x}
           /\ buckets' \in [Keys -> Seq(Entry)] /\ AtHome'
<1> DEFINE k == expiryBucketKey(x.expireAt)
<1>1. k \in Keys /\ k = expiryBucketKey(x.expireAt)
  BY KeyFacts
<1>2. /\ x \notin registered /\ registered' = registered \cup {x}
      /\ buckets' = [buckets EXCEPT ![k] = Append(buckets[k], x)] /\ candidates' = candidates
  BY DEF RegisterExpiry
<1>3. buckets \in [Keys -> Seq(Entry)]
  BY DEF Shape
<1> HIDE DEF k
<1>4. \A j \in Keys : x \notin Elems(buckets[j])
  BY <1>2 DEF AtHome
<1>5. /\ Append(buckets[k], x) \in Seq(Entry) /\ NoDup(Append(buckets[k], x))
      /\ Elems(Append(buckets[k], x)) = Elems(buckets[k]) \cup {x}
  <2>1. buckets[k] \in Seq(Entry) /\ NoDup(buckets[k]) /\ x \notin Elems(buckets[k])
    BY <1>1, <1>3, <1>4 DEF AtHome
  <2>2. QED
    BY <2>1, NoDupAppend
<1>6. /\ buckets' \in [Keys -> Seq(Entry)] /\ buckets'[k] = Append(buckets[k], x)
      /\ \A j \in Keys : j # k => buckets'[j] = buckets[j]
  BY <1>1, <1>2, <1>3, <1>5
<1>7. \A y : y \in InWheel' <=> y \in InWheel \/ y = x
  BY <1>1, <1>5, <1>6, InWheelElems
<1>8. AtHome'
  <2> SUFFICES ASSUME NEW j \in Keys
               PROVE  /\ NoDup(buckets'[j])
                      /\ \A y \in Elems(buckets'[j]) :
                           /\ y \in registered' /\ y \notin candidates
                           /\ expiryBucketKey(y.expireAt) = j
    BY <1>2 DEF AtHome
  <2>1. x \notin candidates
    BY <1>2 DEF Shape
  <2>2. CASE j = k
    BY <1>1, <1>2, <1>5, <1>6, <2>1, <2>2 DEF AtHome
  <2>3. CASE j # k
    BY <1>2, <1>6, <2>3 DEF AtHome
  <2>4. QED
    BY <2>2, <2>3
<1>9. QED
  BY <1>4, <1>6, <1>7, <1>8, InWheelElems

-----------------------------------------------------------------------------
(* Every step.                                                             *)

LEMMA InitIInv ==
    ASSUME Init
    PROVE  IInv
<1>1. \A k \in Keys : buckets[k] = <<>>
  BY DEF Init
<1>2. \A k \in Keys : Elems(buckets[k]) = {} /\ NoDup(buckets[k])
  BY <1>1 DEF Elems, NoDup
<1>3. InWheel = {}
  BY <1>2, InWheelElems
<1>4. AtHome
  BY <1>2 DEF AtHome
<1>5. Counted
  BY <1>3, FS_EmptySet DEF Counted, Init
<1>6. Shape
  <2>1. round \in RoundRecord
    BY WheelAssumption DEF Init, Idle, RoundRecord
  <2>2. buckets \in [Keys -> Seq(Entry)]
    BY DEF Init
  <2>3. now = 0 /\ registered = {} /\ candidates = {} /\ round.at = 0
    BY DEF Init, Idle
  <2>4. QED
    BY <2>1, <2>2, <2>3 DEF Shape
<1>7. QED
  BY <1>4, <1>5, <1>6 DEF IInv

LEMMA ScanRound ==
    ASSUME Shape, NEW k \in Keys, ScanBatch(k)
    PROVE  round' \in RoundRecord /\ round'.at = round.at
<1> DEFINE pc == IF RoundGoesOn(k) THEN "scan" ELSE "last"
           processed == round.processed + BatchSize(k)
           active == Kept(k) # <<>>
           remaining == Remaining(k) - BatchSize(k)
<1>1. round' = [round EXCEPT !.pc = pc, !.processed = processed, !.active = active,
                             !.key = k, !.remaining = remaining]
  BY DEF ScanBatch
<1>2. /\ pc \in {"scan", "last"} /\ processed \in 0..MaxEntriesPerRun
      /\ remaining \in Nat /\ k \in Nat
  BY BatchFits, KeyFacts
<1>3. active \in BOOLEAN
  OBVIOUS
<1>4. round \in RoundRecord
  BY DEF Shape
<1> HIDE DEF pc, processed, active, remaining
<1>5. QED
  BY <1>1, <1>2, <1>3, <1>4 DEF RoundRecord

LEMMA IInvStep ==
    ASSUME IInv, [Next]_vars
    PROVE  IInv'
<1> USE DEF IInv
<1>1. IsFiniteSet(InWheel) /\ Cardinality(InWheel) \in Nat
  BY WheelFinite
<1>2. ASSUME UNCHANGED buckets PROVE InWheel' = InWheel
  BY <1>2 DEF InWheel, InBucket
<1>3. CASE UNCHANGED vars
  <2>1. InWheel' = InWheel
    BY <1>2, <1>3 DEF vars
  <2>2. QED
    BY <1>3, <2>1 DEF vars, Shape, AtHome, Counted
<1>4. CASE Tick
  <2>1. UNCHANGED <<registered, buckets, pendingEntries, round, candidates>> /\ now' = now + 1
    BY <1>4 DEF Tick
  <2>2. Shape'
    <3>1. round.at \in Nat /\ now \in Nat /\ round.at <= now
      BY DEF Shape, RoundRecord
    <3>2. round.at <= now + 1 /\ now + 1 \in Nat
      BY <3>1
    <3>3. QED
      BY <2>1, <3>2 DEF Shape
  <2>3. QED
    BY <1>2, <2>1, <2>2 DEF AtHome, Counted
<1>5. ASSUME NEW x \in Entry, RegisterExpiry(x) PROVE IInv'
  <2>1. /\ x \notin InWheel /\ InWheel' = InWheel \cup {x}
        /\ buckets' \in [Keys -> Seq(Entry)] /\ AtHome'
    BY <1>5, RegisterAdds
  <2>2. /\ UNCHANGED <<now, round, candidates>> /\ registered' = registered \cup {x}
        /\ pendingEntries' = pendingEntries + 1
    BY <1>5 DEF RegisterExpiry
  <2>3. Cardinality(InWheel') = Cardinality(InWheel) + 1
    BY <1>1, <2>1, FS_AddElement
  <2>4. Shape'
    BY <2>1, <2>2 DEF Shape
  <2>5. QED
    BY <2>1, <2>2, <2>3, <2>4 DEF Counted
<1>6. CASE StartRound
  <2>1. /\ round' = [Idle EXCEPT !.pc = "scan", !.at = now]
        /\ UNCHANGED <<now, registered, buckets, pendingEntries, candidates>>
    BY <1>6 DEF StartRound
  <2>2. round' \in RoundRecord /\ round'.at = now
    <3>1. Idle \in RoundRecord
      BY WheelAssumption DEF Idle, RoundRecord
    <3>2. now \in Nat
      BY DEF Shape
    <3>3. QED
      BY <2>1, <3>1, <3>2 DEF RoundRecord
  <2>3. Shape'
    BY <2>1, <2>2 DEF Shape
  <2>4. QED
    BY <1>2, <2>1, <2>3 DEF AtHome, Counted
<1>7. ASSUME NEW k \in Keys, ScanBatch(k) PROVE IInv'
  <2>1. /\ candidates' = Candidates(k) /\ Candidates(k) \subseteq InWheel
        /\ InWheel' = InWheel \ Candidates(k)
        /\ buckets' \in [Keys -> Seq(Entry)] /\ AtHome'
    BY <1>7, ScanTakes
  <2>2. /\ UNCHANGED <<now, registered>>
        /\ pendingEntries' = pendingEntries - Cardinality(Candidates(k))
    BY <1>7 DEF ScanBatch, CountedOff
  <2>3. InWheel \cap Candidates(k) = Candidates(k)
    BY <2>1
  <2>4. Cardinality(InWheel') = Cardinality(InWheel) - Cardinality(Candidates(k))
    BY <1>1, <2>1, <2>3, FS_Difference
  <2>5. Candidates(k) \subseteq registered
    BY <2>1, WheelFinite
  <2>6. Shape'
    BY <1>7, <2>1, <2>2, <2>5, ScanRound DEF Shape
  <2>7. QED
    BY <2>1, <2>2, <2>4, <2>6 DEF Counted
<1>8. ASSUME NEW x \in candidates, DeleteVersioned(x) PROVE IInv'
  <2>1. /\ candidates' = candidates \ {x}
        /\ UNCHANGED <<now, registered, buckets, pendingEntries, round>>
    BY <1>8 DEF DeleteVersioned
  <2>2. Shape' /\ AtHome'
    BY <2>1 DEF Shape, AtHome
  <2>3. QED
    BY <1>2, <2>1, <2>2 DEF Counted
<1>9. CASE EndRound
  <2>1. round' = Idle /\ UNCHANGED <<now, registered, buckets, pendingEntries, candidates>>
    BY <1>9 DEF EndRound
  <2>2. round' \in RoundRecord /\ round'.at = 0
    BY <2>1, WheelAssumption DEF Idle, RoundRecord
  <2>3. Shape'
    BY <2>1, <2>2 DEF Shape
  <2>4. QED
    BY <1>2, <2>1, <2>3 DEF AtHome, Counted
<1>10. QED
  BY <1>3, <1>4, <1>5, <1>6, <1>7, <1>8, <1>9 DEF Next, ExpireDue

LEMMA Invariance ==
    Spec => []IInv
<1>1. IInv /\ [Next]_vars => IInv'
  BY IInvStep
<1>2. Init => IInv
  BY InitIInv
<1>3. QED
  BY <1>1, <1>2, PTL DEF Spec

-----------------------------------------------------------------------------
(* The theorems.                                                           *)

\* The types; and that ExpireDue never looks at more than its budget of entries in a
\* round, whatever the bucket, the batch and what was registered meanwhile.
THEOREM WheelTypeOK ==
    Spec => []TypeOK
<1>1. IInv => TypeOK
  <2> SUFFICES ASSUME IInv PROVE TypeOK
    OBVIOUS
  <2>1. pendingEntries \in Nat /\ candidates \subseteq Entry
    BY WheelFinite DEF IInv, Counted, Shape
  <2>2. QED
    BY <2>1 DEF TypeOK, IInv, Shape, RoundRecord
<1>2. QED
  BY <1>1, Invariance, PTL

\* ExpiryWheel.pendingEntries is the number of entries the buckets hold, every entry
\* is in one bucket once, and none that is being deleted is still in the wheel.
THEOREM WheelPendingExact ==
    Spec => []PendingExact
<1>1. IInv => PendingExact
  <2> SUFFICES ASSUME IInv PROVE PendingExact
    OBVIOUS
  <2>1. pendingEntries = Cardinality(InWheel) /\ InWheel \cap candidates = {}
    BY WheelFinite DEF IInv, Counted
  <2>2. ASSUME NEW k \in Keys PROVE Len(buckets[k]) = Cardinality(InBucket(k))
    <3>1. buckets[k] \in Seq(Entry) /\ NoDup(buckets[k])
      BY DEF IInv, Shape, AtHome
    <3>2. Len(buckets[k]) = Cardinality(Elems(buckets[k]))
      BY <3>1, NoDupLength
    <3>3. QED
      BY <3>2, InWheelElems
  <2>3. QED
    BY <2>1, <2>2 DEF PendingExact
<1>2. QED
  BY <1>1, Invariance, PTL

\* RegisterExpiry and ExpireDue implement the set of entries that ValueCache takes
\* the wheel for: nothing registered is lost, taken early or taken twice.
THEOREM WheelImplementsExpirySet ==
    Spec => ImplementsExpirySet
<1>1. Init => Abstract!Init
  <2> SUFFICES ASSUME Init PROVE Abstract!Init
    OBVIOUS
  <2>1. \A k \in Keys : Elems(buckets[k]) = {}
    BY DEF Init, Elems
  <2>2. InWheel = {}
    BY <2>1, InWheelElems
  <2>3. QED
    BY <2>2 DEF Init, Abstract!Init
<1>2. IInv /\ [Next]_vars => [Abstract!Next]_Abstract!vars
  <2> SUFFICES ASSUME IInv, [Next]_vars PROVE [Abstract!Next]_Abstract!vars
    OBVIOUS
  <2> USE DEF IInv
  <2>1. ASSUME UNCHANGED buckets PROVE InWheel' = InWheel
    BY <2>1 DEF InWheel, InBucket
  <2>2. CASE StartRound \/ EndRound \/ UNCHANGED vars
    <3>1. UNCHANGED <<now, registered, buckets, candidates>>
      BY <2>2 DEF StartRound, EndRound, vars
    <3>2. QED
      BY <2>1, <3>1 DEF Abstract!vars
  <2>3. CASE Tick
    <3>1. now' = now + 1 /\ UNCHANGED <<registered, buckets, candidates>>
      BY <2>3 DEF Tick
    <3>2. Abstract!Tick
      BY <2>1, <3>1 DEF Abstract!Tick
    <3>3. QED
      BY <3>2 DEF Abstract!Next
  <2>4. ASSUME NEW x \in Entry, RegisterExpiry(x) PROVE Abstract!Next
    <3>1. InWheel' = InWheel \cup {x}
      BY <2>4, RegisterAdds
    <3>2. /\ x \notin registered /\ registered' = registered \cup {x}
          /\ UNCHANGED <<now, candidates>>
      BY <2>4 DEF RegisterExpiry
    <3>3. Abstract!Register({x})
      BY <3>1, <3>2 DEF Abstract!Register
    <3>4. {x} \in SUBSET Entry
      OBVIOUS
    <3>5. QED
      BY <3>3, <3>4 DEF Abstract!Next
  <2>5. ASSUME NEW k \in Keys, ScanBatch(k) PROVE Abstract!Next
    <3>1. /\ candidates = {} /\ candidates' = Candidates(k) /\ Candidates(k) \subseteq InWheel
          /\ InWheel' = InWheel \ Candidates(k)
      BY <2>5, ScanTakes
    <3>2. \A x \in Candidates(k) : x.expireAt <= now
      BY ScanKeeps
    <3>3. UNCHANGED <<now, registered>>
      BY <2>5 DEF ScanBatch
    <3>4. Abstract!Take(Candidates(k))
      BY <3>1, <3>2, <3>3 DEF Abstract!Take
    <3>5. Candidates(k) \in SUBSET InWheel
      BY <3>1
    <3>6. QED
      BY <3>4, <3>5 DEF Abstract!Next
  <2>6. ASSUME NEW x \in candidates, DeleteVersioned(x) PROVE Abstract!Next
    <3>1. /\ candidates' = candidates \ {x}
          /\ UNCHANGED <<now, registered, buckets>>
      BY <2>6 DEF DeleteVersioned
    <3>2. Abstract!Handle(x)
      BY <2>1, <3>1 DEF Abstract!Handle
    <3>3. QED
      BY <3>2 DEF Abstract!Next
  <2>7. QED
    BY <2>2, <2>3, <2>4, <2>5, <2>6 DEF Next, ExpireDue
<1>3. QED
  BY <1>1, <1>2, Invariance, PTL DEF Spec, ImplementsExpirySet, Abstract!Spec
=============================================================================
