------------------------------ MODULE Induction ------------------------------
(***************************************************************************)
(* What the proofs about sequences and loops rest on.  The induction       *)
(* principles of the library take the property to be shown as an operator, *)
(* and the installed provers cannot instantiate those; here it is the set  *)
(* of the numbers that have it.                                            *)
(***************************************************************************)
EXTENDS Selection, WellFoundedInduction, SequenceTheorems, FiniteSetTheorems, TLAPS

\* A set of naturals that has an element has a least one.
LEMMA LeastNatural ==
  ASSUME NEW T \in SUBSET Nat, T # {}
  PROVE  \E m \in T : \A k \in T : m <= k
<1> DEFINE R == OpToRel(<, Nat)
<1>1. IsWellFoundedOn(R, Nat)
  BY NatLessThanWellFounded
<1> HIDE DEF R
<1>2. PICK m \in T : \A k \in T : <<k, m>> \notin R
  BY <1>1, WFMin
<1>3. \A k \in T : ~(k < m)
  BY <1>2 DEF R, OpToRel
<1> QED BY <1>3

\* A set that has 0, and with every natural the next, has all of them.
LEMMA NaturalInduction ==
  ASSUME NEW S, 0 \in S, \A n \in Nat : n \in S => n + 1 \in S
  PROVE  \A n \in Nat : n \in S
<1> SUFFICES ASSUME \E n \in Nat : n \notin S PROVE FALSE
  OBVIOUS
<1>1. PICK m \in {n \in Nat : n \notin S} : \A k \in {n \in Nat : n \notin S} : m <= k
  BY LeastNatural
<1>2. m - 1 \in Nat /\ m - 1 \in S
  BY <1>1
<1> QED BY <1>1, <1>2

\* A set of sequences that has the empty one, and with every one those an element
\* longer, has all of them.
LEMMA SequenceInduction ==
  ASSUME NEW T, NEW S, <<>> \in S,
         \A s \in Seq(T), e \in T : s \in S => Append(s, e) \in S
  PROVE  Seq(T) \subseteq S
<1> DEFINE Good == {n \in Nat : \A s \in Seq(T) : Len(s) = n => s \in S}
<1>1. 0 \in Good
  BY EmptySeq
<1>2. ASSUME NEW n \in Nat, n \in Good PROVE n + 1 \in Good
  <2>1. ASSUME NEW s \in Seq(T), Len(s) = n + 1 PROVE s \in S
    <3>1. PICK f \in Seq(T), e \in T : s = Append(f, e)
      <4>1. s # <<>>
        BY <2>1, EmptySeq
      <4> QED BY <4>1, SequenceEmptyOrAppend
    <3>2. Len(f) = n
      BY <2>1, <3>1, AppendProperties, LenProperties
    <3> QED BY <1>2, <3>1, <3>2
  <2> QED BY <2>1
<1>3. \A n \in Nat : n \in Good
  <2> HIDE DEF Good
  <2> QED BY <1>1, <1>2, NaturalInduction
<1> QED BY <1>3, LenProperties

-----------------------------------------------------------------------------
(* Lists of the elements of a finite set.                                  *)

\* What a list lists is finite.
LEMMA ListFinite ==
  ASSUME NEW T, NEW s \in Seq(T), NEW S, \A x \in S : \E i \in 1..Len(s) : s[i] = x
  PROVE  IsFiniteSet(S)
<1> DEFINE all == {s[i] : i \in 1..Len(s)}
           f == [i \in 1..Len(s) |-> s[i]]
<1>1. f \in Surjection(1..Len(s), all)
  BY DEF Surjection
<1>2. IsFiniteSet(1..Len(s))
  BY LenProperties, FS_Interval
<1>3. IsFiniteSet(all)
  BY <1>1, <1>2, FS_Surjection
<1>4. S \in SUBSET all
  OBVIOUS
<1> HIDE DEF all
<1> QED BY <1>3, <1>4, FS_Subset

\* What a function makes of the elements of a finite set is finite.
LEMMA ImageFinite ==
  ASSUME NEW S, IsFiniteSet(S), NEW f, DOMAIN f = S
  PROVE  IsFiniteSet({f[x] : x \in S})
<1> DEFINE T == {f[x] : x \in S}
           g == [x \in S |-> f[x]]
<1>1. g \in Surjection(S, T)
  BY DEF Surjection
<1> HIDE DEF T, g
<1>2. IsFiniteSet(T)
  BY <1>1, FS_Surjection
<1> QED BY <1>2 DEF T

\* One that has them all is no shorter than there are elements.
LEMMA ListsAll ==
  ASSUME NEW S, NEW n \in Nat, NEW f \in [1..n -> S], \A x \in S : \E i \in 1..n : f[i] = x
  PROVE  Cardinality(S) <= n
<1>1. f \in Surjection(1..n, S)
  BY DEF Surjection
<1>2. IsFiniteSet(1..n) /\ Cardinality(1..n) = n
  BY FS_Interval
<1>3. Cardinality(S) <= Cardinality(1..n)
  BY <1>1, <1>2, FS_Surjection
<1> QED BY <1>2, <1>3

\* One that has as many, and none twice, has them all.
LEMMA ListsEach ==
  ASSUME NEW S, IsFiniteSet(S), NEW n \in Nat, n = Cardinality(S),
         NEW f \in [1..n -> S], \A i, j \in 1..n : f[i] = f[j] => i = j
  PROVE  \A x \in S : \E i \in 1..n : f[i] = x
<1>1. f \in Injection(1..n, S)
  BY DEF Injection, IsInjective
<1>2. Cardinality(1..n) = Cardinality(S)
  BY FS_Interval
<1>3. f \in Surjection(1..n, S)
  BY <1>1, <1>2, FS_Injection
<1> QED BY <1>3 DEF Surjection

\* One of n of the numbers to n has them all if it has none twice, and only then.
LEMMA ListsNumbers ==
  ASSUME NEW n \in Nat, NEW f \in [1..n -> 1..n]
  PROVE  (\A i, j \in 1..n : f[i] = f[j] => i = j) <=> \A x \in 1..n : \E i \in 1..n : f[i] = x
<1>1. IsFiniteSet(1..n) /\ Cardinality(1..n) = n
  BY FS_Interval
<1>2. ASSUME \A i, j \in 1..n : f[i] = f[j] => i = j
      PROVE  \A x \in 1..n : \E i \in 1..n : f[i] = x
  <2>1. f \in Injection(1..n, 1..n)
    BY <1>2 DEF Injection, IsInjective
  <2>2. f \in Surjection(1..n, 1..n)
    BY <1>1, <2>1, FS_Injection
  <2> QED BY <2>2 DEF Surjection
<1>3. ASSUME \A x \in 1..n : \E i \in 1..n : f[i] = x
      PROVE  \A i, j \in 1..n : f[i] = f[j] => i = j
  <2>1. f \in Surjection(1..n, 1..n)
    BY <1>3 DEF Surjection
  <2>2. f \in Injection(1..n, 1..n)
    BY <1>1, <2>1, FS_Surjection
  <2> QED BY <2>2 DEF Injection, IsInjective
<1> QED BY <1>2, <1>3

-----------------------------------------------------------------------------
(* Only.                                                                   *)

\* OnlyTo is the function its equation says it is: there is one.
LEMMA OnlyToExists ==
  ASSUME NEW T, NEW s \in Seq(T), NEW S
  PROVE  OnlyTo(s, S) =
           [n \in 0..Len(s) |->
              IF n = 0 THEN <<>>
              ELSE IF s[n] \in S THEN Append(OnlyTo(s, S)[n - 1], s[n])
                   ELSE OnlyTo(s, S)[n - 1]]
<1> DEFINE Body(f, n) == IF n = 0 THEN <<>>
                         ELSE IF s[n] \in S THEN Append(f[n - 1], s[n]) ELSE f[n - 1]
           Good == {m \in Nat : \E f : f = [n \in 0..m |-> Body(f, n)]}
<1>1. 0 \in Good
  <2> DEFINE f == [n \in 0..0 |-> <<>>]
  <2>1. f = [n \in 0..0 |-> Body(f, n)]
    OBVIOUS
  <2> QED BY <2>1
<1>2. ASSUME NEW m \in Nat, m \in Good PROVE m + 1 \in Good
  <2>1. PICK f : f = [n \in 0..m |-> Body(f, n)]
    BY <1>2
  <2> DEFINE g == [n \in 0..(m + 1) |-> IF n \in 0..m THEN f[n] ELSE Body(f, n)]
  <2>2. ASSUME NEW n \in 0..(m + 1) PROVE g[n] = Body(g, n)
    <3>1. CASE n \in 0..m
      <4>1. f[n] = Body(f, n)
        BY <2>1, <3>1
      <4>2. n # 0 => n - 1 \in 0..m
        BY <3>1
      <4>3. n # 0 => g[n - 1] = f[n - 1]
        BY <4>2
      <4> QED BY <3>1, <4>1, <4>3
    <3>2. CASE n = m + 1
      <4>1. g[n - 1] = f[n - 1] /\ n \notin 0..m
        BY <3>2
      <4> QED BY <3>2, <4>1
    <3> QED BY <3>1, <3>2
  <2>3. g = [n \in 0..(m + 1) |-> Body(g, n)]
    <3> HIDE DEF Body
    <3> QED BY <2>2
  <2> HIDE DEF Body, g
  <2> QED BY <2>3
<1>3. \A m \in Nat : m \in Good
  <2> HIDE DEF Good
  <2> QED BY <1>1, <1>2, NaturalInduction
<1>4. \E f : f = [n \in 0..Len(s) |-> Body(f, n)]
  BY <1>3, LenProperties
<1> QED BY <1>4 DEF OnlyTo

LEMMA OnlyToSteps ==
  ASSUME NEW T, NEW s \in Seq(T), NEW S
  PROVE  /\ OnlyTo(s, S)[0] = <<>>
         /\ \A n \in 1..Len(s) :
              OnlyTo(s, S)[n] = IF s[n] \in S THEN Append(OnlyTo(s, S)[n - 1], s[n])
                                ELSE OnlyTo(s, S)[n - 1]
<1> DEFINE f == OnlyTo(s, S)
<1>1. f = [n \in 0..Len(s) |->
             IF n = 0 THEN <<>>
             ELSE IF s[n] \in S THEN Append(f[n - 1], s[n]) ELSE f[n - 1]]
  BY OnlyToExists
<1> HIDE DEF f
<1>2. f[0] = <<>>
  <2>1. 0 \in 0..Len(s) BY LenProperties
  <2> QED BY <1>1, <2>1
<1>3. ASSUME NEW n \in 1..Len(s)
      PROVE  f[n] = IF s[n] \in S THEN Append(f[n - 1], s[n]) ELSE f[n - 1]
  <2>1. n \in 0..Len(s) /\ n # 0 BY LenProperties
  <2> QED BY <1>1, <2>1
<1> QED BY <1>2, <1>3 DEF f

LEMMA OnlyEmpty ==
  ASSUME NEW S
  PROVE  Only(<<>>, S) = <<>>
<1>1. <<>> \in Seq({}) /\ Len(<<>>) = 0
  OBVIOUS
<1> DEFINE none == <<>>
<1>2. OnlyTo(none, S)[0] = <<>>
  <2>1. none \in Seq({})
    OBVIOUS
  <2> HIDE DEF none
  <2> QED BY <2>1, OnlyToSteps
<1> QED BY <1>1, <1>2 DEF Only

\* What is kept of a sequence does not depend on what follows it.
LEMMA OnlyPrefix ==
  ASSUME NEW T, NEW s \in Seq(T), NEW e \in T, NEW S
  PROVE  \A n \in 0..Len(s) : OnlyTo(Append(s, e), S)[n] = OnlyTo(s, S)[n]
<1> DEFINE t == Append(s, e)
           Good == {n \in Nat : n > Len(s) \/ OnlyTo(t, S)[n] = OnlyTo(s, S)[n]}
<1>0. /\ t \in Seq(T) /\ Len(t) = Len(s) + 1 /\ Len(s) \in Nat
      /\ \A n \in 1..Len(s) : t[n] = s[n]
  BY AppendProperties, LenProperties
<1> HIDE DEF t
<1>1. 0 \in Good
  BY <1>0, OnlyToSteps
<1>2. ASSUME NEW n \in Nat, n \in Good PROVE n + 1 \in Good
  <2>1. CASE n + 1 \in 1..Len(s)
    <3>1. n + 1 \in 1..Len(t) /\ (n + 1) - 1 = n
      BY <1>0, <2>1
    <3>2. OnlyTo(t, S)[n] = OnlyTo(s, S)[n]
      BY <1>0, <1>2, <2>1
    <3>3. OnlyTo(t, S)[n + 1] = IF t[n + 1] \in S THEN Append(OnlyTo(t, S)[n], t[n + 1])
                                ELSE OnlyTo(t, S)[n]
      BY <1>0, <3>1, OnlyToSteps
    <3>4. OnlyTo(s, S)[n + 1] = IF s[n + 1] \in S THEN Append(OnlyTo(s, S)[n], s[n + 1])
                                ELSE OnlyTo(s, S)[n]
      BY <3>1, <2>1, OnlyToSteps
    <3> QED BY <1>0, <2>1, <3>2, <3>3, <3>4
  <2>2. CASE n + 1 \notin 1..Len(s)
    BY <1>0, <2>2
  <2> QED BY <2>1, <2>2
<1>3. \A n \in Nat : n \in Good
  <2> HIDE DEF Good
  <2> QED BY <1>1, <1>2, NaturalInduction
<1> QED BY <1>0, <1>3 DEF t

LEMMA OnlyAppend ==
  ASSUME NEW T, NEW s \in Seq(T), NEW e \in T, NEW S
  PROVE  Only(Append(s, e), S) = IF e \in S THEN Append(Only(s, S), e) ELSE Only(s, S)
<1> DEFINE t == Append(s, e)
<1>0. t \in Seq(T) /\ Len(t) = Len(s) + 1 /\ Len(s) \in Nat /\ t[Len(s) + 1] = e
  BY AppendProperties, LenProperties
<1>1. OnlyTo(t, S)[Len(s)] = OnlyTo(s, S)[Len(s)]
  BY <1>0, OnlyPrefix
<1> HIDE DEF t
<1>2. Len(t) \in 1..Len(t) /\ Len(t) - 1 = Len(s)
  BY <1>0
<1>3. OnlyTo(t, S)[Len(t)] = IF t[Len(t)] \in S THEN Append(OnlyTo(t, S)[Len(s)], t[Len(t)])
                             ELSE OnlyTo(t, S)[Len(s)]
  BY <1>0, <1>2, OnlyToSteps
<1>4. Only(t, S) = IF e \in S THEN Append(Only(s, S), e) ELSE Only(s, S)
  BY <1>0, <1>1, <1>3 DEF Only
<1> QED BY <1>4 DEF t

\* What is kept is of the set.
LEMMA OnlyType ==
  ASSUME NEW T, NEW s \in Seq(T), NEW S
  PROVE  Only(s, S) \in Seq(T \cap S)
<1> DEFINE Good == {n \in Nat : n > Len(s) \/ OnlyTo(s, S)[n] \in Seq(T \cap S)}
<1>1. 0 \in Good
  <2>1. OnlyTo(s, S)[0] = <<>>
    BY OnlyToSteps
  <2> QED BY <2>1, EmptySeq
<1>2. ASSUME NEW n \in Nat, n \in Good PROVE n + 1 \in Good
  <2>1. CASE n + 1 \in 1..Len(s)
    <3>1. s[n + 1] \in T /\ OnlyTo(s, S)[n] \in Seq(T \cap S)
      BY <1>2, <2>1, ElementOfSeq, LenProperties
    <3>2. OnlyTo(s, S)[n + 1] = IF s[n + 1] \in S THEN Append(OnlyTo(s, S)[n], s[n + 1])
                                ELSE OnlyTo(s, S)[n]
      BY <2>1, OnlyToSteps
    <3>3. OnlyTo(s, S)[n + 1] \in Seq(T \cap S)
      BY <3>1, <3>2, AppendProperties
    <3> QED BY <3>3
  <2>2. CASE n + 1 \notin 1..Len(s)
    BY <2>2, LenProperties
  <2> QED BY <2>1, <2>2
<1>3. \A n \in Nat : n \in Good
  <2> HIDE DEF Good
  <2> QED BY <1>1, <1>2, NaturalInduction
<1>4. Len(s) \in Nat
  BY LenProperties
<1> QED BY <1>3, <1>4 DEF Only

\* What is of the set is kept.
LEMMA OnlyHas ==
  ASSUME NEW T, NEW s \in Seq(T), NEW S, NEW i \in 1..Len(s), s[i] \in S
  PROVE  \E k \in 1..Len(Only(s, S)) : Only(s, S)[k] = s[i]
<1> DEFINE Has(q, x) == \E k \in 1..Len(Only(q, S)) : Only(q, S)[k] = x
           Good == {q \in Seq(T) : \A j \in 1..Len(q) : q[j] \in S => Has(q, q[j])}
<1>1. <<>> \in Good
  BY EmptySeq
<1>2. ASSUME NEW q \in Seq(T), NEW e \in T, q \in Good PROVE Append(q, e) \in Good
  <2> DEFINE t == Append(q, e)
             kept == Only(q, S)
  <2>1. /\ t \in Seq(T) /\ Len(t) = Len(q) + 1 /\ Len(q) \in Nat /\ t[Len(q) + 1] = e
        /\ \A j \in 1..Len(q) : t[j] = q[j]
    BY AppendProperties, LenProperties
  <2>2. Only(t, S) = IF e \in S THEN Append(kept, e) ELSE kept
    BY OnlyAppend
  <2>3. kept \in Seq(T \cap S) /\ Len(kept) \in Nat
    BY OnlyType, LenProperties
  <2>4. e \in S => /\ Len(Append(kept, e)) = Len(kept) + 1 /\ Append(kept, e)[Len(kept) + 1] = e
                   /\ \A k \in 1..Len(kept) : Append(kept, e)[k] = kept[k]
    BY <2>3, AppendProperties
  <2> HIDE DEF t, kept
  <2>5. ASSUME NEW x, \E k \in 1..Len(kept) : kept[k] = x PROVE Has(t, x)
    BY <2>2, <2>3, <2>4, <2>5
  <2>6. ASSUME NEW j \in 1..Len(t), t[j] \in S PROVE Has(t, t[j])
    <3>1. CASE j \in 1..Len(q)
      <4>1. \E k \in 1..Len(kept) : kept[k] = t[j]
        BY <1>2, <2>1, <2>6, <3>1 DEF kept
      <4> QED BY <2>5, <4>1
    <3>2. CASE j = Len(q) + 1
      <4>1. t[j] = e /\ e \in S
        BY <2>1, <2>6, <3>2
      <4>2. /\ Only(t, S) = Append(kept, e) /\ Len(Only(t, S)) = Len(kept) + 1
            /\ Only(t, S)[Len(kept) + 1] = e
        BY <2>2, <2>4, <4>1
      <4> QED BY <2>3, <4>1, <4>2
    <3> QED BY <2>1, <3>1, <3>2
  <2> QED BY <2>1, <2>6 DEF t
<1>3. s \in Good
  <2> HIDE DEF Good
  <2> QED BY <1>1, <1>2, SequenceInduction
<1> QED BY <1>3
=============================================================================
