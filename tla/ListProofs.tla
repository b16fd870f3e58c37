----------------------------- MODULE ListProofs -----------------------------
(***************************************************************************)
(* What the operators of Lists compute, for sequences of any length.       *)
(*                                                                         *)
(* They find the k-th element of a result by its rank.  That there is an   *)
(* element of every rank follows from counting: ranks are different, so    *)
(* they are an injection into 1 .. n and hence onto it.  No induction is   *)
(* needed.                                                                 *)
(***************************************************************************)
EXTENDS Lists, TLAPS, FiniteSetTheorems

-----------------------------------------------------------------------------
(* Ranks.                                                                  *)

\* D[x] is what stands up to x in a total order of S, x included.
IsOrdering(S, D) ==
    /\ D \in [S -> SUBSET S]
    /\ \A x \in S : x \in D[x]
    /\ \A x, y \in S : x \in D[y] => D[x] \subseteq D[y]
    /\ \A x, y \in S : x \in D[y] /\ y \in D[x] => x = y
    /\ \A x, y \in S : x \in D[y] \/ y \in D[x]

\* The ranks of a finite ordered set are the numbers up to its size, each once,
\* in the same order.
LEMMA Ranks ==
  ASSUME NEW S, IsFiniteSet(S), NEW D, IsOrdering(S, D)
  PROVE  /\ Cardinality(S) \in Nat
         /\ \A x \in S : Cardinality(D[x]) \in 1 .. Cardinality(S)
         /\ \A k \in 1 .. Cardinality(S) : \E x \in S : Cardinality(D[x]) = k
         /\ \A x, y \in S : Cardinality(D[x]) < Cardinality(D[y]) <=> x \in D[y] /\ x # y
<1> DEFINE n == Cardinality(S)
<1>1. n \in Nat
  BY FS_CardinalityType
<1>2. \A x \in S : IsFiniteSet(D[x]) /\ Cardinality(D[x]) \in 1 .. n
  <2> TAKE x \in S
  <2>1. D[x] \in SUBSET S /\ D[x] # {}
    BY DEF IsOrdering
  <2>2. IsFiniteSet(D[x]) /\ Cardinality(D[x]) <= n
    BY <2>1, FS_Subset
  <2>3. Cardinality(D[x]) \in Nat /\ Cardinality(D[x]) # 0
    BY <2>1, <2>2, FS_CardinalityType, FS_EmptySet
  <2> QED BY <1>1, <2>2, <2>3
<1>3. ASSUME NEW x \in S, NEW y \in S, x \in D[y], x # y
      PROVE  Cardinality(D[x]) < Cardinality(D[y])
  <2>1. D[x] \in SUBSET D[y] /\ D[x] # D[y]
    BY <1>3 DEF IsOrdering
  <2>2. Cardinality(D[x]) <= Cardinality(D[y]) /\ Cardinality(D[x]) # Cardinality(D[y])
    BY <1>2, <2>1, FS_Subset
  <2>3. Cardinality(D[x]) \in Nat /\ Cardinality(D[y]) \in Nat
    BY <1>2
  <2> QED BY <2>2, <2>3
<1>4. \A x, y \in S : Cardinality(D[x]) < Cardinality(D[y]) <=> x \in D[y] /\ x # y
  <2> TAKE x \in S, y \in S
  <2>1. Cardinality(D[x]) \in Nat /\ Cardinality(D[y]) \in Nat
    BY <1>2
  <2>2. x \in D[y] \/ y \in D[x]
    BY DEF IsOrdering
  <2> QED BY <1>3, <2>1, <2>2
<1> DEFINE f == [x \in S |-> Cardinality(D[x])]
<1>5. f \in Injection(S, 1 .. n)
  <2>1. f \in [S -> 1 .. n]
    BY <1>2
  <2>2. \A x, y \in S : f[x] = f[y] => x = y
    <3> TAKE x \in S, y \in S
    <3>1. Cardinality(D[x]) \in Nat /\ Cardinality(D[y]) \in Nat
      BY <1>2
    <3>2. x \in D[y] \/ y \in D[x]
      BY DEF IsOrdering
    <3> QED BY <1>3, <3>1, <3>2
  <2> HIDE DEF f, n
  <2> QED BY <2>1, <2>2 DEF Injection, IsInjective
<1>6. f \in Surjection(S, 1 .. n)
  <2>1. IsFiniteSet(1 .. n) /\ Cardinality(1 .. n) = n
    BY <1>1, FS_Interval
  <2> HIDE DEF f
  <2> QED BY <1>5, <2>1, FS_Injection
<1>7. \A k \in 1 .. n : \E x \in S : Cardinality(D[x]) = k
  <2>1. \A k \in 1 .. n : \E x \in S : f[x] = k
    BY <1>6 DEF Surjection
  <2> QED BY <2>1
<1> QED BY <1>1, <1>2, <1>4, <1>7

\* Numbers are ordered.
LEMMA NumbersOrdered ==
  ASSUME NEW keep \in SUBSET Nat
  PROVE  IsOrdering(keep, [i \in keep |-> UpTo(keep, i)])
<1> DEFINE D == [i \in keep |-> UpTo(keep, i)]
<1>1. D \in [keep -> SUBSET keep]
  BY DEF UpTo
<1>2. \A j \in keep : \A i : i \in D[j] <=> i \in keep /\ i <= j
  BY DEF UpTo
<1> HIDE DEF D
<1>3. \A i, j \in keep : i \in D[j] => D[i] \subseteq D[j]
  <2> SUFFICES ASSUME NEW i \in keep, NEW j \in keep, i \in D[j], NEW m \in D[i]
               PROVE  m \in D[j]
    OBVIOUS
  <2>1. m \in keep /\ m <= i /\ i <= j
    BY <1>2
  <2>2. m <= j
    BY <2>1
  <2> QED BY <1>2, <2>1, <2>2
<1>4. \A i, j \in keep : i \in D[i] /\ (i \in D[j] \/ j \in D[i])
                         /\ (i \in D[j] /\ j \in D[i] => i = j)
  BY <1>2
<1>5. IsOrdering(keep, D)
  BY <1>1, <1>3, <1>4 DEF IsOrdering
<1> QED BY <1>5 DEF D

\* A finite set of numbers that is not empty has a least element.
LEMMA Least ==
  ASSUME NEW S \in SUBSET Nat, IsFiniteSet(S), S # {}
  PROVE  \E m \in S : \A x \in S : m <= x
<1> DEFINE D == [i \in S |-> UpTo(S, i)]
<1>1. IsOrdering(S, D)
  BY NumbersOrdered
<1>2. 1 \in 1 .. Cardinality(S)
  <2>1. Cardinality(S) \in Nat /\ Cardinality(S) # 0
    BY FS_CardinalityType, FS_EmptySet
  <2> QED BY <2>1
<1>3. PICK m \in S : Cardinality(D[m]) = 1
  <2> HIDE DEF D
  <2>1. \A k \in 1 .. Cardinality(S) : \E x \in S : Cardinality(D[x]) = k
    BY <1>1, Ranks
  <2> QED BY <1>2, <2>1
<1>4. D[m] \in SUBSET S /\ m \in D[m]
  BY <1>1 DEF IsOrdering
<1>5. IsFiniteSet(D[m])
  BY <1>4, FS_Subset
<1>6. D[m] = {m}
  <2> HIDE DEF D
  <2>1. \E x : D[m] = {x}
    BY <1>3, <1>5, FS_Singleton
  <2> QED BY <1>4, <2>1
<1>7. \A x \in S : m <= x
  BY <1>6 DEF UpTo
<1> QED BY <1>7

-----------------------------------------------------------------------------
(* Kept and FirstOccurrences.                                              *)

\* pos lists the places in keep, in order.
IsPlaceList(keep, pos) ==
    /\ pos \in [1 .. Cardinality(keep) -> keep]
    /\ \A i \in keep : \E k \in 1 .. Cardinality(keep) : pos[k] = i
    /\ \A k, l \in 1 .. Cardinality(keep) : k < l <=> pos[k] < pos[l]

\* Kept is the sequence of the elements at the places in keep.
LEMMA KeptElements ==
  ASSUME NEW T, NEW seq \in Seq(T), NEW keep \in SUBSET DOMAIN seq
  PROVE  /\ IsFiniteSet(keep) /\ Cardinality(keep) \in Nat
         /\ Kept(seq, keep) \in Seq(T)
         /\ Len(Kept(seq, keep)) = Cardinality(keep)
         /\ \E pos : /\ IsPlaceList(keep, pos)
                     /\ \A k \in 1 .. Cardinality(keep) : Kept(seq, keep)[k] = seq[pos[k]]
<1> DEFINE n == Cardinality(keep)
           D == [i \in keep |-> UpTo(keep, i)]
           pos == [k \in 1 .. n |-> CHOOSE i \in keep : Cardinality(UpTo(keep, i)) = k]
<1>1. DOMAIN seq = 1 .. Len(seq) /\ Len(seq) \in Nat /\ keep \in SUBSET Nat
  OBVIOUS
<1>2. IsFiniteSet(keep)
  <2>1. IsFiniteSet(1 .. Len(seq))
    BY <1>1, FS_Interval
  <2> QED BY <1>1, <2>1, FS_Subset
<1>3. n \in Nat
  BY <1>2, FS_CardinalityType
<1>4. /\ \A i \in keep : Cardinality(D[i]) \in 1 .. n
      /\ \A k \in 1 .. n : \E i \in keep : Cardinality(D[i]) = k
      /\ \A i, j \in keep : Cardinality(D[i]) < Cardinality(D[j]) <=> i \in D[j] /\ i # j
  <2>1. IsOrdering(keep, D)
    BY <1>1, NumbersOrdered
  <2> HIDE DEF D
  <2> QED BY <1>2, <2>1, Ranks
<1>5. /\ \A i \in keep : Cardinality(UpTo(keep, i)) \in 1 .. n
      /\ \A k \in 1 .. n : \E i \in keep : Cardinality(UpTo(keep, i)) = k
      /\ \A i, j \in keep :
            Cardinality(UpTo(keep, i)) < Cardinality(UpTo(keep, j)) <=> i < j
  <2>1. \A i \in keep : D[i] = UpTo(keep, i)
    OBVIOUS
  <2>2. \A i, j \in keep : i \in D[j] /\ i # j <=> i < j
    BY <1>1, <2>1 DEF UpTo
  <2> HIDE DEF D
  <2> QED BY <1>4, <2>1, <2>2
<1>6. \A k \in 1 .. n : pos[k] \in keep /\ Cardinality(UpTo(keep, pos[k])) = k
  <2> TAKE k \in 1 .. n
  <2>1. pos[k] = CHOOSE i \in keep : Cardinality(UpTo(keep, i)) = k
    OBVIOUS
  <2>2. \E i \in keep : Cardinality(UpTo(keep, i)) = k
    BY <1>5
  <2> HIDE DEF pos
  <2> QED BY <2>1, <2>2
<1>7. IsPlaceList(keep, pos)
  <2>1. pos \in [1 .. n -> keep]
    BY <1>6
  <2>2. \A k, l \in 1 .. n : k < l <=> pos[k] < pos[l]
    <3> HIDE DEF pos
    <3> QED BY <1>5, <1>6
  <2>3. \A i \in keep : \E k \in 1 .. n : pos[k] = i
    <3> TAKE i \in keep
    <3> DEFINE r == Cardinality(UpTo(keep, i))
    <3>1. r \in 1 .. n
      BY <1>5
    <3>2. pos[r] \in keep /\ Cardinality(UpTo(keep, pos[r])) = r
      BY <1>6, <3>1
    <3>3. pos[r] \in Nat /\ i \in Nat
      BY <1>1, <3>2
    <3> HIDE DEF pos
    <3>4. ~ (pos[r] < i) /\ ~ (i < pos[r])
      BY <1>1, <1>5, <3>1, <3>2
    <3>5. pos[r] = i
      BY <3>3, <3>4
    <3> QED BY <3>1, <3>5
  <2> HIDE DEF pos
  <2> QED BY <2>1, <2>2, <2>3 DEF IsPlaceList
<1>8. \A k \in 1 .. n : Kept(seq, keep)[k] = seq[pos[k]]
  BY DEF Kept
<1>9. \A k \in 1 .. n : seq[pos[k]] \in T
  BY <1>1, <1>6
<1>10. Kept(seq, keep) \in [1 .. n -> T]
  <2>1. Kept(seq, keep) = [k \in 1 .. n |-> Kept(seq, keep)[k]]
    BY DEF Kept
  <2> HIDE DEF pos, n
  <2> QED BY <1>8, <1>9, <2>1
<1>11. Kept(seq, keep) \in Seq(T) /\ Len(Kept(seq, keep)) = n
  <2> HIDE DEF n
  <2> QED BY <1>3, <1>10
<1> HIDE DEF pos
<1> QED BY <1>2, <1>3, <1>7, <1>8, <1>11

\* Whatever stands in a sequence stands somewhere for the first time.
LEMMA HasFirstPlace ==
  ASSUME NEW T, NEW seq \in Seq(T), NEW i \in DOMAIN seq
  PROVE  \E f \in FirstPlaces(seq) : f <= i /\ seq[f] = seq[i]
<1> DEFINE S == {j \in DOMAIN seq : seq[j] = seq[i]}
<1>1. DOMAIN seq = 1 .. Len(seq) /\ Len(seq) \in Nat
  OBVIOUS
<1>2. S \in SUBSET Nat /\ S # {} /\ S \subseteq 1 .. Len(seq)
  BY <1>1
<1>3. IsFiniteSet(S)
  <2>1. IsFiniteSet(1 .. Len(seq))
    BY <1>1, FS_Interval
  <2> HIDE DEF S
  <2> QED BY <1>2, <2>1, FS_Subset
<1>4. PICK m \in S : \A x \in S : m <= x
  <2> HIDE DEF S
  <2> QED BY <1>2, <1>3, Least
<1>5. m \in FirstPlaces(seq)
  <2>1. \A j \in 1 .. m - 1 : seq[j] # seq[m]
    <3> SUFFICES ASSUME NEW j \in 1 .. m - 1, seq[j] = seq[m] PROVE FALSE
      OBVIOUS
    <3>1. j \in S
      BY <1>1
    <3> QED BY <1>1, <1>4, <3>1
  <2> QED BY <2>1 DEF FirstPlaces
<1>6. m <= i /\ seq[m] = seq[i]
  BY <1>1, <1>4
<1> QED BY <1>5, <1>6

\* FirstOccurrences keeps every element once, in the order of the first places.
LEMMA FirstOccurrencesElements ==
  ASSUME NEW T, NEW seq \in Seq(T)
  PROVE  LET list == FirstOccurrences(seq)
             n    == Cardinality(FirstPlaces(seq))
         IN  /\ list \in Seq(T) /\ n \in Nat /\ Len(list) = n
             /\ \E pos : /\ IsPlaceList(FirstPlaces(seq), pos)
                         /\ \A k \in 1 .. n : list[k] = seq[pos[k]]
             /\ \A k, l \in 1 .. n : list[k] = list[l] => k = l
             /\ \A i \in DOMAIN seq : \E k \in 1 .. n : list[k] = seq[i]
             /\ \A k \in 1 .. n : \E i \in DOMAIN seq : list[k] = seq[i]
<1> DEFINE list == FirstOccurrences(seq)
           keep == FirstPlaces(seq)
           n == Cardinality(keep)
<1>1. DOMAIN seq = 1 .. Len(seq) /\ Len(seq) \in Nat
  OBVIOUS
<1>2. keep \in SUBSET DOMAIN seq
  BY DEF FirstPlaces
<1>3. /\ list \in Seq(T) /\ n \in Nat /\ Len(list) = n
      /\ \E pos : /\ IsPlaceList(keep, pos)
                  /\ \A k \in 1 .. n : list[k] = seq[pos[k]]
  <2> HIDE DEF keep
  <2> QED BY <1>2, KeptElements DEF FirstOccurrences, keep
<1>4. PICK pos : IsPlaceList(keep, pos) /\ \A k \in 1 .. n : list[k] = seq[pos[k]]
  BY <1>3
<1>5. \A k \in 1 .. n : pos[k] \in keep /\ pos[k] \in DOMAIN seq
  BY <1>2, <1>4 DEF IsPlaceList
<1>6. \A k, l \in 1 .. n : k < l => list[k] # list[l]
  <2> SUFFICES ASSUME NEW k \in 1 .. n, NEW l \in 1 .. n, k < l PROVE list[k] # list[l]
    OBVIOUS
  <2>1. pos[k] < pos[l]
    BY <1>4 DEF IsPlaceList
  <2>2. pos[k] \in 1 .. pos[l] - 1
    BY <1>1, <1>5, <2>1
  <2>3. seq[pos[k]] # seq[pos[l]]
    BY <1>5, <2>2 DEF FirstPlaces
  <2> QED BY <1>4, <2>3
<1>7. \A k, l \in 1 .. n : list[k] = list[l] => k = l
  <2> HIDE DEF list, n
  <2> QED BY <1>3, <1>6
<1>8. \A i \in DOMAIN seq : \E k \in 1 .. n : list[k] = seq[i]
  <2> TAKE i \in DOMAIN seq
  <2>1. PICK f \in keep : seq[f] = seq[i]
    BY HasFirstPlace
  <2>2. PICK k \in 1 .. n : pos[k] = f
    BY <1>4, <2>1 DEF IsPlaceList
  <2> QED BY <1>4, <2>1, <2>2
<1>9. \A k \in 1 .. n : \E i \in DOMAIN seq : list[k] = seq[i]
  BY <1>4, <1>5
<1> QED BY <1>3, <1>7, <1>8, <1>9

\* FirstOccurrences begins with the first element.
LEMMA FirstOfFirstOccurrences ==
  ASSUME NEW T, NEW seq \in Seq(T), Len(seq) > 0
  PROVE  /\ 1 \in DOMAIN FirstOccurrences(seq)
         /\ FirstOccurrences(seq)[1] = seq[1]
<1> DEFINE list == FirstOccurrences(seq)
           n == Cardinality(FirstPlaces(seq))
<1>1. DOMAIN seq = 1 .. Len(seq) /\ Len(seq) \in Nat
  OBVIOUS
<1>2. list \in Seq(T) /\ n \in Nat /\ Len(list) = n
  BY FirstOccurrencesElements
<1>3. PICK pos : /\ IsPlaceList(FirstPlaces(seq), pos)
                 /\ \A k \in 1 .. n : list[k] = seq[pos[k]]
  BY FirstOccurrencesElements
<1>4. 1 \in FirstPlaces(seq)
  BY <1>1 DEF FirstPlaces
<1>5. PICK k \in 1 .. n : pos[k] = 1
  BY <1>3, <1>4 DEF IsPlaceList
<1> HIDE DEF n, list
<1>6. 1 \in 1 .. n
  BY <1>2, <1>5
<1>7. pos[1] \in Nat /\ pos[1] >= 1
  BY <1>1, <1>3, <1>6 DEF IsPlaceList, FirstPlaces, n
<1>8. k = 1
  BY <1>2, <1>3, <1>5, <1>6, <1>7 DEF IsPlaceList, n
<1>9. list[1] = seq[1]
  BY <1>3, <1>5, <1>6, <1>8
<1>10. DOMAIN list = 1 .. n
  BY <1>2
<1> QED BY <1>6, <1>9, <1>10 DEF list

\* What stands in the first of two loops comes before what stands only in the second.
LEMMA FirstLoopFirst ==
  ASSUME NEW T, NEW A \in Seq(T), NEW B \in Seq(T)
  PROVE  LET list == FirstOccurrences(A \o B)
             inA  == {A[x] : x \in DOMAIN A}
         IN  \A i, j \in DOMAIN list : list[i] \in inA /\ list[j] \notin inA => i < j
<1> DEFINE seq == A \o B
           list == FirstOccurrences(seq)
           inA == {A[x] : x \in DOMAIN A}
           n == Cardinality(FirstPlaces(seq))
<1>1. /\ seq \in Seq(T) /\ Len(seq) = Len(A) + Len(B)
      /\ \A x \in 1 .. Len(A) : seq[x] = A[x]
      /\ Len(A) \in Nat /\ Len(B) \in Nat /\ DOMAIN A = 1 .. Len(A)
      /\ DOMAIN seq = 1 .. Len(seq)
  OBVIOUS
<1> HIDE DEF seq
<1>2. list \in Seq(T) /\ n \in Nat /\ Len(list) = n
  BY <1>1, FirstOccurrencesElements
<1>3. PICK pos : /\ IsPlaceList(FirstPlaces(seq), pos)
                 /\ \A k \in 1 .. n : list[k] = seq[pos[k]]
  BY <1>1, FirstOccurrencesElements
<1> HIDE DEF list
<1>4. DOMAIN list = 1 .. n
  BY <1>2
<1> SUFFICES ASSUME NEW i \in 1 .. n, NEW j \in 1 .. n, list[i] \in inA, list[j] \notin inA
             PROVE  i < j
  BY <1>4 DEF list, seq
<1>5. pos[i] \in FirstPlaces(seq) /\ pos[j] \in FirstPlaces(seq)
  BY <1>3 DEF IsPlaceList
<1>6. pos[i] \in 1 .. Len(seq) /\ pos[j] \in 1 .. Len(seq)
  BY <1>1, <1>5 DEF FirstPlaces
<1>7. pos[i] <= Len(A)
  <2>1. PICK x \in 1 .. Len(A) : seq[x] = seq[pos[i]]
    BY <1>1, <1>3
  <2>2. x \notin 1 .. pos[i] - 1
    BY <1>5, <2>1 DEF FirstPlaces
  <2> QED BY <1>1, <1>6, <2>2
<1>8. ~ (pos[j] <= Len(A))
  <2> SUFFICES ASSUME pos[j] <= Len(A) PROVE FALSE
    OBVIOUS
  <2>1. pos[j] \in 1 .. Len(A)
    BY <1>1, <1>6
  <2>2. list[j] = A[pos[j]]
    BY <1>1, <1>3, <2>1
  <2> QED BY <1>1, <2>1, <2>2
<1>9. pos[i] < pos[j]
  BY <1>1, <1>6, <1>7, <1>8
<1> QED BY <1>3, <1>9 DEF IsPlaceList

\* A list without repetitions is as long as the set of its elements is large.
LEMMA DistinctElements ==
  ASSUME NEW T, NEW list \in Seq(T),
         \A k, l \in 1 .. Len(list) : list[k] = list[l] => k = l
  PROVE  Cardinality({list[k] : k \in DOMAIN list}) = Len(list)
<1> DEFINE n == Len(list)
           S == {list[k] : k \in DOMAIN list}
<1>1. n \in Nat /\ DOMAIN list = 1 .. n
  OBVIOUS
<1>2. list \in [1 .. n -> S]
  BY <1>1
<1>3. \A y \in S : \E k \in 1 .. n : list[k] = y
  BY <1>1
<1> HIDE DEF S
<1>4. list \in Injection(1 .. n, S)
  BY <1>1, <1>2 DEF Injection, IsInjective
<1>5. list \in Surjection(1 .. n, S)
  BY <1>2, <1>3 DEF Surjection
<1>6. IsFiniteSet(1 .. n) /\ Cardinality(1 .. n) = n
  BY <1>1, FS_Interval
<1>7. ExistsBijection(1 .. n, S)
  BY <1>4, <1>5 DEF ExistsBijection, Bijection
<1>8. Cardinality(S) = n
  BY <1>6, <1>7, FS_Bijection
<1> QED BY <1>8 DEF S

-----------------------------------------------------------------------------
(* Concat.                                                                 *)

\* The places of a table are finitely many.
LEMMA PlacesFinite ==
  ASSUME NEW T, NEW rows \in Seq(Seq(T))
  PROVE  IsFiniteSet(Places(rows))
<1> DEFINE B == DOMAIN rows
           R == [b \in B |-> {b} \X DOMAIN rows[b]]
           U == {{b} \X DOMAIN rows[b] : b \in B}
<1>1. IsFiniteSet(B)
  <2>1. B = 1 .. Len(rows) /\ Len(rows) \in Nat
    OBVIOUS
  <2> QED BY <2>1, FS_Interval
<1>2. R \in Surjection(B, U)
  BY DEF Surjection
<1>3. IsFiniteSet(U)
  <2> HIDE DEF R, U, B
  <2> QED BY <1>1, <1>2, FS_Surjection
<1>4. \A u \in U : IsFiniteSet(u)
  <2> SUFFICES ASSUME NEW b \in B PROVE IsFiniteSet({b} \X DOMAIN rows[b])
    OBVIOUS
  <2>1. rows[b] \in Seq(T)
    OBVIOUS
  <2>2. DOMAIN rows[b] = 1 .. Len(rows[b]) /\ Len(rows[b]) \in Nat
    BY <2>1
  <2>3. IsFiniteSet(DOMAIN rows[b])
    BY <2>2, FS_Interval
  <2>4. IsFiniteSet({b})
    BY FS_Singleton
  <2> QED BY <2>3, <2>4, FS_Product
<1>5. IsFiniteSet(UNION U)
  <2> HIDE DEF U
  <2> QED BY <1>3, <1>4, FS_UNION
<1> QED BY <1>5 DEF Places

\* Reading a table row by row orders its places.
LEMMA PlacesOrdered ==
  ASSUME NEW T, NEW rows \in Seq(Seq(T))
  PROVE  IsOrdering(Places(rows), [p \in Places(rows) |-> RowsUpTo(rows, p)])
<1> DEFINE S == Places(rows)
           D == [p \in S |-> RowsUpTo(rows, p)]
<1>1. D \in [S -> SUBSET S]
  BY DEF RowsUpTo
<1>2. \A p \in S : p[1] \in Nat /\ p[2] \in Nat /\ p = <<p[1], p[2]>>
  <2> SUFFICES ASSUME NEW b \in DOMAIN rows, NEW p \in {b} \X DOMAIN rows[b]
               PROVE  p[1] \in Nat /\ p[2] \in Nat /\ p = <<p[1], p[2]>>
    BY DEF Places
  <2>1. b \in Nat /\ rows[b] \in Seq(T)
    OBVIOUS
  <2>2. DOMAIN rows[b] \subseteq Nat
    BY <2>1
  <2> QED BY <2>1, <2>2
<1>3. \A p \in S : \A q : q \in D[p] <=> /\ q \in S
                                         /\ q[1] < p[1] \/ (q[1] = p[1] /\ q[2] <= p[2])
  BY DEF RowsUpTo
<1> HIDE DEF S, D
<1>4. \A p, q \in S : p \in D[q] => D[p] \subseteq D[q]
  <2> SUFFICES ASSUME NEW p \in S, NEW q \in S, p \in D[q], NEW r \in D[p]
               PROVE  r \in D[q]
    OBVIOUS
  <2>1. r \in S /\ (r[1] < p[1] \/ (r[1] = p[1] /\ r[2] <= p[2]))
    BY <1>3
  <2>2. p[1] < q[1] \/ (p[1] = q[1] /\ p[2] <= q[2])
    BY <1>3
  <2>3. /\ p[1] \in Nat /\ p[2] \in Nat /\ q[1] \in Nat /\ q[2] \in Nat
        /\ r[1] \in Nat /\ r[2] \in Nat
    BY <1>2, <2>1
  <2>4. r[1] < q[1] \/ (r[1] = q[1] /\ r[2] <= q[2])
    BY <2>1, <2>2, <2>3
  <2> QED BY <1>3, <2>1, <2>4
<1>5. \A p, q \in S : p \in D[q] \/ q \in D[p]
  BY <1>2, <1>3
<1>6. \A p, q \in S : p \in D[q] /\ q \in D[p] => p = q
  <2> SUFFICES ASSUME NEW p \in S, NEW q \in S, p \in D[q], q \in D[p] PROVE p = q
    OBVIOUS
  <2>1. /\ p[1] < q[1] \/ (p[1] = q[1] /\ p[2] <= q[2])
        /\ q[1] < p[1] \/ (q[1] = p[1] /\ q[2] <= p[2])
    BY <1>3
  <2>2. p[1] \in Nat /\ p[2] \in Nat /\ q[1] \in Nat /\ q[2] \in Nat
    BY <1>2
  <2>3. p[1] = q[1] /\ p[2] = q[2]
    BY <2>1, <2>2
  <2>4. p = <<p[1], p[2]>> /\ q = <<q[1], q[2]>>
    BY <1>2
  <2> QED BY <2>3, <2>4
<1>7. \A p \in S : p \in D[p]
  BY <1>5
<1>8. IsOrdering(S, D)
  BY <1>1, <1>4, <1>5, <1>6, <1>7 DEF IsOrdering
<1> QED BY <1>8 DEF S, D

\* Concat has exactly the entries of the rows.
LEMMA ConcatElements ==
  ASSUME NEW T, NEW rows \in Seq(Seq(T))
  PROVE  LET list == Concat(rows)
             n    == Cardinality(Places(rows))
         IN  /\ list \in Seq(T) /\ n \in Nat /\ Len(list) = n
             /\ \A b \in DOMAIN rows : \A i \in DOMAIN rows[b] :
                   \E k \in 1 .. n : list[k] = rows[b][i]
             /\ \A k \in 1 .. n : \E b \in DOMAIN rows : \E i \in DOMAIN rows[b] :
                   list[k] = rows[b][i]
<1> DEFINE S == Places(rows)
           n == Cardinality(S)
           D == [p \in S |-> RowsUpTo(rows, p)]
           list == Concat(rows)
           place == [k \in 1 .. n |-> CHOOSE p \in S : Cardinality(RowsUpTo(rows, p)) = k]
<1>1. /\ n \in Nat
      /\ \A p \in S : Cardinality(D[p]) \in 1 .. n
      /\ \A k \in 1 .. n : \E p \in S : Cardinality(D[p]) = k
      /\ \A p, q \in S : Cardinality(D[p]) < Cardinality(D[q]) <=> p \in D[q] /\ p # q
  <2>1. IsFiniteSet(S) /\ IsOrdering(S, D)
    BY PlacesFinite, PlacesOrdered
  <2> HIDE DEF S, D
  <2> QED BY <2>1, Ranks
<1>2. \A p \in S : D[p] = RowsUpTo(rows, p)
  OBVIOUS
<1>3. \A p, q \in S : p \in D[q] \/ q \in D[p]
  BY PlacesOrdered DEF IsOrdering
<1> HIDE DEF D
<1>4. \A k \in 1 .. n : place[k] \in S /\ Cardinality(RowsUpTo(rows, place[k])) = k
  <2> TAKE k \in 1 .. n
  <2>1. place[k] = CHOOSE p \in S : Cardinality(RowsUpTo(rows, p)) = k
    OBVIOUS
  <2>2. \E p \in S : Cardinality(RowsUpTo(rows, p)) = k
    BY <1>1, <1>2
  <2> HIDE DEF place
  <2> QED BY <2>1, <2>2
<1>5. \A k \in 1 .. n : list[k] = rows[place[k][1]][place[k][2]]
  BY DEF Concat
<1>6. list = [k \in 1 .. n |-> list[k]]
  BY DEF Concat
<1> HIDE DEF list, place
<1>7. \A p \in S : p[1] \in DOMAIN rows /\ p[2] \in DOMAIN rows[p[1]]
  BY DEF Places
<1>8. \A p \in S : rows[p[1]][p[2]] \in T
  <2> TAKE p \in S
  <2>1. p[1] \in DOMAIN rows /\ p[2] \in DOMAIN rows[p[1]]
    BY <1>7
  <2>2. rows[p[1]] \in Seq(T)
    BY <2>1
  <2> QED BY <2>1, <2>2
<1>9. list \in [1 .. n -> T]
  <2>1. \A k \in 1 .. n : list[k] \in T
    BY <1>4, <1>5, <1>8
  <2> HIDE DEF S
  <2> QED BY <1>6, <2>1
<1>10. list \in Seq(T) /\ Len(list) = n
  <2> HIDE DEF n
  <2> QED BY <1>1, <1>9
<1>11. ASSUME NEW b \in DOMAIN rows, NEW i \in DOMAIN rows[b]
       PROVE  \E k \in 1 .. n : list[k] = rows[b][i]
  <2> DEFINE p == <<b, i>>
             r == Cardinality(RowsUpTo(rows, p))
  <2>1. p \in S
    BY DEF Places
  <2> HIDE DEF S, p
  <2>2. r \in 1 .. n
    BY <1>1, <1>2, <2>1
  <2>3. place[r] \in S /\ Cardinality(RowsUpTo(rows, place[r])) = r
    BY <1>4, <2>2
  <2>4. Cardinality(D[place[r]]) = r /\ Cardinality(D[p]) = r
    BY <1>2, <2>1, <2>3
  <2> HIDE DEF r
  <2>5. ~ (r < r)
    BY <1>1, <2>2
  <2>6. place[r] = p
    BY <1>1, <1>3, <2>1, <2>3, <2>4, <2>5
  <2>7. list[r] = rows[p[1]][p[2]]
    BY <1>5, <2>2, <2>6
  <2>8. list[r] = rows[b][i]
    BY <2>7 DEF p
  <2> QED BY <2>2, <2>8
<1>12. ASSUME NEW k \in 1 .. n
       PROVE  \E b \in DOMAIN rows : \E i \in DOMAIN rows[b] : list[k] = rows[b][i]
  BY <1>4, <1>5, <1>7
<1> QED BY <1>1, <1>10, <1>11, <1>12 DEF list
=============================================================================
