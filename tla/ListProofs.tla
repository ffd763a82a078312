----------------------------- MODULE ListProofs -----------------------------
(***************************************************************************)
(* What the operators on lists return, for lists of any length: the lemmas *)
(* the proofs about the components share.                                  *)
(***************************************************************************)
EXTENDS Lists, FiniteSetTheorems, WellFoundedInduction, TLAPS

LEMMA RangeIsToSet == \A s : Range(s) = ToSet(s)
BY DEF Range, ToSet

LEMMA ToSetIsFinite ==
    ASSUME NEW S, NEW s \in Seq(S)
    PROVE  IsFiniteSet(ToSet(s)) /\ ToSet(s) \subseteq S /\ DOMAIN s = 1 .. Len(s) /\ Len(s) \in Nat
<1>1. DOMAIN s = 1 .. Len(s) /\ Len(s) \in Nat /\ s \in [1 .. Len(s) -> S]
  OBVIOUS
<1>2. s \in Surjection(1 .. Len(s), ToSet(s))
  BY <1>1 DEF Surjection, ToSet
<1>3. IsFiniteSet(1 .. Len(s))
  BY <1>1, FS_Interval
<1>4. IsFiniteSet(ToSet(s))
  BY <1>2, <1>3, FS_Surjection
<1> QED
  BY <1>1, <1>4 DEF ToSet

LEMMA SeqOfItsElements ==
    ASSUME NEW S, NEW s \in Seq(S)
    PROVE  s \in Seq(ToSet(s))
<1>1. s \in [1 .. Len(s) -> ToSet(s)] /\ Len(s) \in Nat
  BY DEF ToSet
<1> HIDE DEF ToSet
<1> QED
  BY <1>1

LEMMA ToSetOfConcat ==
    ASSUME NEW S, NEW s \in Seq(S), NEW t \in Seq(S)
    PROVE  s \o t \in Seq(S) /\ ToSet(s \o t) = ToSet(s) \union ToSet(t)
<1>1. DOMAIN s = 1 .. Len(s) /\ DOMAIN t = 1 .. Len(t) /\ Len(s) \in Nat /\ Len(t) \in Nat
  OBVIOUS
<1>2. s \o t \in Seq(S) /\ DOMAIN (s \o t) = 1 .. Len(s) + Len(t)
  OBVIOUS
<1>3. \A i \in 1 .. Len(s) + Len(t) :
          (s \o t)[i] = IF i <= Len(s) THEN s[i] ELSE t[i - Len(s)]
  BY <1>1
<1>4. ToSet(s \o t) \subseteq ToSet(s) \union ToSet(t)
  <2> SUFFICES ASSUME NEW i \in 1 .. Len(s) + Len(t)
               PROVE  (s \o t)[i] \in ToSet(s) \union ToSet(t)
    BY <1>2 DEF ToSet
  <2>1. CASE i <= Len(s)
    BY <1>1, <1>3, <2>1 DEF ToSet
  <2>2. CASE i > Len(s)
    <3>1. i - Len(s) \in 1 .. Len(t)
      BY <1>1, <2>2
    <3> QED
      BY <1>1, <1>3, <2>2, <3>1 DEF ToSet
  <2> QED
    BY <1>1, <2>1, <2>2
<1>5. ToSet(s) \subseteq ToSet(s \o t)
  <2> SUFFICES ASSUME NEW i \in 1 .. Len(s)
               PROVE  s[i] \in ToSet(s \o t)
    BY <1>1 DEF ToSet
  <2>1. i \in 1 .. Len(s) + Len(t) /\ (s \o t)[i] = s[i]
    BY <1>1, <1>3
  <2> QED
    BY <1>2, <2>1 DEF ToSet
<1>6. ToSet(t) \subseteq ToSet(s \o t)
  <2> SUFFICES ASSUME NEW i \in 1 .. Len(t)
               PROVE  t[i] \in ToSet(s \o t)
    BY <1>1 DEF ToSet
  <2> DEFINE j == Len(s) + i
  <2>1. j \in 1 .. Len(s) + Len(t) /\ j > Len(s) /\ j - Len(s) = i
    BY <1>1
  <2>2. (s \o t)[j] = t[i]
    BY <1>1, <1>3, <2>1
  <2> HIDE DEF j
  <2> QED
    BY <1>2, <2>1, <2>2 DEF ToSet
<1> QED
  BY <1>2, <1>4, <1>5, <1>6

(***************************************************************************)
(* A finite set whose elements have different numbers is listed by them:   *)
(* an element's place is the count of those that come before it.  No       *)
(* induction is needed.                                                    *)
(***************************************************************************)
LEMMA ListedByNumber ==
    ASSUME NEW S, IsFiniteSet(S), NEW k \in [S -> Int],
           \A x, y \in S : k[x] = k[y] => x = y,
           NEW f, f = [i \in 1 .. Cardinality(S) |-> f[i]],
           \A i \in 1 .. Cardinality(S) :
               (\E x \in S : Cardinality({y \in S : k[y] < k[x]}) = i - 1)
               => f[i] \in S /\ Cardinality({y \in S : k[y] < k[f[i]]}) = i - 1
    PROVE  /\ f \in [1 .. Cardinality(S) -> S]
           /\ \A i, j \in 1 .. Cardinality(S) : i < j => k[f[i]] < k[f[j]]
<1> DEFINE n == Cardinality(S)
           Below(x) == {y \in S : k[y] < k[x]}
           place == [x \in S |-> Cardinality(Below(x)) + 1]
<1>1. n \in Nat
  BY FS_CardinalityType
<1>2. \A x \in S : Cardinality(Below(x)) \in 0 .. n - 1
  <2> SUFFICES ASSUME NEW x \in S
               PROVE  Cardinality(Below(x)) \in 0 .. n - 1
    OBVIOUS
  <2>1. Below(x) \in SUBSET S /\ x \notin Below(x)
    BY k[x] \in Int
  <2>2. /\ IsFiniteSet(Below(x)) /\ Cardinality(Below(x)) <= n
        /\ Cardinality(Below(x)) # n
    BY <2>1, FS_Subset
  <2>3. Cardinality(Below(x)) \in Nat
    BY <2>2, FS_CardinalityType
  <2> QED
    BY <1>1, <2>2, <2>3
<1>3. \A x, y \in S : k[x] < k[y] => place[x] < place[y]
  <2> SUFFICES ASSUME NEW x \in S, NEW y \in S, k[x] < k[y]
               PROVE  Cardinality(Below(x)) + 1 < Cardinality(Below(y)) + 1
    OBVIOUS
  <2>1. Below(x) \subseteq Below(y) /\ x \in Below(y) /\ x \notin Below(x)
    BY k[x] \in Int, k[y] \in Int, \A z \in S : k[z] \in Int
  <2>2. IsFiniteSet(Below(y))
    BY FS_Subset
  <2>3. Cardinality(Below(x)) <= Cardinality(Below(y)) /\ Cardinality(Below(x)) # Cardinality(Below(y))
    BY <2>1, <2>2, FS_Subset
  <2> QED
    BY <1>1, <1>2, <2>3
<1>4. \A x \in S : place[x] \in 1 .. n
  BY <1>1, <1>2
<1>5. \A x \in S, i \in 1 .. n : Cardinality(Below(x)) = i - 1 <=> place[x] = i
  BY <1>1, <1>2
<1>6. place \in Injection(S, 1 .. n)
  <2> HIDE DEF place, n
  <2> SUFFICES ASSUME NEW x \in S, NEW y \in S, place[x] = place[y]
               PROVE  x = y
    BY <1>4 DEF Injection, IsInjective, place
  <2>1. ~(k[x] < k[y]) /\ ~(k[y] < k[x])
    BY <1>1, <1>3, <1>4
  <2> QED
    BY <2>1
<1>7. IsFiniteSet(1 .. n) /\ Cardinality(1 .. n) = n
  BY <1>1, FS_Interval
<1>8. place \in Surjection(S, 1 .. n)
  BY <1>6, <1>7, FS_Injection
<1> HIDE DEF place, n
<1>9. \A i \in 1 .. n : \E x \in S : place[x] = i
  BY <1>8 DEF Surjection
<1>10. \A i \in 1 .. n :
           (\E x \in S : Cardinality(Below(x)) = i - 1)
           => f[i] \in S /\ Cardinality(Below(f[i])) = i - 1
  BY DEF n
<1> HIDE DEF Below
<1>11. \A i \in 1 .. n : f[i] \in S /\ place[f[i]] = i
  <2> SUFFICES ASSUME NEW i \in 1 .. n
               PROVE  f[i] \in S /\ place[f[i]] = i
    OBVIOUS
  <2>1. \E x \in S : Cardinality(Below(x)) = i - 1
    BY <1>5, <1>9
  <2>2. f[i] \in S /\ Cardinality(Below(f[i])) = i - 1
    BY <1>10, <2>1
  <2> QED
    BY <1>5, <2>2
<1>12. f \in [1 .. n -> S]
  BY <1>11 DEF n
<1>13. ASSUME NEW i \in 1 .. n, NEW j \in 1 .. n, i < j
       PROVE  k[f[i]] < k[f[j]]
  <2>1. f[i] \in S /\ f[j] \in S /\ place[f[i]] = i /\ place[f[j]] = j
    BY <1>11
  <2>2. f[i] # f[j]
    BY <1>13, <2>1
  <2>3. k[f[i]] \in Int /\ k[f[j]] \in Int /\ k[f[i]] # k[f[j]]
    BY <2>1, <2>2
  <2>4. ~(k[f[j]] < k[f[i]])
    BY <1>1, <1>3, <1>13, <2>1
  <2> QED
    BY <2>3, <2>4
<1> QED
  BY <1>12, <1>13 DEF n

LEMMA OrderedIsOnto ==
    ASSUME NEW S, IsFiniteSet(S), NEW f \in [1 .. Cardinality(S) -> S],
           \A i, j \in 1 .. Cardinality(S) : i < j => f[i] # f[j]
    PROVE  f \in Seq(S) /\ Len(f) = Cardinality(S) /\ ToSet(f) = S
<1> DEFINE n == Cardinality(S)
<1>1. n \in Nat
  BY FS_CardinalityType
<1>2. f \in Injection(1 .. n, S)
  <2> SUFFICES ASSUME NEW i \in 1 .. n, NEW j \in 1 .. n, f[i] = f[j]
               PROVE  i = j
    BY DEF Injection, IsInjective
  <2> QED
    BY <1>1
<1>3. Cardinality(1 .. n) = n
  BY <1>1, FS_Interval
<1>4. f \in Surjection(1 .. n, S)
  BY <1>2, <1>3, FS_Injection
<1> QED
  BY <1>1, <1>4 DEF Surjection, ToSet

LEMMA AscendingNumbers ==
    ASSUME NEW S \in SUBSET Int, IsFiniteSet(S)
    PROVE  /\ Ascending(S, <) \in Seq(S)
           /\ Len(Ascending(S, <)) = Cardinality(S)
           /\ ToSet(Ascending(S, <)) = S
           /\ \A i, j \in 1 .. Cardinality(S) :
                  i < j => Ascending(S, <)[i] < Ascending(S, <)[j]
<1> DEFINE n == Cardinality(S)
           k == [x \in S |-> x]
           Less(x) == {y \in S : y < x}
           f == [i \in 1 .. n |-> CHOOSE x \in S : Cardinality(Less(x)) = i - 1]
<1>1. k \in [S -> Int] /\ \A x, y \in S : k[x] = k[y] => x = y
  OBVIOUS
<1>2. \A x \in S : Less(x) = {y \in S : k[y] < k[x]}
  OBVIOUS
<1>3. \A x \in S : k[x] = x
  OBVIOUS
<1>4. Ascending(S, <) = f
  BY DEF Ascending
<1> HIDE DEF k, Less
<1>5. \A i \in 1 .. n :
          (\E x \in S : Cardinality(Less(x)) = i - 1) => f[i] \in S /\ Cardinality(Less(f[i])) = i - 1
  OBVIOUS
<1>6. f = [i \in 1 .. n |-> f[i]]
  OBVIOUS
<1> HIDE DEF f
<1>7. f \in [1 .. n -> S] /\ \A i, j \in 1 .. n : i < j => k[f[i]] < k[f[j]]
  <2>1. \A i \in 1 .. n :
            (\E x \in S : Cardinality({y \in S : k[y] < k[x]}) = i - 1)
            => f[i] \in S /\ Cardinality({y \in S : k[y] < k[f[i]]}) = i - 1
    BY <1>2, <1>5
  <2> QED
    BY <1>1, <1>6, <2>1, ListedByNumber
<1> HIDE DEF n
<1>8. \A i \in 1 .. n : f[i] \in S /\ f[i] \in Int
  BY <1>7
<1>9. \A i, j \in 1 .. n : i < j => f[i] < f[j] /\ f[i] # f[j]
  BY <1>3, <1>7, <1>8
<1>10. f \in Seq(S) /\ Len(f) = n /\ ToSet(f) = S
  BY <1>7, <1>9, OrderedIsOnto DEF n
<1> QED
  BY <1>4, <1>9, <1>10 DEF n

(***************************************************************************)
(* Induction over the naturals as a fact about a set: no operator is       *)
(* passed, so it can be cited for the set of numbers a claim holds of.     *)
(***************************************************************************)
LEMMA Induction ==
    ASSUME NEW T, 0 \in T, \A n \in Nat : n \in T => n + 1 \in T
    PROVE  \A n \in Nat : n \in T
<1> SUFFICES ASSUME Nat \ T # {}
             PROVE  FALSE
  OBVIOUS
<1>1. \E x \in Nat \ T : \A y \in Nat \ T : <<y, x>> \notin OpToRel(<, Nat)
  BY NatLessThanWellFounded, WFMin
<1>2. PICK x \in Nat \ T : \A y \in Nat \ T : ~(y < x)
  BY <1>1 DEF OpToRel
<1>3. x # 0 /\ x - 1 \in Nat
  BY <1>2
<1>4. x - 1 \in T
  BY <1>2, <1>3
<1>5. (x - 1) + 1 \in T
  BY <1>3, <1>4
<1> QED
  BY <1>2, <1>5

\* What Sublist keeps of the first n elements, given what it keeps of fewer.
NextKept(s, T, f, n) ==
    IF n = 0 THEN <<>> ELSE IF s[n] \in T THEN Append(f[n - 1], s[n]) ELSE f[n - 1]

\* A recursive function is what it is defined as once one such function
\* exists; it is built one argument at a time.
LEMMA SublistIsDefined ==
    ASSUME NEW S, NEW s \in Seq(S), NEW T
    PROVE  \E f : f = [n \in 0 .. Len(s) |-> NextKept(s, T, f, n)]
<1> DEFINE next(f, n) == NextKept(s, T, f, n)
           D == {m \in Nat : \E f : f = [n \in 0 .. m |-> next(f, n)]}
<1>1. 0 \in D
  <2> DEFINE g == [n \in 0 .. 0 |-> <<>>]
  <2>1. g = [n \in 0 .. 0 |-> next(g, n)]
    BY DEF NextKept
  <2> QED
    BY <2>1
<1>2. ASSUME NEW m \in Nat, m \in D
      PROVE  m + 1 \in D
  <2>1. PICK f : f = [n \in 0 .. m |-> next(f, n)]
    BY <1>2
  <2> DEFINE g == [n \in 0 .. m + 1 |-> IF n <= m THEN f[n] ELSE next(f, n)]
  <2>2. \A n \in 0 .. m + 1 : g[n] = next(f, n)
    <3>1. \A n \in 0 .. m : f[n] = next(f, n)
      BY <2>1
    <3> HIDE DEF next
    <3> QED
      BY <3>1
  <2>3. \A n \in 0 .. m + 1 : g[n] = next(g, n)
    <3> SUFFICES ASSUME NEW n \in 0 .. m + 1
                 PROVE  g[n] = next(g, n)
      OBVIOUS
    <3>1. CASE n = 0
      BY <2>2, <3>1 DEF NextKept
    <3>2. CASE n # 0
      <4>1. n - 1 \in 0 .. m /\ n - 1 \in 0 .. m + 1 /\ n - 1 <= m
        BY <3>2
      <4>2. g[n - 1] = f[n - 1]
        BY <4>1
      <4>3. g[n] = next(f, n)
        BY <2>2
      <4> QED
        BY <4>2, <4>3 DEF NextKept
    <3> QED
      BY <3>1, <3>2
  <2>4. g = [n \in 0 .. m + 1 |-> g[n]]
    OBVIOUS
  <2> HIDE DEF g, next
  <2>5. g = [n \in 0 .. m + 1 |-> next(g, n)]
    BY <2>3, <2>4
  <2> QED
    BY <2>5
<1> HIDE DEF D
<1>3. Len(s) \in D
  BY <1>1, <1>2, Induction
<1> QED
  BY <1>3 DEF D

LEMMA SublistSteps ==
    ASSUME NEW S, NEW s \in Seq(S), NEW T
    PROVE  \E k : /\ Sublist(s, T) = k[Len(s)]
                  /\ \A n \in 0 .. Len(s) :
                        k[n] = IF n = 0 THEN <<>>
                               ELSE IF s[n] \in T THEN Append(k[n - 1], s[n]) ELSE k[n - 1]
<1> DEFINE next(f, n) == NextKept(s, T, f, n)
           k == CHOOSE f : f = [n \in 0 .. Len(s) |-> next(f, n)]
<1>1. k = [n \in 0 .. Len(s) |-> next(k, n)]
  <2>1. \E f : f = [n \in 0 .. Len(s) |-> next(f, n)]
    BY SublistIsDefined
  <2> HIDE DEF next
  <2> QED
    BY <2>1
<1>2. Sublist(s, T) = k[Len(s)]
  BY DEF Sublist, NextKept
<1> HIDE DEF k
<1>3. \A n \in 0 .. Len(s) : k[n] = next(k, n)
  BY <1>1
<1> QED
  BY <1>2, <1>3 DEF NextKept

LEMMA SublistSelects ==
    ASSUME NEW S, NEW s \in Seq(S), NEW T
    PROVE  /\ Sublist(s, T) \in Seq(S)
           /\ ToSet(Sublist(s, T)) = ToSet(s) \intersect T
<1>1. PICK kept : /\ Sublist(s, T) = kept[Len(s)]
                  /\ \A n \in 0 .. Len(s) :
                        kept[n] = IF n = 0 THEN <<>>
                                  ELSE IF s[n] \in T THEN Append(kept[n - 1], s[n]) ELSE kept[n - 1]
  BY SublistSteps
<1> DEFINE First(n) == {s[i] : i \in 1 .. n} \intersect T
           D == {n \in Nat : n <= Len(s) => kept[n] \in Seq(S) /\ ToSet(kept[n]) = First(n)}
<1>2. Sublist(s, T) = kept[Len(s)]
  BY <1>1
<1>3. \A n \in 0 .. Len(s) :
          kept[n] = IF n = 0 THEN <<>>
                    ELSE IF s[n] \in T THEN Append(kept[n - 1], s[n]) ELSE kept[n - 1]
  BY <1>1
<1>4. 0 \in D
  <2>1. kept[0] = <<>>
    BY <1>3
  <2>2. <<>> \in Seq(S) /\ ToSet(<<>>) = {} /\ First(0) = {}
    BY DEF ToSet
  <2> QED
    BY <2>1, <2>2
<1>5. ASSUME NEW n \in Nat, n \in D
      PROVE  n + 1 \in D
  <2> SUFFICES ASSUME n + 1 <= Len(s)
               PROVE  kept[n + 1] \in Seq(S) /\ ToSet(kept[n + 1]) = First(n + 1)
    OBVIOUS
  <2>1. n + 1 \in 0 .. Len(s) /\ n + 1 # 0 /\ (n + 1) - 1 = n /\ s[n + 1] \in S
    OBVIOUS
  <2>2. kept[n] \in Seq(S) /\ ToSet(kept[n]) = First(n)
    BY <1>5, <2>1
  <2>3. kept[n + 1] = IF s[n + 1] \in T THEN Append(kept[n], s[n + 1]) ELSE kept[n]
    BY <1>3, <2>1
  <2>4. First(n + 1) = First(n) \union ({s[n + 1]} \intersect T)
    <3>1. 1 .. n + 1 = (1 .. n) \union {n + 1}
      OBVIOUS
    <3> QED
      BY <3>1
  <2> HIDE DEF First
  <2>5. CASE s[n + 1] \in T
    <3> DEFINE e == s[n + 1]  k == kept[n]
    <3> HIDE DEF e, k
    <3>1. Append(k, e) \in Seq(S) /\ ToSet(Append(k, e)) = ToSet(k) \union {e}
      <4>1. k \in Seq(S) /\ e \in S
        BY <2>1, <2>2 DEF e, k
      <4>2. Append(k, e) \in Seq(S) /\ DOMAIN Append(k, e) = (1 .. Len(k)) \union {Len(k) + 1}
        BY <4>1
      <4>3. \A i \in 1 .. Len(k) : Append(k, e)[i] = k[i]
        BY <4>1
      <4>4. Append(k, e)[Len(k) + 1] = e /\ DOMAIN k = 1 .. Len(k)
        BY <4>1
      <4> QED
        BY <4>2, <4>3, <4>4 DEF ToSet
    <3> QED
      BY <2>2, <2>3, <2>4, <2>5, <3>1 DEF e, k
  <2>6. CASE s[n + 1] \notin T
    BY <2>2, <2>3, <2>4, <2>6
  <2> QED
    BY <2>5, <2>6
<1> HIDE DEF D
<1>6. Len(s) \in D
  BY <1>4, <1>5, Induction
<1>7. ToSet(s) = {s[i] : i \in 1 .. Len(s)}
  BY DEF ToSet
<1> QED
  BY <1>2, <1>6, <1>7 DEF D

\* What is left of a longer list within a shorter one keeps its place among
\* its like: of two filters of one list, the finer finds in the coarser its
\* own elements in order.
LEMMA SublistCounts ==
    ASSUME NEW S, NEW s \in Seq(S), NEW T, NEW U \in SUBSET T
    PROVE  \A i \in DOMAIN Sublist(s, T) : Sublist(s, T)[i] \in U =>
              LET c == Cardinality({j \in 1 .. i : Sublist(s, T)[j] \in U})
              IN  c \in DOMAIN Sublist(s, U) /\ Sublist(s, U)[c] = Sublist(s, T)[i]
<1> DEFINE Within(a, i) == {j \in 1 .. i : a[j] \in U}
           Agree(a, b) ==
               /\ a \in Seq(S) /\ b \in Seq(S)
               /\ Len(b) = Cardinality(Within(a, Len(a)))
               /\ \A i \in 1 .. Len(a) : a[i] \in U =>
                      /\ Cardinality(Within(a, i)) \in 1 .. Len(b)
                      /\ b[Cardinality(Within(a, i))] = a[i]
<1>1. PICK ka : /\ Sublist(s, T) = ka[Len(s)]
                /\ \A n \in 0 .. Len(s) :
                      ka[n] = IF n = 0 THEN <<>>
                              ELSE IF s[n] \in T THEN Append(ka[n - 1], s[n]) ELSE ka[n - 1]
  BY SublistSteps
<1>2. PICK kb : /\ Sublist(s, U) = kb[Len(s)]
                /\ \A n \in 0 .. Len(s) :
                      kb[n] = IF n = 0 THEN <<>>
                              ELSE IF s[n] \in U THEN Append(kb[n - 1], s[n]) ELSE kb[n - 1]
  BY SublistSteps
<1> DEFINE D == {n \in Nat : n <= Len(s) => Agree(ka[n], kb[n])}
<1>3. \A i \in Nat : \A a : IsFiniteSet(Within(a, i)) /\ Cardinality(Within(a, i)) \in Nat
  <2> SUFFICES ASSUME NEW i \in Nat, NEW a
               PROVE  IsFiniteSet(Within(a, i)) /\ Cardinality(Within(a, i)) \in Nat
    OBVIOUS
  <2>1. IsFiniteSet(1 .. i)
    BY FS_Interval
  <2> QED
    BY <2>1, FS_Subset, FS_CardinalityType
<1>4. 0 \in D
  <2>1. ka[0] = <<>> /\ kb[0] = <<>>
    BY <1>1, <1>2
  <2>2. Agree(<<>>, <<>>)
    <3>1. <<>> \in Seq(S) /\ Len(<<>>) = 0 /\ 1 .. 0 = {}
      OBVIOUS
    <3>2. Within(<<>>, 0) = {}
      BY <3>1
    <3>3. Cardinality(Within(<<>>, 0)) = 0
      BY <3>2, FS_EmptySet
    <3> HIDE DEF Within
    <3> QED
      BY <3>1, <3>3
  <2> HIDE DEF Agree
  <2> QED
    BY <2>1, <2>2
<1>5. ASSUME NEW n \in Nat, n \in D
      PROVE  n + 1 \in D
  <2> SUFFICES ASSUME n + 1 <= Len(s)
               PROVE  Agree(ka[n + 1], kb[n + 1])
    OBVIOUS
  <2> DEFINE a == ka[n]  b == kb[n]  e == s[n + 1]
  <2>1. n + 1 \in 0 .. Len(s) /\ n + 1 # 0 /\ (n + 1) - 1 = n /\ e \in S /\ n <= Len(s)
    OBVIOUS
  <2>2. Agree(a, b)
    BY <1>5, <2>1
  <2>3. /\ ka[n + 1] = IF e \in T THEN Append(a, e) ELSE a
        /\ kb[n + 1] = IF e \in U THEN Append(b, e) ELSE b
    BY <1>1, <1>2, <2>1
  <2> HIDE DEF a, b, e, D
  <2>4. CASE e \notin T
    BY <2>2, <2>3, <2>4
  <2>5. CASE e \in T
    <3> DEFINE a1 == Append(a, e)  l == Len(a)
    <3>1. a \in Seq(S) /\ b \in Seq(S) /\ l \in Nat /\ Len(b) \in Nat
      BY <2>2
    <3>2. a1 \in Seq(S) /\ Len(a1) = l + 1 /\ a1[l + 1] = e /\ \A i \in 1 .. l : a1[i] = a[i]
      BY <2>1, <3>1
    <3> HIDE DEF a1, l
    <3>3. ASSUME NEW i \in 1 .. l
          PROVE  Within(a1, i) = Within(a, i)
      BY <3>1, <3>2, <3>3
    <3>4. Within(a1, l + 1) = Within(a1, l) \union (IF e \in U THEN {l + 1} ELSE {})
      <4>1. 1 .. l + 1 = (1 .. l) \union {l + 1}
        BY <3>1
      <4> QED
        BY <3>2, <4>1
    <3>5. Within(a1, l) = Within(a, l)
      BY <3>1, <3>2
    <3>6. Len(b) = Cardinality(Within(a, l)) /\ l + 1 \notin Within(a, l)
      BY <2>2, <3>1 DEF l
    <3>7. \A i \in 1 .. l : a[i] \in U =>
              /\ Cardinality(Within(a, i)) \in 1 .. Len(b)
              /\ b[Cardinality(Within(a, i))] = a[i]
      BY <2>2 DEF l
    <3>8. IsFiniteSet(Within(a, l))
      BY <1>3, <3>1
    <3>9. CASE e \notin U
      <4>1. Within(a1, l + 1) = Within(a, l)
        BY <3>4, <3>5, <3>9
      <4> DEFINE C(i) == Cardinality(Within(a1, i))
      <4>2. \A i \in 1 .. l : a1[i] \in U => C(i) \in 1 .. Len(b) /\ b[C(i)] = a1[i]
        BY <3>2, <3>3, <3>7
      <4>3. Len(b) = C(Len(a1))
        BY <3>2, <3>6, <4>1
      <4> HIDE DEF Within
      <4>4. \A i \in 1 .. Len(a1) : a1[i] \in U => C(i) \in 1 .. Len(b) /\ b[C(i)] = a1[i]
        <5>1. \A i \in 1 .. Len(a1) : i \in 1 .. l \/ i = l + 1
          BY <3>1, <3>2
        <5> QED
          BY <3>2, <3>9, <4>2, <5>1
      <4>5. Agree(a1, b)
        BY <3>1, <3>2, <4>3, <4>4
      <4> QED
        BY <2>3, <2>5, <3>9, <4>5 DEF a1
    <3>10. CASE e \in U
      <4> DEFINE b1 == Append(b, e)  C(i) == Cardinality(Within(a1, i))
      <4>1. b1 \in Seq(S) /\ Len(b1) = Len(b) + 1 /\ b1[Len(b) + 1] = e /\ \A i \in 1 .. Len(b) : b1[i] = b[i]
        BY <2>1, <3>1
      <4> HIDE DEF b1
      <4>2. C(l + 1) = Len(b) + 1
        <5>1. Within(a1, l + 1) = Within(a, l) \union {l + 1}
          BY <3>4, <3>5, <3>10
        <5> HIDE DEF Within
        <5> QED
          BY <3>6, <3>8, <5>1, FS_AddElement
      <4>3. \A i \in 1 .. l : a1[i] \in U => C(i) \in 1 .. Len(b) /\ b[C(i)] = a1[i]
        BY <3>2, <3>3, <3>7
      <4> HIDE DEF Within, C
      <4>4. \A i \in 1 .. Len(a1) : a1[i] \in U => C(i) \in 1 .. Len(b1) /\ b1[C(i)] = a1[i]
        <5> SUFFICES ASSUME NEW i \in 1 .. Len(a1), a1[i] \in U
                     PROVE  C(i) \in 1 .. Len(b1) /\ b1[C(i)] = a1[i]
          OBVIOUS
        <5>1. CASE i \in 1 .. l
          BY <3>1, <4>1, <4>3, <5>1
        <5>2. CASE i = l + 1
          BY <3>1, <3>2, <4>1, <4>2, <5>2
        <5> QED
          BY <3>1, <3>2, <5>1, <5>2
      <4>5. Len(b1) = C(Len(a1))
        BY <3>2, <4>1, <4>2
      <4>6. Agree(a1, b1)
        BY <3>1, <3>2, <4>1, <4>4, <4>5 DEF C
      <4> QED
        BY <2>3, <2>5, <3>10, <4>6 DEF a1, b1
    <3> QED
      BY <3>9, <3>10
  <2> QED
    BY <2>4, <2>5
<1> HIDE DEF D
<1>6. Len(s) \in D
  BY <1>4, <1>5, Induction
<1> DEFINE a == Sublist(s, T)  b == Sublist(s, U)
<1>7. Agree(a, b)
  BY <1>1, <1>2, <1>6 DEF D
<1> HIDE DEF a, b
<1>8. DOMAIN a = 1 .. Len(a) /\ DOMAIN b = 1 .. Len(b)
  <2>1. a \in Seq(S) /\ b \in Seq(S)
    BY <1>7
  <2> QED
    BY <2>1
<1>9. \A i \in 1 .. Len(a) : a[i] \in U =>
          Cardinality(Within(a, i)) \in 1 .. Len(b) /\ b[Cardinality(Within(a, i))] = a[i]
  BY <1>7
<1> QED
  BY <1>8, <1>9 DEF a, b

\* Lists laid end to end are a list: what flattening computes, one list at
\* a time.
LEMMA FlatteningIsDefined ==
    ASSUME NEW S, NEW ss \in Seq(Seq(S))
    PROVE  \E f : f = [i \in 1 .. Len(ss) |-> IF i = 1 THEN ss[i] ELSE f[i - 1] \o ss[i]]
<1> DEFINE next(f, i) == IF i = 1 THEN ss[i] ELSE f[i - 1] \o ss[i]
           D == {m \in Nat : \E f : f = [i \in 1 .. m |-> next(f, i)]}
<1>1. 0 \in D
  <2> DEFINE g == [i \in 1 .. 0 |-> <<>>]
  <2>1. g = [i \in 1 .. 0 |-> next(g, i)]
    OBVIOUS
  <2> QED
    BY <2>1
<1>2. ASSUME NEW m \in Nat, m \in D
      PROVE  m + 1 \in D
  <2>1. PICK f : f = [i \in 1 .. m |-> next(f, i)]
    BY <1>2
  <2> DEFINE g == [i \in 1 .. m + 1 |-> IF i <= m THEN f[i] ELSE next(f, i)]
  <2>2. \A i \in 1 .. m + 1 : g[i] = next(f, i)
    <3>1. \A i \in 1 .. m : f[i] = next(f, i)
      BY <2>1
    <3> HIDE DEF next
    <3> QED
      BY <3>1
  <2>3. \A i \in 1 .. m + 1 : g[i] = next(g, i)
    <3> SUFFICES ASSUME NEW i \in 1 .. m + 1
                 PROVE  g[i] = next(g, i)
      OBVIOUS
    <3>1. CASE i = 1
      BY <2>2, <3>1
    <3>2. CASE i # 1
      <4>1. i - 1 \in 1 .. m /\ i - 1 \in 1 .. m + 1 /\ i - 1 <= m
        BY <3>2
      <4>2. g[i - 1] = f[i - 1]
        BY <4>1
      <4>3. g[i] = next(f, i)
        BY <2>2
      <4> QED
        BY <4>2, <4>3
    <3> QED
      BY <3>1, <3>2
  <2>4. g = [i \in 1 .. m + 1 |-> g[i]]
    OBVIOUS
  <2> HIDE DEF g, next
  <2>5. g = [i \in 1 .. m + 1 |-> next(g, i)]
    BY <2>3, <2>4
  <2> QED
    BY <2>5
<1> HIDE DEF D
<1>3. Len(ss) \in D
  BY <1>1, <1>2, Induction
<1> QED
  BY <1>3 DEF D

LEMMA FlattenIsSeq ==
    ASSUME NEW S, NEW ss \in Seq(Seq(S))
    PROVE  FlattenSeq(ss) \in Seq(S)
<1> DEFINE next(f, i) == IF i = 1 THEN ss[i] ELSE f[i - 1] \o ss[i]
           flat == CHOOSE f : f = [i \in 1 .. Len(ss) |-> next(f, i)]
           D == {n \in Nat : n + 1 <= Len(ss) => flat[n + 1] \in Seq(S)}
<1>1. flat = [i \in 1 .. Len(ss) |-> next(flat, i)]
  <2>1. \E f : f = [i \in 1 .. Len(ss) |-> next(f, i)]
    BY FlatteningIsDefined
  <2> HIDE DEF next
  <2> QED
    BY <2>1
<1>2. FlattenSeq(ss) = IF Len(ss) = 0 THEN ss ELSE flat[Len(ss)]
  BY DEF FlattenSeq
<1> HIDE DEF flat
<1>3. \A i \in 1 .. Len(ss) : flat[i] = next(flat, i)
  BY <1>1
<1>4. \A i \in 1 .. Len(ss) : ss[i] \in Seq(S)
  OBVIOUS
<1>5. 0 \in D
  <2>1. 1 <= Len(ss) => flat[1] = ss[1] /\ ss[1] \in Seq(S)
    BY <1>3, <1>4
  <2> QED
    BY <2>1
<1>6. ASSUME NEW n \in Nat, n \in D
      PROVE  n + 1 \in D
  <2> SUFFICES ASSUME (n + 1) + 1 <= Len(ss)
               PROVE  flat[(n + 1) + 1] \in Seq(S)
    OBVIOUS
  <2> DEFINE k == n + 1
  <2>1. /\ k + 1 \in 1 .. Len(ss) /\ k + 1 # 1 /\ (k + 1) - 1 = k /\ k <= Len(ss)
    OBVIOUS
  <2>2. flat[k] \in Seq(S)
    BY <1>6, <2>1
  <2> HIDE DEF k
  <2>3. flat[k + 1] = flat[k] \o ss[k + 1] /\ ss[k + 1] \in Seq(S)
    BY <1>3, <1>4, <2>1
  <2>4. flat[k + 1] \in Seq(S)
    <3> DEFINE a == flat[k]  b == ss[k + 1]
    <3>1. a \in Seq(S) /\ b \in Seq(S)
      BY <2>2, <2>3
    <3> HIDE DEF a, b
    <3>2. a \o b \in Seq(S)
      BY <3>1
    <3> QED
      BY <2>3, <3>2 DEF a, b
  <2> QED
    BY <2>4 DEF k
<1>7. \A n \in Nat : n \in D
  <2> HIDE DEF D
  <2> QED
    BY <1>5, <1>6, Induction
<1>8. CASE Len(ss) = 0
  BY <1>2, <1>8
<1>9. CASE Len(ss) # 0
  <2> DEFINE m == Len(ss) - 1
  <2>1. m \in Nat /\ m + 1 = Len(ss) /\ m + 1 <= Len(ss)
    BY <1>9
  <2>2. flat[m + 1] \in Seq(S)
    BY <1>7, <2>1
  <2> QED
    BY <1>2, <1>9, <2>1, <2>2
<1> QED
  BY <1>8, <1>9

\* Nothing of the lists is left out.
LEMMA FlattenHasAll ==
    ASSUME NEW S, NEW ss \in Seq(Seq(S)), NEW k \in 1 .. Len(ss)
    PROVE  ToSet(ss[k]) \subseteq ToSet(FlattenSeq(ss))
<1> DEFINE next(f, i) == IF i = 1 THEN ss[i] ELSE f[i - 1] \o ss[i]
           flat == CHOOSE f : f = [i \in 1 .. Len(ss) |-> next(f, i)]
           D == {n \in Nat : n + 1 <= Len(ss) =>
                               /\ flat[n + 1] \in Seq(S)
                               /\ \A j \in 1 .. n + 1 : ToSet(ss[j]) \subseteq ToSet(flat[n + 1])}
<1>1. flat = [i \in 1 .. Len(ss) |-> next(flat, i)]
  <2>1. \E f : f = [i \in 1 .. Len(ss) |-> next(f, i)]
    BY FlatteningIsDefined
  <2> HIDE DEF next
  <2> QED
    BY <2>1
<1>2. FlattenSeq(ss) = IF Len(ss) = 0 THEN ss ELSE flat[Len(ss)]
  BY DEF FlattenSeq
<1> HIDE DEF flat
<1>3. \A i \in 1 .. Len(ss) : flat[i] = next(flat, i)
  BY <1>1
<1>4. \A i \in 1 .. Len(ss) : ss[i] \in Seq(S)
  OBVIOUS
<1>5. 0 \in D
  <2>1. 1 <= Len(ss) => flat[1] = ss[1] /\ ss[1] \in Seq(S)
    BY <1>3, <1>4
  <2>2. \A j \in 1 .. 0 + 1 : j = 1
    OBVIOUS
  <2> QED
    BY <2>1, <2>2
<1>6. ASSUME NEW n \in Nat, n \in D
      PROVE  n + 1 \in D
  <2> SUFFICES ASSUME (n + 1) + 1 <= Len(ss)
               PROVE  /\ flat[(n + 1) + 1] \in Seq(S)
                      /\ \A j \in 1 .. (n + 1) + 1 : ToSet(ss[j]) \subseteq ToSet(flat[(n + 1) + 1])
    OBVIOUS
  <2> DEFINE m == n + 1
             a == flat[m]
             b == ss[m + 1]
  <2>1. m \in Nat /\ m + 1 \in 1 .. Len(ss) /\ m + 1 # 1 /\ (m + 1) - 1 = m /\ m <= Len(ss)
    OBVIOUS
  <2>2. a \in Seq(S) /\ \A j \in 1 .. m : ToSet(ss[j]) \subseteq ToSet(a)
    BY <1>6, <2>1
  <2>3. b \in Seq(S) /\ flat[m + 1] = a \o b
    BY <1>3, <1>4, <2>1
  <2>4. \A j \in 1 .. m + 1 : j \in 1 .. m \/ j = m + 1
    BY <2>1
  <2> HIDE DEF m
  <2>5. ss[m + 1] = b
    OBVIOUS
  <2> HIDE DEF a, b
  <2>6. a \o b \in Seq(S) /\ ToSet(a \o b) = ToSet(a) \union ToSet(b)
    BY <2>2, <2>3, ToSetOfConcat
  <2>7. \A j \in 1 .. m + 1 : ToSet(ss[j]) \subseteq ToSet(a \o b)
    BY <2>2, <2>4, <2>5, <2>6
  <2> QED
    BY <2>3, <2>6, <2>7 DEF m
<1>7. \A n \in Nat : n \in D
  <2> HIDE DEF D
  <2> QED
    BY <1>5, <1>6, Induction
<1> DEFINE last == Len(ss) - 1
<1>8. last \in Nat /\ last + 1 = Len(ss) /\ last + 1 <= Len(ss) /\ Len(ss) # 0 /\ k \in 1 .. last + 1
  OBVIOUS
<1> HIDE DEF last
<1>9. ToSet(ss[k]) \subseteq ToSet(flat[last + 1])
  BY <1>7, <1>8
<1> QED
  BY <1>2, <1>8, <1>9

(***************************************************************************)
(* Lists laid end to end, and where each of them lies                      *)
(***************************************************************************)
Join(s, t) == s \o t
Adds(s, e) == Append(s, e)

\* A list joined to another: the elements of the one, then those of the other.
LEMMA JoinIsList ==
    ASSUME NEW S, NEW s \in Seq(S), NEW t \in Seq(S)
    PROVE  Join(s, t) \in Seq(S) /\ Len(Join(s, t)) = Len(s) + Len(t)
BY DEF Join

LEMMA JoinFirst ==
    ASSUME NEW S, NEW s \in Seq(S), NEW t \in Seq(S), NEW i \in 1 .. Len(s)
    PROVE  Join(s, t)[i] = s[i]
BY DEF Join

LEMMA JoinSecond ==
    ASSUME NEW S, NEW s \in Seq(S), NEW t \in Seq(S), NEW i \in 1 .. Len(t)
    PROVE  Join(s, t)[Len(s) + i] = t[i]
<1>1. \A j \in 1 .. Len(s) + Len(t) : Join(s, t)[j] = IF j <= Len(s) THEN s[j] ELSE t[j - Len(s)]
  BY DEF Join
<1>2. /\ Len(s) + i \in 1 .. Len(s) + Len(t) /\ ~(Len(s) + i <= Len(s))
      /\ (Len(s) + i) - Len(s) = i
  OBVIOUS
<1> QED
  BY <1>1, <1>2

LEMMA EqualLists ==
    ASSUME NEW S, NEW s \in Seq(S), NEW t \in Seq(S), Len(s) = Len(t),
           \A i \in 1 .. Len(s) : s[i] = t[i]
    PROVE  s = t
OBVIOUS

\* Joining is associative, one element at a time.
LEMMA JoinThenAdd ==
    ASSUME NEW S, NEW s \in Seq(S), NEW t \in Seq(S), NEW e \in S
    PROVE  Adds(Join(s, t), e) = Join(s, Adds(t, e)) /\ Adds(t, e) \in Seq(S)
<1> DEFINE a == Join(s, t)
           u == Adds(t, e)
           x == Adds(a, e)
           y == Join(s, u)
<1>1. u \in Seq(S) /\ Len(u) = Len(t) + 1
      /\ u[Len(t) + 1] = e /\ \A i \in 1 .. Len(t) : u[i] = t[i]
  BY DEF Adds
<1>2. /\ a \in Seq(S) /\ Len(a) = Len(s) + Len(t)
      /\ \A i \in 1 .. Len(s) : a[i] = s[i]
      /\ \A i \in 1 .. Len(t) : a[Len(s) + i] = t[i]
  <2>1. Join(s, t) \in Seq(S) /\ Len(Join(s, t)) = Len(s) + Len(t)
    BY JoinIsList
  <2>2. ASSUME NEW i \in 1 .. Len(s)
        PROVE  Join(s, t)[i] = s[i]
    BY JoinFirst
  <2>3. ASSUME NEW i \in 1 .. Len(t)
        PROVE  Join(s, t)[Len(s) + i] = t[i]
    BY JoinSecond
  <2> QED
    BY <2>1, <2>2, <2>3
<1> HIDE DEF a, u
<1>3. /\ y \in Seq(S) /\ Len(y) = Len(s) + Len(u)
      /\ \A i \in 1 .. Len(s) : y[i] = s[i]
      /\ \A i \in 1 .. Len(u) : y[Len(s) + i] = u[i]
  <2>1. Join(s, u) \in Seq(S) /\ Len(Join(s, u)) = Len(s) + Len(u)
    BY <1>1, JoinIsList
  <2>2. ASSUME NEW i \in 1 .. Len(s)
        PROVE  Join(s, u)[i] = s[i]
    BY <1>1, JoinFirst
  <2>3. ASSUME NEW i \in 1 .. Len(u)
        PROVE  Join(s, u)[Len(s) + i] = u[i]
    BY <1>1, JoinSecond
  <2> QED
    BY <2>1, <2>2, <2>3
<1>5. /\ x \in Seq(S) /\ Len(x) = Len(a) + 1 /\ x[Len(a) + 1] = e
      /\ \A i \in 1 .. Len(a) : x[i] = a[i]
  BY <1>2 DEF Adds
<1>6. Len(s) \in Nat /\ Len(t) \in Nat
  OBVIOUS
<1> HIDE DEF x, y
<1>7. Len(x) = Len(y) /\ Len(u) = Len(t) + 1 /\ Len(a) = Len(s) + Len(t) /\ Len(x) = Len(a) + 1
  <2>1. Len(x) = Len(a) + 1 /\ Len(a) = Len(s) + Len(t) /\ Len(u) = Len(t) + 1
        /\ Len(y) = Len(s) + Len(u)
    BY <1>1, <1>2, <1>3, <1>5
  <2> QED
    BY <1>6, <2>1
<1>8. ASSUME NEW i \in 1 .. Len(x)
      PROVE  x[i] = y[i]
  <2>1. CASE i <= Len(s)
    <3>1. i \in 1 .. Len(s) /\ i \in 1 .. Len(a)
      BY <1>6, <1>7, <2>1
    <3> QED
      BY <1>2, <1>3, <1>5, <3>1
  <2>2. CASE i > Len(s) /\ i <= Len(a)
    <3> DEFINE k == i - Len(s)
    <3>1. k \in 1 .. Len(t) /\ k \in 1 .. Len(u) /\ i = Len(s) + k /\ i \in 1 .. Len(a)
      BY <1>6, <1>7, <2>2
    <3> HIDE DEF k
    <3>2. x[i] = t[k]
      BY <1>2, <1>5, <3>1
    <3>3. y[i] = u[k] /\ u[k] = t[k]
      BY <1>1, <1>3, <3>1
    <3> QED
      BY <3>2, <3>3
  <2>3. CASE i > Len(a)
    <3>1. i = Len(a) + 1 /\ Len(u) \in 1 .. Len(u) /\ i = Len(s) + Len(u) /\ Len(u) = Len(t) + 1
      BY <1>6, <1>7, <2>3
    <3>2. x[i] = e
      BY <1>5, <3>1
    <3>3. y[i] = u[Len(u)]
      BY <1>3, <3>1
    <3>4. u[Len(u)] = e
      BY <1>1, <1>7
    <3> QED
      BY <3>2, <3>3, <3>4
  <2> QED
    BY <1>6, <1>7, <2>1, <2>2, <2>3
<1>9. x = y
  BY <1>3, <1>5, <1>7, <1>8, EqualLists
<1> QED
  BY <1>1, <1>9 DEF x, y, a, u

\* What is kept of two lists joined.
LEMMA SublistOfJoin ==
    ASSUME NEW S, NEW s \in Seq(S), NEW t \in Seq(S), NEW T
    PROVE  Sublist(s \o t, T) = Sublist(s, T) \o Sublist(t, T)
<1> DEFINE st == Join(s, t)
           Steps(k, x) == \A n \in 0 .. Len(x) :
               k[n] = IF n = 0 THEN <<>> ELSE IF x[n] \in T THEN Append(k[n - 1], x[n]) ELSE k[n - 1]
<1>1. /\ st \in Seq(S) /\ Len(st) = Len(s) + Len(t)
      /\ \A i \in 1 .. Len(s) : st[i] = s[i]
      /\ \A i \in 1 .. Len(t) : st[Len(s) + i] = t[i]
  <2>1. Join(s, t) \in Seq(S) /\ Len(Join(s, t)) = Len(s) + Len(t)
    BY JoinIsList
  <2>2. ASSUME NEW i \in 1 .. Len(s)
        PROVE  Join(s, t)[i] = s[i]
    BY JoinFirst
  <2>3. ASSUME NEW i \in 1 .. Len(t)
        PROVE  Join(s, t)[Len(s) + i] = t[i]
    BY JoinSecond
  <2> QED
    BY <2>1, <2>2, <2>3
<1> HIDE DEF st
<1>14. st \in Seq(S) /\ Len(st) = Len(s) + Len(t)
  BY <1>1
<1>15. <<>> \in Seq(S) /\ \A x \in Seq(S) : x \o <<>> = x
  OBVIOUS
<1>2. PICK ks : Sublist(s, T) = ks[Len(s)] /\ Steps(ks, s)
  BY SublistSteps
<1>3. PICK kt : Sublist(t, T) = kt[Len(t)] /\ Steps(kt, t)
  BY SublistSteps
<1>4. PICK k : Sublist(st, T) = k[Len(st)] /\ Steps(k, st)
  BY <1>14, SublistSteps
<1>5. Len(s) \in Nat /\ Len(t) \in Nat
  OBVIOUS
<1> DEFINE A == {n \in Nat : n <= Len(s) => k[n] = ks[n] /\ ks[n] \in Seq(S)}
           Joins(n) == k[Len(s) + n] = ks[Len(s)] \o kt[n] /\ kt[n] \in Seq(S)
           B == {n \in Nat : n <= Len(t) => Joins(n)}
<1>6. 0 \in A
  <2>1. 0 \in 0 .. Len(s) /\ 0 \in 0 .. Len(st)
    BY <1>1, <1>5
  <2>2. k[0] = <<>> /\ ks[0] = <<>>
    BY <1>2, <1>4, <2>1
  <2> QED
    BY <1>15, <2>2
<1>7. ASSUME NEW n \in Nat, n \in A
      PROVE  n + 1 \in A
  <2> SUFFICES ASSUME n + 1 <= Len(s)
               PROVE  k[n + 1] = ks[n + 1] /\ ks[n + 1] \in Seq(S)
    OBVIOUS
  <2>1. /\ n + 1 \in 0 .. Len(s) /\ n + 1 \in 1 .. Len(s) /\ n + 1 \in 0 .. Len(st) /\ n + 1 # 0
        /\ (n + 1) - 1 = n /\ n <= Len(s)
    BY <1>1, <1>5
  <2>2. k[n + 1] = IF st[n + 1] \in T THEN Append(k[n], st[n + 1]) ELSE k[n]
    BY <1>4, <2>1
  <2>3. ks[n + 1] = IF s[n + 1] \in T THEN Append(ks[n], s[n + 1]) ELSE ks[n]
    BY <1>2, <2>1
  <2>4. st[n + 1] = s[n + 1] /\ s[n + 1] \in S
    BY <1>1, <2>1
  <2>5. k[n] = ks[n] /\ ks[n] \in Seq(S)
    BY <1>7, <2>1
  <2> QED
    BY <2>2, <2>3, <2>4, <2>5
<1>8. \A n \in Nat : n \in A
  <2> HIDE DEF A
  <2> QED
    BY <1>6, <1>7, Induction
<1>9. k[Len(s)] = ks[Len(s)] /\ ks[Len(s)] \in Seq(S)
  BY <1>5, <1>8
<1>10. Joins(0)
  <2>1. 0 \in 0 .. Len(t)
    BY <1>5
  <2>2. kt[0] = <<>>
    BY <1>3, <2>1
  <2> DEFINE z == ks[Len(s)]
  <2>3. z \in Seq(S) /\ k[Len(s)] = z
    BY <1>9
  <2> HIDE DEF z
  <2>4. z \o <<>> = z
    BY <1>15, <2>3
  <2>5. Len(s) + 0 = Len(s)
    BY <1>5
  <2>6. k[Len(s) + 0] = z \o kt[0]
    BY <2>2, <2>3, <2>4, <2>5
  <2> QED
    BY <1>15, <2>2, <2>6 DEF z
<1>11. ASSUME NEW n \in Nat, n + 1 <= Len(t), Joins(n)
       PROVE  Joins(n + 1)
  <2> DEFINE i == Len(s) + (n + 1)
             z == ks[Len(s)]
             y == kt[n]
             e == t[n + 1]
  <2>1. /\ n + 1 \in 0 .. Len(t) /\ n + 1 \in 1 .. Len(t) /\ i \in 0 .. Len(st) /\ n + 1 # 0 /\ i # 0
        /\ (n + 1) - 1 = n /\ i - 1 = Len(s) + n
    BY <1>5, <1>11, <1>14
  <2>2. st[i] = e /\ e \in S
    BY <1>1, <2>1
  <2>3. z \in Seq(S) /\ y \in Seq(S) /\ k[Len(s) + n] = z \o y
    BY <1>9, <1>11
  <2> HIDE DEF i, z, y, e
  <2>4. k[i] = IF st[i] \in T THEN Append(k[i - 1], st[i]) ELSE k[i - 1]
    BY <1>4, <2>1
  <2>5. kt[n + 1] = IF e \in T THEN Append(y, e) ELSE y
    BY <1>3, <2>1 DEF e, y
  <2>6. Adds(Join(z, y), e) = Join(z, Adds(y, e)) /\ Adds(y, e) \in Seq(S)
    BY <2>2, <2>3, JoinThenAdd
  <2>7. k[i] = IF e \in T THEN Adds(k[i - 1], e) ELSE k[i - 1]
    BY <2>2, <2>4 DEF Adds
  <2>8. k[i - 1] = Join(z, y)
    BY <2>1, <2>3 DEF Join
  <2>10. kt[n + 1] = IF e \in T THEN Adds(y, e) ELSE y
    BY <2>5 DEF Adds
  <2>11. k[i] = Join(z, kt[n + 1]) /\ kt[n + 1] \in Seq(S)
    BY <2>3, <2>6, <2>7, <2>8, <2>10
  <2>9. k[i] = z \o kt[n + 1] /\ kt[n + 1] \in Seq(S)
    BY <2>11 DEF Join
  <2> QED
    BY <2>9 DEF i, z
<1> HIDE DEF Joins
<1>12. \A n \in Nat : n \in B
  <2>1. 0 \in B
    BY <1>10
  <2>2. ASSUME NEW n \in Nat, n \in B
        PROVE  n + 1 \in B
    BY <1>5, <1>11, <2>2
  <2> HIDE DEF B
  <2> QED
    BY <2>1, <2>2, Induction
<1>13. Joins(Len(t))
  BY <1>5, <1>12
<1>16. Len(s) + Len(t) = Len(st)
  BY <1>14
<1>17. k[Len(st)] = ks[Len(s)] \o kt[Len(t)]
  BY <1>13, <1>16 DEF Joins
<1> QED
  BY <1>2, <1>3, <1>4, <1>17 DEF st, Join

\* All of a list is kept, or nothing.
LEMMA SublistOfAll ==
    ASSUME NEW S, NEW s \in Seq(S), NEW T
    PROVE  /\ (\A i \in 1 .. Len(s) : s[i] \in T) => Sublist(s, T) = s
           /\ (\A i \in 1 .. Len(s) : s[i] \notin T) => Sublist(s, T) = <<>>
<1>1. PICK k : /\ Sublist(s, T) = k[Len(s)]
               /\ \A n \in 0 .. Len(s) :
                     k[n] = IF n = 0 THEN <<>> ELSE IF s[n] \in T THEN Append(k[n - 1], s[n]) ELSE k[n - 1]
  BY SublistSteps
<1>2. Len(s) \in Nat
  OBVIOUS
<1> DEFINE First(n) == SubSeq(s, 1, n)
           A == {n \in Nat : n <= Len(s) => k[n] = First(n)}
           B == {n \in Nat : n <= Len(s) => k[n] = <<>>}
<1>3. ASSUME \A i \in 1 .. Len(s) : s[i] \in T
      PROVE  Sublist(s, T) = s
  <2>1. 0 \in A
    <3>1. First(0) = <<>>
      OBVIOUS
    <3>2. 0 \in 0 .. Len(s)
      BY <1>2
    <3>3. k[0] = <<>>
      BY <1>1, <3>2
    <3> HIDE DEF First
    <3> QED
      BY <3>1, <3>3
  <2>2. ASSUME NEW n \in Nat, n \in A
        PROVE  n + 1 \in A
    <3> SUFFICES ASSUME n + 1 <= Len(s)
                 PROVE  k[n + 1] = First(n + 1)
      OBVIOUS
    <3>1. n + 1 \in 0 .. Len(s) /\ n + 1 \in 1 .. Len(s) /\ n + 1 # 0 /\ (n + 1) - 1 = n /\ n <= Len(s)
      BY <1>2
    <3>2. k[n + 1] = Append(k[n], s[n + 1])
      BY <1>1, <1>3, <3>1
    <3>3. k[n] = First(n)
      BY <2>2, <3>1
    <3>4. Append(First(n), s[n + 1]) = First(n + 1)
      BY <3>1
    <3> QED
      BY <3>2, <3>3, <3>4
  <2>3. \A n \in Nat : n \in A
    <3> HIDE DEF A
    <3> QED
      BY <2>1, <2>2, Induction
  <2>4. k[Len(s)] = First(Len(s))
    BY <1>2, <2>3
  <2>5. First(Len(s)) = s
    OBVIOUS
  <2> QED
    BY <1>1, <2>4, <2>5
<1>4. ASSUME \A i \in 1 .. Len(s) : s[i] \notin T
      PROVE  Sublist(s, T) = <<>>
  <2>1. 0 \in B
    BY <1>1, <1>2
  <2>2. ASSUME NEW n \in Nat, n \in B
        PROVE  n + 1 \in B
    <3> SUFFICES ASSUME n + 1 <= Len(s)
                 PROVE  k[n + 1] = <<>>
      OBVIOUS
    <3>1. n + 1 \in 0 .. Len(s) /\ n + 1 \in 1 .. Len(s) /\ n + 1 # 0 /\ (n + 1) - 1 = n /\ n <= Len(s)
      BY <1>2
    <3>2. k[n + 1] = k[n]
      BY <1>1, <1>4, <3>1
    <3> QED
      BY <2>2, <3>1, <3>2
  <2>3. \A n \in Nat : n \in B
    <3> HIDE DEF B
    <3> QED
      BY <2>1, <2>2, Induction
  <2> QED
    BY <1>1, <1>2, <2>3
<1> QED
  BY <1>3, <1>4

\* Where each of the lists P[1], ..., P[N], laid end to end and followed by
\* tail, lies in got: the nth after the first at[n - 1] elements.
Placed(at, N, P, got, tail) ==
    /\ at[0] = 0 /\ \A n \in 0 .. N : at[n] \in Nat /\ at[n] <= at[N]
    /\ \A n \in 1 .. N : at[n] = at[n - 1] + Len(P[n])
    /\ \A n \in 1 .. N : \A o \in 1 .. Len(P[n]) : got[at[n - 1] + o] = P[n][o]
    /\ Len(got) = at[N] + Len(tail)
    /\ \A j \in 1 .. Len(tail) : got[at[N] + j] = tail[j]
    /\ \A k \in 1 .. at[N] : \E n \in 1 .. N : \E o \in 1 .. Len(P[n]) : k = at[n - 1] + o

LEMMA Laying ==
    ASSUME NEW S, NEW N \in Nat, NEW G, NEW P, NEW tail \in Seq(S),
           \A n \in 0 .. N : G[n] \in Seq(S), \A n \in 1 .. N : P[n] \in Seq(S),
           G[0] = <<>>, \A n \in 1 .. N : G[n] = Join(G[n - 1], P[n])
    PROVE  \E at : Placed(at, N, P, Join(G[N], tail), tail)
<1> DEFINE at == [n \in 0 .. N |-> Len(G[n])]
           got == Join(G[N], tail)
<1>1. \A n \in 0 .. N : at[n] = Len(G[n]) /\ at[n] \in Nat
  OBVIOUS
<1>2. at[0] = 0 /\ 0 \in 0 .. N /\ N \in 0 .. N
  OBVIOUS
<1> HIDE DEF at
<1>3. ASSUME NEW n \in 1 .. N
      PROVE  /\ n - 1 \in 0 .. N /\ n \in 0 .. N /\ at[n] = at[n - 1] + Len(P[n]) /\ Len(P[n]) \in Nat
             /\ \A k \in 1 .. at[n - 1] : G[n][k] = G[n - 1][k]
             /\ \A o \in 1 .. Len(P[n]) : G[n][at[n - 1] + o] = P[n][o]
  <2> DEFINE g == G[n - 1]  p == P[n]
  <2>1. n - 1 \in 0 .. N /\ n \in 0 .. N
    OBVIOUS
  <2>2. g \in Seq(S) /\ p \in Seq(S) /\ G[n] = Join(g, p) /\ at[n - 1] = Len(g) /\ at[n] = Len(G[n])
    BY <1>1, <2>1
  <2> HIDE DEF g, p
  <2>3. Join(g, p) \in Seq(S) /\ Len(Join(g, p)) = Len(g) + Len(p)
    BY <2>2, JoinIsList
  <2>4. ASSUME NEW k \in 1 .. Len(g)
        PROVE  Join(g, p)[k] = g[k]
    BY <2>2, JoinFirst
  <2>5. ASSUME NEW o \in 1 .. Len(p)
        PROVE  Join(g, p)[Len(g) + o] = p[o]
    BY <2>2, JoinSecond
  <2>6. Len(p) \in Nat
    BY <2>2
  <2> QED
    BY <2>1, <2>2, <2>3, <2>4, <2>5, <2>6 DEF g, p
<1> DEFINE Extends(n) == n <= N => \A i \in 0 .. n : /\ at[i] <= at[n]
                                                     /\ \A k \in 1 .. at[i] : G[n][k] = G[i][k]
           Locates(n) == n <= N => \A k \in 1 .. at[n] :
               \E i \in 1 .. N : \E o \in 1 .. Len(P[i]) : k = at[i - 1] + o
           D == {n \in Nat : Extends(n) /\ Locates(n)}
<1>4. Extends(0) /\ Locates(0)
  <2>1. \A i \in 0 .. 0 : i = 0
    OBVIOUS
  <2> QED
    BY <1>1, <1>2, <2>1
<1>5. ASSUME NEW n \in Nat, n \in D
      PROVE  n + 1 \in D
  <2> SUFFICES ASSUME n + 1 <= N
                 PROVE  /\ \A i \in 0 .. n + 1 : /\ at[i] <= at[n + 1]
                                                 /\ \A k \in 1 .. at[i] : G[n + 1][k] = G[i][k]
                        /\ \A k \in 1 .. at[n + 1] :
                               \E i \in 1 .. N : \E o \in 1 .. Len(P[i]) : k = at[i - 1] + o
    <3>1. n + 1 \in Nat
      OBVIOUS
    <3>2. n + 1 \in D <=> Extends(n + 1) /\ Locates(n + 1)
      BY <3>1, Zenon
    <3> QED
      BY <3>2, Zenon
  <2>1. n + 1 \in 1 .. N /\ (n + 1) - 1 = n /\ n <= N /\ n \in 0 .. N /\ n + 1 \in 0 .. N
    OBVIOUS
  <2>2. /\ at[n + 1] = at[n] + Len(P[n + 1]) /\ Len(P[n + 1]) \in Nat
        /\ \A k \in 1 .. at[n] : G[n + 1][k] = G[n][k]
        /\ \A o \in 1 .. Len(P[n + 1]) : G[n + 1][at[n] + o] = P[n + 1][o]
    BY <1>3, <2>1
  <2>3. at[n] \in Nat /\ at[n + 1] \in Nat
    BY <1>1, <2>1
  <2>4. ASSUME NEW i \in 0 .. n + 1
        PROVE  at[i] <= at[n + 1] /\ \A k \in 1 .. at[i] : G[n + 1][k] = G[i][k]
    <3>1. CASE i = n + 1
      BY <2>3, <3>1
    <3>2. CASE i # n + 1
      <4>1. i \in 0 .. n /\ i \in 0 .. N
        BY <2>1, <3>2
      <4>2. at[i] <= at[n] /\ at[i] \in Nat /\ \A k \in 1 .. at[i] : G[n][k] = G[i][k]
        BY <1>1, <1>5, <2>1, <4>1
      <4> QED
        BY <2>2, <2>3, <4>2
    <3> QED
      BY <3>1, <3>2
  <2>5. ASSUME NEW k \in 1 .. at[n + 1]
        PROVE  \E i \in 1 .. N : \E o \in 1 .. Len(P[i]) : k = at[i - 1] + o
    <3>1. CASE k <= at[n]
      <4>1. k \in 1 .. at[n]
        BY <2>3, <3>1
      <4> QED
        BY <1>5, <2>1, <4>1
    <3>2. CASE k > at[n]
      <4> DEFINE o == k - at[n]
      <4>1. o \in 1 .. Len(P[n + 1]) /\ k = at[n] + o
        BY <2>2, <2>3, <3>2
      <4> HIDE DEF o
      <4> QED
        BY <2>1, <4>1
    <3> QED
      BY <2>3, <3>1, <3>2
  <2> QED
    BY <2>4, <2>5
<1>6. \A n \in Nat : n \in D
  <2>1. 0 \in D
    BY <1>4
  <2> HIDE DEF D
  <2> QED
    BY <1>5, <2>1, Induction
<1>7. /\ \A n \in 0 .. N : at[n] <= at[N] /\ \A k \in 1 .. at[n] : G[N][k] = G[n][k]
      /\ \A k \in 1 .. at[N] : \E i \in 1 .. N : \E o \in 1 .. Len(P[i]) : k = at[i - 1] + o
  <2>1. N \in D
    BY <1>6
  <2>2. Extends(N) /\ Locates(N) /\ N <= N
    BY <2>1
  <2> QED
    BY <2>2, Zenon
<1> DEFINE whole == G[N]
<1>8. whole \in Seq(S) /\ at[N] = Len(whole) /\ Len(tail) \in Nat
  BY <1>1, <1>2
<1>9. got = Join(whole, tail)
  OBVIOUS
<1>10. \A n \in 0 .. N : \A k \in 1 .. at[n] : whole[k] = G[n][k]
  BY <1>7
<1> HIDE DEF whole, got
<1>11. Join(whole, tail) \in Seq(S) /\ Len(Join(whole, tail)) = Len(whole) + Len(tail)
  BY <1>8, JoinIsList
<1>12. ASSUME NEW k \in 1 .. Len(whole)
       PROVE  Join(whole, tail)[k] = whole[k]
  BY <1>8, JoinFirst
<1>13. ASSUME NEW j \in 1 .. Len(tail)
       PROVE  Join(whole, tail)[Len(whole) + j] = tail[j]
  BY <1>8, JoinSecond
<1>14. ASSUME NEW n \in 1 .. N, NEW o \in 1 .. Len(P[n])
       PROVE  got[at[n - 1] + o] = P[n][o]
  <2> DEFINE k == at[n - 1] + o
  <2>1. /\ n - 1 \in 0 .. N /\ n \in 0 .. N /\ at[n] = at[n - 1] + Len(P[n]) /\ Len(P[n]) \in Nat
        /\ G[n][k] = P[n][o]
    BY <1>3
  <2>2. at[n - 1] \in Nat /\ at[n] \in Nat /\ at[N] \in Nat /\ at[n] <= at[N]
    BY <1>1, <1>2, <1>7, <2>1
  <2> DEFINE l == Len(P[n])  b == at[n - 1]  e == at[n]
  <2>6. l \in Nat /\ o \in 1 .. l /\ b \in Nat /\ e = b + l /\ k = b + o /\ e <= at[N]
    BY <2>1, <2>2
  <2> HIDE DEF l, b, k
  <2>7. k \in 1 .. e
    BY <2>6
  <2> HIDE DEF e
  <2>8. k \in 1 .. at[N]
    BY <2>2, <2>6, <2>7
  <2>3. k \in 1 .. at[n] /\ k \in 1 .. Len(whole)
    BY <1>8, <2>7, <2>8 DEF e
  <2> USE DEF k
  <2> HIDE DEF k
  <2>4. got[k] = whole[k]
    BY <1>9, <1>12, <2>3
  <2>5. whole[k] = G[n][k]
    BY <1>10, <2>1, <2>3
  <2> QED
    BY <2>1, <2>4, <2>5 DEF k
<1>15. Len(got) = at[N] + Len(tail) /\ \A j \in 1 .. Len(tail) : got[at[N] + j] = tail[j]
  BY <1>8, <1>9, <1>11, <1>13
<1>16. \A n \in 1 .. N : at[n] = at[n - 1] + Len(P[n])
  BY <1>3
<1>17. Placed(at, N, P, got, tail)
  BY <1>1, <1>2, <1>7, <1>14, <1>15, <1>16 DEF Placed
<1> QED
  BY <1>17 DEF got

\* What is kept of lists laid end to end: what is kept of each of them.
LEMMA KeptPieces ==
    ASSUME NEW S, NEW ss \in Seq(Seq(S)), NEW tail \in Seq(S), NEW T, NEW P,
           \A n \in 1 .. Len(ss) : P[n] = Sublist(ss[n], T)
    PROVE  \E at : Placed(at, Len(ss), P, Sublist(FlattenSeq(ss) \o tail, T), Sublist(tail, T))
<1> DEFINE next(f, i) == IF i = 1 THEN ss[i] ELSE f[i - 1] \o ss[i]
           flat == CHOOSE f : f = [i \in 1 .. Len(ss) |-> next(f, i)]
           N == Len(ss)
           F == [n \in 0 .. N |-> IF n = 0 THEN <<>> ELSE flat[n]]
           G == [n \in 0 .. N |-> Sublist(F[n], T)]
           D == {n \in Nat : n <= N => F[n] \in Seq(S)}
<1>1. flat = [i \in 1 .. Len(ss) |-> next(flat, i)]
  <2>1. \E f : f = [i \in 1 .. Len(ss) |-> next(f, i)]
    BY FlatteningIsDefined
  <2> HIDE DEF next
  <2> QED
    BY <2>1
<1>2. FlattenSeq(ss) = IF Len(ss) = 0 THEN ss ELSE flat[Len(ss)]
  BY DEF FlattenSeq
<1> HIDE DEF flat
<1>3. \A i \in 1 .. N : flat[i] = next(flat, i)
  BY <1>1
<1>4. N \in Nat /\ \A i \in 1 .. N : ss[i] \in Seq(S)
  OBVIOUS
<1>5. <<>> \in Seq(S) /\ \A s \in Seq(S) : s = <<>> \o s
  OBVIOUS
<1>0. ASSUME NEW s \in Seq(S), NEW t \in Seq(S)
      PROVE  Sublist(s \o t, T) = Sublist(s, T) \o Sublist(t, T)
  BY SublistOfJoin
<1>6. FlattenSeq(ss) = F[N]
  <2>1. CASE N = 0
    <3>1. ss = <<>> /\ F[0] = <<>>
      BY <1>4, <2>1
    <3> QED
      BY <1>2, <2>1, <3>1
  <2>2. CASE N # 0
    BY <1>2, <1>4, <2>2
  <2> QED
    BY <2>1, <2>2
<1>7. F[0] = <<>>
  BY <1>4
<1>8. ASSUME NEW n \in 1 .. N
      PROVE  F[n] = F[n - 1] \o ss[n] /\ n - 1 \in 0 .. N /\ n \in 0 .. N
  <2>1. n - 1 \in 0 .. N /\ n \in 0 .. N /\ n # 0
    BY <1>4
  <2>2. F[n] = flat[n] /\ F[n - 1] = IF n - 1 = 0 THEN <<>> ELSE flat[n - 1]
    BY <2>1
  <2>3. flat[n] = IF n = 1 THEN ss[n] ELSE flat[n - 1] \o ss[n]
    BY <1>3
  <2>4. ss[n] = <<>> \o ss[n]
    BY <1>4, <1>5
  <2>5. n - 1 = 0 <=> n = 1
    BY <2>1
  <2> HIDE DEF F, next
  <2> QED
    BY <2>1, <2>2, <2>3, <2>4, <2>5
<1> HIDE DEF F
<1>9. \A n \in Nat : n \in D
  <2>1. 0 \in D
    BY <1>5, <1>7
  <2>2. ASSUME NEW n \in Nat, n \in D
        PROVE  n + 1 \in D
    <3> SUFFICES ASSUME n + 1 <= N
                 PROVE  F[n + 1] \in Seq(S)
      OBVIOUS
    <3>1. n + 1 \in 1 .. N /\ (n + 1) - 1 = n /\ n <= N
      BY <1>4
    <3>2. F[n + 1] = F[n] \o ss[n + 1]
      BY <1>8, <3>1
    <3>3. F[n] \in Seq(S) /\ ss[n + 1] \in Seq(S)
      BY <1>4, <2>2, <3>1
    <3> QED
      BY <3>2, <3>3
  <2> HIDE DEF D
  <2> QED
    BY <2>1, <2>2, Induction
<1>10. \A n \in 0 .. N : F[n] \in Seq(S)
  BY <1>4, <1>9
<1>11. \A s \in Seq(S) : Sublist(s, T) \in Seq(S)
  BY SublistSelects
<1>12. G[0] = <<>>
  <2> DEFINE e == <<>>
  <2>2. e \in Seq(S) /\ Len(e) = 0
    OBVIOUS
  <2> HIDE DEF e
  <2>3. /\ (\A i \in 1 .. Len(e) : e[i] \in T) => Sublist(e, T) = e
        /\ (\A i \in 1 .. Len(e) : e[i] \notin T) => Sublist(e, T) = <<>>
    BY <2>2, SublistOfAll
  <2>4. \A i \in 1 .. Len(e) : e[i] \in T
    BY <2>2
  <2>1. Sublist(<<>>, T) = <<>>
    BY <2>3, <2>4 DEF e
  <2> QED
    BY <1>4, <1>7, <2>1
<1>13. ASSUME NEW n \in 0 .. N
       PROVE  G[n] \in Seq(S) /\ G[n] = Sublist(F[n], T)
  BY <1>10, <1>11
<1> HIDE DEF G
<1>14. ASSUME NEW n \in 1 .. N
       PROVE  P[n] \in Seq(S)
  BY <1>4, <1>11
<1>15. ASSUME NEW n \in 1 .. N
       PROVE  G[n] = Join(G[n - 1], P[n])
  <2>1. F[n] = F[n - 1] \o ss[n] /\ n - 1 \in 0 .. N /\ n \in 0 .. N
    BY <1>8
  <2>2. F[n - 1] \in Seq(S) /\ ss[n] \in Seq(S)
    BY <1>4, <1>10, <2>1
  <2> DEFINE f == F[n - 1]  t == ss[n]
  <2>5. f \in Seq(S) /\ t \in Seq(S)
    BY <2>2
  <2> HIDE DEF f, t
  <2>6. Sublist(f \o t, T) = Sublist(f, T) \o Sublist(t, T)
    BY <1>0, <2>5
  <2>3. Sublist(F[n - 1] \o ss[n], T) = Sublist(F[n - 1], T) \o Sublist(ss[n], T)
    BY <2>6 DEF f, t
  <2>4. G[n] = Sublist(F[n], T) /\ G[n - 1] = Sublist(F[n - 1], T) /\ P[n] = Sublist(ss[n], T)
    BY <1>13, <2>1
  <2> QED
    BY <2>1, <2>3, <2>4, Zenon DEF Join
<1>16. Sublist(tail, T) \in Seq(S)
  BY <1>11
<1>17. \E at : Placed(at, N, P, Join(G[N], Sublist(tail, T)), Sublist(tail, T))
  <2> HIDE DEF N
  <2> QED
    BY <1>4, <1>12, <1>13, <1>14, <1>15, <1>16, Laying
<1>18. Join(G[N], Sublist(tail, T)) = Sublist(FlattenSeq(ss) \o tail, T)
  <2>1. N \in 0 .. N
    BY <1>4
  <2>2. F[N] \in Seq(S) /\ G[N] = Sublist(F[N], T)
    BY <1>10, <1>13, <2>1
  <2> DEFINE f == F[N]
  <2>5. f \in Seq(S)
    BY <2>2
  <2> HIDE DEF f
  <2>6. Sublist(f \o tail, T) = Sublist(f, T) \o Sublist(tail, T)
    BY <2>5, SublistOfJoin
  <2>3. Sublist(F[N] \o tail, T) = Sublist(F[N], T) \o Sublist(tail, T)
    BY <2>6 DEF f
  <2> QED
    BY <1>6, <2>2, <2>3, Zenon DEF Join
<1> QED
  BY <1>17, <1>18
=============================================================================
