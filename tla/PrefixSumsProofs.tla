-------------------------- MODULE PrefixSumsProofs --------------------------
(***************************************************************************)
(* What the running totals of PrefixSums return, for every sequence.       *)
(***************************************************************************)
EXTENDS PrefixSums, RowOrder, WellFoundedInduction, NaturalsInduction, TLAPS

(***************************************************************************)
(* Every nonempty set of naturals has a smallest element: the form of      *)
(* induction that takes no operator as a parameter.                        *)
(***************************************************************************)
LEMMA LeastNat ==
    ASSUME NEW S \in SUBSET Nat, S # {}
    PROVE  \E m \in S : \A k \in S : m <= k
<1>1. \E m \in S : \A k \in S : ~ (<<k, m>> \in OpToRel(<, Nat))
  BY NatLessThanWellFounded, WFMin
<1>2. \A a, b \in Nat : a < b => <<a, b>> \in OpToRel(<, Nat)
  BY Zenon DEF OpToRel
<1>3. \A a, b \in Nat : ~ (a < b) => b <= a
  OBVIOUS
<1>4. QED
  BY <1>1, <1>2, <1>3, Zenon

(***************************************************************************)
(* Induction up to n over a set of naturals: the step form of LeastNat.    *)
(***************************************************************************)
LEMMA UpTo ==
    ASSUME NEW n \in Nat, NEW Good, 0 \in Good,
           \A i \in 1 .. n : i - 1 \in Good => i \in Good
    PROVE  \A i \in 0 .. n : i \in Good
<1> DEFINE Bad == {i \in 0 .. n : i \notin Good}
<1> SUFFICES ASSUME Bad # {} PROVE FALSE
  OBVIOUS
<1>1. PICK m \in Bad : \A i \in Bad : m <= i
  <2>1. Bad \in SUBSET Nat
    OBVIOUS
  <2> HIDE DEF Bad
  <2>2. QED
    BY <2>1, LeastNat
<1>2. m \in 1 .. n
  BY <1>1
<1>3. m - 1 \in 0 .. n /\ ~ (m <= m - 1)
  BY <1>2
<1>4. QED
  BY <1>1, <1>2, <1>3

(***************************************************************************)
(* PrefixSum is the running total its definition describes: 0 before the   *)
(* first round, one more summand per round, and a natural throughout.      *)
(***************************************************************************)
LEMMA PrefixSumStep ==
    ASSUME NEW num \in Seq(Nat)
    PROVE  /\ PrefixSum(num) \in [0 .. Len(num) -> Nat]
           /\ PrefixSum(num)[0] = 0
           /\ \A i \in 1 .. Len(num) :
                PrefixSum(num)[i] = PrefixSum(num)[i - 1] + num[i]
<1> DEFINE n == Len(num)
           Next(g, i) == IF i = 0 THEN 0 ELSE g[i - 1] + num[i]
           Sums(k) == {g \in [0 .. k -> Nat] : \A i \in 0 .. k : g[i] = Next(g, i)}
           Bad == {k \in 0 .. n : Sums(k) = {}}
<1>0. n \in Nat /\ \A i \in 1 .. n : num[i] \in Nat
  OBVIOUS
<1>1. Bad = {}
  <2> SUFFICES ASSUME Bad # {} PROVE FALSE
    OBVIOUS
  <2>1. PICK m \in Bad : \A k \in Bad : m <= k
    <3>1. Bad \in SUBSET Nat
      BY <1>0
    <3> HIDE DEF Bad
    <3>2. QED
      BY <3>1, LeastNat
  <2>2. CASE m = 0
    <3>1. [i \in 0 .. 0 |-> 0] \in Sums(0)
      OBVIOUS
    <3>2. QED
      BY <2>1, <2>2, <3>1
  <2>3. CASE m # 0
    <3>1. m \in Nat \ {0} /\ m \in 0 .. n /\ m - 1 \in 0 .. n
      BY <1>0, <2>1, <2>3
    <3>2. m - 1 \notin Bad
      <4>1. m - 1 \in Bad => m <= m - 1
        BY <2>1
      <4>2. QED
        BY <3>1, <4>1
    <3>3. PICK g \in [0 .. (m - 1) -> Nat] : \A i \in 0 .. (m - 1) : g[i] = Next(g, i)
      BY <3>1, <3>2
    <3> DEFINE h == [i \in 0 .. m |-> IF i = m THEN g[m - 1] + num[m] ELSE g[i]]
    <3>4. h \in [0 .. m -> Nat]
      BY <1>0, <3>1, <3>3
    <3>5. ASSUME NEW i \in 0 .. m PROVE h[i] = Next(h, i)
      BY <1>0, <3>1, <3>3, <3>5
    <3>6. h \in Sums(m)
      BY <3>4, <3>5
    <3>7. QED
      BY <2>1, <3>6
  <2>4. QED
    BY <2>2, <2>3
<1>2. PICK g \in [0 .. n -> Nat] : \A i \in 0 .. n : g[i] = Next(g, i)
  <2>1. n \in 0 .. n
    BY <1>0
  <2>2. Sums(n) # {}
    BY <1>1, <2>1
  <2>3. QED
    BY <2>2
<1>3. g = [i \in 0 .. n |-> Next(g, i)]
  BY <1>2
<1>4. PrefixSum(num) = [i \in 0 .. n |-> Next(PrefixSum(num), i)]
  BY <1>3 DEF PrefixSum
<1>5. \A i \in 0 .. n : PrefixSum(num)[i] = Next(PrefixSum(num), i)
  BY <1>4
<1> DEFINE Odd == {k \in 0 .. n : PrefixSum(num)[k] \notin Nat}
<1>6. Odd = {}
  <2> SUFFICES ASSUME Odd # {} PROVE FALSE
    OBVIOUS
  <2>1. PICK m \in Odd : \A k \in Odd : m <= k
    <3>1. Odd \in SUBSET Nat
      BY <1>0
    <3> HIDE DEF Odd
    <3>2. QED
      BY <3>1, LeastNat
  <2>2. m # 0 /\ m \in 0 .. n /\ PrefixSum(num)[m] \notin Nat
    BY <1>5, <2>1
  <2>3. m - 1 \in 0 .. n /\ ~ (m <= m - 1)
    BY <1>0, <2>2
  <2>4. PrefixSum(num)[m - 1] \in Nat
    BY <2>1, <2>3
  <2>5. PrefixSum(num)[m] = PrefixSum(num)[m - 1] + num[m]
    BY <1>5, <2>2
  <2>6. QED
    BY <1>0, <2>2, <2>4, <2>5
<1>7. \A i \in 0 .. n : PrefixSum(num)[i] \in Nat
  BY <1>6
<1>8. PrefixSum(num) \in [0 .. n -> Nat]
  BY <1>4, <1>7
<1>9. QED
  BY <1>0, <1>5, <1>8

\* A sum of natural numbers is one.
LEMMA TotalType ==
    ASSUME NEW num \in Seq(Nat)
    PROVE  Total(num) \in Nat
BY PrefixSumStep DEF Total

(***************************************************************************)
(* A loop that runs first over a and then over b ends with the sum of what *)
(* the two loops end with.                                                 *)
(***************************************************************************)
LEMMA TotalConcat ==
    ASSUME NEW a \in Seq(Nat), NEW b \in Seq(Nat), NEW s \in Seq(Nat),
           Len(s) = Len(a) + Len(b),
           \A i \in 1 .. Len(a) : s[i] = a[i],
           \A i \in 1 .. Len(b) : s[Len(a) + i] = b[i]
    PROVE  Total(s) = Total(a) + Total(b)
<1> DEFINE m == Len(a)
           n == Len(b)
           A == PrefixSum(a)
           B == PrefixSum(b)
           S == PrefixSum(s)
<1>0. m \in Nat /\ n \in Nat /\ Len(s) = m + n
  OBVIOUS
<1>1. /\ \A i \in 0 .. m : A[i] \in Nat
      /\ A[0] = 0
      /\ \A i \in 1 .. m : A[i] = A[i - 1] + a[i]
  BY PrefixSumStep
<1>2. /\ \A i \in 0 .. n : B[i] \in Nat
      /\ B[0] = 0
      /\ \A i \in 1 .. n : B[i] = B[i - 1] + b[i]
  BY PrefixSumStep
<1>3. /\ S[0] = 0
      /\ \A i \in 1 .. m + n : S[i] = S[i - 1] + s[i]
  BY <1>0, PrefixSumStep
<1>4. /\ \A i \in 1 .. m : s[i] = a[i]
      /\ \A i \in 1 .. n : s[m + i] = b[i]
      /\ \A i \in 1 .. n : b[i] \in Nat
  OBVIOUS
<1> HIDE DEF m, n, A, B, S
<1>5. \A i \in 0 .. m : S[i] = A[i]
  <2> DEFINE Bad == {i \in 0 .. m : S[i] # A[i]}
  <2> SUFFICES ASSUME Bad # {} PROVE FALSE
    OBVIOUS
  <2>1. PICK k \in Bad : \A i \in Bad : k <= i
    <3>1. Bad \in SUBSET Nat
      BY <1>0
    <3> HIDE DEF Bad
    <3>2. QED
      BY <3>1, LeastNat
  <2>2. k \in 1 .. m
    BY <1>0, <1>1, <1>3, <2>1
  <2>3. k - 1 \in 0 .. m /\ ~ (k <= k - 1)
    BY <1>0, <2>2
  <2>4. S[k - 1] = A[k - 1]
    BY <2>1, <2>3
  <2>5. S[k] = S[k - 1] + s[k]
    BY <1>0, <1>3, <2>2
  <2>6. QED
    BY <1>1, <1>4, <2>1, <2>2, <2>4, <2>5
<1>6. \A i \in 0 .. n : S[m + i] = A[m] + B[i]
  <2> DEFINE Bad == {i \in 0 .. n : S[m + i] # A[m] + B[i]}
  <2> SUFFICES ASSUME Bad # {} PROVE FALSE
    OBVIOUS
  <2>1. PICK k \in Bad : \A i \in Bad : k <= i
    <3>1. Bad \in SUBSET Nat
      BY <1>0
    <3> HIDE DEF Bad
    <3>2. QED
      BY <3>1, LeastNat
  <2>2. A[m] \in Nat /\ S[m] = A[m]
    BY <1>0, <1>1, <1>5
  <2>3. k \in 1 .. n
    BY <1>0, <1>2, <2>1, <2>2
  <2>4. k - 1 \in 0 .. n /\ ~ (k <= k - 1) /\ m + k \in 1 .. m + n
    BY <1>0, <2>3
  <2>5. S[m + (k - 1)] = A[m] + B[k - 1]
    BY <2>1, <2>4
  <2>6. S[m + k] = S[m + (k - 1)] + s[m + k]
    BY <1>0, <1>3, <2>3, <2>4
  <2>7. B[k] = B[k - 1] + b[k] /\ B[k - 1] \in Nat /\ b[k] \in Nat /\ s[m + k] = b[k]
    BY <1>2, <1>4, <2>3, <2>4
  <2>8. QED
    BY <2>1, <2>2, <2>5, <2>6, <2>7, SMTT(30)
<1>7. S[m + n] = A[m] + B[n]
  BY <1>0, <1>6
<1>8. QED
  BY <1>0, <1>7 DEF Total, m, n, A, B, S

(***************************************************************************)
(* Short loops: no round, one round, two rounds.                           *)
(***************************************************************************)
LEMMA TotalShort ==
    ASSUME NEW num \in Seq(Nat)
    PROVE  /\ Len(num) = 0 => Total(num) = 0
           /\ Len(num) = 1 => Total(num) = num[1]
           /\ Len(num) = 2 => Total(num) = num[1] + num[2]
<1> DEFINE S == PrefixSum(num)
<1>1. /\ S \in [0 .. Len(num) -> Nat] /\ S[0] = 0
      /\ \A i \in 1 .. Len(num) : S[i] = S[i - 1] + num[i]
  BY PrefixSumStep
<1>2. \A i \in 1 .. Len(num) : num[i] \in Nat
  OBVIOUS
<1> HIDE DEF S
<1>3. Len(num) = 1 => S[1] = num[1]
  BY <1>1, <1>2
<1>4. Len(num) = 2 => S[2] = num[1] + num[2]
  BY <1>1, <1>2
<1>5. QED
  BY <1>1, <1>3, <1>4 DEF Total, S

(***************************************************************************)
(* Changing one summand changes the sum by as much.                        *)
(***************************************************************************)
LEMMA TotalUpdate ==
    ASSUME NEW a \in Seq(Nat), NEW b \in Seq(Nat), Len(b) = Len(a),
           NEW k \in 1 .. Len(a),
           \A i \in 1 .. Len(a) : i # k => b[i] = a[i]
    PROVE  Total(b) + a[k] = Total(a) + b[k]
<1> DEFINE n == Len(a)
           A == PrefixSum(a)
           B == PrefixSum(b)
<1>0. n \in Nat /\ Len(b) = n /\ k \in 1 .. n
  OBVIOUS
<1>1. /\ \A i \in 0 .. n : A[i] \in Nat
      /\ A[0] = 0
      /\ \A i \in 1 .. n : A[i] = A[i - 1] + a[i]
  BY PrefixSumStep
<1>2. /\ \A i \in 0 .. n : B[i] \in Nat
      /\ B[0] = 0
      /\ \A i \in 1 .. n : B[i] = B[i - 1] + b[i]
  BY <1>0, PrefixSumStep
<1>3. /\ \A i \in 1 .. n : a[i] \in Nat /\ b[i] \in Nat
      /\ \A i \in 1 .. n : i # k => b[i] = a[i]
  BY <1>0
<1> HIDE DEF n, A, B
<1> DEFINE Same(i) == IF i < k THEN B[i] = A[i] ELSE B[i] + a[k] = A[i] + b[k]
           Bad == {i \in 0 .. n : ~ Same(i)}
<1>4. Bad = {}
  <2> SUFFICES ASSUME Bad # {} PROVE FALSE
    OBVIOUS
  <2>1. PICK m \in Bad : \A i \in Bad : m <= i
    <3>1. Bad \in SUBSET Nat
      BY <1>0
    <3> HIDE DEF Bad
    <3>2. QED
      BY <3>1, LeastNat
  <2>2. m \in 1 .. n
    BY <1>0, <1>1, <1>2, <2>1
  <2>3. m - 1 \in 0 .. n /\ ~ (m <= m - 1)
    BY <1>0, <2>2
  <2>4. Same(m - 1)
    BY <2>1, <2>3
  <2>5. A[m] = A[m - 1] + a[m] /\ B[m] = B[m - 1] + b[m]
    BY <1>1, <1>2, <2>2
  <2>6. A[m - 1] \in Nat /\ B[m - 1] \in Nat /\ a[m] \in Nat /\ b[m] \in Nat
    BY <1>1, <1>2, <1>3, <2>2, <2>3
  <2>7. a[k] \in Nat /\ b[k] \in Nat /\ (m # k => b[m] = a[m])
    BY <1>0, <1>3, <2>2
  <2>8. Same(m)
    <3>0. m \in Nat /\ k \in Nat
      BY <1>0, <2>2
    <3>1. CASE m < k
      <4>1. B[m - 1] = A[m - 1] /\ b[m] = a[m]
        BY <2>2, <2>4, <2>7, <3>0, <3>1
      <4>2. QED
        BY <2>5, <3>1, <4>1
    <3>2. CASE m = k
      <4>1. B[m - 1] = A[m - 1]
        BY <2>2, <2>4, <3>0, <3>2
      <4>2. B[m] + a[m] = A[m] + b[m]
        BY <2>5, <2>6, <4>1, SMTT(30)
      <4>3. QED
        BY <3>0, <3>2, <4>2
    <3>3. CASE m > k
      <4>1. B[m - 1] + a[k] = A[m - 1] + b[k] /\ b[m] = a[m]
        BY <2>2, <2>4, <2>7, <3>0, <3>3
      <4>2. (B[m - 1] + a[m]) + a[k] = (A[m - 1] + a[m]) + b[k]
        <5> DEFINE p == B[m - 1]
                   q == A[m - 1]
                   x == a[m]
                   c == a[k]
                   d == b[k]
        <5>1. p \in Nat /\ q \in Nat /\ x \in Nat /\ c \in Nat /\ d \in Nat /\ p + c = q + d
          BY <2>6, <2>7, <4>1
        <5> HIDE DEF p, q, x, c, d
        <5>2. (p + x) + c = (q + x) + d
          BY <5>1
        <5>3. QED
          BY <5>2 DEF p, q, x, c, d
      <4>3. A[m] = A[m - 1] + a[m] /\ B[m] = B[m - 1] + a[m]
        BY <2>5, <4>1, Zenon
      <4>4. B[m] + a[k] = A[m] + b[k]
        BY <4>2, <4>3, Zenon
      <4>5. QED
        BY <3>0, <3>3, <4>4
    <3>4. QED
      BY <3>0, <3>1, <3>2, <3>3
  <2>9. QED
    BY <2>1, <2>8
<1>5. Same(n)
  BY <1>0, <1>4
<1>6. B[n] + a[k] = A[n] + b[k]
  BY <1>0, <1>5
<1>7. QED
  BY <1>0, <1>6 DEF Total, n, A, B

(***************************************************************************)
(* No summand exceeds the sum.                                             *)
(***************************************************************************)
LEMMA TotalBounds ==
    ASSUME NEW a \in Seq(Nat), NEW k \in 1 .. Len(a)
    PROVE  a[k] <= Total(a)
<1> DEFINE b == [a EXCEPT ![k] = 0]
<1>1. b \in Seq(Nat) /\ Len(b) = Len(a) /\ b[k] = 0
  OBVIOUS
<1>2. \A i \in 1 .. Len(a) : i # k => b[i] = a[i]
  OBVIOUS
<1> HIDE DEF b
<1>3. Total(b) + a[k] = Total(a) + b[k]
  BY <1>1, <1>2, TotalUpdate
<1>4. Total(a) \in Nat /\ Total(b) \in Nat /\ a[k] \in Nat
  BY <1>1, TotalType
<1>5. QED
  BY <1>1, <1>3, <1>4

(***************************************************************************)
(* A loop that only adds zeros ends with zero.                             *)
(***************************************************************************)
LEMMA TotalZero ==
    ASSUME NEW a \in Seq(Nat), \A i \in 1 .. Len(a) : a[i] = 0
    PROVE  Total(a) = 0
<1> DEFINE n == Len(a)
           A == PrefixSum(a)
           Bad == {i \in 0 .. n : A[i] # 0}
<1>0. n \in Nat /\ \A i \in 1 .. n : a[i] = 0
  OBVIOUS
<1>1. A[0] = 0 /\ \A i \in 1 .. n : A[i] = A[i - 1] + a[i]
  BY PrefixSumStep
<1> HIDE DEF n, A
<1>2. Bad = {}
  <2> SUFFICES ASSUME Bad # {} PROVE FALSE
    OBVIOUS
  <2>1. PICK m \in Bad : \A i \in Bad : m <= i
    <3>1. Bad \in SUBSET Nat
      BY <1>0
    <3> HIDE DEF Bad
    <3>2. QED
      BY <3>1, LeastNat
  <2>2. m \in 1 .. n
    BY <1>0, <1>1, <2>1
  <2>3. m - 1 \in 0 .. n /\ ~ (m <= m - 1)
    BY <1>0, <2>2
  <2>4. A[m - 1] = 0 /\ A[m] = A[m - 1] + a[m] /\ a[m] = 0
    BY <1>0, <1>1, <2>1, <2>2, <2>3
  <2>5. QED
    BY <2>1, <2>4
<1>3. QED
  BY <1>0, <1>2 DEF Total, n, A
(***************************************************************************)
(* The running totals only look back: a longer loop has those of a loop    *)
(* over its first summands.                                                *)
(***************************************************************************)
LEMMA PrefixAgree ==
    ASSUME NEW a \in Seq(Nat), NEW b \in Seq(Nat), Len(a) <= Len(b),
           \A i \in 1 .. Len(a) : a[i] = b[i]
    PROVE  \A i \in 0 .. Len(a) : PrefixSum(b)[i] = PrefixSum(a)[i]
<1> DEFINE n == Len(a)
           A == PrefixSum(a)
           B == PrefixSum(b)
           Good == {i \in 0 .. n : B[i] = A[i]}
<1>0. n \in Nat /\ n <= Len(b) /\ Len(b) \in Nat /\ \A i \in 1 .. n : a[i] = b[i]
  OBVIOUS
<1>1. A[0] = 0 /\ \A i \in 1 .. n : A[i] = A[i - 1] + a[i]
  BY PrefixSumStep
<1>2. B[0] = 0 /\ \A i \in 1 .. Len(b) : B[i] = B[i - 1] + b[i]
  BY PrefixSumStep
<1> HIDE DEF n, A, B
<1>3. 0 \in Good
  BY <1>0, <1>1, <1>2
<1>4. \A i \in 1 .. n : i - 1 \in Good => i \in Good
  <2> SUFFICES ASSUME NEW i \in 1 .. n, i - 1 \in Good PROVE i \in Good
    OBVIOUS
  <2>1. i \in 1 .. Len(b) /\ i \in 0 .. n /\ B[i - 1] = A[i - 1]
    BY <1>0
  <2>2. B[i] = A[i]
    BY <1>0, <1>1, <1>2, <2>1
  <2>3. QED
    BY <2>1, <2>2
<1> HIDE DEF Good
<1>5. \A i \in 0 .. n : i \in Good
  BY <1>0, <1>3, <1>4, UpTo
<1>6. QED
  BY <1>5 DEF Good, n, A, B

(***************************************************************************)
(* One more summand: what a sequence that grew by one element adds up to.  *)
(***************************************************************************)
LEMMA TotalAppend ==
    ASSUME NEW a \in Seq(Nat), NEW b \in Seq(Nat), Len(b) = Len(a) + 1,
           \A i \in 1 .. Len(a) : b[i] = a[i]
    PROVE  Total(b) = Total(a) + b[Len(b)]
<1> DEFINE n == Len(a)
<1>1. n \in Nat /\ n + 1 \in 1 .. Len(b) /\ n \in 0 .. n /\ (n + 1) - 1 = n
  OBVIOUS
<1>2. \A i \in 0 .. n : PrefixSum(b)[i] = PrefixSum(a)[i]
  BY PrefixAgree
<1>3. \A i \in 1 .. Len(b) : PrefixSum(b)[i] = PrefixSum(b)[i - 1] + b[i]
  BY PrefixSumStep
<1>4. PrefixSum(b)[n + 1] = PrefixSum(b)[n] + b[n + 1]
  BY <1>1, <1>3
<1>5. QED
  BY <1>1, <1>2, <1>4 DEF Total

(***************************************************************************)
(* Larger summands, larger sum.                                            *)
(***************************************************************************)
LEMMA TotalMono ==
    ASSUME NEW a \in Seq(Nat), NEW b \in Seq(Nat), Len(b) = Len(a),
           \A i \in 1 .. Len(a) : a[i] <= b[i]
    PROVE  Total(a) <= Total(b)
<1> DEFINE n == Len(a)
           A == PrefixSum(a)
           B == PrefixSum(b)
           Good == {i \in 0 .. n : A[i] <= B[i]}
<1>0. \A i \in 1 .. n : a[i] \in Nat /\ b[i] \in Nat /\ a[i] <= b[i]
  OBVIOUS
<1>1. n \in Nat /\ n \in 0 .. n
  OBVIOUS
<1>2. A \in [0 .. n -> Nat] /\ A[0] = 0 /\ \A i \in 1 .. n : A[i] = A[i - 1] + a[i]
  BY PrefixSumStep
<1>3. B \in [0 .. n -> Nat] /\ B[0] = 0 /\ \A i \in 1 .. n : B[i] = B[i - 1] + b[i]
  BY PrefixSumStep
<1> HIDE DEF A, B
<1>4. 0 \in Good
  BY <1>1, <1>2, <1>3
<1>5. \A i \in 1 .. n : i - 1 \in Good => i \in Good
  <2> SUFFICES ASSUME NEW i \in 1 .. n, A[i - 1] <= B[i - 1] PROVE A[i] <= B[i] /\ i \in 0 .. n
    OBVIOUS
  <2>1. i - 1 \in 0 .. n /\ i \in 0 .. n
    OBVIOUS
  <2>2. A[i - 1] \in Nat /\ B[i - 1] \in Nat /\ a[i] \in Nat /\ b[i] \in Nat /\ a[i] <= b[i]
    BY <1>0, <1>2, <1>3, <2>1
  <2>3. A[i] = A[i - 1] + a[i] /\ B[i] = B[i - 1] + b[i]
    BY <1>2, <1>3
  <2>4. QED
    BY <2>1, <2>2, <2>3
<1> HIDE DEF Good
<1>6. \A i \in 0 .. n : i \in Good
  BY <1>1, <1>4, <1>5, UpTo
<1>7. QED
  BY <1>1, <1>6 DEF Total, A, B, Good

-----------------------------------------------------------------------------
(***************************************************************************)
(* InOrder lists exactly the members of S among 1 .. n, each once, every   *)
(* one greater than those before it.                                       *)
(***************************************************************************)
Ascends(s) == \A i, j \in DOMAIN s : i < j => s[i] < s[j]
Lists(s, S, n) ==
    /\ s \in Seq(S \cap 1 .. n) /\ Ascends(s)
    /\ \A x \in S \cap 1 .. n : \E i \in DOMAIN s : s[i] = x

\* InOrder lists the numbers of S up to n, each once and in order.
LEMMA InOrderLists ==
    ASSUME NEW S, NEW n \in Nat
    PROVE  Lists(InOrder(S, n), S, n)
<1> DEFINE Next(g, i) ==
             IF i = 0 THEN <<>> ELSE IF i \in S THEN Append(g[i - 1], i) ELSE g[i - 1]
           Rows(k) == {g \in [0 .. k -> Seq(Nat)] :
                         \A i \in 0 .. k : g[i] = Next(g, i) /\ Lists(g[i], S, i)}
           Good == {k \in 0 .. n : Rows(k) # {}}
<1>1. 0 \in Good
  <2>1. Lists(<<>>, S, 0)
    BY DEF Lists, Ascends
  <2>2. [i \in 0 .. 0 |-> <<>>] \in Rows(0)
    <3>1. <<>> \in Seq(Nat)
      OBVIOUS
    <3>2. QED
      BY <2>1, <3>1
  <2>3. QED
    BY <2>2
<1>2. \A m \in 1 .. n : m - 1 \in Good => m \in Good
  <2> SUFFICES ASSUME NEW m \in 1 .. n, m - 1 \in Good PROVE m \in Good
    OBVIOUS
  <2>1. m - 1 \in 0 .. (m - 1) /\ m \in Nat /\ m \in 0 .. m
    OBVIOUS
  <2>2. PICK g \in [0 .. (m - 1) -> Seq(Nat)] :
           \A i \in 0 .. (m - 1) : g[i] = Next(g, i) /\ Lists(g[i], S, i)
    OBVIOUS
  <2> DEFINE last == g[m - 1]
             new == IF m \in S THEN Append(last, m) ELSE last
             h == [i \in 0 .. m |-> IF i = m THEN new ELSE g[i]]
  <2>3. last \in Seq(Nat) /\ Lists(last, S, m - 1)
    BY <2>1, <2>2
  <2> HIDE DEF last
  <2>4. last \in Seq(S \cap 1 .. (m - 1)) /\ Len(last) \in Nat /\ DOMAIN last = 1 .. Len(last)
    BY <2>3 DEF Lists
  <2>5. \A i \in DOMAIN last : last[i] \in S /\ last[i] \in 1 .. (m - 1)
    BY <2>4
  <2>6. new \in Seq(Nat) /\ Lists(new, S, m)
    <3>1. CASE m \in S
      <4>1. /\ Len(new) = Len(last) + 1 /\ DOMAIN new = 1 .. (Len(last) + 1)
            /\ new[Len(last) + 1] = m /\ \A i \in DOMAIN last : new[i] = last[i]
            /\ new \in Seq(Nat)
        BY <2>1, <2>3, <2>4, <3>1
      <4>2. \A i \in DOMAIN new : i \in DOMAIN last \/ i = Len(last) + 1
        BY <2>4, <4>1
      <4> HIDE DEF new
      <4>3. \A i \in DOMAIN new : new[i] \in S \cap 1 .. m
        <5> SUFFICES ASSUME NEW i \in DOMAIN new PROVE new[i] \in S \cap 1 .. m
          OBVIOUS
        <5>1. CASE i \in DOMAIN last
          <6>1. new[i] = last[i] /\ last[i] \in S /\ last[i] \in 1 .. (m - 1)
            BY <2>5, <4>1, <5>1
          <6>2. QED
            BY <2>1, <6>1
        <5>2. CASE i = Len(last) + 1
          <6>1. new[i] = m /\ m \in 1 .. m
            BY <2>1, <4>1, <5>2
          <6>2. QED
            BY <3>1, <6>1
        <5>3. QED
          BY <4>2, <5>1, <5>2
      <4>4. new \in Seq(S \cap 1 .. m)
        <5>1. new = [i \in 1 .. Len(new) |-> new[i]] /\ Len(new) \in Nat
          BY <4>1
        <5> DEFINE R == S \cap 1 .. m
        <5>2. \A i \in 1 .. Len(new) : new[i] \in R
          BY <4>1, <4>3
        <5> HIDE DEF R
        <5>3. [i \in 1 .. Len(new) |-> new[i]] \in Seq(R)
          BY <5>1, <5>2
        <5>4. new \in Seq(R)
          BY <5>1, <5>3
        <5>5. QED
          BY <5>4 DEF R
      <4>5. Ascends(new)
        <5> SUFFICES ASSUME NEW i \in DOMAIN new, NEW j \in DOMAIN new, i < j
                     PROVE  new[i] < new[j]
          BY DEF Ascends
        <5>1. i \in DOMAIN last
          BY <2>4, <4>1, <4>2
        <5>2. CASE j \in DOMAIN last
          BY <2>3, <4>1, <5>1, <5>2 DEF Lists, Ascends
        <5>3. CASE j = Len(last) + 1
          BY <2>1, <2>5, <4>1, <5>1, <5>3
        <5>4. QED
          BY <4>2, <5>2, <5>3
      <4>6. \A x \in S \cap 1 .. m : \E i \in DOMAIN new : new[i] = x
        <5> SUFFICES ASSUME NEW x \in S \cap 1 .. m PROVE \E i \in DOMAIN new : new[i] = x
          OBVIOUS
        <5>1. CASE x = m
          <6>1. Len(last) + 1 \in DOMAIN new
            BY <2>4, <4>1
          <6>2. QED
            BY <4>1, <5>1, <6>1
        <5>2. CASE x # m
          <6>1. x \in S \cap 1 .. (m - 1)
            BY <5>2
          <6>2. PICK i \in DOMAIN last : last[i] = x
            BY <2>3, <6>1 DEF Lists
          <6>3. i \in DOMAIN new
            BY <2>4, <4>1
          <6>4. QED
            BY <4>1, <6>2, <6>3
        <5>3. QED
          BY <5>1, <5>2
      <4>7. QED
        BY <4>1, <4>4, <4>5, <4>6 DEF Lists
    <3>2. CASE m \notin S
      <4>1. S \cap 1 .. m = S \cap 1 .. (m - 1)
        BY <3>2
      <4>2. QED
        BY <2>3, <3>2, <4>1 DEF Lists
    <3>3. QED
      BY <3>1, <3>2
  <2> HIDE DEF new
  <2>7. h \in [0 .. m -> Seq(Nat)]
    BY <2>2, <2>6
  <2>8. ASSUME NEW i \in 0 .. m PROVE h[i] = Next(h, i) /\ Lists(h[i], S, i)
    <3>1. CASE i = m
      BY <2>1, <2>6, <3>1 DEF new, last
    <3>2. CASE i # m
      <4>1. i \in 0 .. (m - 1) /\ (i # 0 => i - 1 \in 0 .. (m - 1) /\ i - 1 \in 0 .. m /\ i - 1 # m)
        BY <3>2
      <4>2. h[i] = g[i] /\ (i # 0 => h[i - 1] = g[i - 1])
        BY <3>2, <4>1
      <4>3. g[i] = Next(g, i) /\ Lists(g[i], S, i)
        BY <2>2, <4>1
      <4> HIDE DEF h
      <4>4. QED
        BY <4>2, <4>3
    <3>3. QED
      BY <3>1, <3>2
  <2>9. h \in Rows(m)
    BY <2>7, <2>8
  <2>10. m \in 0 .. n
    OBVIOUS
  <2> HIDE DEF Rows, h
  <2>11. Rows(m) # {}
    BY <2>9
  <2>12. QED
    BY <2>10, <2>11
<1> HIDE DEF Good
<1>3. \A i \in 0 .. n : i \in Good
  BY <1>1, <1>2, UpTo
<1>4. PICK g \in [0 .. n -> Seq(Nat)] :
         \A i \in 0 .. n : g[i] = Next(g, i) /\ Lists(g[i], S, i)
  <2>1. n \in Good
    BY <1>3
  <2>2. QED
    BY <2>1 DEF Good
<1>5. g = [i \in 0 .. n |-> Next(g, i)]
  BY <1>4
<1> DEFINE f == CHOOSE g2 : g2 = [i \in 0 .. n |-> Next(g2, i)]
<1>6. f = [i \in 0 .. n |-> Next(f, i)]
  BY <1>5
<1>7. \A i \in 0 .. n : f[i] = g[i]
  <2> DEFINE Same == {i \in 0 .. n : f[i] = g[i]}
  <2> HIDE DEF f
  <2>1. \A i \in 0 .. n : f[i] = Next(f, i) /\ g[i] = Next(g, i)
    BY <1>4, <1>6
  <2>2. 0 \in Same
    BY <2>1
  <2>3. \A i \in 1 .. n : i - 1 \in Same => i \in Same
    <3> SUFFICES ASSUME NEW i \in 1 .. n, f[i - 1] = g[i - 1] PROVE i \in 0 .. n /\ f[i] = g[i]
      OBVIOUS
    <3>1. i \in 0 .. n /\ i # 0
      OBVIOUS
    <3>2. QED
      BY <2>1, <3>1
  <2> HIDE DEF Same
  <2>4. \A i \in 0 .. n : i \in Same
    BY <2>2, <2>3, UpTo
  <2>5. QED
    BY <2>4 DEF Same
<1>8. InOrder(S, n) = f[n]
  BY DEF InOrder
<1>9. n \in 0 .. n
  OBVIOUS
<1> HIDE DEF f
<1>10. Lists(g[n], S, n) /\ f[n] = g[n]
  BY <1>4, <1>7, <1>9
<1>11. QED
  BY <1>8, <1>10

-----------------------------------------------------------------------------
(***************************************************************************)
(* PrefixJoin is the loop its definition describes: the empty list before  *)
(* the first round, then one more part appended per round.                 *)
(***************************************************************************)
LEMMA PrefixJoinStep ==
    ASSUME NEW R, NEW parts \in Seq(Seq(R))
    PROVE  /\ PrefixJoin(parts) \in [0 .. Len(parts) -> Seq(R)]
           /\ PrefixJoin(parts)[0] = << >>
           /\ \A i \in 1 .. Len(parts) :
                PrefixJoin(parts)[i] = PrefixJoin(parts)[i - 1] \o parts[i]
<1> DEFINE n == Len(parts)
           L == Seq(R)
           Next(g, i) == IF i = 0 THEN << >> ELSE g[i - 1] \o parts[i]
           Joins(k) == {g \in [0 .. k -> L] : \A i \in 0 .. k : g[i] = Next(g, i)}
           Good == {k \in 0 .. n : Joins(k) # {}}
<1>1. n \in Nat /\ (\A i \in 1 .. n : parts[i] \in L) /\ << >> \in L
  OBVIOUS
<1>2. \A x, y \in L : x \o y \in L
  OBVIOUS
<1> HIDE DEF L
<1>3. 0 \in Good
  <2>1. [i \in 0 .. 0 |-> << >>] \in Joins(0)
    BY <1>1
  <2>2. QED
    BY <1>1, <2>1
<1>4. \A m \in 1 .. n : m - 1 \in Good => m \in Good
  <2> SUFFICES ASSUME NEW m \in 1 .. n, m - 1 \in Good PROVE m \in Good
    OBVIOUS
  <2>1. m \in Nat /\ m # 0 /\ m \in 0 .. n /\ m - 1 \in 0 .. (m - 1)
    BY <1>1
  <2>2. PICK g \in [0 .. (m - 1) -> L] : \A i \in 0 .. (m - 1) : g[i] = Next(g, i)
    OBVIOUS
  <2> DEFINE new == g[m - 1] \o parts[m]
             h == [i \in 0 .. m |-> IF i = m THEN new ELSE g[i]]
  <2>3. new \in L
    BY <1>1, <1>2, <2>1, <2>2
  <2> HIDE DEF new
  <2>4. h \in [0 .. m -> L]
    BY <2>1, <2>2, <2>3
  <2>5. ASSUME NEW i \in 0 .. m PROVE h[i] = Next(h, i)
    <3>1. CASE i = m
      <4>1. h[m - 1] = g[m - 1] /\ h[m] = new
        BY <2>1
      <4>2. QED
        BY <2>1, <3>1, <4>1 DEF new
    <3>2. CASE i # m
      <4>1. i \in 0 .. (m - 1) /\ (i # 0 => i - 1 \in 0 .. m /\ i - 1 # m)
        BY <2>1, <3>2
      <4>2. h[i] = g[i] /\ (i # 0 => h[i - 1] = g[i - 1])
        BY <2>1, <3>2, <4>1
      <4>3. QED
        BY <2>2, <4>1, <4>2
    <3>3. QED
      BY <3>1, <3>2
  <2>6. h \in Joins(m)
    BY <2>4, <2>5
  <2>7. QED
    BY <2>1, <2>6
<1>5. PICK g \in [0 .. n -> L] : \A i \in 0 .. n : g[i] = Next(g, i)
  <2> HIDE DEF Good
  <2>1. \A k \in 0 .. n : k \in Good
    BY <1>1, <1>3, <1>4, UpTo
  <2>2. n \in Good
    BY <1>1, <2>1
  <2>3. QED
    BY <2>2 DEF Good
<1>6. g = [i \in 0 .. n |-> Next(g, i)]
  BY <1>5
<1>7. PrefixJoin(parts) = [i \in 0 .. n |-> Next(PrefixJoin(parts), i)]
  BY <1>6 DEF PrefixJoin
<1> DEFINE J == PrefixJoin(parts)
<1>8. J[0] = << >> /\ \A i \in 1 .. n : J[i] = J[i - 1] \o parts[i]
  <2>1. \A i \in 0 .. n : J[i] = Next(J, i)
    BY <1>7
  <2>2. 0 \in 0 .. n /\ \A i \in 1 .. n : i \in 0 .. n /\ i # 0
    BY <1>1
  <2> HIDE DEF J, n
  <2>3. QED
    BY <2>1, <2>2
<1>9. \A i \in 0 .. n : J[i] \in L
  <2> DEFINE Typed == {i \in 0 .. n : J[i] \in L}
  <2>1. 0 \in Typed
    BY <1>1, <1>8
  <2>2. \A i \in 1 .. n : i - 1 \in Typed => i \in Typed
    <3> SUFFICES ASSUME NEW i \in 1 .. n, i - 1 \in Typed PROVE i \in Typed
      OBVIOUS
    <3> HIDE DEF J
    <3>1. i \in 0 .. n /\ J[i - 1] \in L /\ parts[i] \in L
      BY <1>1
    <3>2. J[i - 1] \o parts[i] \in L
      BY <1>2, <3>1
    <3>3. QED
      BY <1>8, <3>1, <3>2
  <2> HIDE DEF Typed
  <2>3. \A i \in 0 .. n : i \in Typed
    BY <1>1, <2>1, <2>2, UpTo
  <2>4. QED
    BY <2>3 DEF Typed
<1>10. J \in [0 .. n -> L]
  BY <1>7, <1>9
<1>11. QED
  BY <1>8, <1>10 DEF L

\* Joined lists are a list of the same elements.
LEMMA JoinedType ==
    ASSUME NEW R, NEW parts \in Seq(Seq(R))
    PROVE  Joined(parts) \in Seq(R) /\ (Len(parts) = 0 => Joined(parts) = << >>)
<1>1. Len(parts) \in 0 .. Len(parts)
  OBVIOUS
<1>2. QED
  BY <1>1, PrefixJoinStep DEF Joined

(***************************************************************************)
(* One more part: what the join of a sequence that grew by one element is. *)
(***************************************************************************)
LEMMA JoinedAppend ==
    ASSUME NEW R, NEW a \in Seq(Seq(R)), NEW b \in Seq(Seq(R)), Len(b) = Len(a) + 1,
           \A i \in 1 .. Len(a) : b[i] = a[i]
    PROVE  Joined(b) = Joined(a) \o b[Len(b)]
<1> DEFINE n == Len(a)
           A == PrefixJoin(a)
           B == PrefixJoin(b)
           Good == {i \in 0 .. n : B[i] = A[i]}
<1>1. n \in Nat /\ Len(b) = n + 1 /\ \A i \in 1 .. n : b[i] = a[i]
  <2>1. n \in Nat
    OBVIOUS
  <2>2. QED
    BY <2>1
<1>2. A[0] = << >> /\ \A i \in 1 .. n : A[i] = A[i - 1] \o a[i]
  BY PrefixJoinStep
<1>3. B[0] = << >> /\ \A i \in 1 .. n + 1 : B[i] = B[i - 1] \o b[i]
  BY <1>1, PrefixJoinStep
<1>4. Joined(a) = A[n] /\ Joined(b) = B[n + 1]
  BY <1>1 DEF Joined
<1> HIDE DEF n, A, B
<1>5. 0 \in Good
  BY <1>1, <1>2, <1>3
<1>6. \A i \in 1 .. n : i - 1 \in Good => i \in Good
  <2> SUFFICES ASSUME NEW i \in 1 .. n, i - 1 \in Good PROVE i \in Good
    OBVIOUS
  <2>1. i \in 1 .. n + 1 /\ i \in 0 .. n /\ B[i - 1] = A[i - 1]
    BY <1>1
  <2>2. B[i] = A[i]
    BY <1>1, <1>2, <1>3, <2>1
  <2>3. QED
    BY <2>1, <2>2
<1> HIDE DEF Good
<1>7. B[n] = A[n]
  <2>1. \A i \in 0 .. n : i \in Good
    BY <1>1, <1>5, <1>6, UpTo
  <2>2. n \in 0 .. n
    BY <1>1
  <2>3. QED
    BY <2>1, <2>2 DEF Good
<1>8. n + 1 \in 1 .. n + 1 /\ (n + 1) - 1 = n
  BY <1>1
<1>9. QED
  BY <1>1, <1>3, <1>4, <1>7, <1>8
=============================================================================
