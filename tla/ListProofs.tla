------------------------------ MODULE ListProofs ------------------------------
(***************************************************************************)
(* What Without returns, and least numbers.                                *)
(***************************************************************************)
EXTENDS Lists, SequencesExt, WellFoundedInduction, FiniteSetTheorems, TLAPS

\* A set of numbers that is not empty has a least one.
LEMMA LeastNat ==
  ASSUME NEW T \in SUBSET Nat, T # {}
  PROVE  \E n \in T : \A m \in T : n <= m
<1> DEFINE R == OpToRel(<, Nat)
<1>1. \A x, y \in Nat : y < x => <<y, x>> \in R
  BY DEF OpToRel
<1>2. IsWellFoundedOn(R, Nat)
  BY NatLessThanWellFounded
<1> HIDE DEF R
<1>3. T \subseteq Nat
  OBVIOUS
<1>4. \E x \in T : \A y \in T : ~(<<y, x>> \in R)
  BY <1>2, <1>3, WFMin, Zenon
<1>5. PICK x \in T : \A y \in T : ~(<<y, x>> \in R)
  BY <1>4
<1>6. ASSUME NEW y \in T PROVE x <= y
  <2>1. ~(y < x) /\ x \in Nat /\ y \in Nat
    BY <1>1, <1>3, <1>5, Zenon
  <2> QED BY <2>1
<1> QED BY <1>6

\* What holds of 0, and of n + 1 when it holds of n, holds of every number up to a bound.
LEMMA NatSetInduction ==
  ASSUME NEW n \in Nat, NEW T, 0 \in T, \A k \in 0 .. n : k < n /\ k \in T => k + 1 \in T
  PROVE  0 .. n \subseteq T
<1> DEFINE U == { k \in 0 .. n : k \notin T }
<1>1. SUFFICES ASSUME U # {} PROVE FALSE
  OBVIOUS
<1>2. U \in SUBSET Nat
  OBVIOUS
<1>3. PICK k \in U : \A m \in U : k <= m
  <2> HIDE DEF U
  <2> QED BY <1>1, <1>2, LeastNat
<1>4. k # 0 /\ k \in 0 .. n
  OBVIOUS
<1>5. k - 1 \in 0 .. n /\ k - 1 \notin U
  BY <1>3, <1>4
<1>6. k - 1 \in T /\ k - 1 < n
  BY <1>4, <1>5
<1> QED BY <1>4, <1>5, <1>6

\* An element more.
LEMMA AppendToSet ==
  ASSUME NEW X, NEW list \in Seq(X), NEW x \in X
  PROVE  /\ Append(list, x) \in Seq(X)
         /\ Len(Append(list, x)) = Len(list) + 1
         /\ ToSet(Append(list, x)) = ToSet(list) \cup {x}
<1>1. /\ Append(list, x) \in Seq(X) /\ Len(Append(list, x)) = Len(list) + 1
      /\ \A i \in 1 .. Len(list) : Append(list, x)[i] = list[i]
      /\ Append(list, x)[Len(list) + 1] = x /\ Len(list) \in Nat
  OBVIOUS
<1>2. DOMAIN list = 1 .. Len(list) /\ DOMAIN Append(list, x) = 1 .. Len(list) + 1
  OBVIOUS
<1> DEFINE more == Append(list, x)
<1> HIDE DEF more
<1>3. ToSet(more) = ToSet(list) \cup {x}
  BY <1>1, <1>2 DEF ToSet, more
<1> QED BY <1>1, <1>3 DEF more

\* One step of the list that is left.
Step(list, S, f, n) ==
  [i \in 0 .. n |-> IF i = 0 THEN <<>>
                    ELSE IF list[i] \in S THEN f[i - 1] ELSE Append(f[i - 1], list[i])]

\* The recursion defines a function.
LEMMA WithoutDefined ==
  ASSUME NEW X, NEW list \in Seq(X), NEW S
  PROVE  \E f : f = Step(list, S, f, Len(list))
<1> DEFINE T == { n \in 0 .. Len(list) : \E f : f = Step(list, S, f, n) }
<1>1. 0 \in T
  <2>1. [i \in 0 .. 0 |-> <<>>] = Step(list, S, [i \in 0 .. 0 |-> <<>>], 0)
    BY DEF Step
  <2> QED BY <2>1
<1>2. ASSUME NEW n \in 0 .. Len(list), n < Len(list), n \in T PROVE n + 1 \in T
  <2>1. PICK f : f = Step(list, S, f, n)
    BY <1>2
  <2> DEFINE g == [i \in 0 .. n + 1 |-> IF i <= n THEN f[i]
                     ELSE IF list[i] \in S THEN f[n] ELSE Append(f[n], list[i])]
  <2>2. \A i \in 0 .. n : f[i] = IF i = 0 THEN <<>>
                   ELSE IF list[i] \in S THEN f[i - 1] ELSE Append(f[i - 1], list[i])
    BY <2>1 DEF Step
  <2>3. \A i \in 0 .. n : g[i] = f[i]
    OBVIOUS
  <2>4. g[n + 1] = IF list[n + 1] \in S THEN f[n] ELSE Append(f[n], list[n + 1])
    OBVIOUS
  <2> DEFINE h == Step(list, S, g, n + 1)
  <2>5. h = [i \in 0 .. n + 1 |-> IF i = 0 THEN <<>>
                   ELSE IF list[i] \in S THEN g[i - 1] ELSE Append(g[i - 1], list[i])]
    BY DEF Step
  <2>6. ASSUME NEW i \in 0 .. n + 1 PROVE g[i] = h[i]
    <3> HIDE DEF g, h
    <3>1. CASE i = n + 1
      <4>1. h[i] = IF list[i] \in S THEN g[i - 1] ELSE Append(g[i - 1], list[i])
        BY <2>5, <3>1
      <4> QED BY <4>1, <3>1, <2>3, <2>4
    <3>2. CASE i = 0
      BY <2>5, <2>3, <2>2, <3>2
    <3>3. CASE i \in 1 .. n
      <4>1. h[i] = IF list[i] \in S THEN g[i - 1] ELSE Append(g[i - 1], list[i])
        BY <2>5, <3>3
      <4>2. g[i] = f[i] /\ g[i - 1] = f[i - 1]
        BY <2>3, <3>3
      <4>3. f[i] = IF list[i] \in S THEN f[i - 1] ELSE Append(f[i - 1], list[i])
        BY <2>2, <3>3
      <4> QED BY <4>1, <4>2, <4>3
    <3> QED BY <3>1, <3>2, <3>3
  <2>7. g = h
    <3>1. g = [i \in 0 .. n + 1 |-> g[i]] /\ h = [i \in 0 .. n + 1 |-> h[i]]
      BY <2>5
    <3> HIDE DEF g, h
    <3> QED BY <2>6, <3>1, Zenon
  <2>8. n + 1 \in 0 .. Len(list)
    BY <1>2
  <2> HIDE DEF g
  <2> QED BY <2>7, <2>8
<1>3. Len(list) \in Nat
  OBVIOUS
<1>4. 0 .. Len(list) \subseteq T
  <2> HIDE DEF T
  <2> QED BY <1>1, <1>2, <1>3, NatSetInduction
<1> QED BY <1>3, <1>4

\* The list that is left after each step.
LEMMA WithoutSteps ==
  ASSUME NEW X, NEW list \in Seq(X), NEW S
  PROVE  \E f : /\ Without(list, S) = f[Len(list)]
                /\ f[0] = <<>>
                /\ \A i \in 1 .. Len(list) :
                     f[i] = IF list[i] \in S THEN f[i - 1] ELSE Append(f[i - 1], list[i])
<1> DEFINE f == CHOOSE f : f = Step(list, S, f, Len(list))
<1>1. Without(list, S) = f[Len(list)]
  BY Zenon DEF Without, Step
<1>2. f = Step(list, S, f, Len(list))
  BY WithoutDefined, Zenon
<1> HIDE DEF f
<1>3. /\ f[0] = <<>>
      /\ \A i \in 1 .. Len(list) :
           f[i] = IF list[i] \in S THEN f[i - 1] ELSE Append(f[i - 1], list[i])
  <2>1. \A i \in 0 .. Len(list) :
          f[i] = IF i = 0 THEN <<>>
                 ELSE IF list[i] \in S THEN f[i - 1] ELSE Append(f[i - 1], list[i])
    BY <1>2, Zenon DEF Step
  <2>2. Len(list) \in Nat
    OBVIOUS
  <2>3. 0 \in 0 .. Len(list) /\ \A i \in 1 .. Len(list) : i \in 0 .. Len(list) /\ i # 0
    BY <2>2
  <2> QED BY <2>1, <2>3, Zenon
<1> QED BY <1>1, <1>3

\* What is left: a list of what does not belong to S, no longer than before.
LEMMA WithoutProperties ==
  ASSUME NEW X, NEW list \in Seq(X), NEW S
  PROVE  /\ Without(list, S) \in Seq(X)
         /\ ToSet(Without(list, S)) = ToSet(list) \ S
         /\ Len(Without(list, S)) <= Len(list)
<1>1. PICK f : /\ Without(list, S) = f[Len(list)]
               /\ f[0] = <<>>
               /\ \A i \in 1 .. Len(list) :
                    f[i] = IF list[i] \in S THEN f[i - 1] ELSE Append(f[i - 1], list[i])
  BY WithoutSteps
<1>3. /\ f[0] = <<>>
      /\ \A i \in 1 .. Len(list) :
           f[i] = IF list[i] \in S THEN f[i - 1] ELSE Append(f[i - 1], list[i])
  BY <1>1, Zenon
<1> DEFINE Upto(i) == { list[j] : j \in 1 .. i }
           T == { i \in 0 .. Len(list) : /\ f[i] \in Seq(X) /\ Len(f[i]) <= i
                                         /\ ToSet(f[i]) = Upto(i) \ S }
<1>4. 0 \in T
  <2>1. Upto(0) = {} /\ ToSet(<<>>) = {}
    BY DEF ToSet
  <2>2. f[0] \in Seq(X) /\ Len(f[0]) <= 0 /\ 0 \in 0 .. Len(list)
    BY <1>3
  <2> QED BY <1>3, <2>1, <2>2
<1>5. ASSUME NEW i \in 0 .. Len(list), i < Len(list), i \in T PROVE i + 1 \in T
  <2>1. f[i] \in Seq(X) /\ Len(f[i]) <= i /\ ToSet(f[i]) = Upto(i) \ S
    BY <1>5
  <2>2. i + 1 \in 1 .. Len(list) /\ (i + 1) - 1 = i /\ list[i + 1] \in X
    BY <1>5
  <2>3. Upto(i + 1) = Upto(i) \cup {list[i + 1]}
    OBVIOUS
  <2> HIDE DEF Upto
  <2>4. f[i + 1] = IF list[i + 1] \in S THEN f[i] ELSE Append(f[i], list[i + 1])
    BY <1>3, <2>2
  <2>5. CASE list[i + 1] \in S
    <3>1. f[i + 1] = f[i]
      BY <2>4, <2>5
    <3>2. Upto(i + 1) \ S = Upto(i) \ S
      BY <2>3, <2>5
    <3>3. i + 1 \in 0 .. Len(list) /\ Len(f[i]) <= i + 1
      BY <2>1, <2>2
    <3> QED BY <2>1, <3>1, <3>2, <3>3
  <2>6. CASE list[i + 1] \notin S
    <3>1. f[i + 1] = Append(f[i], list[i + 1])
      BY <2>4, <2>6
    <3>2. Upto(i + 1) \ S = (Upto(i) \ S) \cup {list[i + 1]}
      BY <2>3, <2>6
    <3>3. /\ Append(f[i], list[i + 1]) \in Seq(X)
          /\ Len(Append(f[i], list[i + 1])) = Len(f[i]) + 1
          /\ ToSet(Append(f[i], list[i + 1])) = ToSet(f[i]) \cup {list[i + 1]}
      BY <2>1, <2>2, AppendToSet
    <3>4. i + 1 \in 0 .. Len(list) /\ Len(f[i]) + 1 <= i + 1
      BY <2>1, <2>2
    <3> QED BY <2>1, <3>1, <3>2, <3>3, <3>4
  <2> QED BY <2>5, <2>6
<1>6. Len(list) \in Nat
  OBVIOUS
<1>7. 0 .. Len(list) \subseteq T
  <2> HIDE DEF T
  <2> QED BY <1>4, <1>5, <1>6, NatSetInduction
<1>8. Len(list) \in T
  BY <1>6, <1>7
<1>9. Upto(Len(list)) = ToSet(list)
  BY DEF ToSet
<1> QED BY <1>1, <1>8, <1>9

\* A list has no more elements than places.
LEMMA ListCardinality ==
  ASSUME NEW X, NEW list \in Seq(X)
  PROVE  IsFiniteSet(ToSet(list)) /\ Cardinality(ToSet(list)) <= Len(list)
<1>1. /\ IsFiniteSet(1 .. Len(list)) /\ Cardinality(1 .. Len(list)) = Len(list)
  <2> DEFINE n == Len(list)
  <2>1. n \in Nat /\ n - 1 + 1 = n
    OBVIOUS
  <2> HIDE DEF n
  <2>2. IsFiniteSet(1 .. n) /\ Cardinality(1 .. n) = n
    BY <2>1, FS_Interval
  <2> QED BY <2>2 DEF n
<1> DEFINE f == [i \in 1 .. Len(list) |-> list[i]]
<1>2. f \in [1 .. Len(list) -> ToSet(list)]
  BY DEF ToSet
<1>3. \A y \in ToSet(list) : \E i \in 1 .. Len(list) : f[i] = y
  BY DEF ToSet
<1>4. f \in Surjection(1 .. Len(list), ToSet(list))
  BY <1>2, <1>3 DEF Surjection
<1> QED BY <1>1, <1>4, FS_Surjection

\* No element is in the list twice.
Distinct(list) == \A i, j \in 1 .. Len(list) : list[i] = list[j] => i = j

\* A new element more.
LEMMA AppendDistinct ==
  ASSUME NEW X, NEW list \in Seq(X), NEW x \in X, Distinct(list), x \notin ToSet(list)
  PROVE  Distinct(Append(list, x))
<1>1. /\ \A i \in 1 .. Len(list) : Append(list, x)[i] = list[i]
      /\ Append(list, x)[Len(list) + 1] = x /\ Len(list) \in Nat
      /\ Len(Append(list, x)) = Len(list) + 1 /\ DOMAIN list = 1 .. Len(list)
  OBVIOUS
<1> DEFINE more == Append(list, x)
<1> HIDE DEF more
<1>2. \A i \in 1 .. Len(list) : more[i] # x
  BY <1>1 DEF more, ToSet
<1>3. Distinct(more)
  BY <1>1, <1>2 DEF Distinct, more
<1> QED BY <1>3 DEF more

\* The first element and the others.
LEMMA TailDistinct ==
  ASSUME NEW X, NEW list \in Seq(X), Distinct(list), list # <<>>
  PROVE  /\ Head(list) \in X /\ Head(list) \in ToSet(list)
         /\ Tail(list) \in Seq(X) /\ Len(Tail(list)) = Len(list) - 1 /\ Distinct(Tail(list))
         /\ ToSet(Tail(list)) = ToSet(list) \ {Head(list)}
<1>1. /\ Len(list) \in Nat \ {0} /\ Head(list) = list[1] /\ Head(list) \in X
      /\ Tail(list) \in Seq(X) /\ Len(Tail(list)) = Len(list) - 1
      /\ \A i \in 1 .. Len(list) - 1 : Tail(list)[i] = list[i + 1]
      /\ DOMAIN list = 1 .. Len(list) /\ DOMAIN Tail(list) = 1 .. Len(list) - 1
  OBVIOUS
<1> DEFINE rest == Tail(list)
<1> HIDE DEF rest
<1>2. Head(list) \in ToSet(list)
  BY <1>1 DEF ToSet
<1>3. Distinct(rest)
  BY <1>1 DEF Distinct, rest
<1>4. ASSUME NEW x \in ToSet(rest) PROVE x \in ToSet(list) /\ x # Head(list)
  <2>1. PICK i \in 1 .. Len(list) - 1 : x = list[i + 1]
    BY <1>1 DEF ToSet, rest
  <2>2. i + 1 \in 1 .. Len(list) /\ 1 \in 1 .. Len(list) /\ i + 1 # 1
    BY <1>1
  <2> QED BY <1>1, <2>1, <2>2 DEF ToSet, Distinct
<1>5. ASSUME NEW x \in ToSet(list), x # Head(list) PROVE x \in ToSet(rest)
  <2>1. PICK i \in 1 .. Len(list) : x = list[i]
    BY <1>1 DEF ToSet
  <2>2. i # 1
    BY <1>1, <1>5, <2>1
  <2>3. i - 1 \in 1 .. Len(list) - 1 /\ (i - 1) + 1 = i
    BY <1>1, <2>2
  <2> QED BY <1>1, <2>1, <2>3 DEF ToSet, rest
<1> QED BY <1>1, <1>2, <1>3, <1>4, <1>5 DEF rest

\* What is left has no element twice either.
LEMMA WithoutDistinct ==
  ASSUME NEW X, NEW list \in Seq(X), NEW S, Distinct(list)
  PROVE  Distinct(Without(list, S))
<1>1. PICK f : /\ Without(list, S) = f[Len(list)]
               /\ f[0] = <<>>
               /\ \A i \in 1 .. Len(list) :
                    f[i] = IF list[i] \in S THEN f[i - 1] ELSE Append(f[i - 1], list[i])
  BY WithoutSteps
<1> DEFINE T == { i \in 0 .. Len(list) : /\ f[i] \in Seq(X) /\ Distinct(f[i])
                                         /\ ToSet(f[i]) \subseteq { list[j] : j \in 1 .. i } }
<1>2. 0 \in T
  <2>1. Distinct(<<>>) /\ ToSet(<<>>) = {}
    BY DEF Distinct, ToSet
  <2>2. <<>> \in Seq(X)
    OBVIOUS
  <2>3. 0 \in 0 .. Len(list)
    OBVIOUS
  <2> QED BY <1>1, <2>1, <2>2, <2>3
<1>3. ASSUME NEW i \in 0 .. Len(list), i < Len(list), i \in T PROVE i + 1 \in T
  <2>1. /\ f[i] \in Seq(X) /\ Distinct(f[i])
        /\ ToSet(f[i]) \subseteq { list[j] : j \in 1 .. i }
    BY <1>3
  <2>2. i + 1 \in 1 .. Len(list) /\ (i + 1) - 1 = i /\ list[i + 1] \in X /\ i + 1 \in 0 .. Len(list)
    BY <1>3
  <2>3. { list[j] : j \in 1 .. i } \cup {list[i + 1]} \subseteq { list[j] : j \in 1 .. i + 1 }
    BY <2>2
  <2>4. f[i + 1] = IF list[i + 1] \in S THEN f[i] ELSE Append(f[i], list[i + 1])
    BY <1>1, <2>2
  <2>5. CASE list[i + 1] \in S
    BY <2>1, <2>2, <2>3, <2>4, <2>5
  <2>6. CASE list[i + 1] \notin S
    <3>1. list[i + 1] \notin ToSet(f[i])
      <4>1. \A j \in 1 .. i : list[j] # list[i + 1]
        BY <2>2 DEF Distinct
      <4> QED BY <2>1, <4>1
    <3>2. /\ Append(f[i], list[i + 1]) \in Seq(X) /\ Distinct(Append(f[i], list[i + 1]))
          /\ ToSet(Append(f[i], list[i + 1])) = ToSet(f[i]) \cup {list[i + 1]}
      BY <2>1, <2>2, <3>1, AppendToSet, AppendDistinct
    <3> QED BY <2>1, <2>2, <2>3, <2>4, <2>6, <3>2
  <2> QED BY <2>5, <2>6
<1>4. Len(list) \in Nat
  OBVIOUS
<1>5. 0 .. Len(list) \subseteq T
  <2> HIDE DEF T
  <2> QED BY <1>2, <1>3, <1>4, NatSetInduction
<1>6. Len(list) \in T
  <2> HIDE DEF T
  <2> QED BY <1>4, <1>5
<1> QED BY <1>1, <1>6
=============================================================================
