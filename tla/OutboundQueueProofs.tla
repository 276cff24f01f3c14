------------------------- MODULE OutboundQueueProofs -------------------------
(***************************************************************************)
(* The send queue for every geometry: its bounds and counters hold, the    *)
(* kernel is handed a prefix of it, and with its ring, wrap-around,        *)
(* merging and partial consumption it implements a bounded FIFO of bytes.  *)
(***************************************************************************)
EXTENDS OutboundQueue, Integers, SequenceTheorems, WellFoundedInduction, TLAPS

-----------------------------------------------------------------------------
(***************************************************************************)
(* Induction and recursion over numbers.                                   *)
(***************************************************************************)

\* Every set of numbers that is not empty has a least element.
LEMMA LeastNat ==
  ASSUME NEW T, T \subseteq Nat, T # {}
  PROVE  \E m \in T : \A k \in T : m <= k
<1> DEFINE R == OpToRel(<, Nat)
<1>1. IsWellFoundedOn(R, Nat)
  BY NatLessThanWellFounded
<1>2. \A x, y \in Nat : <<y, x>> \in R <=> y < x
  BY DEF OpToRel
<1> HIDE DEF R
<1>3. \E x \in T : \A y \in T : ~(<<y, x>> \in R)
  BY <1>1, WFMin
<1>4. PICK m \in T : \A y \in T : ~(<<y, m>> \in R)
  BY <1>3
<1>5. ASSUME NEW k \in T PROVE m <= k
  <2>1. ~(<<k, m>> \in R)
    BY <1>4
  <2>2. k \in Nat /\ m \in Nat
    OBVIOUS
  <2>3. ~(k < m)
    BY <1>2, <2>1, <2>2
  <2> QED BY <2>2, <2>3
<1> QED BY <1>5

\* The step of an induction, over a set in place of a predicate.
LEMMA SetInduction ==
  ASSUME NEW P, 0 \in P, \A n \in P : n \in Nat => n + 1 \in P
  PROVE  Nat \subseteq P
<1> SUFFICES ASSUME Nat \ P # {} PROVE FALSE
  OBVIOUS
<1>1. PICK m \in Nat \ P : \A k \in Nat \ P : m <= k
  BY LeastNat
<1>2. m # 0 /\ m - 1 \in Nat /\ m - 1 \in P
  BY <1>1
<1>3. (m - 1) + 1 \in P
  BY <1>2
<1> QED BY <1>1, <1>3

\* A bounded recursion has a solution.
Solves(f, N, X, b, step) ==
  f \in [0..N -> X] /\ f[0] = b /\ \A i \in 1..N : f[i] = step[i][f[i - 1]]

LEMMA Recursion ==
  ASSUME NEW N \in Nat, NEW X, NEW b \in X, NEW step \in [1..N -> [X -> X]]
  PROVE  \E f : Solves(f, N, X, b, step)
<1> DEFINE Good(n, f) == f[0] = b /\ \A i \in 1..n : f[i] = step[i][f[i - 1]]
           P == {n \in Nat : n <= N => \E f \in [0..n -> X] : Good(n, f)}
<1>1. 0 \in P
  <2> DEFINE g == [i \in 0..0 |-> b]
  <2>1. g \in [0..0 -> X] /\ g[0] = b
    OBVIOUS
  <2>2. Good(0, g)
    BY <2>1
  <2> HIDE DEF g
  <2> QED BY <2>1, <2>2
<1>2. ASSUME NEW n \in P, n \in Nat PROVE n + 1 \in P
  <2> SUFFICES ASSUME n + 1 <= N PROVE \E f \in [0..(n + 1) -> X] : Good(n + 1, f)
    OBVIOUS
  <2>1. n <= N
    BY <1>2
  <2>1a. PICK f \in [0..n -> X] : Good(n, f)
    BY <2>1
  <2> DEFINE g == [i \in 0..(n + 1) |-> IF i = n + 1 THEN step[n + 1][f[n]] ELSE f[i]]
  <2>2. step[n + 1][f[n]] \in X
    <3>1. n + 1 \in 1..N /\ f[n] \in X
      OBVIOUS
    <3>2. step[n + 1] \in [X -> X]
      BY <3>1
    <3> QED BY <3>1, <3>2
  <2>3. g \in [0..(n + 1) -> X]
    BY <2>2
  <2>4. /\ g[n + 1] = step[n + 1][f[n]]
        /\ \A i \in 0..n : g[i] = f[i]
    OBVIOUS
  <2> HIDE DEF g
  <2>5. g[0] = b
    BY <2>1a, <2>4
  <2>6. ASSUME NEW i \in 1..(n + 1) PROVE g[i] = step[i][g[i - 1]]
    <3>1. CASE i = n + 1
      BY <2>4, <3>1
    <3>2. CASE i \in 1..n
      <4>1. f[i] = step[i][f[i - 1]]
        BY <2>1a, <3>2
      <4>2. i \in 0..n /\ i - 1 \in 0..n
        BY <3>2
      <4> QED BY <2>4, <4>1, <4>2
    <3> QED BY <3>1, <3>2
  <2> QED BY <2>3, <2>5, <2>6
<1>3. Nat \subseteq P
  <2> HIDE DEF P
  <2> QED BY <1>1, <1>2, SetInduction
<1>4. N \in P
  BY <1>3
<1> QED BY <1>4 DEF Solves

-----------------------------------------------------------------------------
(***************************************************************************)
(* Flattening a sequence of sequences.                                     *)
(***************************************************************************)

LEMMA ConcatAppend ==
  ASSUME NEW S, NEW s \in Seq(S), NEW t \in Seq(S), NEW x \in S
  PROVE  s \o t \in Seq(S) /\ s \o Append(t, x) = Append(s \o t, x)
<1>1. /\ s \o t \in Seq(S) /\ Len(s \o t) = Len(s) + Len(t)
      /\ \A i \in 1..(Len(s) + Len(t)) : (s \o t)[i] = IF i <= Len(s) THEN s[i] ELSE t[i - Len(s)]
  BY ConcatProperties
<1>2. /\ Append(t, x) \in Seq(S) /\ Len(Append(t, x)) = Len(t) + 1
      /\ \A i \in 1..Len(t) : Append(t, x)[i] = t[i]
      /\ Append(t, x)[Len(t) + 1] = x
  BY AppendProperties
<1> DEFINE a == Len(s)
           b == Len(t)
           u == Append(t, x)
           v == s \o t
<1>3. a \in Nat /\ b \in Nat
  OBVIOUS
<1>4. /\ s \o u \in Seq(S) /\ Len(s \o u) = a + (b + 1)
      /\ \A i \in 1..(a + (b + 1)) : (s \o u)[i] = IF i <= a THEN s[i] ELSE u[i - a]
  BY <1>2, ConcatProperties
<1>5. /\ Append(v, x) \in Seq(S) /\ Len(Append(v, x)) = (a + b) + 1
      /\ \A i \in 1..(a + b) : Append(v, x)[i] = v[i]
      /\ Append(v, x)[(a + b) + 1] = x
  BY <1>1, AppendProperties
<1>6. \A i \in 1..(a + b) : v[i] = IF i <= a THEN s[i] ELSE t[i - a]
  BY <1>1
<1>7. (\A i \in 1..b : u[i] = t[i]) /\ u[b + 1] = x
  BY <1>2
<1> HIDE DEF a, b, u, v
<1>8. \A i \in 1..((a + b) + 1) : (s \o u)[i] = Append(v, x)[i]
  <2> TAKE i \in 1..((a + b) + 1)
  <2>1. CASE i <= a
    BY <1>3, <1>4, <1>5, <1>6, <2>1
  <2>2. CASE ~(i <= a) /\ i <= a + b
    <3>1. i - a \in 1..b
      BY <1>3, <2>2
    <3> QED BY <1>3, <1>4, <1>5, <1>6, <1>7, <2>2, <3>1
  <2>3. CASE i = (a + b) + 1
    <3>1. i - a = b + 1 /\ ~(i <= a)
      BY <1>3, <2>3
    <3> QED BY <1>3, <1>4, <1>5, <1>7, <2>3, <3>1
  <2>4. i <= a \/ (~(i <= a) /\ i <= a + b) \/ i = (a + b) + 1
    BY <1>3
  <2> QED BY <2>1, <2>2, <2>3, <2>4
<1>9. s \o u = Append(v, x)
  <2>1. Len(s \o u) = Len(Append(v, x)) /\ Len(s \o u) = (a + b) + 1
    BY <1>3, <1>4, <1>5
  <2> QED BY <1>4, <1>5, <1>8, <2>1, SeqEqual
<1> QED BY <1>1, <1>9 DEF u, v

LEMMA PrefixGrows ==
  ASSUME NEW S, NEW s \in Seq(S), NEW k \in Nat, k + 1 <= Len(s)
  PROVE  /\ SubSeq(s, 1, k) \in Seq(S) /\ s[k + 1] \in S
         /\ SubSeq(s, 1, k + 1) = Append(SubSeq(s, 1, k), s[k + 1])
OBVIOUS

\* The partial results of FlattenSeq, from the empty one on.
Flattens(s, F, B) ==
  /\ F \in [0..Len(s) -> Seq(B)]
  /\ F[0] = <<>>
  /\ \A i \in 1..Len(s) : F[i] = F[i - 1] \o s[i]

LEMMA FlattensExists ==
  ASSUME NEW B, NEW s \in Seq(Seq(B))
  PROVE  \E F : Flattens(s, F, B)
<1> DEFINE N == Len(s)
           step == [i \in 1..N |-> [x \in Seq(B) |-> x \o s[i]]]
<1>1. N \in Nat /\ \A i \in 1..N : s[i] \in Seq(B)
  OBVIOUS
<1>2. step \in [1..N -> [Seq(B) -> Seq(B)]] /\ \A i \in 1..N : \A x \in Seq(B) : step[i][x] = x \o s[i]
  BY <1>1
<1>3. <<>> \in Seq(B)
  OBVIOUS
<1>4. PICK F \in [0..N -> Seq(B)] : F[0] = <<>> /\ \A i \in 1..N : F[i] = step[i][F[i - 1]]
  <2> DEFINE X == Seq(B)
  <2>1. N \in Nat /\ <<>> \in X /\ step \in [1..N -> [X -> X]]
    BY <1>1, <1>2, <1>3
  <2> HIDE DEF step, N, X
  <2>2. \E F : Solves(F, N, X, <<>>, step)
    BY <2>1, Recursion
  <2> QED BY <2>2 DEF X, Solves
<1> HIDE DEF step, N
<1>5. ASSUME NEW i \in 1..N PROVE F[i] = F[i - 1] \o s[i]
  <2>1. i - 1 \in 0..N
    BY <1>1
  <2>2. F[i - 1] \in Seq(B)
    BY <2>1, <1>4
  <2> QED BY <1>2, <1>4, <2>2
<1> QED BY <1>4, <1>5 DEF Flattens, N

LEMMA FlattenIs ==
  ASSUME NEW B, NEW s \in Seq(Seq(B)), NEW F, Flattens(s, F, B)
  PROVE  FlattenSeq(s) = F[Len(s)]
<1> DEFINE N == Len(s)
<1>1. N \in Nat /\ \A i \in 1..N : s[i] \in Seq(B)
  OBVIOUS
<1>2. CASE N = 0
  <2>1. s = <<>>
    BY <1>2
  <2> QED BY <1>2, <2>1 DEF FlattenSeq, Flattens
<1>3. CASE N # 0
  <2> DEFINE Is(f) == f = [i \in 1..Len(s) |-> IF i = 1 THEN s[i] ELSE f[i - 1] \o s[i]]
             flat == CHOOSE f : Is(f)
             G == [i \in 1..N |-> F[i]]
  <2>1. \A i \in 1..N : i # 1 => i - 1 \in 1..N
    BY <1>1
  <2>2. \A i \in 1..N : G[i] = IF i = 1 THEN s[i] ELSE G[i - 1] \o s[i]
    <3>0. \A i \in 1..N : G[i] = F[i]
      OBVIOUS
    <3> HIDE DEF G
    <3> TAKE i \in 1..N
    <3>1. F[i] = F[i - 1] \o s[i] /\ F[0] = <<>>
      BY DEF Flattens
    <3>2. CASE i = 1
      <4>1. s[i] \in Seq(B)
        BY <1>1
      <4>2. <<>> \o s[i] = s[i]
        BY <4>1
      <4>3. i - 1 = 0
        BY <3>2
      <4> QED BY <3>0, <3>1, <3>2, <4>2, <4>3
    <3>3. CASE i # 1
      BY <3>0, <3>1, <3>3, <2>1
    <3> QED BY <3>2, <3>3
  <2>3. Is(G)
    BY <2>2
  <2>4. Is(flat)
    <3> HIDE DEF G, Is
    <3> QED BY <2>3
  <2>5. FlattenSeq(s) = flat[N]
    BY <1>3 DEF FlattenSeq
  <2>6. \A i \in 1..N : flat[i] = IF i = 1 THEN s[i] ELSE flat[i - 1] \o s[i]
    <3> HIDE DEF flat
    <3> QED BY <2>4
  <2> HIDE DEF flat, Is
  <2> DEFINE P == {n \in Nat : n + 1 <= N => flat[n + 1] = G[n + 1]}
  <2>7. 0 \in P
    <3>1. 1 \in 1..N
      BY <1>1, <1>3
    <3> HIDE DEF G
    <3> QED BY <2>2, <2>6, <3>1
  <2>8. ASSUME NEW n \in P, n \in Nat PROVE n + 1 \in P
    <3> SUFFICES ASSUME (n + 1) + 1 <= N PROVE flat[(n + 1) + 1] = G[(n + 1) + 1]
      BY <2>8
    <3>1. n + 1 <= N /\ (n + 1) + 1 \in 1..N /\ (n + 1) + 1 # 1 /\ ((n + 1) + 1) - 1 = n + 1
      BY <1>1, <2>8
    <3>2. flat[n + 1] = G[n + 1]
      BY <3>1, <2>8
    <3> HIDE DEF G
    <3> QED BY <2>2, <2>6, <3>1, <3>2
  <2>9. Nat \subseteq P
    <3> HIDE DEF P
    <3> QED BY <2>7, <2>8, SetInduction
  <2>10. N - 1 \in P
    <3> HIDE DEF P
    <3> QED BY <1>1, <1>3, <2>9
  <2>11. flat[N] = G[N]
    <3> HIDE DEF G
    <3>1. (N - 1) + 1 = N /\ (N - 1) + 1 <= N
      BY <1>1
    <3> QED BY <2>10, <3>1
  <2>12. G[N] = F[N]
    BY <1>1, <1>3
  <2> QED BY <2>5, <2>11, <2>12
<1> QED BY <1>2, <1>3

\* What the rest of the module uses of FlattenSeq.
LEMMA FlattenType ==
  ASSUME NEW B, NEW s \in Seq(Seq(B))
  PROVE  FlattenSeq(s) \in Seq(B)
<1>1. PICK F : Flattens(s, F, B)
  BY FlattensExists
<1>2. FlattenSeq(s) = F[Len(s)]
  BY <1>1, FlattenIs
<1>3. Len(s) \in 0..Len(s)
  OBVIOUS
<1> QED BY <1>1, <1>2, <1>3 DEF Flattens

LEMMA FlattenEmpty == FlattenSeq(<<>>) = <<>>
BY DEF FlattenSeq

LEMMA FlattenAppend ==
  ASSUME NEW B, NEW s \in Seq(Seq(B)), NEW x \in Seq(B)
  PROVE  FlattenSeq(Append(s, x)) = FlattenSeq(s) \o x
<1> DEFINE N == Len(s)
           t == Append(s, x)
<1>1. N \in Nat /\ t \in Seq(Seq(B)) /\ Len(t) = N + 1 /\ t[N + 1] = x
      /\ \A i \in 1..N : t[i] = s[i]
  OBVIOUS
<1> HIDE DEF t
<1>2. PICK F : Flattens(s, F, B)
  BY FlattensExists
<1> DEFINE G == [i \in 0..(N + 1) |-> IF i = N + 1 THEN F[N] \o x ELSE F[i]]
<1>3. F[N] \in Seq(B) /\ F[N] \o x \in Seq(B)
  <2>1. N \in 0..N
    BY <1>1
  <2>2. F[N] \in Seq(B)
    BY <1>2, <2>1 DEF Flattens
  <2> QED BY <2>2
<1>4. G \in [0..(N + 1) -> Seq(B)]
  BY <1>1, <1>2, <1>3 DEF Flattens
<1>5. /\ G[N + 1] = F[N] \o x
      /\ \A i \in 0..N : G[i] = F[i]
  BY <1>1
<1> HIDE DEF G
<1>6. G[0] = <<>>
  BY <1>1, <1>2, <1>5 DEF Flattens
<1>7. ASSUME NEW i \in 1..(N + 1) PROVE G[i] = G[i - 1] \o t[i]
  <2>1. CASE i = N + 1
    <3>1. i - 1 = N /\ N \in 0..N
      BY <1>1, <2>1
    <3> QED BY <1>1, <1>5, <2>1, <3>1
  <2>2. CASE i \in 1..N
    <3>1. i - 1 \in 0..N /\ i \in 0..N
      BY <1>1, <2>2
    <3>2. F[i] = F[i - 1] \o s[i]
      BY <1>2, <2>2 DEF Flattens
    <3> QED BY <1>1, <1>5, <2>2, <3>1, <3>2
  <2> QED BY <1>1, <2>1, <2>2
<1>8. Flattens(t, G, B)
  BY <1>1, <1>4, <1>6, <1>7 DEF Flattens
<1>9. FlattenSeq(t) = F[N] \o x
  BY <1>1, <1>5, <1>8, FlattenIs
<1>10. FlattenSeq(s) = F[N]
  BY <1>2, FlattenIs
<1> QED BY <1>9, <1>10 DEF t

LEMMA FlattenOne ==
  ASSUME NEW B, NEW x \in Seq(B)
  PROVE  FlattenSeq(<<x>>) = x
<1>1. <<>> \in Seq(Seq(B)) /\ Append(<<>>, x) = <<x>> /\ <<>> \o x = x
  OBVIOUS
<1> QED BY <1>1, FlattenAppend, FlattenEmpty

LEMMA FlattenConcat ==
  ASSUME NEW B, NEW s \in Seq(Seq(B)), NEW t \in Seq(Seq(B))
  PROVE  FlattenSeq(s \o t) = FlattenSeq(s) \o FlattenSeq(t)
<1> DEFINE N == Len(t)
           Init(k) == SubSeq(t, 1, k)
           P == {k \in Nat : k <= N => FlattenSeq(s \o Init(k)) = FlattenSeq(s) \o FlattenSeq(Init(k))}
<1>1. N \in Nat /\ FlattenSeq(s) \in Seq(B)
  BY FlattenType
<1>2. 0 \in P
  <2>1. Init(0) = <<>>
    OBVIOUS
  <2>2. s \o <<>> = s /\ FlattenSeq(s) \o <<>> = FlattenSeq(s)
    BY <1>1
  <2> QED BY <2>1, <2>2, FlattenEmpty
<1>3. ASSUME NEW k \in P, k \in Nat PROVE k + 1 \in P
  <2> SUFFICES ASSUME k + 1 <= N
               PROVE  FlattenSeq(s \o Init(k + 1)) = FlattenSeq(s) \o FlattenSeq(Init(k + 1))
    BY <1>3
  <2> DEFINE a == Init(k)
             x == t[k + 1]
  <2>1. FlattenSeq(s \o a) = FlattenSeq(s) \o FlattenSeq(a)
    BY <1>1, <1>3
  <2>2. a \in Seq(Seq(B)) /\ x \in Seq(B) /\ Init(k + 1) = Append(a, x)
    BY <1>1, <1>3
  <2> HIDE DEF a, x
  <2>3. s \o a \in Seq(Seq(B)) /\ s \o Append(a, x) = Append(s \o a, x)
    <3> DEFINE S == Seq(B)
    <3>1. s \in Seq(S) /\ a \in Seq(S) /\ x \in S
      BY <2>2
    <3> HIDE DEF S
    <3>2. s \o a \in Seq(S) /\ s \o Append(a, x) = Append(s \o a, x)
      BY <3>1, ConcatAppend
    <3> QED BY <3>2 DEF S
  <2>4. FlattenSeq(Append(s \o a, x)) = FlattenSeq(s \o a) \o x
    BY <2>2, <2>3, FlattenAppend
  <2>5. FlattenSeq(Append(a, x)) = FlattenSeq(a) \o x
    BY <2>2, FlattenAppend
  <2>6. FlattenSeq(a) \in Seq(B)
    BY <2>2, FlattenType
  <2>7. (FlattenSeq(s) \o FlattenSeq(a)) \o x = FlattenSeq(s) \o (FlattenSeq(a) \o x)
    <3> DEFINE f == FlattenSeq(s)
               g == FlattenSeq(a)
    <3>1. f \in Seq(B) /\ g \in Seq(B) /\ x \in Seq(B)
      BY <1>1, <2>2, <2>6
    <3> HIDE DEF f, g
    <3>2. (f \o g) \o x = f \o (g \o x)
      BY <3>1, SMTT(30)
    <3> QED BY <3>2 DEF f, g
  <2> QED BY <2>1, <2>2, <2>3, <2>4, <2>5, <2>7
<1>4. Nat \subseteq P
  <2> HIDE DEF P
  <2> QED BY <1>2, <1>3, SetInduction
<1>5. N \in P
  BY <1>1, <1>4
<1>6. Init(N) = t
  BY SubSeqFull
<1>7. N <= N
  BY <1>1
<1>8. FlattenSeq(s \o Init(N)) = FlattenSeq(s) \o FlattenSeq(Init(N))
  <2> HIDE DEF Init, N
  <2> QED BY <1>5, <1>7
<1> QED
  <2> HIDE DEF Init
  <2> QED BY <1>6, <1>8

\* The part after a whole number of segments.
LEMMA FlattenSplit ==
  ASSUME NEW B, NEW s \in Seq(Seq(B)), NEW k \in 0..Len(s)
  PROVE  FlattenSeq(s) = FlattenSeq(SubSeq(s, 1, k)) \o FlattenSeq(SubSeq(s, k + 1, Len(s)))
<1>1. SubSeq(s, 1, k) \in Seq(Seq(B)) /\ SubSeq(s, k + 1, Len(s)) \in Seq(Seq(B))
  OBVIOUS
<1>2. SubSeq(s, 1, k) \o SubSeq(s, k + 1, Len(s)) = s
  <2> DEFINE N == Len(s)
  <2>1. N \in Nat /\ 1 \in 1..(N + 1) /\ k \in (1 - 1)..N /\ N \in k..N
    OBVIOUS
  <2>2. SubSeq(s, 1, N) = s
    BY SubSeqFull
  <2> HIDE DEF N
  <2>3. SubSeq(s, 1, k) \o SubSeq(s, k + 1, N) = SubSeq(s, 1, N)
    <3>1. N = Len(s)
      BY DEF N
    <3> QED BY <2>1, <3>1, ConcatAdjacentSubSeq
  <2> QED BY <2>2, <2>3 DEF N
<1> DEFINE a == SubSeq(s, 1, k)
           b == SubSeq(s, k + 1, Len(s))
<1>3. a \in Seq(Seq(B)) /\ b \in Seq(Seq(B)) /\ a \o b = s
  BY <1>1, <1>2
<1> HIDE DEF a, b
<1>4. FlattenSeq(s) = FlattenSeq(a) \o FlattenSeq(b)
  BY <1>3, FlattenConcat
<1> QED BY <1>4 DEF a, b

\* A segment that grows at the end of the list.
LEMMA FlattenMerge ==
  ASSUME NEW B, NEW s \in Seq(Seq(B)), s # <<>>, NEW x \in Seq(B)
  PROVE  /\ [s EXCEPT ![Len(s)] = @ \o x] \in Seq(Seq(B))
         /\ FlattenSeq([s EXCEPT ![Len(s)] = @ \o x]) = FlattenSeq(s) \o x
<1> DEFINE N == Len(s)
           p == SubSeq(s, 1, N - 1)
           l == s[N]
           m == [s EXCEPT ![N] = @ \o x]
<1>1. N \in Nat \ {0} /\ l \in Seq(B) /\ l \o x \in Seq(B) /\ p \in Seq(Seq(B)) /\ Len(p) = N - 1
  <2>1. N \in Nat \ {0}
    OBVIOUS
  <2>2. N \in 1..N /\ N - 1 \in Nat
    BY <2>1
  <2>3. l \in Seq(B)
    BY <2>2
  <2>4. l \o x \in Seq(B)
    <3> HIDE DEF l
    <3> QED BY <2>3
  <2>5. p \in Seq(Seq(B)) /\ Len(p) = N - 1
    <3> DEFINE k == N - 1
               S == Seq(B)
    <3>1. k \in 0..Len(s) /\ s \in Seq(S)
      BY <2>1, <2>2
    <3> HIDE DEF k, S
    <3>2. SubSeq(s, 1, k) \in Seq(S) /\ Len(SubSeq(s, 1, k)) = k
      BY <3>1
    <3> QED BY <3>2 DEF k, S
  <2> QED BY <2>1, <2>3, <2>4, <2>5
<1>2. s = Append(p, l)
  BY <1>1
<1>3. m \in Seq(Seq(B)) /\ Len(m) = N /\ m[N] = l \o x /\ \A i \in 1..(N - 1) : m[i] = s[i]
  BY <1>1
<1>4. m = Append(p, l \o x)
  <2>1. \A i \in 1..(N - 1) : p[i] = s[i]
    BY <1>1
  <2> DEFINE y == l \o x
             u == Append(p, y)
             S == Seq(B)
  <2>2. p \in Seq(S) /\ y \in S /\ Len(p) = N - 1 /\ N \in Nat \ {0}
    BY <1>1
  <2> HIDE DEF S, p, y
  <2>3. /\ u \in Seq(S) /\ Len(u) = (N - 1) + 1 /\ u[(N - 1) + 1] = y
        /\ \A i \in 1..(N - 1) : u[i] = p[i]
    BY <2>2
  <2>4. m \in Seq(S) /\ Len(m) = N /\ m[N] = y /\ \A i \in 1..(N - 1) : m[i] = s[i]
    BY <1>3 DEF S, y
  <2> HIDE DEF m, u, N
  <2>5. (N - 1) + 1 = N /\ \A i \in 1..N : i = N \/ i \in 1..(N - 1)
    BY <2>2
  <2>6. \A i \in 1..N : m[i] = u[i]
    BY <2>1, <2>3, <2>4, <2>5
  <2>7. m = u
    BY <2>3, <2>4, <2>5, <2>6, SeqEqual
  <2> QED BY <2>7 DEF u, y
<1>5. FlattenSeq(p) \in Seq(B)
  BY <1>1, FlattenType
<1> HIDE DEF p, l, m
<1>6. FlattenSeq(m) = FlattenSeq(p) \o (l \o x)
  BY <1>1, <1>4, FlattenAppend
<1>7. FlattenSeq(s) = FlattenSeq(p) \o l
  BY <1>1, <1>2, FlattenAppend
<1>8. (FlattenSeq(p) \o l) \o x = FlattenSeq(p) \o (l \o x)
  <2> DEFINE f == FlattenSeq(p)
  <2>1. f \in Seq(B) /\ l \in Seq(B) /\ x \in Seq(B)
    BY <1>1, <1>5
  <2> HIDE DEF f
  <2>2. (f \o l) \o x = f \o (l \o x)
    BY <2>1, SMTT(30)
  <2> QED BY <2>2 DEF f
<1> QED BY <1>3, <1>6, <1>7, <1>8 DEF m

-----------------------------------------------------------------------------
(***************************************************************************)
(* Removing a prefix.                                                      *)
(***************************************************************************)
Drop(s, n) == SubSeq(s, n + 1, Len(s))

LEMMA DropType ==
  ASSUME NEW B, NEW s \in Seq(B), NEW n \in 0..Len(s)
  PROVE  /\ Drop(s, n) \in Seq(B)
         /\ Len(Drop(s, n)) = Len(s) - n
         /\ \A i \in 1..(Len(s) - n) : Drop(s, n)[i] = s[n + i]
BY DEF Drop

LEMMA DropNothing ==
  ASSUME NEW B, NEW s \in Seq(B)
  PROVE  Drop(s, 0) = s
BY SubSeqFull DEF Drop

LEMMA DropInFirst ==
  ASSUME NEW B, NEW s \in Seq(B), NEW t \in Seq(B), NEW n \in 0..Len(s)
  PROVE  Drop(s \o t, n) = Drop(s, n) \o t
<1>1. s \o t \in Seq(B) /\ Len(s \o t) = Len(s) + Len(t) /\ n \in 0..Len(s \o t)
  OBVIOUS
<1>2. \A i \in 1..(Len(s) + Len(t)) : (s \o t)[i] = IF i <= Len(s) THEN s[i] ELSE t[i - Len(s)]
  BY ConcatProperties
<1>3. /\ Drop(s \o t, n) \in Seq(B) /\ Len(Drop(s \o t, n)) = (Len(s) + Len(t)) - n
      /\ \A i \in 1..((Len(s) + Len(t)) - n) : Drop(s \o t, n)[i] = (s \o t)[n + i]
  BY <1>1, DropType
<1>4. /\ Drop(s, n) \in Seq(B) /\ Len(Drop(s, n)) = Len(s) - n
      /\ \A i \in 1..(Len(s) - n) : Drop(s, n)[i] = s[n + i]
  BY DropType
<1>5. /\ Drop(s, n) \o t \in Seq(B) /\ Len(Drop(s, n) \o t) = (Len(s) - n) + Len(t)
      /\ \A i \in 1..((Len(s) - n) + Len(t)) : (Drop(s, n) \o t)[i] =
           IF i <= Len(s) - n THEN Drop(s, n)[i] ELSE t[i - (Len(s) - n)]
  <2> DEFINE d == Drop(s, n)
  <2>1. d \in Seq(B) /\ Len(d) = Len(s) - n
    BY <1>4
  <2> HIDE DEF d
  <2>2. /\ d \o t \in Seq(B) /\ Len(d \o t) = Len(d) + Len(t)
        /\ \A i \in 1..(Len(d) + Len(t)) : (d \o t)[i] = IF i <= Len(d) THEN d[i] ELSE t[i - Len(d)]
    BY <2>1, ConcatProperties
  <2> QED BY <2>1, <2>2 DEF d
<1> DEFINE a == Len(s)
           b == Len(t)
<1>6. a \in Nat /\ b \in Nat /\ n \in 0..a
  OBVIOUS
<1> HIDE DEF a, b
<1>7. ASSUME NEW i \in 1..((a + b) - n) PROVE Drop(s \o t, n)[i] = (Drop(s, n) \o t)[i]
  <2>1. n + i \in 1..(a + b) /\ i \in 1..((a - n) + b)
    BY <1>6
  <2>2. Drop(s \o t, n)[i] = IF n + i <= a THEN s[n + i] ELSE t[(n + i) - a]
    BY <1>2, <1>3, <2>1 DEF a, b
  <2>3. (Drop(s, n) \o t)[i] = IF i <= a - n THEN Drop(s, n)[i] ELSE t[i - (a - n)]
    BY <1>5, <2>1 DEF a, b
  <2>4. CASE i <= a - n
    <3>1. n + i <= a /\ i \in 1..(a - n)
      BY <1>6, <2>4
    <3>2. Drop(s, n)[i] = s[n + i]
      BY <1>4, <3>1 DEF a
    <3> QED BY <2>2, <2>3, <2>4, <3>1, <3>2
  <2>5. CASE ~(i <= a - n)
    <3>1. ~(n + i <= a) /\ (n + i) - a = i - (a - n)
      BY <1>6, <2>5
    <3> QED BY <2>2, <2>3, <2>5, <3>1
  <2> QED BY <2>4, <2>5
<1>8. (a + b) - n = (a - n) + b /\ (a + b) - n \in Nat
  BY <1>6
<1> QED BY <1>3, <1>5, <1>7, <1>8, SeqEqual DEF a, b

LEMMA DropInSecond ==
  ASSUME NEW B, NEW s \in Seq(B), NEW t \in Seq(B), NEW m \in 0..Len(t)
  PROVE  Drop(s \o t, Len(s) + m) = Drop(t, m)
<1> DEFINE a == Len(s)
           b == Len(t)
<1>1. a \in Nat /\ b \in Nat /\ m \in 0..b
  OBVIOUS
<1>2. /\ s \o t \in Seq(B) /\ Len(s \o t) = a + b
      /\ \A i \in 1..(a + b) : (s \o t)[i] = IF i <= a THEN s[i] ELSE t[i - a]
  BY ConcatProperties
<1>3. /\ Drop(t, m) \in Seq(B) /\ Len(Drop(t, m)) = b - m
      /\ \A i \in 1..(b - m) : Drop(t, m)[i] = t[m + i]
  BY DropType
<1> HIDE DEF a, b
<1>4. a + m \in 0..Len(s \o t)
  BY <1>1, <1>2
<1>5. /\ Drop(s \o t, a + m) \in Seq(B) /\ Len(Drop(s \o t, a + m)) = (a + b) - (a + m)
      /\ \A i \in 1..((a + b) - (a + m)) : Drop(s \o t, a + m)[i] = (s \o t)[(a + m) + i]
  <2> DEFINE u == s \o t
             c == a + m
  <2>1. u \in Seq(B) /\ c \in 0..Len(u) /\ Len(u) = a + b
    BY <1>2, <1>4
  <2> HIDE DEF u, c
  <2>2. /\ Drop(u, c) \in Seq(B) /\ Len(Drop(u, c)) = Len(u) - c
        /\ \A i \in 1..(Len(u) - c) : Drop(u, c)[i] = u[c + i]
    BY <2>1, DropType
  <2> QED BY <2>1, <2>2 DEF u, c
<1>6. (a + b) - (a + m) = b - m /\ b - m \in Nat
  BY <1>1
<1>7. ASSUME NEW i \in 1..(b - m) PROVE Drop(s \o t, a + m)[i] = Drop(t, m)[i]
  <2>1. (a + m) + i \in 1..(a + b) /\ ~((a + m) + i <= a) /\ ((a + m) + i) - a = m + i
    BY <1>1
  <2> QED BY <1>2, <1>3, <1>5, <1>6, <2>1
<1>8. Drop(s \o t, a + m) = Drop(t, m)
  BY <1>3, <1>5, <1>6, <1>7, SeqEqual
<1> QED BY <1>8 DEF a

\* The first segment loses its head.
LEMMA FlattenCut ==
  ASSUME NEW B, NEW s \in Seq(Seq(B)), s # <<>>, NEW c \in 0..Len(s[1])
  PROVE  /\ [s EXCEPT ![1] = Drop(@, c)] \in Seq(Seq(B))
         /\ FlattenSeq([s EXCEPT ![1] = Drop(@, c)]) = Drop(FlattenSeq(s), c)
<1> DEFINE h == s[1]
           d == Drop(h, c)
           t == Tail(s)
           m == [s EXCEPT ![1] = Drop(@, c)]
<1>1. h \in Seq(B) /\ t \in Seq(Seq(B)) /\ 1 \in 1..Len(s)
  OBVIOUS
<1>2. d \in Seq(B)
  BY <1>1, DropType
<1> HIDE DEF d
<1>3. m = [s EXCEPT ![1] = d]
  BY DEF d
<1>4. m \in Seq(Seq(B)) /\ Len(m) = Len(s) /\ m[1] = d /\ \A i \in 2..Len(s) : m[i] = s[i]
  BY <1>1, <1>2, <1>3
<1> HIDE DEF m
<1>5. s = <<h>> \o t
  BY <1>1
<1>6. m = <<d>> \o t
  <2>1. <<d>> \o t \in Seq(Seq(B)) /\ Len(<<d>> \o t) = Len(s)
    BY <1>1, <1>2
  <2>2. \A i \in 1..Len(s) : (<<d>> \o t)[i] = m[i]
    BY <1>1, <1>2, <1>4
  <2> QED BY <1>4, <2>1, <2>2, SeqEqual
<1>7. FlattenSeq(t) \in Seq(B)
  BY <1>1, FlattenType
<1> HIDE DEF h, t
<1>8. FlattenSeq(s) = h \o FlattenSeq(t)
  <2>1. <<h>> \in Seq(Seq(B)) /\ FlattenSeq(<<h>>) = h
    BY <1>1, FlattenOne
  <2> QED BY <1>1, <1>5, <2>1, FlattenConcat
<1>9. FlattenSeq(m) = d \o FlattenSeq(t)
  <2>1. <<d>> \in Seq(Seq(B)) /\ FlattenSeq(<<d>>) = d
    BY <1>2, FlattenOne
  <2> QED BY <1>1, <1>6, <2>1, FlattenConcat
<1>10. Drop(h \o FlattenSeq(t), c) = d \o FlattenSeq(t)
  BY <1>1, <1>7, DropInFirst DEF d, h
<1> QED BY <1>4, <1>8, <1>9, <1>10 DEF m

-----------------------------------------------------------------------------
(***************************************************************************)
(* The segments.                                                           *)
(***************************************************************************)

\* SpillSizes counts the bytes of the first segments.
LEMMA SizesAreLengths ==
  ASSUME NEW B, NEW q, q.spill \in Seq(Seq(B)), NEW k \in 0..Len(q.spill)
  PROVE  SpillSizes(q, k) = Len(FlattenSeq(SubSeq(q.spill, 1, k)))
<1> DEFINE s == q.spill
           N == Len(s)
           step == [i \in 1..N |-> [x \in Nat |-> x + Len(s[i])]]
           Is(f) == f = [i \in 0..Len(q.spill) |-> IF i = 0 THEN 0 ELSE f[i - 1] + Len(q.spill[i])]
           sum == CHOOSE f : Is(f)
           Pre(i) == FlattenSeq(SubSeq(s, 1, i))
<1>1. N \in Nat /\ \A i \in 1..N : s[i] \in Seq(B) /\ Len(s[i]) \in Nat
  OBVIOUS
<1>2. \E f : Is(f)
  <2>1. step \in [1..N -> [Nat -> Nat]] /\ \A i \in 1..N, x \in Nat : step[i][x] = x + Len(s[i])
    BY <1>1
  <2> HIDE DEF step
  <2>2. PICK g \in [0..N -> Nat] : g[0] = 0 /\ \A i \in 1..N : g[i] = step[i][g[i - 1]]
    <3> HIDE DEF N
    <3>1. \E g : Solves(g, N, Nat, 0, step)
      BY <1>1, <2>1, Recursion
    <3> QED BY <3>1 DEF Solves
  <2>3. \A i \in 1..N : g[i] = g[i - 1] + Len(s[i])
    <3> HIDE DEF N, s
    <3>1. \A i \in 1..N : i - 1 \in 0..N
      BY <1>1
    <3> QED BY <2>1, <2>2, <3>1
  <2>4. Is(g)
    BY <1>1, <2>2, <2>3
  <2> QED BY <2>4
<1>3. Is(sum)
  <2> HIDE DEF Is
  <2> QED BY <1>2
<1>4. SpillSizes(q, k) = sum[k]
  BY DEF SpillSizes
<1>5. sum[0] = 0 /\ \A i \in 1..N : sum[i] = sum[i - 1] + Len(s[i])
  <2> HIDE DEF sum
  <2>1. sum = [i \in 0..N |-> IF i = 0 THEN 0 ELSE sum[i - 1] + Len(s[i])]
    BY <1>3
  <2> HIDE DEF N, s, Is
  <2>2. 0 \in 0..N /\ \A i \in 1..N : i \in 0..N /\ i # 0
    BY <1>1
  <2>3. \A i \in 0..N : sum[i] = IF i = 0 THEN 0 ELSE sum[i - 1] + Len(s[i])
    BY <2>1
  <2> QED BY <2>2, <2>3
<1> HIDE DEF sum, Is
<1> DEFINE P == {n \in Nat : n <= N => sum[n] = Len(Pre(n))}
<1>6. 0 \in P
  <2>1. Pre(0) = <<>>
    <3>1. SubSeq(s, 1, 0) = <<>>
      OBVIOUS
    <3> QED BY <3>1, FlattenEmpty
  <2>2. sum[0] = Len(Pre(0))
    <3> HIDE DEF Pre
    <3> QED BY <1>5, <2>1
  <2> HIDE DEF Pre
  <2> QED BY <2>2
<1>7. ASSUME NEW n \in P, n \in Nat PROVE n + 1 \in P
  <2> SUFFICES ASSUME n + 1 <= N PROVE sum[n + 1] = Len(Pre(n + 1))
    BY <1>7
  <2> DEFINE a == SubSeq(s, 1, n)
             x == s[n + 1]
  <2>1. a \in Seq(Seq(B)) /\ x \in Seq(B) /\ SubSeq(s, 1, n + 1) = Append(a, x)
    BY <1>1, <1>7
  <2>2. sum[n] = Len(FlattenSeq(a))
    BY <1>1, <1>7
  <2>3. sum[n + 1] = sum[n] + Len(x)
    <3>1. n + 1 \in 1..N /\ (n + 1) - 1 = n
      BY <1>1, <1>7
    <3> QED BY <1>5, <3>1
  <2> HIDE DEF a, x
  <2>4. FlattenSeq(a) \in Seq(B) /\ FlattenSeq(Append(a, x)) = FlattenSeq(a) \o x
    BY <2>1, FlattenAppend, FlattenType
  <2>5. Len(FlattenSeq(a) \o x) = Len(FlattenSeq(a)) + Len(x)
    BY <2>1, <2>4
  <2> QED BY <2>1, <2>2, <2>3, <2>4, <2>5
<1>8. Nat \subseteq P
  <2> HIDE DEF P
  <2> QED BY <1>6, <1>7, SetInduction
<1>9. k \in P
  BY <1>8
<1> QED BY <1>1, <1>4, <1>9

\* Every set of numbers with a bound has a greatest element.
LEMMA GreatestNat ==
  ASSUME NEW N \in Nat, NEW T, T \subseteq 0..N, T # {}
  PROVE  \E m \in T : \A k \in T : k <= m
<1> DEFINE U == {n \in Nat : \A k \in T : k <= n}
<1>1. U # {} /\ U \subseteq Nat
  <2>1. N \in U
    OBVIOUS
  <2> QED BY <2>1
<1>2. PICK m \in U : \A k \in U : m <= k
  <2> HIDE DEF U
  <2> QED BY <1>1, LeastNat
<1>3. m \in T
  <2> SUFFICES ASSUME m \notin T PROVE FALSE
    OBVIOUS
  <2>1. \A k \in T : k <= m /\ k # m /\ k \in Nat
    BY <1>2
  <2>2. m # 0
    <3>1. PICK k \in T : TRUE
      OBVIOUS
    <3>2. k <= m /\ k # m /\ k \in Nat /\ m \in Nat
      BY <1>2, <2>1
    <3> QED BY <3>2
  <2>3. m - 1 \in U
    BY <1>2, <2>1, <2>2
  <2> QED BY <1>2, <2>3
<1> QED BY <1>2, <1>3

\* The whole segments among the first n bytes, and where the cut falls.
Gone(q, n) == { k \in 0..Len(q.spill) : SpillSizes(q, k) <= n }
LastGone(q, n) == CHOOSE j \in Gone(q, n) : \A i \in Gone(q, n) : i <= j

LEMMA GoneProperties ==
  ASSUME NEW B, NEW q, q.spill \in Seq(Seq(B)), NEW n \in 0..Len(FlattenSeq(q.spill))
  PROVE  LET k == LastGone(q, n)
             s == q.spill
             N == Len(q.spill)
         IN  /\ k \in 0..N /\ SpillSizes(q, k) \in 0..n
             /\ SpillSizes(q, k) # n =>
                  /\ k < N /\ s[k + 1] \in Seq(B)
                  /\ n - SpillSizes(q, k) \in 1..(Len(s[k + 1]) - 1)
<1> DEFINE s == q.spill
           N == Len(s)
           k == LastGone(q, n)
           Pre(i) == FlattenSeq(SubSeq(s, 1, i))
<1>1. N \in Nat /\ s \in Seq(Seq(B))
  OBVIOUS
<1>2. \A i \in 0..N : SubSeq(s, 1, i) \in Seq(Seq(B)) /\ Pre(i) \in Seq(B)
  <2> TAKE i \in 0..N
  <2>1. SubSeq(s, 1, i) \in Seq(Seq(B))
    BY <1>1
  <2> QED BY <2>1, FlattenType
<1>3. \A i \in 0..N : SpillSizes(q, i) = Len(Pre(i)) /\ SpillSizes(q, i) \in Nat
  <2> TAKE i \in 0..N
  <2>1. SpillSizes(q, i) = Len(Pre(i))
    BY <1>1, SizesAreLengths
  <2>2. Len(Pre(i)) \in Nat
    <3> HIDE DEF Pre
    <3> QED BY <1>2
  <2> QED BY <2>1, <2>2
<1>4. Pre(0) = <<>> /\ Pre(N) = FlattenSeq(s)
  <2>1. SubSeq(s, 1, 0) = <<>> /\ SubSeq(s, 1, N) = s
    BY <1>1, SubSeqFull
  <2> QED BY <2>1, FlattenEmpty
<1>5. 0 \in Gone(q, n)
  BY <1>1, <1>3, <1>4 DEF Gone
<1>6. \E j \in Gone(q, n) : \A i \in Gone(q, n) : i <= j
  <2>1. Gone(q, n) \subseteq 0..N
    BY DEF Gone
  <2> QED BY <1>1, <1>5, <2>1, GreatestNat
<1>7. k \in Gone(q, n) /\ \A i \in Gone(q, n) : i <= k
  BY <1>6 DEF LastGone
<1> HIDE DEF k
<1>8. k \in 0..N /\ SpillSizes(q, k) \in 0..n
  BY <1>3, <1>7 DEF Gone
<1>9. ASSUME SpillSizes(q, k) # n
      PROVE  /\ k < N /\ s[k + 1] \in Seq(B)
             /\ n - SpillSizes(q, k) \in 1..(Len(s[k + 1]) - 1)
  <2>1. k < N
    <3>1. k # N
      BY <1>3, <1>4, <1>8, <1>9
    <3> QED BY <1>1, <1>8, <3>1
  <2>2. k + 1 \in 1..N /\ k + 1 \in 0..N /\ s[k + 1] \in Seq(B)
    BY <1>1, <1>8, <2>1
  <2>3. ~(SpillSizes(q, k + 1) <= n)
    <3>1. ~(k + 1 <= k)
      BY <1>8
    <3>2. k + 1 \notin Gone(q, n)
      BY <1>7, <3>1
    <3> QED BY <2>2, <3>2 DEF Gone
  <2>4. SpillSizes(q, k + 1) = SpillSizes(q, k) + Len(s[k + 1])
    <3>1. SubSeq(s, 1, k + 1) = Append(SubSeq(s, 1, k), s[k + 1])
      <4>1. k \in Nat /\ k + 1 <= Len(s)
        BY <1>1, <1>8, <2>2
      <4> HIDE DEF s
      <4> QED BY <1>1, <4>1, PrefixGrows
    <3>2. Pre(k + 1) = Pre(k) \o s[k + 1]
      BY <1>2, <1>8, <2>2, <3>1, FlattenAppend
    <3>3. Len(Pre(k) \o s[k + 1]) = Len(Pre(k)) + Len(s[k + 1])
      BY <1>2, <1>8, <2>2
    <3> QED BY <1>3, <1>8, <2>2, <3>2, <3>3
  <2>5. SpillSizes(q, k) \in Nat /\ SpillSizes(q, k + 1) \in Nat /\ Len(s[k + 1]) \in Nat
    BY <1>3, <1>8, <2>2
  <2>6. n - SpillSizes(q, k) \in 1..(Len(s[k + 1]) - 1)
    <3> DEFINE c == Len(s[k + 1])
               u == SpillSizes(q, k)
               v == SpillSizes(q, k + 1)
    <3>1. n \in Nat /\ c \in Nat /\ u \in 0..n /\ u # n /\ v \in Nat /\ ~(v <= n) /\ v = u + c
      BY <1>8, <1>9, <2>3, <2>4, <2>5
    <3> HIDE DEF c, u, v
    <3>2. n - u \in 1..(c - 1)
      BY <3>1
    <3> QED BY <3>2 DEF c, u
  <2> QED BY <2>1, <2>2, <2>6
<1> QED BY <1>8, <1>9 DEF k

\* What is left of a sequence behind its first k elements.
LEMMA RestOf ==
  ASSUME NEW X, NEW t \in Seq(X), NEW k \in 0..Len(t)
  PROVE  LET r == SubSeq(t, k + 1, Len(t))
         IN  /\ Len(t) \in Nat /\ r \in Seq(X) /\ Len(r) = Len(t) - k
             /\ \A i \in 1..(Len(t) - k) : r[i] = t[k + i]
<1> DEFINE N == Len(t)
           r == SubSeq(t, k + 1, N)
<1>1. N \in Nat /\ k \in Nat /\ k <= N
  OBVIOUS
<1>2. r \in Seq(X)
  OBVIOUS
<1>3. Len(r) = N - k
  BY <1>1
<1>4. \A i \in 1..(N - k) : r[i] = t[k + i]
  BY <1>1
<1> QED BY <1>1, <1>2, <1>3, <1>4

\* What ConsumeSent leaves of the segments.
LEMMA SpillAfterDrops ==
  ASSUME NEW B, NEW q, q.spill \in Seq(Seq(B)), NEW n \in 0..Len(FlattenSeq(q.spill))
  PROVE  /\ SpillAfter(q, n) \in Seq(Seq(B))
         /\ FlattenSeq(SpillAfter(q, n)) = Drop(FlattenSeq(q.spill), n)
         /\ Len(SpillAfter(q, n)) <= Len(q.spill)
         /\ (\A i \in DOMAIN q.spill : q.spill[i] # <<>>) =>
              \A i \in DOMAIN SpillAfter(q, n) : SpillAfter(q, n)[i] # <<>>
<1> DEFINE s == q.spill
           N == Len(s)
           k == LastGone(q, n)
           cut == n - SpillSizes(q, k)
           rest == SubSeq(s, k + 1, N)
           a == SubSeq(s, 1, k)
<1>1. SpillAfter(q, n) = IF cut = 0 THEN rest ELSE [rest EXCEPT ![1] = Drop(@, cut)]
  BY DEF SpillAfter, LastGone, Gone, Drop
<1>2. /\ k \in 0..N /\ SpillSizes(q, k) \in 0..n
      /\ SpillSizes(q, k) # n =>
           k < N /\ s[k + 1] \in Seq(B) /\ cut \in 1..(Len(s[k + 1]) - 1)
  BY GoneProperties
<1>3. SpillSizes(q, k) = Len(FlattenSeq(a))
  BY <1>2, SizesAreLengths
<1> HIDE DEF k
<1>4. /\ N \in Nat /\ s \in Seq(Seq(B)) /\ rest \in Seq(Seq(B)) /\ Len(rest) = N - k
      /\ a \in Seq(Seq(B)) /\ \A i \in 1..(N - k) : rest[i] = s[k + i]
  <2> DEFINE X == Seq(B)
  <2>1. s \in Seq(X) /\ k \in 0..Len(s)
    BY <1>2
  <2> HIDE DEF X
  <2>2. /\ N \in Nat /\ rest \in Seq(X) /\ Len(rest) = N - k
        /\ \A i \in 1..(N - k) : rest[i] = s[k + i]
    BY <2>1, RestOf
  <2>3. a \in Seq(X)
    BY <2>1
  <2> QED BY <2>1, <2>2, <2>3 DEF X
<1>5. FlattenSeq(s) = FlattenSeq(a) \o FlattenSeq(rest)
  BY <1>2, <1>4, FlattenSplit
<1>6. FlattenSeq(a) \in Seq(B) /\ FlattenSeq(rest) \in Seq(B)
  BY <1>4, FlattenType
<1>7. cut \in Nat /\ n = Len(FlattenSeq(a)) + cut /\ (cut = 0 <=> SpillSizes(q, k) = n)
  BY <1>2, <1>3
<1> HIDE DEF cut, rest, a
<1>8. CASE cut = 0
  <2>1. Drop(FlattenSeq(s), n) = FlattenSeq(rest)
    <3>1. 0 \in 0..Len(FlattenSeq(rest)) /\ n = Len(FlattenSeq(a)) + 0
      BY <1>6, <1>7, <1>8
    <3>2. Drop(FlattenSeq(s), n) = Drop(FlattenSeq(rest), 0)
      BY <1>5, <1>6, <3>1, DropInSecond
    <3> QED BY <1>6, <3>2, DropNothing
  <2>2. (\A i \in 1..N : s[i] # <<>>) => \A i \in 1..(N - k) : rest[i] # <<>>
    <3>1. \A i \in 1..(N - k) : k + i \in 1..N
      BY <1>2, <1>4
    <3> QED BY <1>4, <3>1
  <2>3. DOMAIN s = 1..N /\ DOMAIN rest = 1..(N - k) /\ N - k <= N
    BY <1>2, <1>4
  <2> QED BY <1>1, <1>4, <1>8, <2>1, <2>2, <2>3
<1>9. CASE cut # 0
  <2>1. k < N /\ s[k + 1] \in Seq(B) /\ cut \in 1..(Len(s[k + 1]) - 1)
    BY <1>2, <1>7, <1>9
  <2>2. rest # <<>> /\ 1 \in 1..(N - k) /\ rest[1] = s[k + 1] /\ DOMAIN rest = 1..(N - k)
    <3>1. N - k \in Nat \ {0} /\ 1 \in 1..(N - k)
      BY <1>2, <1>4, <2>1
    <3>2. Len(rest) # 0 /\ DOMAIN rest = 1..(N - k)
      BY <1>4, <3>1
    <3>3. rest[1] = s[k + 1]
      BY <1>4, <3>1
    <3> QED BY <3>1, <3>2, <3>3
  <2>3. cut \in 0..Len(rest[1])
    BY <2>1, <2>2
  <2> DEFINE t == [rest EXCEPT ![1] = Drop(@, cut)]
  <2>4. t \in Seq(Seq(B)) /\ FlattenSeq(t) = Drop(FlattenSeq(rest), cut)
    BY <1>4, <2>2, <2>3, FlattenCut
  <2>5. cut \in 0..Len(FlattenSeq(rest))
    <3>1. n <= Len(FlattenSeq(s)) /\ Len(FlattenSeq(s)) = Len(FlattenSeq(a)) + Len(FlattenSeq(rest))
      BY <1>5, <1>6
    <3> QED BY <1>6, <1>7, <3>1
  <2>6. Drop(FlattenSeq(s), n) = Drop(FlattenSeq(rest), cut)
    BY <1>5, <1>6, <1>7, <2>5, DropInSecond
  <2>7. DOMAIN t = 1..(N - k) /\ Len(t) = N - k
    BY <1>2, <1>4, <2>2
  <2>8. t[1] = Drop(s[k + 1], cut) /\ \A i \in 2..(N - k) : t[i] = rest[i]
    BY <2>2
  <2> HIDE DEF t
  <2>9. t[1] # <<>>
    <3> DEFINE h == s[k + 1]
    <3>1. h \in Seq(B) /\ cut \in 0..Len(h) /\ Len(h) - cut # 0 /\ t[1] = Drop(h, cut)
      BY <2>1, <2>8
    <3> HIDE DEF h
    <3>2. Len(Drop(h, cut)) = Len(h) - cut
      BY <3>1, DropType
    <3>3. Len(t[1]) # 0
      BY <3>1, <3>2
    <3> QED BY <3>3
  <2>10. (\A i \in 1..N : s[i] # <<>>) => \A i \in 1..(N - k) : t[i] # <<>>
    <3>1. \A i \in 2..(N - k) : k + i \in 1..N /\ i \in 1..(N - k)
      BY <1>2, <1>4
    <3>2. \A i \in 1..(N - k) : i = 1 \/ i \in 2..(N - k)
      BY <1>2, <1>4
    <3> QED BY <1>4, <2>8, <2>9, <3>1, <3>2
  <2>11. DOMAIN s = 1..N /\ N - k <= N
    BY <1>2, <1>4
  <2>12. SpillAfter(q, n) = t
    BY <1>1, <1>9 DEF t
  <2> QED BY <2>4, <2>6, <2>7, <2>10, <2>11, <2>12
<1> QED BY <1>8, <1>9

\* What Append makes of the segments.
LEMMA SpillWriteAppends ==
  ASSUME NEW B, NEW q, q.spill \in Seq(Seq(B)), NEW part \in Seq(B)
  PROVE  /\ SpillWrite(q, part) \in Seq(Seq(B))
         /\ FlattenSeq(SpillWrite(q, part)) = FlattenSeq(q.spill) \o part
         /\ Len(SpillWrite(q, part)) =
              Len(q.spill) + (IF part = <<>> \/ CanMerge(q, Len(part)) THEN 0 ELSE 1)
         /\ (\A i \in DOMAIN q.spill : q.spill[i] # <<>>) =>
              \A i \in DOMAIN SpillWrite(q, part) : SpillWrite(q, part)[i] # <<>>
<1> DEFINE s == q.spill
           N == Len(s)
<1>1. N \in Nat /\ s \in Seq(Seq(B)) /\ FlattenSeq(s) \in Seq(B) /\ DOMAIN s = 1..N
  BY FlattenType
<1> DEFINE w == SpillWrite(q, part)
<1>2. CASE part = <<>>
  <2>1. FlattenSeq(s) \o part = FlattenSeq(s)
    BY <1>1, <1>2
  <2>2. w = s
    BY <1>2 DEF SpillWrite
  <2>3. Len(s) + (IF part = <<>> \/ CanMerge(q, Len(part)) THEN 0 ELSE 1) = N
    BY <1>1, <1>2
  <2> HIDE DEF w
  <2>4. w \in Seq(Seq(B)) /\ FlattenSeq(w) = FlattenSeq(s) \o part /\ Len(w) = N
    BY <1>1, <2>1, <2>2
  <2> QED BY <2>2, <2>3, <2>4 DEF w
<1>3. CASE part # <<>> /\ CanMerge(q, Len(part))
  <2>1. s # <<>> /\ N \in 1..N
    BY <1>1, <1>3 DEF CanMerge
  <2> DEFINE m == [s EXCEPT ![N] = @ \o part]
  <2>2. SpillWrite(q, part) = m
    BY <1>3 DEF SpillWrite
  <2>3. m \in Seq(Seq(B)) /\ FlattenSeq(m) = FlattenSeq(s) \o part
    BY <1>1, <2>1, FlattenMerge
  <2>4. Len(m) = N /\ DOMAIN m = 1..N
    BY <1>1
  <2>5. m[N] = s[N] \o part /\ \A i \in 1..N : i # N => m[i] = s[i]
    BY <1>1, <2>1
  <2>6. m[N] # <<>>
    <3>1. s[N] \in Seq(B)
      BY <1>1, <2>1
    <3>2. Len(s[N] \o part) = Len(s[N]) + Len(part) /\ Len(part) \in Nat \ {0} /\ Len(s[N]) \in Nat
      BY <1>3, <3>1
    <3>3. Len(m[N]) # 0
      BY <2>5, <3>2
    <3> QED BY <3>3
  <2> HIDE DEF m
  <2>7. (\A i \in 1..N : s[i] # <<>>) => \A i \in 1..N : m[i] # <<>>
    BY <2>5, <2>6
  <2>8. Len(s) + (IF part = <<>> \/ CanMerge(q, Len(part)) THEN 0 ELSE 1) = N
    BY <1>1, <1>3
  <2> QED BY <1>1, <2>2, <2>3, <2>4, <2>7, <2>8
<1>4. CASE part # <<>> /\ ~CanMerge(q, Len(part))
  <2>1. SpillWrite(q, part) = Append(s, part)
    BY <1>4 DEF SpillWrite
  <2>2. FlattenSeq(Append(s, part)) = FlattenSeq(s) \o part
    BY <1>1, FlattenAppend
  <2>3. /\ Append(s, part) \in Seq(Seq(B)) /\ Len(Append(s, part)) = N + 1
        /\ DOMAIN Append(s, part) = 1..(N + 1)
        /\ \A i \in 1..N : Append(s, part)[i] = s[i]
        /\ Append(s, part)[N + 1] = part
    BY <1>1
  <2> DEFINE u == Append(s, part)
  <2> HIDE DEF u
  <2>4. (\A i \in 1..N : s[i] # <<>>) => \A i \in 1..(N + 1) : u[i] # <<>>
    <3>1. \A i \in 1..(N + 1) : i \in 1..N \/ i = N + 1
      BY <1>1
    <3> QED BY <1>4, <2>3, <3>1 DEF u
  <2>5. Len(s) + (IF part = <<>> \/ CanMerge(q, Len(part)) THEN 0 ELSE 1) = N + 1
    BY <1>1, <1>4
  <2>6. w = u /\ u \in Seq(Seq(B)) /\ FlattenSeq(u) = FlattenSeq(s) \o part /\ Len(u) = N + 1
        /\ DOMAIN u = 1..(N + 1)
    BY <2>1, <2>2, <2>3 DEF u
  <2> QED BY <1>1, <2>4, <2>5, <2>6
<1> QED BY <1>2, <1>3, <1>4

-----------------------------------------------------------------------------
(***************************************************************************)
(* The ring.                                                               *)
(***************************************************************************)

\* Cells are numbered modulo the capacity; no sum reaches it twice.
LEMMA Wrap ==
  ASSUME NEW c \in Nat \ {0}, NEW x \in 0..(2 * c - 1)
  PROVE  x % c = IF x < c THEN x ELSE x - c
OBVIOUS

\* How far the cell of the i-th byte is from the tail.
LEMMA Distance ==
  ASSUME NEW c \in Nat \ {0}, NEW h \in 0..(c - 1), NEW m \in 0..c, NEW i \in 1..c
  PROVE  /\ (h + i - 1) % c \in 0..(c - 1)
         /\ (((h + i - 1) % c) + c - ((h + m) % c)) % c =
              IF i <= m THEN c - (m - (i - 1)) ELSE i - (m + 1)
<1>1. h + i - 1 \in 0..(2 * c - 1) /\ h + m \in 0..(2 * c - 1)
  OBVIOUS
<1> DEFINE x == (h + i - 1) % c
           y == (h + m) % c
           z == x + c - y
           d == IF i <= m THEN c - (m - (i - 1)) ELSE i - (m + 1)
<1>2. /\ x = IF h + i - 1 < c THEN h + i - 1 ELSE (h + i - 1) - c
      /\ y = IF h + m < c THEN h + m ELSE (h + m) - c
  BY <1>1, Wrap
<1> HIDE DEF x, y
<1>3. x \in 0..(c - 1) /\ y \in 0..(c - 1)
  BY <1>1, <1>2
<1>4. z \in 0..(2 * c - 1)
  BY <1>3
<1>5. z % c = IF z < c THEN z ELSE z - c
  BY <1>4, Wrap
<1>6. d \in 0..(c - 1)
  OBVIOUS
<1>7. z = d \/ z = d + c
  <2>1. CASE i <= m
    <3>1. d = c - (m - (i - 1))
      BY <2>1
    <3> HIDE DEF d
    <3> QED BY <1>2, <2>1, <3>1
  <2>2. CASE ~(i <= m)
    <3>1. d = i - (m + 1)
      BY <2>2
    <3> HIDE DEF d
    <3> QED BY <1>2, <2>2, <3>1
  <2> QED BY <2>1, <2>2
<1>8. z % c = d
  <2> HIDE DEF z, d
  <2> QED BY <1>5, <1>6, <1>7
<1> QED BY <1>3, <1>8 DEF x, y

\* What the ring holds, from its head.
RingPart(q) == [i \in 1..q.size |-> q.ring[(q.head + i - 1) % q.cap]]

\* A well-formed queue.
RecordFields == {"cap", "ring", "head", "size", "spill", "listBytes"}
RingFine(q) ==
  /\ DOMAIN q = RecordFields
  /\ q.cap \in Nat /\ q.size \in 0..q.cap /\ q.head \in 0..q.cap
  /\ q.cap # 0 => q.head < q.cap
  /\ q.ring \in [0..(q.cap - 1) -> Byte \cup {NoByte}]
  /\ \A i \in 1..q.size : q.ring[(q.head + i - 1) % q.cap] \in Byte
SpillFine(q) ==
  /\ q.spill \in Seq(Seq(Byte))
  /\ q.listBytes = Len(FlattenSeq(q.spill))
  /\ \A i \in DOMAIN q.spill : q.spill[i] # <<>>

LEMMA ContentParts ==
  ASSUME NEW q, RingFine(q), SpillFine(q)
  PROVE  /\ Content(q) = RingPart(q) \o FlattenSeq(q.spill)
         /\ RingPart(q) \in Seq(Byte) /\ Len(RingPart(q)) = q.size
         /\ FlattenSeq(q.spill) \in Seq(Byte)
         /\ Content(q) \in Seq(Byte)
         /\ Len(Content(q)) = q.size + q.listBytes
<1>1. Content(q) = RingPart(q) \o FlattenSeq(q.spill)
  BY DEF Content, RingPart
<1>2. FlattenSeq(q.spill) \in Seq(Byte)
  BY FlattenType DEF SpillFine
<1>3. RingPart(q) \in Seq(Byte) /\ Len(RingPart(q)) = q.size
  <2>1. q.size \in Nat
    BY DEF RingFine
  <2>2. RingPart(q) \in [1..q.size -> Byte]
    BY DEF RingFine, RingPart
  <2> QED BY <2>1, <2>2
<1>4. Content(q) \in Seq(Byte) /\ Len(Content(q)) = Len(RingPart(q)) + Len(FlattenSeq(q.spill))
  <2> DEFINE a == RingPart(q)
             b == FlattenSeq(q.spill)
  <2>1. a \in Seq(Byte) /\ b \in Seq(Byte)
    BY <1>2, <1>3
  <2> HIDE DEF a, b
  <2>2. a \o b \in Seq(Byte) /\ Len(a \o b) = Len(a) + Len(b)
    BY <2>1
  <2> QED BY <1>1, <2>2 DEF a, b
<1> QED BY <1>1, <1>2, <1>3, <1>4 DEF SpillFine

\* Writing at the tail of the ring.
LEMMA RingWriteAppends ==
  ASSUME NEW q, RingFine(q), NEW data \in Seq(Byte), NEW n \in 1..Len(data), q.size + n <= q.cap,
         NEW r, r = [q EXCEPT !.ring = RingWrite(q, data, n), !.size = @ + n]
  PROVE  RingFine(r) /\ RingPart(r) = RingPart(q) \o SubSeq(data, 1, n)
<1> DEFINE c == q.cap
           h == q.head
           m == q.size
           cell(i) == (h + i - 1) % c
           w == RingWrite(q, data, n)
<1>1. /\ c \in Nat \ {0} /\ h \in 0..(c - 1) /\ m \in 0..c /\ m + n <= c /\ n \in Nat \ {0}
      /\ DOMAIN q = RecordFields /\ DOMAIN q.ring = 0..(c - 1)
      /\ q.ring \in [0..(c - 1) -> Byte \cup {NoByte}]
      /\ \A i \in 1..m : q.ring[cell(i)] \in Byte
  BY DEF RingFine
<1>2. /\ DOMAIN r = RecordFields /\ r.cap = c /\ r.head = h /\ r.size = m + n /\ r.ring = w
  BY <1>1 DEF RecordFields
<1>3. \A i \in 1..n : data[i] \in Byte
  OBVIOUS
<1>4. w = [i \in 0..(c - 1) |->
             IF (i + c - ((h + m) % c)) % c < n THEN data[((i + c - ((h + m) % c)) % c) + 1]
             ELSE q.ring[i]]
  BY <1>1 DEF RingWrite
<1> HIDE DEF c, h, m, w
<1>5. ASSUME NEW i \in 1..(m + n)
      PROVE  /\ cell(i) \in 0..(c - 1)
             /\ (cell(i) + c - ((h + m) % c)) % c =
                  IF i <= m THEN c - (m - (i - 1)) ELSE i - (m + 1)
  <2>1. i \in 1..c
    BY <1>1
  <2> QED BY <1>1, <2>1, Distance
<1>6. \A i \in 1..(m + n) : w[cell(i)] = IF i <= m THEN q.ring[cell(i)] ELSE data[i - m]
  <2> TAKE i \in 1..(m + n)
  <2> DEFINE k == (cell(i) + c - ((h + m) % c)) % c
  <2>1. w[cell(i)] = IF k < n THEN data[k + 1] ELSE q.ring[cell(i)]
    BY <1>4, <1>5
  <2>2. k = IF i <= m THEN c - (m - (i - 1)) ELSE i - (m + 1)
    BY <1>5
  <2> HIDE DEF k
  <2>3. CASE i <= m
    <3>1. ~(k < n)
      BY <1>1, <2>2, <2>3
    <3> QED BY <2>1, <2>3, <3>1
  <2>4. CASE ~(i <= m)
    <3>1. k < n /\ k + 1 = i - m
      BY <1>1, <2>2, <2>4
    <3> QED BY <2>1, <2>4, <3>1
  <2> QED BY <2>3, <2>4
<1>7. \A i \in 1..(m + n) : w[cell(i)] \in Byte
  <2> TAKE i \in 1..(m + n)
  <2>1. CASE i <= m
    <3>1. i \in 1..m
      BY <1>1, <2>1
    <3>2. q.ring[cell(i)] \in Byte
      BY <1>1, <3>1
    <3> QED BY <1>6, <2>1, <3>2
  <2>2. CASE ~(i <= m)
    <3>1. i - m \in 1..n
      BY <1>1, <2>2
    <3> QED BY <1>3, <1>6, <2>2, <3>1
  <2> QED BY <2>1, <2>2
<1>8. w \in [0..(c - 1) -> Byte \cup {NoByte}]
  <2>1. ASSUME NEW i \in 0..(c - 1), (i + c - ((h + m) % c)) % c < n
        PROVE  data[((i + c - ((h + m) % c)) % c) + 1] \in Byte
    <3> DEFINE y == (h + m) % c
               z == i + c - y
               k == z % c
    <3>1. y \in 0..(c - 1)
      <4>1. h + m \in Int
        BY <1>1
      <4> QED BY <1>1, <4>1
    <3> HIDE DEF y
    <3>2. z \in Int
      BY <1>1, <3>1
    <3> HIDE DEF z
    <3>3. k \in 0..(c - 1)
      BY <1>1, <3>2
    <3>4. k < n
      BY <2>1 DEF y, z
    <3> HIDE DEF k
    <3>5. k + 1 \in 1..n
      BY <1>1, <3>3, <3>4
    <3> QED BY <1>3, <3>5 DEF y, z, k
  <2> QED BY <1>1, <1>4, <2>1
<1>9. RingFine(r)
  <2>1. \A i \in 1..r.size : r.ring[(r.head + i - 1) % r.cap] \in Byte
    BY <1>2, <1>7
  <2> QED BY <1>1, <1>2, <1>8, <2>1 DEF RingFine
<1>10. RingPart(r) = RingPart(q) \o SubSeq(data, 1, n)
  <2> DEFINE a == RingPart(q)
             b == SubSeq(data, 1, n)
             t == RingPart(r)
  <2>1. a \in Seq(Byte) /\ Len(a) = m /\ \A i \in 1..m : a[i] = q.ring[cell(i)]
    <3>1. a = [i \in 1..m |-> q.ring[cell(i)]]
      BY DEF RingPart, c, h, m
    <3> HIDE DEF a
    <3>2. a \in [1..m -> Byte] /\ m \in Nat
      BY <1>1, <3>1
    <3> QED BY <3>1, <3>2
  <2>2. b \in Seq(Byte) /\ Len(b) = n /\ \A i \in 1..n : b[i] = data[i]
    BY <1>1
  <2>3. t = [i \in 1..(m + n) |-> w[cell(i)]]
    BY <1>2 DEF RingPart
  <2>4. t \in Seq(Byte) /\ Len(t) = m + n /\ \A i \in 1..(m + n) : t[i] = w[cell(i)]
    <3>1. m + n \in Nat
      BY <1>1
    <3>2. t \in [1..(m + n) -> Byte]
      BY <1>7, <2>3
    <3> QED BY <2>3, <3>1, <3>2
  <2> HIDE DEF a, b, t
  <2>5. /\ a \o b \in Seq(Byte) /\ Len(a \o b) = m + n
        /\ \A i \in 1..(m + n) : (a \o b)[i] = IF i <= m THEN a[i] ELSE b[i - m]
    <3>1. /\ a \o b \in Seq(Byte) /\ Len(a \o b) = Len(a) + Len(b)
          /\ \A i \in 1..(Len(a) + Len(b)) :
               (a \o b)[i] = IF i <= Len(a) THEN a[i] ELSE b[i - Len(a)]
      BY <2>1, <2>2, ConcatProperties
    <3>2. Len(a) = m /\ Len(b) = n
      BY <2>1, <2>2
    <3> QED BY <3>1, <3>2
  <2>6. \A i \in 1..(m + n) : t[i] = (a \o b)[i]
    <3> TAKE i \in 1..(m + n)
    <3>1. CASE i <= m
      <4>1. i \in 1..m
        BY <1>1, <3>1
      <4>2. a[i] = q.ring[cell(i)] /\ t[i] = w[cell(i)] /\ (a \o b)[i] = a[i]
        BY <2>1, <2>4, <2>5, <3>1, <4>1
      <4> QED BY <1>6, <3>1, <4>2
    <3>2. CASE ~(i <= m)
      <4>1. i - m \in 1..n
        BY <1>1, <3>2
      <4> QED BY <1>6, <2>2, <2>4, <2>5, <3>2, <4>1
    <3> QED BY <3>1, <3>2
  <2>7. t = a \o b
    BY <2>4, <2>5, <2>6, SeqEqual
  <2> QED BY <2>7 DEF a, b, t
<1> QED BY <1>9, <1>10

LEMMA Shift ==
  ASSUME NEW c \in Nat \ {0}, NEW h \in 0..(c - 1), NEW f \in 0..c, NEW i \in 1..c, f + i <= c
  PROVE  (((h + f) % c) + i - 1) % c = (h + (f + i) - 1) % c
<1>1. h + f \in 0..(2 * c - 1) /\ h + (f + i) - 1 \in 0..(2 * c - 1)
  OBVIOUS
<1> DEFINE y == (h + f) % c
           z == (h + (f + i) - 1) % c
<1>2. /\ y = IF h + f < c THEN h + f ELSE (h + f) - c
      /\ z = IF h + (f + i) - 1 < c THEN h + (f + i) - 1 ELSE (h + (f + i) - 1) - c
  BY <1>1, Wrap
<1> HIDE DEF y, z
<1>3. y + i - 1 \in 0..(2 * c - 1)
  BY <1>1, <1>2
<1>4. (y + i - 1) % c = IF y + i - 1 < c THEN y + i - 1 ELSE (y + i - 1) - c
  BY <1>3, Wrap
<1>5. (y + i - 1) % c = z
  <2> DEFINE x == (y + i - 1) % c
  <2>1. x = IF y + i - 1 < c THEN y + i - 1 ELSE (y + i - 1) - c
    BY <1>4
  <2> HIDE DEF x
  <2>2. x = z
    BY <1>2, <2>1
  <2> QED BY <2>2 DEF x
<1> QED BY <1>5 DEF y, z

\* Moving the head of the ring over what was sent.
LEMMA RingConsumed ==
  ASSUME NEW q, RingFine(q), NEW f \in 0..q.size,
         NEW r, r = [q EXCEPT !.head = IF f = 0 THEN @ ELSE (@ + f) % q.cap, !.size = @ - f]
  PROVE  RingFine(r) /\ RingPart(r) = Drop(RingPart(q), f)
<1> DEFINE c == q.cap
           h == q.head
           m == q.size
           cell(i) == (h + i - 1) % c
           g == IF f = 0 THEN h ELSE (h + f) % c
<1>1. /\ c \in Nat /\ h \in 0..c /\ m \in 0..c /\ f \in 0..m /\ (c # 0 => h < c)
      /\ DOMAIN q = RecordFields /\ q.ring \in [0..(c - 1) -> Byte \cup {NoByte}]
      /\ \A i \in 1..m : q.ring[cell(i)] \in Byte
  BY DEF RingFine
<1>2. /\ DOMAIN r = RecordFields /\ r.cap = c /\ r.head = g /\ r.size = m - f /\ r.ring = q.ring
  BY <1>1 DEF RecordFields
<1>3. RingPart(q) = [i \in 1..m |-> q.ring[cell(i)]]
  BY DEF RingPart
<1>4. RingPart(r) = [i \in 1..(m - f) |-> q.ring[(g + i - 1) % c]]
  BY <1>2 DEF RingPart
<1> HIDE DEF c, h, m
<1>5. ASSUME NEW i \in 1..(m - f)
      PROVE  (g + i - 1) % c = cell(f + i) /\ f + i \in 1..m
  <2>1. c \in Nat \ {0} /\ h \in 0..(c - 1) /\ i \in 1..c /\ f \in 0..c /\ f + i <= c /\ f + i \in 1..m
    BY <1>1
  <2>2. CASE f = 0
    <3>1. f + i = i /\ g = h
      BY <2>1, <2>2
    <3> QED BY <2>1, <3>1
  <2>3. CASE f # 0
    <3>1. g = (h + f) % c
      BY <2>3
    <3> QED BY <2>1, <3>1, Shift
  <2> QED BY <2>2, <2>3
<1>6. g \in 0..c /\ (c # 0 => g < c)
  <2>1. CASE f = 0
    BY <1>1, <2>1
  <2>2. CASE f # 0
    <3>1. c \in Nat \ {0} /\ h + f \in Int /\ g = (h + f) % c
      BY <1>1, <2>2
    <3> HIDE DEF g
    <3>2. g \in 0..(c - 1)
      BY <3>1
    <3> QED BY <3>1, <3>2
  <2> QED BY <2>1, <2>2
<1>7. \A i \in 1..(m - f) : q.ring[(g + i - 1) % c] \in Byte
  BY <1>1, <1>5
<1> HIDE DEF g
<1>8. RingFine(r)
  <2>1. m - f \in 0..c
    BY <1>1
  <2>2. \A i \in 1..r.size : r.ring[(r.head + i - 1) % r.cap] \in Byte
    BY <1>2, <1>7
  <2> QED BY <1>1, <1>2, <1>6, <2>1, <2>2 DEF RingFine
<1>9. RingPart(r) = Drop(RingPart(q), f)
  <2> DEFINE a == RingPart(q)
             t == RingPart(r)
  <2>1. a \in Seq(Byte) /\ Len(a) = m /\ \A i \in 1..m : a[i] = q.ring[cell(i)]
    <3>1. a = [i \in 1..m |-> q.ring[cell(i)]]
      BY <1>3
    <3> HIDE DEF a
    <3>2. a \in [1..m -> Byte] /\ m \in Nat
      BY <1>1, <3>1
    <3> QED BY <3>1, <3>2
  <2>2. t \in Seq(Byte) /\ Len(t) = m - f /\ \A i \in 1..(m - f) : t[i] = q.ring[(g + i - 1) % c]
    <3>1. t = [i \in 1..(m - f) |-> q.ring[(g + i - 1) % c]]
      BY <1>4
    <3> HIDE DEF t
    <3>2. t \in [1..(m - f) -> Byte] /\ m - f \in Nat
      BY <1>1, <1>7, <3>1
    <3> QED BY <3>1, <3>2
  <2> HIDE DEF a, t
  <2>3. /\ Drop(a, f) \in Seq(Byte) /\ Len(Drop(a, f)) = m - f
        /\ \A i \in 1..(m - f) : Drop(a, f)[i] = a[f + i]
    <3>1. f \in 0..Len(a)
      BY <1>1, <2>1
    <3> QED BY <2>1, <3>1, DropType
  <2>4. \A i \in 1..(m - f) : t[i] = Drop(a, f)[i]
    BY <1>5, <2>1, <2>2, <2>3
  <2>5. t = Drop(a, f)
    BY <2>2, <2>3, <2>4, SeqEqual
  <2> QED BY <2>5 DEF a, t
<1> QED BY <1>8, <1>9

-----------------------------------------------------------------------------
(***************************************************************************)
(* The operations.                                                         *)
(***************************************************************************)
QueueFine(q) == RingFine(q) /\ SpillFine(q)

LEMMA EmptyIsFine ==
  ASSUME NEW n \in Nat
  PROVE  QueueFine(EmptyQueue(n)) /\ Content(EmptyQueue(n)) = <<>>
<1> DEFINE q == EmptyQueue(n)
<1>1. /\ DOMAIN q = RecordFields /\ q.cap = n /\ q.head = 0 /\ q.size = 0 /\ q.spill = <<>>
      /\ q.listBytes = 0 /\ q.ring = [i \in 0..(n - 1) |-> NoByte]
  BY DEF EmptyQueue, RingOf, RecordFields
<1> HIDE DEF q
<1>2. q.ring \in [0..(n - 1) -> Byte \cup {NoByte}]
  BY <1>1
<1>3. RingFine(q)
  BY <1>1, <1>2 DEF RingFine
<1>4. SpillFine(q)
  BY <1>1, FlattenEmpty DEF SpillFine
<1>5. Len(Content(q)) = 0 /\ Content(q) \in Seq(Byte)
  BY <1>1, <1>3, <1>4, ContentParts
<1>6. Content(q) = <<>>
  BY <1>5
<1> QED BY <1>3, <1>4, <1>6 DEF QueueFine, q

\* The fields that RingFine and RingPart look at.
LEMMA RingOnly ==
  ASSUME NEW q, NEW r, DOMAIN q = RecordFields, DOMAIN r = RecordFields,
         r.cap = q.cap, r.head = q.head, r.size = q.size, r.ring = q.ring
  PROVE  RingPart(r) = RingPart(q) /\ (RingFine(q) => RingFine(r))
BY DEF RingFine, RingPart

\* A list of bytes splits at every place.
LEMMA SplitAt ==
  ASSUME NEW B, NEW s \in Seq(B), NEW n \in 0..Len(s)
  PROVE  /\ SubSeq(s, 1, n) \in Seq(B) /\ Len(SubSeq(s, 1, n)) = n
         /\ SubSeq(s, 1, n) \o Drop(s, n) = s
<1>1. SubSeq(s, 1, n) \in Seq(B) /\ Len(SubSeq(s, 1, n)) = n
  OBVIOUS
<1>2. SubSeq(s, 1, n) \o Drop(s, n) = s
  <2> DEFINE N == Len(s)
  <2>1. N \in Nat /\ 1 \in 1..(N + 1) /\ n \in (1 - 1)..N /\ N \in n..N
    OBVIOUS
  <2>2. SubSeq(s, 1, N) = s
    BY SubSeqFull
  <2>3. N = Len(s)
    OBVIOUS
  <2> HIDE DEF N
  <2>4. SubSeq(s, 1, n) \o SubSeq(s, n + 1, N) = SubSeq(s, 1, N)
    BY <2>1, <2>3, ConcatAdjacentSubSeq
  <2> QED BY <2>2, <2>3, <2>4 DEF Drop
<1> QED BY <1>1, <1>2

\* An accepted append adds its bytes at the end.
LEMMA AppendedContent ==
  ASSUME NEW q, QueueFine(q), NEW data \in Seq(Byte)
  PROVE  LET r == QueueAppended(q, data)
         IN  /\ QueueFine(r)
             /\ Content(r) = Content(q) \o data
             /\ r.cap = q.cap
             /\ r.size + r.listBytes = (q.size + q.listBytes) + Len(data)
             /\ Len(r.spill) = Len(q.spill) +
                  (IF Len(data) = ToRing(q, Len(data))
                      \/ CanMerge(q, Len(data) - ToRing(q, Len(data))) THEN 0 ELSE 1)
<1> DEFINE n == ToRing(q, Len(data))
           part == Drop(data, n)
           r == QueueAppended(q, data)
           q1 == IF n = 0 THEN q ELSE [q EXCEPT !.ring = RingWrite(q, data, n), !.size = @ + n]
<1>1. RingFine(q) /\ SpillFine(q) /\ DOMAIN q = RecordFields
  BY DEF QueueFine, RingFine
<1>2. /\ q.cap \in Nat /\ q.size \in 0..q.cap /\ q.spill \in Seq(Seq(Byte))
      /\ q.listBytes \in Nat /\ Len(data) \in Nat
  <2>1. FlattenSeq(q.spill) \in Seq(Byte)
    BY <1>1, FlattenType DEF SpillFine
  <2> QED BY <1>1, <2>1 DEF RingFine, SpillFine
<1>3. n \in 0..Len(data) /\ q.size + n <= q.cap /\ (n # 0 => q.spill = <<>>)
  BY <1>2 DEF ToRing, RingSpace
<1>4. part \in Seq(Byte) /\ Len(part) = Len(data) - n
  <2> HIDE DEF n
  <2> QED BY <1>3, DropType
<1>5. r = [q EXCEPT !.spill = SpillWrite(q, part), !.listBytes = @ + Len(part),
                    !.ring = IF n = 0 THEN @ ELSE RingWrite(q, data, n), !.size = @ + n]
  BY DEF QueueAppended, Drop
<1> DEFINE w == SpillWrite(q, part)
<1> HIDE DEF n, part, r, w
<1>6. /\ DOMAIN r = RecordFields /\ r.cap = q.cap /\ r.head = q.head /\ r.spill = w
      /\ r.listBytes = q.listBytes + Len(part) /\ r.size = q.size + n
      /\ r.ring = IF n = 0 THEN q.ring ELSE RingWrite(q, data, n)
  BY <1>1, <1>5 DEF RecordFields, w
<1>7. RingFine(q1) /\ RingPart(q1) = RingPart(q) \o SubSeq(data, 1, n)
  <2>1. CASE n = 0
    <3>1. SubSeq(data, 1, n) = <<>>
      BY <2>1
    <3>2. RingPart(q) \o <<>> = RingPart(q)
      BY <1>1, ContentParts, ConcatEmptySeq
    <3> QED BY <1>1, <2>1, <3>1, <3>2
  <2>2. CASE n # 0
    <3>1. n \in 1..Len(data)
      BY <1>2, <1>3, <2>2
    <3>2. q1 = [q EXCEPT !.ring = RingWrite(q, data, n), !.size = @ + n]
      BY <2>2
    <3> HIDE DEF q1
    <3> QED BY <1>1, <1>3, <3>1, <3>2, RingWriteAppends
  <2> QED BY <2>1, <2>2
<1>8. /\ DOMAIN q1 = RecordFields /\ r.cap = q1.cap /\ r.head = q1.head /\ r.size = q1.size
      /\ r.ring = q1.ring
  <2>1. CASE n = 0
    BY <1>1, <1>2, <1>6, <2>1
  <2>2. CASE n # 0
    BY <1>1, <1>6, <2>2 DEF RecordFields
  <2> QED BY <2>1, <2>2
<1> HIDE DEF q1
<1>9. RingFine(r) /\ RingPart(r) = RingPart(q) \o SubSeq(data, 1, n)
  BY <1>6, <1>7, <1>8, RingOnly
<1>10. /\ w \in Seq(Seq(Byte)) /\ FlattenSeq(w) = FlattenSeq(q.spill) \o part
       /\ Len(w) = Len(q.spill) + (IF part = <<>> \/ CanMerge(q, Len(part)) THEN 0 ELSE 1)
       /\ \A i \in DOMAIN w : w[i] # <<>>
  <2>1. \A i \in DOMAIN q.spill : q.spill[i] # <<>>
    BY <1>1 DEF SpillFine
  <2>2. /\ SpillWrite(q, part) \in Seq(Seq(Byte))
        /\ FlattenSeq(SpillWrite(q, part)) = FlattenSeq(q.spill) \o part
        /\ Len(SpillWrite(q, part)) =
             Len(q.spill) + (IF part = <<>> \/ CanMerge(q, Len(part)) THEN 0 ELSE 1)
        /\ (\A i \in DOMAIN q.spill : q.spill[i] # <<>>) =>
             \A i \in DOMAIN SpillWrite(q, part) : SpillWrite(q, part)[i] # <<>>
    BY <1>2, <1>4, SpillWriteAppends
  <2> QED BY <2>1, <2>2 DEF w
<1> DEFINE a == RingPart(q)
           b == SubSeq(data, 1, n)
           c == FlattenSeq(q.spill)
<1>11. /\ a \in Seq(Byte) /\ c \in Seq(Byte) /\ Content(q) = a \o c /\ Len(a) = q.size
       /\ Len(c) = q.listBytes
  BY <1>1, ContentParts DEF SpillFine
<1>12. b \in Seq(Byte) /\ b \o part = data
  BY <1>3, SplitAt DEF part
<1>13. n # 0 => c = <<>>
  BY <1>3, FlattenEmpty
<1>14. n = 0 => b = <<>>
  OBVIOUS
<1>15. SpillFine(r)
  <2>1. Len(c \o part) = Len(c) + Len(part)
    <3>1. c \in Seq(Byte) /\ part \in Seq(Byte)
      BY <1>4, <1>11
    <3> HIDE DEF c
    <3> QED BY <3>1
  <2> QED BY <1>6, <1>10, <1>11, <2>1 DEF SpillFine
<1>16. Content(r) = (a \o b) \o (c \o part)
  BY <1>6, <1>9, <1>10, <1>15, ContentParts
<1> HIDE DEF a, b, c
<1>17. (a \o b) \o (c \o part) = (a \o c) \o data
  <2>1. CASE n = 0
    <3>1. a \o b = a /\ part = data
      <4>1. b = <<>>
        BY <1>14, <2>1
      <4> QED BY <1>4, <1>11, <1>12, <4>1
    <3>2. a \o (c \o data) = (a \o c) \o data
      BY <1>11, SMTT(30)
    <3> QED BY <3>1, <3>2
  <2>2. CASE n # 0
    <3>1. c \o part = part /\ a \o c = a
      <4>1. c = <<>>
        BY <1>13, <2>2
      <4> QED BY <1>4, <1>11, <4>1
    <3>2. (a \o b) \o part = a \o (b \o part)
      <4>1. a \in Seq(Byte) /\ b \in Seq(Byte) /\ part \in Seq(Byte)
        BY <1>4, <1>11, <1>12
      <4> QED BY <4>1
    <3> QED BY <1>12, <3>1, <3>2
  <2> QED BY <2>1, <2>2
<1>18. Content(r) = Content(q) \o data
  BY <1>11, <1>16, <1>17
<1>19. r.size + r.listBytes = (q.size + q.listBytes) + Len(data)
  <2> DEFINE d == Len(data)
             p == Len(part)
  <2>1. d \in Nat /\ p = d - n /\ n \in 0..d /\ q.size \in Nat /\ q.listBytes \in Nat
    BY <1>2, <1>3, <1>4
  <2> HIDE DEF d, p
  <2>2. (q.size + n) + (q.listBytes + p) = (q.size + q.listBytes) + d
    BY <2>1
  <2> QED BY <1>6, <2>2 DEF d, p
<1>20. part = <<>> <=> Len(data) = n
  BY <1>2, <1>3, <1>4
<1>21. Len(r.spill) = Len(q.spill) +
         (IF Len(data) = n \/ CanMerge(q, Len(data) - n) THEN 0 ELSE 1)
  BY <1>4, <1>6, <1>10, <1>20
<1> QED BY <1>6, <1>9, <1>15, <1>18, <1>19, <1>21 DEF QueueFine, n, r

\* Consuming removes a prefix.
LEMMA ConsumedContent ==
  ASSUME NEW q, QueueFine(q), NEW n \in 0..(q.size + q.listBytes)
  PROVE  LET r == Consumed(q, n)
         IN  /\ QueueFine(r)
             /\ Content(r) = Drop(Content(q), n)
             /\ r.cap = q.cap
             /\ r.size + r.listBytes = (q.size + q.listBytes) - n
             /\ Len(r.spill) <= Len(q.spill)
<1> DEFINE f == IF n < q.size THEN n ELSE q.size
           m == n - f
           r == Consumed(q, n)
           q1 == [q EXCEPT !.head = IF f = 0 THEN @ ELSE (@ + f) % q.cap, !.size = @ - f]
           w == SpillAfter(q, m)
<1>1. RingFine(q) /\ SpillFine(q) /\ DOMAIN q = RecordFields
  BY DEF QueueFine, RingFine
<1> DEFINE a == RingPart(q)
           c == FlattenSeq(q.spill)
<1>2. /\ a \in Seq(Byte) /\ c \in Seq(Byte) /\ Content(q) = a \o c /\ Len(a) = q.size
      /\ Len(c) = q.listBytes
  BY <1>1, ContentParts DEF SpillFine
<1>3. q.size \in Nat /\ q.listBytes \in Nat /\ q.spill \in Seq(Seq(Byte))
  <2> HIDE DEF a, c
  <2> QED BY <1>1, <1>2 DEF RingFine, SpillFine
<1>4. f \in 0..q.size /\ m \in 0..q.listBytes /\ n = f + m /\ (m # 0 => f = q.size)
  BY <1>3
<1>5. r = [q EXCEPT !.head = IF f = 0 THEN @ ELSE (@ + f) % q.cap, !.size = @ - f,
                    !.spill = w, !.listBytes = @ - m]
  BY DEF Consumed
<1> HIDE DEF f, m, r, w
<1>6. /\ DOMAIN r = RecordFields /\ DOMAIN q1 = RecordFields /\ r.cap = q.cap /\ r.cap = q1.cap
      /\ r.head = q1.head /\ r.size = q1.size /\ r.ring = q1.ring
      /\ r.spill = w /\ r.listBytes = q.listBytes - m /\ r.size = q.size - f
  BY <1>1, <1>5 DEF RecordFields
<1>7. RingFine(q1) /\ RingPart(q1) = Drop(a, f)
  BY <1>1, <1>4, RingConsumed
<1> HIDE DEF q1
<1>8. RingFine(r) /\ RingPart(r) = Drop(a, f)
  BY <1>6, <1>7, RingOnly
<1>9. /\ w \in Seq(Seq(Byte)) /\ FlattenSeq(w) = Drop(c, m) /\ Len(w) <= Len(q.spill)
      /\ \A i \in DOMAIN w : w[i] # <<>>
  BY <1>1, <1>2, <1>3, <1>4, SpillAfterDrops DEF SpillFine, w
<1> HIDE DEF a, c
<1>10. Drop(c, m) \in Seq(Byte) /\ Len(Drop(c, m)) = Len(c) - m
  BY <1>2, <1>4, DropType
<1>11. SpillFine(r)
  BY <1>2, <1>6, <1>9, <1>10 DEF SpillFine
<1>12. Content(r) = Drop(a, f) \o Drop(c, m)
  BY <1>6, <1>8, <1>9, <1>11, ContentParts
<1>13. Drop(a \o c, n) = Drop(a, f) \o Drop(c, m)
  <2>1. CASE m = 0
    <3>1. Drop(c, m) = c
      BY <1>2, <2>1, DropNothing
    <3>2. n = f /\ f \in 0..Len(a)
      BY <1>2, <1>3, <1>4, <2>1
    <3> QED BY <1>2, <3>1, <3>2, DropInFirst
  <2>2. CASE m # 0
    <3>1. f = Len(a) /\ n = Len(a) + m /\ m \in 0..Len(c) /\ f \in 0..Len(a)
      BY <1>2, <1>4, <2>2
    <3>2. Drop(a, f) \in Seq(Byte) /\ Len(Drop(a, f)) = Len(a) - f
      BY <1>2, <3>1, DropType
    <3>3. Drop(a, f) = <<>>
      BY <3>1, <3>2
    <3>4. Drop(a \o c, Len(a) + m) = Drop(c, m)
      BY <1>2, <3>1, DropInSecond
    <3>5. <<>> \o Drop(c, m) = Drop(c, m)
      BY <1>10
    <3> QED BY <3>1, <3>3, <3>4, <3>5
  <2> QED BY <2>1, <2>2
<1>14. r.size + r.listBytes = (q.size + q.listBytes) - n
  BY <1>3, <1>4, <1>6
<1> QED BY <1>2, <1>6, <1>8, <1>9, <1>11, <1>12, <1>13, <1>14 DEF QueueFine, r

\* The two runs of the ring are what it holds, in order.
LEMMA ViewsAreContent ==
  ASSUME NEW q, QueueFine(q)
  PROVE  AllViews(q) \in Seq(Seq(Byte)) /\ FlattenSeq(AllViews(q)) = Content(q)
<1> DEFINE c == q.cap
           h == q.head
           m == q.size
           k == Contiguous(q)
           one == [i \in 1..k |-> q.ring[h + i - 1]]
           two == [i \in 1..(m - k) |-> q.ring[i - 1]]
           v == RingViews(q)
           a == RingPart(q)
<1>1. RingFine(q) /\ SpillFine(q)
  BY DEF QueueFine
<1>2. /\ c \in Nat /\ h \in 0..c /\ m \in 0..c /\ (c # 0 => h < c)
      /\ \A i \in 1..m : q.ring[(h + i - 1) % c] \in Byte
  BY <1>1 DEF RingFine
<1>3. k = (IF m < c - h THEN m ELSE c - h) /\ k \in 0..m /\ (m > k => k = c - h)
  BY <1>2 DEF Contiguous
<1>4. v = (IF m # 0 THEN <<one>> ELSE <<>>) \o (IF m > k THEN <<two>> ELSE <<>>)
  BY DEF RingViews
<1>5. /\ a \in Seq(Byte) /\ Len(a) = m /\ FlattenSeq(q.spill) \in Seq(Byte)
      /\ Content(q) = a \o FlattenSeq(q.spill)
  BY <1>1, ContentParts
<1>6. a = [i \in 1..m |-> q.ring[(h + i - 1) % c]]
  BY DEF RingPart
<1> HIDE DEF c, h, m, k, v, a
<1>7. \A i \in 1..k : i \in 1..m /\ (h + i - 1) % c = h + i - 1
  <2> TAKE i \in 1..k
  <2>1. c \in Nat \ {0} /\ h + i - 1 \in 0..(2 * c - 1) /\ h + i - 1 < c /\ i \in 1..m
    BY <1>2, <1>3
  <2> QED BY <2>1, Wrap
<1>8. \A i \in 1..(m - k) : k + i \in 1..m /\ (h + (k + i) - 1) % c = i - 1
  <2> TAKE i \in 1..(m - k)
  <2>1. k = c - h /\ c \in Nat \ {0} /\ k + i \in 1..m
    BY <1>2, <1>3
  <2>2. h + (k + i) - 1 = c + (i - 1) /\ i - 1 \in 0..(c - 1)
    BY <1>2, <1>3, <2>1
  <2>3. c + (i - 1) \in 0..(2 * c - 1)
    BY <2>1, <2>2
  <2>4. (c + (i - 1)) % c = (c + (i - 1)) - c
    BY <2>1, <2>2, <2>3, Wrap
  <2> QED BY <2>1, <2>2, <2>4
<1>9. one \in Seq(Byte) /\ Len(one) = k /\ \A i \in 1..k : one[i] = a[i]
  <2>1. k \in Nat
    BY <1>2, <1>3
  <2>2. \A i \in 1..k : q.ring[h + i - 1] \in Byte
    BY <1>2, <1>7
  <2>3. one \in [1..k -> Byte]
    BY <2>2
  <2>4. \A i \in 1..k : one[i] = a[i]
    BY <1>6, <1>7
  <2> HIDE DEF one
  <2> QED BY <2>1, <2>3, <2>4
<1>10. two \in Seq(Byte) /\ Len(two) = m - k /\ \A i \in 1..(m - k) : two[i] = a[k + i]
  <2>1. m - k \in Nat
    BY <1>2, <1>3
  <2>2. \A i \in 1..(m - k) : q.ring[i - 1] \in Byte
    BY <1>2, <1>8
  <2>3. two \in [1..(m - k) -> Byte]
    BY <2>2
  <2>4. \A i \in 1..(m - k) : two[i] = a[k + i]
    BY <1>6, <1>8
  <2> HIDE DEF two
  <2> QED BY <2>1, <2>3, <2>4
<1> HIDE DEF one, two
<1>11. a = one \o two
  <2>1. /\ one \o two \in Seq(Byte) /\ Len(one \o two) = k + (m - k)
        /\ \A i \in 1..(k + (m - k)) : (one \o two)[i] = IF i <= k THEN one[i] ELSE two[i - k]
    <3>1. /\ one \o two \in Seq(Byte) /\ Len(one \o two) = Len(one) + Len(two)
          /\ \A i \in 1..(Len(one) + Len(two)) :
               (one \o two)[i] = IF i <= Len(one) THEN one[i] ELSE two[i - Len(one)]
      BY <1>9, <1>10, ConcatProperties
    <3>2. Len(one) = k /\ Len(two) = m - k
      BY <1>9, <1>10
    <3> QED BY <3>1, <3>2
  <2>2. k + (m - k) = m
    BY <1>2, <1>3
  <2>3. \A i \in 1..m : (one \o two)[i] = a[i]
    <3> TAKE i \in 1..m
    <3>1. CASE i <= k
      <4>1. i \in 1..k
        BY <1>2, <1>3, <3>1
      <4> QED BY <1>9, <2>1, <2>2, <3>1, <4>1
    <3>2. CASE ~(i <= k)
      <4>1. i - k \in 1..(m - k) /\ k + (i - k) = i
        BY <1>2, <1>3, <3>2
      <4> QED BY <1>10, <2>1, <2>2, <3>2, <4>1
    <3> QED BY <3>1, <3>2
  <2> QED BY <1>5, <2>1, <2>2, <2>3, SeqEqual
<1>12. v \in Seq(Seq(Byte)) /\ FlattenSeq(v) = a
  <2>1. CASE m = 0
    <3>1. v = <<>> /\ a = <<>>
      BY <1>3, <1>4, <1>5, <2>1
    <3> QED BY <3>1, FlattenEmpty
  <2>2. CASE m # 0 /\ ~(m > k)
    <3>1. v = <<one>>
      BY <1>4, <2>2
    <3>2. m - k = 0
      BY <1>2, <1>3, <2>2
    <3>3. two = <<>>
      BY <1>10, <3>2
    <3>4. a = one
      BY <1>9, <1>11, <3>3
    <3> QED BY <1>9, <3>1, <3>4, FlattenOne
  <2>3. CASE m # 0 /\ m > k
    <3> DEFINE s == <<one>>
               t == <<two>>
    <3>1. s \in Seq(Seq(Byte)) /\ t \in Seq(Seq(Byte)) /\ v = s \o t
      BY <1>4, <1>9, <1>10, <2>3
    <3>2. FlattenSeq(s) = one /\ FlattenSeq(t) = two
      BY <1>9, <1>10, FlattenOne
    <3> HIDE DEF s, t
    <3>3. s \o t \in Seq(Seq(Byte))
      BY <3>1
    <3> QED BY <1>11, <3>1, <3>2, <3>3, FlattenConcat
  <2> QED BY <2>1, <2>2, <2>3
<1> DEFINE p == q.spill
<1>13. p \in Seq(Seq(Byte)) /\ AllViews(q) = v \o p
  BY <1>1 DEF SpillFine, AllViews, v
<1> HIDE DEF p
<1>14. v \o p \in Seq(Seq(Byte)) /\ FlattenSeq(v \o p) = a \o FlattenSeq(p)
  <2>1. v \o p \in Seq(Seq(Byte))
    BY <1>12, <1>13
  <2> QED BY <1>12, <1>13, <2>1, FlattenConcat
<1> QED BY <1>5, <1>13, <1>14 DEF p

\* The first part of a list is a prefix of it.
LEMMA FirstIsPrefix ==
  ASSUME NEW B, NEW s \in Seq(B), NEW t \in Seq(B)
  PROVE  IsPrefix(s, s \o t)
<1>1. /\ s \o t \in Seq(B) /\ Len(s \o t) = Len(s) + Len(t)
      /\ \A i \in 1..(Len(s) + Len(t)) : (s \o t)[i] = IF i <= Len(s) THEN s[i] ELSE t[i - Len(s)]
  BY ConcatProperties
<1>2. SubSeq(s, 1, Len(s)) = s
  BY SubSeqFull
<1>3. SubSeq(s \o t, 1, Len(s)) = s
  <2> DEFINE u == s \o t
             n == Len(s)
  <2>1. n \in 0..Len(u) /\ u \in Seq(B) /\ \A i \in 1..n : u[i] = s[i]
    <3>1. Len(s) \in Nat /\ Len(t) \in Nat
      OBVIOUS
    <3> QED BY <1>1, <3>1
  <2> HIDE DEF u, n
  <2>2. /\ SubSeq(u, 1, n) \in Seq(B) /\ Len(SubSeq(u, 1, n)) = n
        /\ \A i \in 1..n : SubSeq(u, 1, n)[i] = u[i]
    BY <2>1
  <2>3. SubSeq(u, 1, n) = s
    BY <2>1, <2>2, SeqEqual DEF n
  <2> QED BY <2>3 DEF u, n
<1> QED BY <1>1, <1>2, <1>3 DEF IsPrefix

LEMMA GatheredIsPrefix ==
  ASSUME QueueFine(queue), NEW maxViews \in Nat
  PROVE  IsPrefix(FlattenSeq(GatherViews(maxViews)), Content(queue))
<1> DEFINE all == AllViews(queue)
           k == IF Len(all) < maxViews THEN Len(all) ELSE maxViews
           s == SubSeq(all, 1, k)
           t == SubSeq(all, k + 1, Len(all))
<1>1. all \in Seq(Seq(Byte)) /\ FlattenSeq(all) = Content(queue)
  BY ViewsAreContent
<1>2. GatherViews(maxViews) = s
  BY DEF GatherViews
<1> HIDE DEF all
<1>3. k \in 0..Len(all)
  <2>1. Len(all) \in Nat
    BY <1>1
  <2> QED BY <2>1
<1> HIDE DEF k
<1>4. s \in Seq(Seq(Byte)) /\ t \in Seq(Seq(Byte)) /\ FlattenSeq(all) = FlattenSeq(s) \o FlattenSeq(t)
  <2> DEFINE S == Seq(Byte)
  <2>1. all \in Seq(S)
    BY <1>1
  <2>2. FlattenSeq(all) = FlattenSeq(s) \o FlattenSeq(t)
    BY <1>1, <1>3, FlattenSplit
  <2> HIDE DEF S
  <2>3. s \in Seq(S) /\ t \in Seq(S)
    BY <1>3, <2>1
  <2> QED BY <2>2, <2>3 DEF S
<1>5. FlattenSeq(s) \in Seq(Byte) /\ FlattenSeq(t) \in Seq(Byte)
  BY <1>4, FlattenType
<1> HIDE DEF s, t
<1>6. IsPrefix(FlattenSeq(s), FlattenSeq(s) \o FlattenSeq(t))
  BY <1>5, FirstIsPrefix
<1> QED BY <1>1, <1>2, <1>4, <1>6

-----------------------------------------------------------------------------
(***************************************************************************)
(* The ends of the segments.  A segment ends where an append ended: merging*)
(* moves its end to a later append, consuming leaves it where it is.       *)
(***************************************************************************)
EndOf(seg) == seg[Len(seg)]

\* What is left of a segment ends where it did.
LEMMA DropEnd ==
  ASSUME NEW B, NEW s \in Seq(B), NEW n \in 0..(Len(s) - 1)
  PROVE  Drop(s, n) # <<>> /\ EndOf(Drop(s, n)) = EndOf(s)
<1>1. n \in 0..Len(s) /\ Len(s) - n \in 1..(Len(s) - n) /\ n + (Len(s) - n) = Len(s)
  OBVIOUS
<1>2. Len(Drop(s, n)) = Len(s) - n /\ Drop(s, n)[Len(s) - n] = s[n + (Len(s) - n)]
  BY <1>1, DropType
<1> DEFINE d == Drop(s, n)
<1>3. d \in Seq(B) /\ Len(d) = Len(s) - n /\ d[Len(s) - n] = s[Len(s)]
  BY <1>1, <1>2, DropType
<1> HIDE DEF d
<1>4. d # <<>> /\ d[Len(d)] = s[Len(s)]
  BY <1>1, <1>3
<1> QED BY <1>4 DEF EndOf, d

\* The segments t end where the last ones of s do.
EndsFrom(s, t) ==
  \E k \in 0..Len(s) :
    /\ Len(t) = Len(s) - k
    /\ \A i \in 1..(Len(s) - k) : EndOf(t[i]) = EndOf(s[k + i])

\* A merged segment ends where its second part does.
LEMMA ConcatEnd ==
  ASSUME NEW B, NEW s \in Seq(B), NEW t \in Seq(B), Len(t) # 0
  PROVE  /\ Len(s \o t) = Len(s) + Len(t)
         /\ (s \o t)[Len(s) + Len(t)] = t[Len(t)]
<1>1. Len(s \o t) = Len(s) + Len(t)
  OBVIOUS
<1> DEFINE i == Len(s) + Len(t)
<1>2. i \in 1..(Len(s) + Len(t)) /\ ~(i <= Len(s)) /\ i - Len(s) = Len(t)
  OBVIOUS
<1>3. (s \o t)[i] = t[i - Len(s)]
  <2> HIDE DEF i
  <2> QED BY <1>2
<1> QED BY <1>1, <1>2, <1>3

\* Consuming from the segments keeps the ends of those that are left.
LEMMA SpillAfterEnds ==
  ASSUME NEW B, NEW q, q.spill \in Seq(Seq(B)), NEW n \in 0..Len(FlattenSeq(q.spill))
  PROVE  EndsFrom(q.spill, SpillAfter(q, n))
<1> DEFINE s == q.spill
           N == Len(s)
           k == LastGone(q, n)
           cut == n - SpillSizes(q, k)
           rest == SubSeq(s, k + 1, N)
<1>1. SpillAfter(q, n) = IF cut = 0 THEN rest ELSE [rest EXCEPT ![1] = Drop(@, cut)]
  BY DEF SpillAfter, LastGone, Gone, Drop
<1>2. /\ k \in 0..N /\ SpillSizes(q, k) \in 0..n
      /\ SpillSizes(q, k) # n =>
           k < N /\ s[k + 1] \in Seq(B) /\ cut \in 1..(Len(s[k + 1]) - 1)
  BY GoneProperties
<1> HIDE DEF k
<1>3. /\ N \in Nat /\ s \in Seq(Seq(B)) /\ rest \in Seq(Seq(B)) /\ Len(rest) = N - k
      /\ \A i \in 1..(N - k) : rest[i] = s[k + i]
  <2> DEFINE X == Seq(B)
  <2>1. s \in Seq(X) /\ k \in 0..Len(s)
    BY <1>2
  <2> HIDE DEF X
  <2>2. /\ N \in Nat /\ rest \in Seq(X) /\ Len(rest) = N - k
        /\ \A i \in 1..(N - k) : rest[i] = s[k + i]
    BY <2>1, RestOf
  <2> QED BY <2>1, <2>2 DEF X
<1>4. cut = 0 <=> SpillSizes(q, k) = n
  BY <1>2
<1> HIDE DEF cut, rest
<1>5. CASE cut = 0
  BY <1>1, <1>2, <1>3, <1>5 DEF EndsFrom
<1>6. CASE cut # 0
  <2>1. k < N /\ s[k + 1] \in Seq(B) /\ cut \in 0..(Len(s[k + 1]) - 1)
    BY <1>2, <1>4, <1>6
  <2> DEFINE t == [rest EXCEPT ![1] = Drop(@, cut)]
  <2>2. 1 \in 1..(N - k) /\ DOMAIN rest = 1..(N - k) /\ rest[1] = s[k + 1]
    <3>1. N - k \in Nat \ {0} /\ 1 \in 1..(N - k)
      BY <1>2, <1>3, <2>1
    <3>2. DOMAIN rest = 1..(N - k)
      BY <1>3, <3>1
    <3>3. rest[1] = s[k + 1]
      BY <1>3, <3>1
    <3> QED BY <3>1, <3>2, <3>3
  <2>3. /\ Len(t) = N - k /\ t[1] = Drop(s[k + 1], cut)
        /\ \A i \in 1..(N - k) : i # 1 => t[i] = s[k + i]
    <3>1. DOMAIN t = 1..(N - k) /\ t[1] = Drop(rest[1], cut)
      BY <2>2
    <3>2. Len(t) = N - k
      BY <1>2, <1>3, <2>1, <3>1
    <3>3. \A i \in 1..(N - k) : i # 1 => t[i] = rest[i]
      BY <2>2
    <3> QED BY <1>3, <2>2, <3>1, <3>2, <3>3
  <2>4. SpillAfter(q, n) = t
    BY <1>1, <1>6
  <2> HIDE DEF t
  <2>5. EndOf(Drop(s[k + 1], cut)) = EndOf(s[k + 1])
    BY <2>1, DropEnd
  <2>6. \A i \in 1..(N - k) : EndOf(t[i]) = EndOf(s[k + i])
    BY <2>3, <2>5
  <2> QED BY <1>2, <2>3, <2>4, <2>6 DEF EndsFrom
<1> QED BY <1>5, <1>6

\* ConsumeSent keeps the ends of the segments that are left.
LEMMA ConsumedEnds ==
  ASSUME NEW q, QueueFine(q), NEW n \in 0..(q.size + q.listBytes)
  PROVE  EndsFrom(q.spill, Consumed(q, n).spill)
<1> DEFINE f == IF n < q.size THEN n ELSE q.size
           m == n - f
           r == Consumed(q, n)
<1>1. /\ q.size \in Nat /\ q.spill \in Seq(Seq(Byte)) /\ q.listBytes = Len(FlattenSeq(q.spill))
      /\ DOMAIN q = RecordFields
  BY DEF QueueFine, RingFine, SpillFine
<1>2. q.listBytes \in Nat
  <2>1. FlattenSeq(q.spill) \in Seq(Byte)
    BY <1>1, FlattenType
  <2> QED BY <1>1, <2>1
<1>3. m \in 0..Len(FlattenSeq(q.spill))
  BY <1>1, <1>2
<1>4. r.spill = SpillAfter(q, m)
  BY <1>1 DEF Consumed, RecordFields
<1> HIDE DEF m, r
<1>5. EndsFrom(q.spill, SpillAfter(q, m))
  BY <1>1, <1>3, SpillAfterEnds
<1> QED BY <1>4, <1>5 DEF r

\* Append moves at most the last end, to the end of what is appended.
LEMMA AppendedEnds ==
  ASSUME NEW q, QueueFine(q), NEW data \in Seq(Byte)
  PROVE  LET r == QueueAppended(q, data)
         IN  /\ Len(r.spill) \in Nat
             /\ \A i \in 1..Len(r.spill) :
                  \/ i <= Len(q.spill) /\ EndOf(r.spill[i]) = EndOf(q.spill[i])
                  \/ i = Len(r.spill) /\ data # <<>> /\ EndOf(r.spill[i]) = EndOf(data)
<1> DEFINE n == ToRing(q, Len(data))
           part == Drop(data, n)
           s == q.spill
           N == Len(s)
           r == QueueAppended(q, data)
           Kept(t) == \A i \in 1..Len(t) :
                        \/ i <= N /\ EndOf(t[i]) = EndOf(s[i])
                        \/ i = Len(t) /\ data # <<>> /\ EndOf(t[i]) = EndOf(data)
<1>1. /\ q.cap \in Nat /\ q.size \in 0..q.cap /\ s \in Seq(Seq(Byte)) /\ N \in Nat
      /\ DOMAIN q = RecordFields /\ Len(data) \in Nat
      /\ \A i \in 1..N : s[i] # <<>>
  BY DEF QueueFine, RingFine, SpillFine
<1>2. n \in 0..Len(data)
  BY <1>1 DEF ToRing, RingSpace
<1>3. r.spill = SpillWrite(q, part)
  BY <1>1 DEF QueueAppended, RecordFields, Drop
<1> HIDE DEF n
<1>4. part \in Seq(Byte) /\ Len(part) = Len(data) - n
  BY <1>2, DropType
<1>5. part # <<>> => data # <<>> /\ EndOf(part) = EndOf(data)
  <2> SUFFICES ASSUME part # <<>> PROVE data # <<>> /\ EndOf(part) = EndOf(data)
    OBVIOUS
  <2>1. Len(part) # 0
    BY <1>4
  <2>2. n \in 0..(Len(data) - 1)
    BY <1>1, <1>2, <1>4, <2>1
  <2>3. data # <<>>
    BY <1>2, <2>2
  <2> QED BY <2>2, <2>3, DropEnd
<1> HIDE DEF part, r, s
<1>6. CASE part = <<>>
  <2>1. r.spill = s
    BY <1>3, <1>6 DEF SpillWrite, s
  <2> QED BY <1>1, <2>1 DEF r, s
<1>7. CASE part # <<>> /\ CanMerge(q, Len(part))
  <2>1. s # <<>>
    BY <1>7 DEF CanMerge, s
  <2>2. r.spill = [s EXCEPT ![N] = @ \o part]
    BY <1>3, <1>7 DEF SpillWrite, s
  <2>3. N \in 1..N /\ DOMAIN s = 1..N
    BY <1>1, <2>1
  <2>4. /\ Len(r.spill) = N /\ r.spill[N] = s[N] \o part
        /\ \A i \in 1..N : i # N => r.spill[i] = s[i]
    <3>1. DOMAIN r.spill = 1..N /\ r.spill[N] = s[N] \o part
      BY <2>2, <2>3
    <3>2. Len(r.spill) = N
      BY <1>1, <3>1
    <3>3. \A i \in 1..N : i # N => r.spill[i] = s[i]
      BY <2>2, <2>3
    <3> QED BY <3>1, <3>2, <3>3
  <2>5. EndOf(s[N] \o part) = EndOf(part)
    <3>1. s[N] \in Seq(Byte)
      BY <1>1, <2>3
    <3>2. Len(part) \in Nat \ {0}
      BY <1>4, <1>7
    <3> DEFINE h == s[N]
    <3>3. h \in Seq(Byte)
      BY <3>1
    <3> HIDE DEF h
    <3>4. /\ Len(h \o part) = Len(h) + Len(part)
          /\ (h \o part)[Len(h) + Len(part)] = part[Len(part)]
      BY <1>4, <3>2, <3>3, ConcatEnd
    <3> QED BY <3>4 DEF EndOf, h
  <2>6. Kept(r.spill)
    <3>1. \A i \in 1..N : i # N => i <= N /\ EndOf(r.spill[i]) = EndOf(s[i])
      BY <1>1, <2>4
    <3>2. data # <<>> /\ EndOf(r.spill[N]) = EndOf(data)
      BY <1>5, <1>7, <2>4, <2>5
    <3> QED BY <2>4, <3>1, <3>2
  <2> QED BY <1>1, <2>4, <2>6 DEF r, s
<1>8. CASE part # <<>> /\ ~CanMerge(q, Len(part))
  <2>1. r.spill = Append(s, part)
    BY <1>3, <1>8 DEF SpillWrite, s
  <2>2. Len(r.spill) = N + 1 /\ r.spill[N + 1] = part /\ \A i \in 1..N : r.spill[i] = s[i]
    BY <1>1, <1>4, <2>1
  <2>3. Kept(r.spill)
    <3>1. \A i \in 1..(N + 1) : i = N + 1 \/ i \in 1..N
      BY <1>1
    <3> QED BY <1>1, <1>5, <1>8, <2>2, <3>1
  <2> QED BY <1>1, <2>2, <2>3 DEF r, s
<1> QED BY <1>6, <1>7, <1>8

\* The end of a segment is one of the bytes of the queue.
LEMMA EndsAreContent ==
  ASSUME NEW q, QueueFine(q), NEW i \in DOMAIN q.spill
  PROVE  \E k \in DOMAIN Content(q) : Content(q)[k] = EndOf(q.spill[i])
<1> DEFINE s == q.spill
           N == Len(s)
           x == s[i]
           a == SubSeq(s, 1, i - 1)
           b == SubSeq(s, i + 1, N)
           P == RingPart(q)
<1>1. s \in Seq(Seq(Byte)) /\ s[i] # <<>> /\ N \in Nat /\ i \in 1..N
  BY DEF QueueFine, SpillFine
<1>2. Content(q) = P \o FlattenSeq(s) /\ P \in Seq(Byte)
  BY ContentParts DEF QueueFine
<1>3. i \in 0..N /\ i - 1 \in Nat /\ (i - 1) + 1 = i /\ i <= N
  BY <1>1
<1>4. /\ x \in Seq(Byte) /\ Len(x) # 0
      /\ a \in Seq(Seq(Byte)) /\ b \in Seq(Seq(Byte))
  BY <1>1
<1>5. SubSeq(s, 1, i) = Append(a, x)
  <2> DEFINE S == Seq(Byte)
             j == i - 1
  <2>1. s \in Seq(S) /\ j \in Nat /\ j + 1 = i /\ j + 1 <= Len(s)
    BY <1>1, <1>3
  <2> HIDE DEF S, j, s
  <2>2. SubSeq(s, 1, j + 1) = Append(SubSeq(s, 1, j), s[j + 1])
    BY <2>1, PrefixGrows
  <2> QED BY <2>1, <2>2 DEF j
<1>6. FlattenSeq(s) = FlattenSeq(SubSeq(s, 1, i)) \o FlattenSeq(b)
  BY <1>1, <1>3, FlattenSplit
<1> HIDE DEF s, N, x, a, b, P
<1>7. FlattenSeq(Append(a, x)) = FlattenSeq(a) \o x
  BY <1>4, FlattenAppend
<1> DEFINE f == FlattenSeq(a)
           g == FlattenSeq(b)
<1>8. f \in Seq(Byte) /\ g \in Seq(Byte)
  BY <1>4, FlattenType
<1>9. Content(q) = P \o ((f \o x) \o g)
  BY <1>2, <1>5, <1>6, <1>7
<1> HIDE DEF f, g
<1> DEFINE h == P \o (f \o x)
<1>10. h \in Seq(Byte) /\ P \o ((f \o x) \o g) = h \o g
  <2> DEFINE y == f \o x
  <2>1. x \in Seq(Byte) /\ P \in Seq(Byte)
    BY <1>2, <1>4
  <2>2. y \in Seq(Byte)
    BY <1>8, <2>1
  <2> HIDE DEF y
  <2>3. P \o y \in Seq(Byte)
    BY <2>1, <2>2
  <2>4. P \o (y \o g) = (P \o y) \o g
    BY <1>8, <2>1, <2>2, SMTT(30)
  <2> QED BY <2>3, <2>4 DEF h, y
<1>11. Len(h) # 0 /\ h[Len(h)] = x[Len(x)]
  <2> DEFINE y == f \o x
  <2>1. y \in Seq(Byte) /\ Len(y) = Len(f) + Len(x) /\ y[Len(f) + Len(x)] = x[Len(x)]
    BY <1>4, <1>8, ConcatEnd
  <2>2. Len(y) # 0
    BY <1>4, <1>8, <2>1
  <2> HIDE DEF y
  <2>3. Len(P \o y) = Len(P) + Len(y) /\ (P \o y)[Len(P) + Len(y)] = y[Len(y)]
    BY <1>2, <2>1, <2>2, ConcatEnd
  <2>4. Len(P) + Len(y) # 0
    BY <1>2, <2>1, <2>2
  <2> QED BY <2>1, <2>3, <2>4 DEF h, y
<1> HIDE DEF h
<1>12. Len(h) \in DOMAIN (h \o g) /\ (h \o g)[Len(h)] = h[Len(h)]
  BY <1>8, <1>10, <1>11
<1> QED BY <1>9, <1>10, <1>11, <1>12 DEF EndOf, x, s

-----------------------------------------------------------------------------
(***************************************************************************)
(* The theorems.                                                           *)
(***************************************************************************)

\* The invariant: the queue is well formed and within its bounds.
QueueInv ==
  /\ QueueFine(queue)
  /\ queue.cap \in {0, RingBytes}
  /\ TotalBytes <= MaxTotalBytes
  /\ Len(queue.spill) <= MaxSegments

LEMMA QueueStarts == QueueConstants /\ QueueInit => QueueInv
<1> SUFFICES ASSUME QueueConstants, QueueInit PROVE QueueInv
  OBVIOUS
<1> DEFINE n == IF GeometryValid THEN RingBytes ELSE 0
<1>1. n \in Nat /\ n \in {0, RingBytes} /\ MaxTotalBytes \in Nat /\ MaxSegments \in Nat
  BY DEF QueueConstants
<1>2. queue = EmptyQueue(n)
  BY DEF QueueInit
<1> HIDE DEF n
<1>3. queue.cap = n /\ queue.size = 0 /\ queue.listBytes = 0 /\ queue.spill = <<>>
  BY <1>2 DEF EmptyQueue
<1> QED BY <1>1, <1>2, <1>3, EmptyIsFine DEF QueueInv, TotalBytes

\* The numbers of a queue that satisfies the invariant.
LEMMA QueueNumbers ==
  ASSUME QueueFine(queue)
  PROVE  /\ queue.cap \in Nat /\ queue.size \in 0..queue.cap /\ queue.listBytes \in Nat
         /\ Len(queue.spill) \in Nat /\ TotalBytes \in Nat /\ Len(Content(queue)) = TotalBytes
<1>1. RingFine(queue) /\ SpillFine(queue)
  BY DEF QueueFine
<1>2. FlattenSeq(queue.spill) \in Seq(Byte) /\ Len(Content(queue)) = queue.size + queue.listBytes
  BY <1>1, ContentParts
<1> QED BY <1>1, <1>2 DEF RingFine, SpillFine, TotalBytes

\* What a step does to the content.
LEMMA AppendStep ==
  ASSUME QueueConstants, QueueInv, NEW data \in Seq(Byte), AppendQueue(data)
  PROVE  QueueInv' /\ Content(queue)' = Content(queue) \o data
         /\ Len(Content(queue)) + Len(data) <= MaxTotalBytes
<1>1. /\ MaxTotalBytes \in Nat /\ MaxSegments \in Nat /\ Len(data) \in Nat
      /\ QueueFine(queue) /\ TotalBytes <= MaxTotalBytes /\ Len(queue.spill) <= MaxSegments
      /\ queue.cap \in {0, RingBytes}
  BY DEF QueueConstants, QueueInv
<1>2. /\ TotalBytes \in Nat /\ Len(Content(queue)) = TotalBytes /\ Len(queue.spill) \in Nat
      /\ queue.cap \in Nat /\ queue.size \in 0..queue.cap /\ queue.listBytes \in Nat
      /\ Content(queue) \in Seq(Byte)
  BY <1>1, QueueNumbers, ContentParts DEF QueueFine
<1>3. CASE data = <<>>
  <2>1. queue' = queue /\ Len(data) = 0
    BY <1>3 DEF AppendQueue
  <2>2. Content(queue) \o data = Content(queue)
    BY <1>2, <1>3
  <2>3. QueueInv' /\ Content(queue)' = Content(queue)
    BY <2>1 DEF QueueInv, TotalBytes
  <2> QED BY <1>1, <1>2, <2>1, <2>2, <2>3
<1>4. CASE data # <<>>
  <2> DEFINE n == ToRing(queue, Len(data))
             rest == Len(data) - n
             fits == Len(data) = n \/ CanMerge(queue, rest)
             r == QueueAppended(queue, data)
  <2>1. /\ Len(data) <= MaxTotalBytes - TotalBytes
        /\ rest # 0 => CanMerge(queue, rest) \/ Len(queue.spill) < MaxSegments
        /\ queue' = r
    BY <1>4 DEF AppendQueue, AppendAccepted
  <2>2. n \in 0..Len(data)
    BY <1>1, <1>2 DEF ToRing, RingSpace
  <2>3. /\ QueueFine(r) /\ Content(r) = Content(queue) \o data /\ r.cap = queue.cap
        /\ r.size + r.listBytes = (queue.size + queue.listBytes) + Len(data)
        /\ Len(r.spill) = Len(queue.spill) + (IF fits THEN 0 ELSE 1)
    BY <1>1, AppendedContent
  <2> HIDE DEF n, r, fits
  <2>4. Len(r.spill) <= MaxSegments
    <3>1. Len(queue.spill) \in Nat /\ Len(queue.spill) <= MaxSegments
      BY <1>1, <1>2
    <3>2. CASE fits
      <4>1. Len(r.spill) = Len(queue.spill)
        BY <2>3, <3>1, <3>2
      <4> QED BY <3>1, <4>1
    <3>3. CASE ~fits
      <4>1. rest # 0 /\ ~CanMerge(queue, rest)
        BY <1>1, <2>2, <3>3 DEF fits
      <4>2. Len(queue.spill) < MaxSegments
        BY <2>1, <4>1
      <4>3. Len(r.spill) = Len(queue.spill) + 1
        BY <2>3, <3>3
      <4> QED BY <1>1, <3>1, <4>2, <4>3
    <3> QED BY <3>2, <3>3
  <2>5. TotalBytes + Len(data) <= MaxTotalBytes
    BY <1>1, <1>2, <2>1
  <2>6. TotalBytes' <= MaxTotalBytes
    BY <1>1, <1>2, <2>1, <2>3, <2>5 DEF TotalBytes
  <2>7. QueueFine(queue)' /\ Content(queue)' = Content(r) /\ (Len(queue.spill) <= MaxSegments)'
        /\ (queue.cap \in {0, RingBytes})'
    BY <1>1, <2>1, <2>3, <2>4
  <2> QED BY <1>2, <2>3, <2>5, <2>6, <2>7 DEF QueueInv
<1> QED BY <1>3, <1>4

LEMMA ConsumeStep ==
  ASSUME QueueConstants, QueueInv, NEW n \in 0..TotalBytes, ConsumeSent(n)
  PROVE  QueueInv' /\ Content(queue)' = Drop(Content(queue), n) /\ n <= Len(Content(queue))
<1>1. /\ MaxTotalBytes \in Nat /\ MaxSegments \in Nat
      /\ QueueFine(queue) /\ TotalBytes <= MaxTotalBytes /\ Len(queue.spill) <= MaxSegments
      /\ queue.cap \in {0, RingBytes}
  BY DEF QueueConstants, QueueInv
<1>2. /\ TotalBytes \in Nat /\ Len(Content(queue)) = TotalBytes /\ Len(queue.spill) \in Nat
      /\ queue.cap \in Nat /\ queue.size \in 0..queue.cap /\ queue.listBytes \in Nat
  BY <1>1, QueueNumbers
<1> DEFINE r == Consumed(queue, n)
<1>3. queue' = r
  BY DEF ConsumeSent
<1>4. n \in 0..(queue.size + queue.listBytes)
  BY DEF TotalBytes
<1>5. /\ QueueFine(r) /\ Content(r) = Drop(Content(queue), n) /\ r.cap = queue.cap
      /\ r.size + r.listBytes = (queue.size + queue.listBytes) - n
      /\ Len(r.spill) <= Len(queue.spill)
  BY <1>1, <1>4, ConsumedContent
<1> HIDE DEF r
<1>6. Len(r.spill) <= MaxSegments
  <2>1. r.spill \in Seq(Seq(Byte))
    BY <1>5 DEF QueueFine, SpillFine
  <2>2. Len(r.spill) \in Nat
    BY <2>1
  <2> QED BY <1>1, <1>2, <1>5, <2>2
<1>7. TotalBytes' <= MaxTotalBytes
  BY <1>1, <1>2, <1>3, <1>4, <1>5 DEF TotalBytes
<1>8. QueueFine(queue)' /\ Content(queue)' = Content(r) /\ (Len(queue.spill) <= MaxSegments)'
      /\ (queue.cap \in {0, RingBytes})'
  BY <1>1, <1>3, <1>5, <1>6
<1> QED BY <1>2, <1>5, <1>7, <1>8 DEF QueueInv

LEMMA MoveStep ==
  ASSUME QueueConstants, MovedFrom
  PROVE  QueueInv' /\ Content(queue)' = <<>>
<1>1. queue' = EmptyQueue(0) /\ MaxTotalBytes \in Nat /\ MaxSegments \in Nat
  BY DEF MovedFrom, QueueConstants
<1>2. QueueFine(EmptyQueue(0)) /\ Content(EmptyQueue(0)) = <<>>
  BY EmptyIsFine
<1>3. /\ EmptyQueue(0).cap = 0 /\ EmptyQueue(0).size = 0 /\ EmptyQueue(0).listBytes = 0
      /\ EmptyQueue(0).spill = <<>>
  BY DEF EmptyQueue
<1> QED BY <1>1, <1>2, <1>3 DEF QueueInv, TotalBytes

LEMMA QueueKept ==
  ASSUME QueueConstants, QueueInv, [QueueNext]_queue
  PROVE  QueueInv' /\ [Fifo!Next]_(Content(queue))
<1>1. ASSUME NEW n \in 0..MaxTotalBytes, NEW data \in [1..n -> Byte], AppendQueue(data)
      PROVE  QueueInv' /\ [Fifo!Next]_(Content(queue))
  <2>1. n \in Nat
    BY DEF QueueConstants
  <2>2. data \in Seq(Byte)
    BY <2>1
  <2>3. QueueInv' /\ Content(queue)' = Content(queue) \o data
        /\ Len(Content(queue)) + Len(data) <= MaxTotalBytes
    BY <1>1, <2>2, AppendStep
  <2>4. data \in Fifo!Data
    BY DEF Fifo!Data
  <2>5. Fifo!Push(data)
    BY <2>3 DEF Fifo!Push
  <2> QED BY <2>3, <2>4, <2>5 DEF Fifo!Next
<1>2. ASSUME NEW n \in 0..TotalBytes, ConsumeSent(n)
      PROVE  QueueInv' /\ [Fifo!Next]_(Content(queue))
  <2>1. QueueInv' /\ Content(queue)' = Drop(Content(queue), n) /\ n <= Len(Content(queue))
    BY <1>2, ConsumeStep
  <2>2. n \in 0..Len(Content(queue))
    BY QueueNumbers DEF QueueInv
  <2>3. Fifo!Pop(n)
    BY <2>1 DEF Fifo!Pop, Drop
  <2> QED BY <2>1, <2>2, <2>3 DEF Fifo!Next
<1>3. ASSUME MovedFrom PROVE QueueInv' /\ [Fifo!Next]_(Content(queue))
  <2>1. QueueInv' /\ Content(queue)' = <<>>
    BY <1>3, MoveStep
  <2> QED BY <2>1 DEF Fifo!Next, Fifo!MoveAway
<1>4. ASSUME UNCHANGED queue PROVE QueueInv' /\ [Fifo!Next]_(Content(queue))
  BY <1>4 DEF QueueInv, TotalBytes
<1> QED BY <1>1, <1>2, <1>3, <1>4 DEF QueueNext

\* The invariant holds of the queue, whatever its geometry.
THEOREM QueueAlways ==
  ASSUME QueueConstants
  PROVE  QueueSpec => []QueueInv
<1>1. QueueInit => QueueInv
  BY QueueStarts
<1>2. QueueInv /\ [QueueNext]_queue => QueueInv'
  BY QueueKept
<1> QED BY <1>1, <1>2, PTL DEF QueueSpec

LEMMA QueueProperties ==
  ASSUME QueueConstants, QueueInv
  PROVE  BoundsHold /\ GatherIsPrefix
<1>1. RingFine(queue) /\ SpillFine(queue) /\ MaxSegments \in Nat
  BY DEF QueueConstants, QueueInv, QueueFine
<1>2. queue.cap \in Nat /\ queue.size \in 0..queue.cap /\ queue.listBytes \in Nat
  BY QueueNumbers DEF QueueInv
<1>3. QueueTypeOK
  BY <1>1, <1>2 DEF QueueTypeOK, QueueInv, RingFine, SpillFine
<1>4. queue.listBytes = SpillSizes(queue, Len(queue.spill))
  <2> DEFINE s == queue.spill
             N == Len(s)
  <2>1. s \in Seq(Seq(Byte)) /\ N \in 0..N
    BY <1>1 DEF SpillFine
  <2>2. SpillSizes(queue, N) = Len(FlattenSeq(SubSeq(s, 1, N)))
    BY <2>1, SizesAreLengths
  <2>3. SubSeq(s, 1, N) = s
    <3> DEFINE S == Seq(Byte)
    <3>1. s \in Seq(S)
      BY <2>1
    <3> HIDE DEF S, s
    <3> QED BY <3>1, SubSeqFull
  <2> QED BY <1>1, <2>2, <2>3 DEF SpillFine
<1>5. BoundsHold
  BY <1>1, <1>3, <1>4 DEF BoundsHold, SpillFine, QueueInv
<1>6. ASSUME NEW maxViews \in 0..(MaxSegments + 2)
      PROVE  IsPrefix(FlattenSeq(GatherViews(maxViews)), Content(queue))
  <2>1. maxViews \in Nat
    BY <1>1
  <2> QED BY <2>1, GatheredIsPrefix DEF QueueInv
<1> QED BY <1>5, <1>6 DEF GatherIsPrefix

\* Whatever sequence of appends, partial sends and moves happened, the queue is within
\* max_total_bytes and max_segments, its counters are right, it keeps no empty segment,
\* and GatherViews hands the kernel a prefix of what ConsumeSent removes next.
THEOREM QueueBounded ==
  ASSUME QueueConstants
  PROVE  QueueSpec => [](BoundsHold /\ GatherIsPrefix)
<1>1. QueueInv => BoundsHold /\ GatherIsPrefix
  BY QueueProperties
<1>2. QueueSpec => []QueueInv
  BY QueueAlways
<1> QED BY <1>1, <1>2, PTL

\* The queue implements the abstract FIFO: the bytes that Append accepted are released by
\* ConsumeSent in their order, none is lost, none is repeated, across the wrap of the ring,
\* the spill, its merging and a send that ends inside a segment.
THEOREM QueueIsFifo ==
  ASSUME QueueConstants
  PROVE  QueueSpec => ImplementsFifo
<1>1. QueueInit => Fifo!Init
  <2> SUFFICES ASSUME QueueInit PROVE Content(queue) = <<>>
    BY DEF Fifo!Init
  <2> DEFINE n == IF GeometryValid THEN RingBytes ELSE 0
  <2>1. n \in Nat
    BY DEF QueueConstants
  <2>2. queue = EmptyQueue(n)
    BY DEF QueueInit
  <2> HIDE DEF n
  <2> QED BY <2>1, <2>2, EmptyIsFine
<1>2. QueueInv /\ [QueueNext]_queue => [Fifo!Next]_(Content(queue))
  BY QueueKept
<1>3. QueueSpec => []QueueInv
  BY QueueAlways
<1>4. QueueSpec => Fifo!Init /\ [][Fifo!Next]_(Content(queue))
  BY <1>1, <1>2, <1>3, PTL DEF QueueSpec
<1> QED BY <1>4 DEF ImplementsFifo, Fifo!Spec

\* What the runs check of the queue, for every geometry and every limit.
THEOREM QueueIsCorrect ==
  ASSUME QueueConstants
  PROVE  QueueSpec => QueueCorrect
BY QueueBounded, QueueIsFifo DEF QueueCorrect
====
