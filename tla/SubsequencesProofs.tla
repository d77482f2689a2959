------------------------- MODULE SubsequencesProofs -------------------------
(***************************************************************************)
(* What SelectAt returns: its value on the empty sequence and after an     *)
(* Append, which is all that the proofs about streams use, and what it     *)
(* depends on.  The induction is over the set of lengths for which a       *)
(* statement holds, by the least-number principle of the natural numbers.  *)
(***************************************************************************)
EXTENDS Subsequences, WellFoundedInduction, TLAPS

\* A set of naturals with 0 and the successors of its members is all of them.
LEMMA SetInduction ==
  ASSUME NEW S, 0 \in S, \A n \in Nat : n \in S => n + 1 \in S
  PROVE  Nat \subseteq S
<1> DEFINE T == Nat \ S
<1>1. SUFFICES ASSUME T # {} PROVE FALSE
  OBVIOUS
<1>2. PICK x \in T : \A y \in T : ~ (<<y, x>> \in OpToRel(<, Nat))
  BY <1>1, NatLessThanWellFounded, WFMin, Zenon
<1>3. \A y \in T : ~ (y < x)
  BY <1>2 DEF OpToRel
<1>4. x # 0 /\ x - 1 \in Nat /\ x - 1 < x
  OBVIOUS
<1>5. QED
  BY <1>3, <1>4

-----------------------------------------------------------------------------
(* The recursive function behind SelectAt.                                 *)

\* One step of it, from what the shorter prefixes gave.
Extended(t, s, K, n) ==
  IF n = 0 THEN <<>>
  ELSE IF n \in K THEN Append(t[n - 1], s[n]) ELSE t[n - 1]

\* t is such a function on the first m + 1 naturals.
Fits(t, m, s, K) == DOMAIN t = 0..m /\ \A n \in 0..m : t[n] = Extended(t, s, K, n)

\* There is one for every length.
LEMMA FitsExists ==
  ASSUME NEW s, NEW K, NEW m \in Nat PROVE \E t : Fits(t, m, s, K)
<1> DEFINE S == {j \in Nat : \E t : Fits(t, j, s, K)}
<1>1. 0 \in S
  <2> DEFINE t == [n \in 0..0 |-> <<>>]
  <2>1. Fits(t, 0, s, K)
    BY DEF Fits, Extended
  <2>2. QED
    BY <2>1
<1>2. ASSUME NEW j \in Nat, j \in S PROVE j + 1 \in S
  <2>1. PICK t : Fits(t, j, s, K)
    BY <1>2
  <2> DEFINE u == [n \in 0..(j + 1) |-> IF n = j + 1 THEN Extended(t, s, K, j + 1) ELSE t[n]]
  <2>2. /\ DOMAIN u = 0..(j + 1)
        /\ \A n \in 0..j : u[n] = t[n]
        /\ u[j + 1] = Extended(t, s, K, j + 1)
    OBVIOUS
  <2> HIDE DEF u
  <2>3. \A n \in 0..(j + 1) : Extended(u, s, K, n) = Extended(t, s, K, n)
    <3>1. \A n \in 0..(j + 1) : n # 0 => n - 1 \in 0..j
      OBVIOUS
    <3>2. QED
      BY <2>2, <3>1 DEF Extended
  <2>4. \A n \in 0..(j + 1) : n \in 0..j \/ n = j + 1
    OBVIOUS
  <2>5. Fits(u, j + 1, s, K)
    BY <2>1, <2>2, <2>3, <2>4 DEF Fits
  <2>6. QED
    BY <2>5
<1>3. QED
  BY <1>1, <1>2, SetInduction

\* Two such functions agree where both are defined.
LEMMA FitsUnique ==
  ASSUME NEW s, NEW K, NEW m \in Nat, NEW l \in Nat, NEW t, NEW u,
         Fits(t, m, s, K), Fits(u, l, s, K)
  PROVE  \A n \in Nat : n <= m /\ n <= l => t[n] = u[n]
<1> DEFINE S == {n \in Nat : n <= m /\ n <= l => t[n] = u[n]}
<1>1. 0 \in S
  BY DEF Fits, Extended
<1>2. ASSUME NEW n \in Nat, n \in S PROVE n + 1 \in S
  <2>1. CASE n + 1 <= m /\ n + 1 <= l
    <3>1. n + 1 \in 0..m /\ n + 1 \in 0..l /\ n <= m /\ n <= l /\ (n + 1) - 1 = n
      BY <2>1
    <3>2. t[n] = u[n]
      BY <1>2, <3>1
    <3>3. t[n + 1] = Extended(t, s, K, n + 1) /\ u[n + 1] = Extended(u, s, K, n + 1)
      BY <3>1 DEF Fits
    <3>4. Extended(t, s, K, n + 1) = Extended(u, s, K, n + 1)
      BY <3>1, <3>2 DEF Extended
    <3>5. QED
      BY <3>3, <3>4
  <2>2. QED
    BY <2>1
<1>3. QED
  BY <1>1, <1>2, SetInduction

\* The recursive equation of the definition.
LEMMA TakenStep ==
  ASSUME NEW s, NEW K
  PROVE  \A n \in Nat : Taken(s, K)[n] = Extended(Taken(s, K), s, K, n)
<1> DEFINE f(n) == CHOOSE t : Fits(t, n, s, K)
           g == [n \in Nat |-> f(n)[n]]
           body(t) == [n \in Nat |->
                         IF n = 0 THEN <<>>
                         ELSE IF n \in K THEN Append(t[n - 1], s[n]) ELSE t[n - 1]]
<1>1. \A n \in Nat : Fits(f(n), n, s, K)
  BY FitsExists
<1> HIDE DEF f
<1>2. ASSUME NEW n \in Nat PROVE g[n] = Extended(g, s, K, n)
  <2>1. CASE n = 0
    <3>1. f(0)[0] = Extended(f(0), s, K, 0)
      BY <1>1 DEF Fits
    <3>2. QED
      BY <2>1, <3>1 DEF Extended
  <2>2. CASE n # 0
    <3>1. n - 1 \in Nat /\ n - 1 <= n /\ n - 1 <= n - 1 /\ n \in 0..n
      BY <2>2
    <3>2. f(n)[n - 1] = f(n - 1)[n - 1]
      BY <1>1, <3>1, FitsUnique
    <3>3. f(n)[n] = Extended(f(n), s, K, n)
      BY <1>1, <3>1 DEF Fits
    <3>4. g[n] = f(n)[n] /\ g[n - 1] = f(n)[n - 1]
      BY <3>1, <3>2
    <3>5. QED
      BY <2>2, <3>3, <3>4 DEF Extended
  <2>3. QED
    BY <2>1, <2>2
<1>3. \A n \in Nat : g[n] = body(g)[n]
  BY <1>2 DEF Extended
<1>4. g = body(g)
  BY <1>3
<1>5. Taken(s, K) = CHOOSE t : t = body(t)
  BY Zenon DEF Taken
<1> HIDE DEF g, body
<1>6. Taken(s, K) = body(Taken(s, K))
  BY <1>4, <1>5, Zenon
<1> USE DEF body
<1>7. QED
  BY <1>6 DEF Extended

-----------------------------------------------------------------------------
(* Facts about selections.                                                 *)

\* s and t have the same elements up to m, selected alike.
SameUpto(m, s, K, t, J) == \A i \in 1..m : s[i] = t[i] /\ (i \in K <=> i \in J)

\* What is taken depends on the elements and positions it comes from.
LEMMA TakenSame ==
  ASSUME NEW s, NEW t, NEW K, NEW J, NEW m \in Nat, SameUpto(m, s, K, t, J)
  PROVE  \A n \in 0..m : Taken(s, K)[n] = Taken(t, J)[n]
<1> DEFINE S == {n \in Nat : n <= m => Taken(s, K)[n] = Taken(t, J)[n]}
<1>1. 0 \in S
  BY TakenStep DEF Extended
<1>2. ASSUME NEW n \in Nat, n \in S PROVE n + 1 \in S
  <2>1. CASE n + 1 <= m
    <3>1. n + 1 \in 1..m /\ n <= m /\ (n + 1) - 1 = n /\ n + 1 # 0 /\ n + 1 \in Nat
      BY <2>1
    <3>2. Taken(s, K)[n] = Taken(t, J)[n]
      BY <1>2, <3>1
    <3>3. /\ Taken(s, K)[n + 1] = Extended(Taken(s, K), s, K, n + 1)
          /\ Taken(t, J)[n + 1] = Extended(Taken(t, J), t, J, n + 1)
      BY <3>1, TakenStep
    <3>4. Extended(Taken(s, K), s, K, n + 1) = Extended(Taken(t, J), t, J, n + 1)
      BY <3>1, <3>2 DEF Extended, SameUpto
    <3>5. QED
      BY <3>3, <3>4
  <2>2. QED
    BY <2>1
<1>3. Nat \subseteq S
  BY <1>1, <1>2, SetInduction
<1>4. \A n \in 0..m : n \in Nat /\ n <= m
  OBVIOUS
<1>5. QED
  BY <1>3, <1>4

\* It is a sequence of elements at those positions.
LEMMA TakenType ==
  ASSUME NEW s, NEW K, NEW S, NEW m \in Nat, \A i \in (1..m) \cap K : s[i] \in S
  PROVE  \A n \in 0..m : Taken(s, K)[n] \in Seq(S)
<1> DEFINE N == {n \in Nat : n <= m => Taken(s, K)[n] \in Seq(S)}
<1>1. 0 \in N
  <2>1. Taken(s, K)[0] = <<>>
    BY TakenStep DEF Extended
  <2>2. <<>> \in Seq(S)
    OBVIOUS
  <2>3. QED
    BY <2>1, <2>2
<1>2. ASSUME NEW n \in Nat, n \in N PROVE n + 1 \in N
  <2>1. CASE n + 1 <= m
    <3>1. n + 1 \in 1..m /\ n <= m /\ (n + 1) - 1 = n /\ n + 1 # 0 /\ n + 1 \in Nat
      BY <2>1
    <3>2. Taken(s, K)[n] \in Seq(S)
      BY <1>2, <3>1
    <3>3. Taken(s, K)[n + 1] = Extended(Taken(s, K), s, K, n + 1)
      BY <3>1, TakenStep
    <3>4. Extended(Taken(s, K), s, K, n + 1) \in Seq(S)
      BY <3>1, <3>2 DEF Extended
    <3>5. QED
      BY <3>3, <3>4
  <2>2. QED
    BY <2>1
<1>3. Nat \subseteq N
  BY <1>1, <1>2, SetInduction
<1>4. \A n \in 0..m : n \in Nat /\ n <= m
  OBVIOUS
<1>5. QED
  BY <1>3, <1>4

\* Nothing is selected from the empty sequence.
LEMMA SelectEmpty == \A K : SelectAt(<<>>, K) = <<>>
BY TakenStep DEF SelectAt, Extended

\* An element more.
LEMMA SelectAppend ==
  ASSUME NEW S, NEW s \in Seq(S), NEW x \in S, NEW K
  PROVE  SelectAt(Append(s, x), K) =
           IF Len(s) + 1 \in K THEN Append(SelectAt(s, K), x) ELSE SelectAt(s, K)
<1> DEFINE t == Append(s, x)
           m == Len(s)
<1>1. /\ m \in Nat /\ m \in 0..m /\ Len(t) = m + 1 /\ t[m + 1] = x
      /\ \A i \in 1..m : t[i] = s[i]
  OBVIOUS
<1> HIDE DEF t, m
<1>2. Taken(t, K)[m] = Taken(s, K)[m]
  <2>1. SameUpto(m, t, K, s, K)
    BY <1>1 DEF SameUpto
  <2>2. \A i \in 0..m : Taken(t, K)[i] = Taken(s, K)[i]
    BY <1>1, <2>1, TakenSame
  <2>3. QED
    BY <1>1, <2>2, Zenon
<1>3. m + 1 \in Nat /\ m + 1 # 0 /\ (m + 1) - 1 = m
  BY <1>1
<1>4. Taken(t, K)[m + 1] = Extended(Taken(t, K), t, K, m + 1)
  BY <1>3, TakenStep
<1>5. Extended(Taken(t, K), t, K, m + 1) =
        IF m + 1 \in K THEN Append(Taken(s, K)[m], x) ELSE Taken(s, K)[m]
  BY <1>1, <1>2, <1>3 DEF Extended
<1>6. QED
  BY <1>1, <1>4, <1>5 DEF SelectAt, t, m

\* Only the positions within the sequence count.
LEMMA SelectSame ==
  ASSUME NEW S, NEW s \in Seq(S), NEW K, NEW J,
         \A i \in DOMAIN s : i \in K <=> i \in J
  PROVE  SelectAt(s, K) = SelectAt(s, J)
<1>1. Len(s) \in Nat /\ DOMAIN s = 1..Len(s) /\ Len(s) \in 0..Len(s)
  OBVIOUS
<1>2. SameUpto(Len(s), s, K, s, J)
  BY <1>1 DEF SameUpto
<1>3. \A n \in 0..Len(s) : Taken(s, K)[n] = Taken(s, J)[n]
  BY <1>1, <1>2, TakenSame
<1>4. QED
  BY <1>1, <1>3, Zenon DEF SelectAt

\* A selection is a sequence of the selected elements.
LEMMA SelectType ==
  ASSUME NEW S, NEW s \in Seq(S), NEW K, NEW T, \A i \in DOMAIN s \cap K : s[i] \in T
  PROVE  SelectAt(s, K) \in Seq(T)
<1>1. Len(s) \in Nat /\ DOMAIN s = 1..Len(s) /\ Len(s) \in 0..Len(s)
  OBVIOUS
<1>2. QED
  BY <1>1, TakenType DEF SelectAt

\* What a prefix gives is what was taken by then.
LEMMA SelectPrefix ==
  ASSUME NEW S, NEW s \in Seq(S), NEW K, NEW n \in 0..Len(s)
  PROVE  SelectAt(SubSeq(s, 1, n), K) = Taken(s, K)[n]
<1> DEFINE p == SubSeq(s, 1, n)
<1>1. n \in Nat /\ Len(p) = n /\ n \in 0..n /\ \A i \in 1..n : p[i] = s[i]
  OBVIOUS
<1> HIDE DEF p
<1>2. SameUpto(n, p, K, s, K)
  BY <1>1 DEF SameUpto
<1>3. \A i \in 0..n : Taken(p, K)[i] = Taken(s, K)[i]
  BY <1>1, <1>2, TakenSame
<1>4. SelectAt(p, K) = Taken(p, K)[n]
  BY <1>1, Zenon DEF SelectAt
<1>5. QED
  BY <1>1, <1>3, <1>4, Zenon DEF p

\* What was taken is never taken back.
LEMMA TakenGrows ==
  ASSUME NEW S, NEW s \in Seq(S), NEW K, NEW n \in 0..Len(s)
  PROVE  /\ Taken(s, K)[n] \in Seq(S) /\ SelectAt(s, K) \in Seq(S)
         /\ Len(Taken(s, K)[n]) <= Len(SelectAt(s, K))
         /\ \A i \in 1..Len(Taken(s, K)[n]) : Taken(s, K)[n][i] = SelectAt(s, K)[i]
<1> DEFINE T(k) == Taken(s, K)[k]
           Grown(k) == /\ Len(T(n)) <= Len(T(k))
                       /\ \A i \in 1..Len(T(n)) : T(n)[i] = T(k)[i]
           N == {k \in Nat : n <= k /\ k <= Len(s) => Grown(k)}
<1>1. Len(s) \in Nat /\ n \in Nat /\ Len(s) \in 0..Len(s)
  OBVIOUS
<1>2. \A k \in 0..Len(s) : T(k) \in Seq(S)
  BY <1>1, TakenType
<1> HIDE DEF T
<1>3. n = 0 => 0 \in N
  OBVIOUS
<1>4. Grown(n)
  <2>1. Len(T(n)) \in Nat
    BY <1>1, <1>2
  <2>2. QED
    BY <2>1
<1>5. ASSUME NEW k \in Nat, k \in N PROVE k + 1 \in N
  <2>1. CASE n <= k /\ k + 1 <= Len(s)
    <3>1. k <= Len(s) /\ k \in 0..Len(s) /\ k + 1 # 0 /\ (k + 1) - 1 = k /\ k + 1 \in Nat
      BY <1>1, <2>1
    <3>2. Grown(k) /\ T(k) \in Seq(S) /\ T(n) \in Seq(S)
      BY <1>2, <1>5, <2>1, <3>1
    <3>3. T(k + 1) = IF k + 1 \in K THEN Append(T(k), s[k + 1]) ELSE T(k)
      BY <3>1, TakenStep DEF Extended, T
    <3>4. CASE k + 1 \in K
      <4>1. s[k + 1] \in S
        BY <2>1, <3>1
      <4>2. /\ Len(T(k + 1)) = Len(T(k)) + 1
            /\ \A i \in 1..Len(T(k)) : T(k + 1)[i] = T(k)[i]
        BY <3>2, <3>3, <3>4, <4>1
      <4>3. Len(T(k)) \in Nat /\ Len(T(n)) \in Nat
        BY <3>2
      <4>4. QED
        BY <3>2, <4>2, <4>3
    <3>5. CASE k + 1 \notin K
      BY <3>2, <3>3, <3>5
    <3>6. QED
      BY <3>4, <3>5
  <2>2. CASE n = k + 1
    BY <1>4, <2>2
  <2>3. QED
    BY <1>1, <2>1, <2>2
<1>6. 0 \in N
  BY <1>1, <1>4
<1>7. Nat \subseteq N
  BY <1>5, <1>6, SetInduction
<1>8. Grown(Len(s))
  BY <1>1, <1>7
<1>9. QED
  BY <1>1, <1>2, <1>8 DEF T, SelectAt

\* The first element after a prefix, when it is selected, comes next.
LEMMA SelectNext ==
  ASSUME NEW S, NEW s \in Seq(S), NEW K, NEW n \in 0..Len(s), n < Len(s), n + 1 \in K
  PROVE  LET c == Len(Taken(s, K)[n])
         IN  c < Len(SelectAt(s, K)) /\ SelectAt(s, K)[c + 1] = s[n + 1]
<1>1. n + 1 \in 0..Len(s) /\ n + 1 # 0 /\ (n + 1) - 1 = n /\ s[n + 1] \in S
  OBVIOUS
<1> DEFINE t == Taken(s, K)[n]
           u == Taken(s, K)[n + 1]
           w == SelectAt(s, K)
<1>2. u = Append(t, s[n + 1])
  <2>1. n + 1 \in Nat
    BY <1>1
  <2>2. u = Extended(Taken(s, K), s, K, n + 1)
    BY <2>1, TakenStep
  <2>3. QED
    BY <1>1, <2>2 DEF Extended
<1>3. t \in Seq(S) /\ u \in Seq(S) /\ w \in Seq(S)
  BY <1>1, TakenGrows
<1>4. Len(u) <= Len(w) /\ \A i \in 1..Len(u) : u[i] = w[i]
  BY <1>1, TakenGrows
<1> HIDE DEF t, u, w
<1>5. Len(u) = Len(t) + 1 /\ u[Len(t) + 1] = s[n + 1] /\ Len(t) \in Nat
  BY <1>1, <1>2, <1>3
<1>6. Len(t) + 1 \in 1..Len(u) /\ Len(t) < Len(w)
  BY <1>3, <1>4, <1>5
<1>7. QED
  BY <1>4, <1>5, <1>6 DEF t, w
=============================================================================
