------------------------ MODULE PlatformOrderProofs ------------------------
(***************************************************************************)
(* What the folds of PlatformResolve make of a field is what the base and  *)
(* the applying overlays said of it, in declaration order; and the library *)
(* an applying overlay declares is the one that is kept for its name.      *)
(***************************************************************************)
EXTENDS PlatformResolveProofs

-----------------------------------------------------------------------------
(* Flattening a sequence of sequences.                                     *)

\* One element more of a flattened sequence, from what the first ones gave.
Flatter(t, ss, n) == IF n = 1 THEN ss[n] ELSE t[n - 1] \o ss[n]

\* t flattens every prefix of the first m sequences.
Flattens(t, m, ss) == DOMAIN t = 1..m /\ \A n \in 1..m : t[n] = Flatter(t, ss, n)

\* There is one for every length,
LEMMA FlattensExist ==
  ASSUME NEW ss, NEW m \in Nat PROVE \E t : Flattens(t, m, ss)
<1> DEFINE S == {j \in Nat : \E t : Flattens(t, j, ss)}
<1>1. 0 \in S
  <2> DEFINE t == [n \in 1..0 |-> <<>>]
  <2>1. Flattens(t, 0, ss)
    BY DEF Flattens
  <2>2. QED
    BY <2>1
<1>2. ASSUME NEW j \in Nat, j \in S PROVE j + 1 \in S
  <2>1. PICK t : Flattens(t, j, ss)
    BY <1>2
  <2> DEFINE u == [n \in 1..(j + 1) |-> IF n = j + 1 THEN Flatter(t, ss, j + 1) ELSE t[n]]
  <2>2. /\ DOMAIN u = 1..(j + 1)
        /\ \A n \in 1..j : u[n] = t[n]
        /\ u[j + 1] = Flatter(t, ss, j + 1)
    OBVIOUS
  <2> HIDE DEF u
  <2>3. \A n \in 1..(j + 1) : Flatter(u, ss, n) = Flatter(t, ss, n)
    <3>1. \A n \in 1..(j + 1) : n # 1 => n - 1 \in 1..j
      OBVIOUS
    <3>2. QED
      BY <2>2, <3>1 DEF Flatter
  <2>4. \A n \in 1..(j + 1) : n \in 1..j \/ n = j + 1
    OBVIOUS
  <2>5. Flattens(u, j + 1, ss)
    BY <2>1, <2>2, <2>3, <2>4 DEF Flattens
  <2>6. QED
    BY <2>5
<1>3. QED
  BY <1>1, <1>2, SetInduction

\* and two of them agree as far as the sequences do.
LEMMA FlattensAgree ==
  ASSUME NEW ss, NEW rr, NEW m \in Nat, NEW l \in Nat, NEW t, NEW u,
         Flattens(t, m, ss), Flattens(u, l, rr),
         \A n \in 1..m : n <= l => ss[n] = rr[n]
  PROVE  \A n \in 1..m : n <= l => t[n] = u[n]
<1> DEFINE S == {n \in Nat : 1 <= n /\ n <= m /\ n <= l => t[n] = u[n]}
<1>1. 0 \in S
  OBVIOUS
<1>2. ASSUME NEW n \in Nat, n \in S PROVE n + 1 \in S
  <2>1. CASE n + 1 <= m /\ n + 1 <= l
    <3>1. /\ n + 1 \in 1..m /\ n + 1 \in 1..l /\ (n + 1) - 1 = n
          /\ n + 1 # 1 => 1 <= n /\ n <= m /\ n <= l
      BY <2>1
    <3>2. n + 1 # 1 => t[n] = u[n]
      BY <1>2, <3>1
    <3>3. t[n + 1] = Flatter(t, ss, n + 1) /\ u[n + 1] = Flatter(u, rr, n + 1)
      BY <3>1 DEF Flattens
    <3>4. Flatter(t, ss, n + 1) = Flatter(u, rr, n + 1)
      BY <2>1, <3>1, <3>2 DEF Flatter
    <3>5. QED
      BY <3>3, <3>4
  <2>2. QED
    BY <2>1
<1>3. Nat \subseteq S
  BY <1>1, <1>2, SetInduction
<1>4. \A n \in 1..m : n \in Nat /\ 1 <= n /\ n <= m
  OBVIOUS
<1>5. QED
  BY <1>3, <1>4

\* The library's definition is the last value of one of these functions.
LEMMA FlattenValue ==
  ASSUME NEW S, NEW ss \in Seq(S), ss # <<>>
  PROVE  \E t : Flattens(t, Len(ss), ss) /\ FlattenSeq(ss) = t[Len(ss)]
<1> DEFINE m == Len(ss)
           body(t) == [n \in 1..m |-> IF n = 1 THEN ss[n] ELSE t[n - 1] \o ss[n]]
           w == CHOOSE t : t = body(t)
<1>1. m \in Nat /\ m # 0
  OBVIOUS
<1>2. PICK g : Flattens(g, m, ss)
  BY <1>1, FlattensExist
<1> DEFINE u == [n \in 1..m |-> g[n]]
<1>3. u = body(u)
  <2>1. \A n \in 1..m : g[n] = IF n = 1 THEN ss[n] ELSE g[n - 1] \o ss[n]
    BY <1>2 DEF Flattens, Flatter
  <2>2. \A n \in 1..m : n # 1 => n - 1 \in 1..m
    BY <1>1
  <2>3. \A n \in 1..m : n # 1 => u[n - 1] = g[n - 1]
    BY <2>2
  <2>4. \A n \in 1..m : u[n] = IF n = 1 THEN ss[n] ELSE u[n - 1] \o ss[n]
    BY <2>1, <2>3
  <2>5. body(u) = [n \in 1..m |-> u[n]]
    BY <2>4
  <2>6. QED
    BY <2>5
<1>4. w = body(w)
  <2> HIDE DEF u, body
  <2>1. \E t : t = body(t)
    BY <1>3
  <2>2. QED
    BY <2>1, Zenon
<1>5. Flattens(w, m, ss)
  <2> HIDE DEF w
  <2>1. DOMAIN w = 1..m
    BY <1>4
  <2>2. \A n \in 1..m : w[n] = Flatter(w, ss, n)
    BY <1>4 DEF Flatter
  <2>3. QED
    BY <2>1, <2>2 DEF Flattens
<1>6. FlattenSeq(ss) = w[m]
  BY <1>1, Zenon DEF FlattenSeq
<1>7. QED
  BY <1>5, <1>6

\* One sequence is its own,
LEMMA FlattenSingle ==
  ASSUME NEW x PROVE FlattenSeq(<<x>>) = x
<1>1. <<x>> \in Seq({x}) /\ <<x>> # <<>> /\ Len(<<x>>) = 1 /\ <<x>>[1] = x
  OBVIOUS
<1>2. PICK t : Flattens(t, 1, <<x>>) /\ FlattenSeq(<<x>>) = t[1]
  BY <1>1, FlattenValue
<1>3. t[1] = x
  BY <1>1, <1>2 DEF Flattens, Flatter
<1>4. QED
  BY <1>2, <1>3

\* and one more comes at the end.
LEMMA FlattenAppend ==
  ASSUME NEW S, NEW ss \in Seq(S), ss # <<>>, NEW x \in S
  PROVE  FlattenSeq(Append(ss, x)) = FlattenSeq(ss) \o x
<1> DEFINE m == Len(ss)
           rr == Append(ss, x)
<1>1. /\ m \in Nat /\ m # 0 /\ rr \in Seq(S) /\ rr # <<>> /\ Len(rr) = m + 1
      /\ rr[m + 1] = x /\ \A n \in 1..m : rr[n] = ss[n]
  OBVIOUS
<1>2. m + 1 \in 1..(m + 1) /\ m + 1 # 1 /\ (m + 1) - 1 = m /\ m \in 1..m /\ m <= m + 1
      /\ m + 1 \in Nat
  BY <1>1
<1> HIDE DEF m, rr
<1>3. PICK t : Flattens(t, m, ss) /\ FlattenSeq(ss) = t[m]
  BY FlattenValue DEF m
<1>4. PICK u : Flattens(u, m + 1, rr) /\ FlattenSeq(rr) = u[m + 1]
  BY <1>1, FlattenValue
<1>5. \A n \in 1..m : n <= m + 1 => ss[n] = rr[n]
  BY <1>1
<1>6. \A n \in 1..m : n <= m + 1 => t[n] = u[n]
  <2> DEFINE q == m + 1
  <2>1. m \in Nat /\ q \in Nat /\ Flattens(t, m, ss) /\ Flattens(u, q, rr)
        /\ \A n \in 1..m : n <= q => ss[n] = rr[n]
    BY <1>1, <1>2, <1>3, <1>4, <1>5
  <2> HIDE DEF q
  <2>2. \A n \in 1..m : n <= q => t[n] = u[n]
    BY <2>1, FlattensAgree
  <2>3. QED
    BY <2>2 DEF q
<1>7. t[m] = u[m]
  BY <1>2, <1>6
<1>8. u[m + 1] = u[m] \o rr[m + 1]
  BY <1>2, <1>4 DEF Flattens, Flatter
<1>9. QED
  BY <1>1, <1>3, <1>4, <1>7, <1>8 DEF rr

-----------------------------------------------------------------------------
(* What a merge does to a field.                                           *)

\* `is` is what a field holds when the values `said` came one after the other.
Lists(said) == [i \in DOMAIN said |-> said[i].list]
Folded(said, is) ==
  IF said = <<>> THEN is = Null
  ELSE /\ is # Null
       /\ \A i \in DOMAIN said : DOMAIN said[i] = DOMAIN is
       /\ IsList(is) => is.list = FlattenSeq(Lists(said))
       /\ ~IsList(is) /\ ~IsAttrs(is) => is = Last(said)

\* z is what a field holding x holds once y is merged into it.
Heard(x, y, z) ==
  IF y = Null THEN z = x
  ELSE IF x = Null THEN z = y
  ELSE /\ DOMAIN x = DOMAIN y /\ DOMAIN z = DOMAIN x /\ z # Null
       /\ IsList(x) => z.list = x.list \o y.list
       /\ ~IsList(x) /\ ~IsAttrs(x) => z = y

\* A field heard of once.
LEMMA FoldedOnce ==
  ASSUME NEW x, x # Null PROVE Folded(<<x>>, x)
<1>1. /\ <<x>> # <<>> /\ DOMAIN <<x>> = {1} /\ <<x>>[1] = x /\ Last(<<x>>) = x
  BY DEF Last
<1>2. Lists(<<x>>) = <<x.list>>
  BY DEF Lists
<1>3. FlattenSeq(Lists(<<x>>)) = x.list
  BY <1>2, FlattenSingle
<1>4. QED
  BY <1>1, <1>3 DEF Folded

\* A field heard of again.
LEMMA FoldedStep ==
  ASSUME NEW S, NEW said \in Seq(S), NEW x, NEW y \in S, NEW z,
         Folded(said, x), Heard(x, y, z)
  PROVE  Folded(IF y = Null THEN said ELSE Append(said, y), z)
<1>1. CASE y = Null
  BY <1>1 DEF Heard
<1>2. CASE y # Null /\ said = <<>>
  <2>1. x = Null /\ z = y /\ Append(said, y) = <<y>>
    BY <1>2 DEF Folded, Heard
  <2>2. QED
    BY <1>2, <2>1, FoldedOnce
<1>3. CASE y # Null /\ said # <<>>
  <2> DEFINE more == Append(said, y)
             m == Len(said)
             L == {v.list : v \in S}
  <2>1. /\ m \in Nat /\ m # 0 /\ more \in Seq(S) /\ more # <<>> /\ Len(more) = m + 1
        /\ DOMAIN said = 1..m /\ DOMAIN more = 1..(m + 1)
        /\ more[m + 1] = y /\ \A i \in 1..m : more[i] = said[i]
    BY <1>3
  <2> HIDE DEF more
  <2>2. /\ x # Null /\ DOMAIN x = DOMAIN y /\ DOMAIN z = DOMAIN x /\ z # Null
        /\ IsList(x) => z.list = x.list \o y.list
        /\ ~IsList(x) /\ ~IsAttrs(x) => z = y
    BY <1>3 DEF Folded, Heard
  <2>3. (IsList(z) <=> IsList(x)) /\ (IsAttrs(z) <=> IsAttrs(x))
    BY <2>2 DEF IsList, IsAttrs
  <2>4. \A i \in DOMAIN more : DOMAIN more[i] = DOMAIN z
    <3>1. \A i \in 1..m : DOMAIN said[i] = DOMAIN x
      BY <1>3, <2>1 DEF Folded
    <3>2. \A i \in 1..(m + 1) : i \in 1..m \/ i = m + 1
      BY <2>1
    <3>3. QED
      BY <2>1, <2>2, <3>1, <3>2
  <2>5. Last(more) = y
    BY <2>1 DEF Last
  <2>6. ASSUME IsList(z) PROVE z.list = FlattenSeq(Lists(more))
    <3>1. Lists(said) \in Seq(L) /\ Len(Lists(said)) = m
      <4>1. \A i \in 1..m : said[i].list \in L
        BY <2>1
      <4>2. QED
        BY <2>1, <4>1 DEF Lists
    <3>2. Lists(said) # <<>>
      BY <2>1, <3>1
    <3>3. Lists(more) = Append(Lists(said), y.list)
      <4>1. \A i \in 1..(m + 1) : i # m + 1 => i \in 1..m
        BY <2>1
      <4> DEFINE u == Lists(said)
      <4>2. \A i \in 1..m : u[i] = said[i].list
        BY <2>1 DEF Lists
      <4>3. u \in Seq(L) /\ Len(u) = m /\ y.list \in L
        BY <3>1
      <4> HIDE DEF u, L
      <4>4. /\ DOMAIN Append(u, y.list) = 1..(m + 1)
            /\ Append(u, y.list)[m + 1] = y.list
            /\ \A i \in 1..m : Append(u, y.list)[i] = u[i]
            /\ Append(u, y.list) = [i \in 1..(m + 1) |-> Append(u, y.list)[i]]
        BY <4>3
      <4>5. \A i \in 1..(m + 1) : more[i].list = Append(u, y.list)[i]
        BY <2>1, <4>1, <4>2, <4>4
      <4>6. Lists(more) = [i \in 1..(m + 1) |-> more[i].list]
        BY <2>1 DEF Lists
      <4>7. QED
        BY <4>4, <4>5, <4>6 DEF u
    <3>4. y.list \in L
      OBVIOUS
    <3>5. FlattenSeq(Append(Lists(said), y.list)) = FlattenSeq(Lists(said)) \o y.list
      BY <3>1, <3>2, <3>4, FlattenAppend
    <3>6. x.list = FlattenSeq(Lists(said))
      BY <1>3, <2>3, <2>6 DEF Folded
    <3>7. QED
      BY <2>2, <2>3, <2>6, <3>3, <3>5, <3>6
  <2>7. Folded(more, z)
    BY <2>1, <2>2, <2>3, <2>4, <2>5, <2>6 DEF Folded
  <2>8. QED
    BY <1>3, <2>7 DEF more
<1>4. QED
  BY <1>1, <1>2, <1>3

\* One value over another that is no removal.
LEMMA MergedHeard ==
  ASSUME NEW av, NEW bv, NEW below, Tidy(av), Tidy(bv),
         IsAttrs(av) /\ IsAttrs(bv) => IsRefused(below) \/ DOMAIN below = {"attrs"},
         ~IsRefused(MergedValue(av, bv, below))
  PROVE  /\ bv # Null
         /\ Heard(av, bv, MergedValue(av, bv, below))
         /\ av # Null => DOMAIN av = DOMAIN bv
<1> DEFINE m == MergedValue(av, bv, below)
<1>1. IsRefused(Refused("merge"))
  BY RefusalFacts
<1>2. bv # Null
  BY <1>1 DEF MergedValue
<1>3. CASE av = Null
  BY <1>2, <1>3 DEF MergedValue, Heard
<1>4. CASE av # Null
  <2>1. DOMAIN av = DOMAIN bv
    BY <1>1, <1>2, <1>4 DEF MergedValue
  <2>2. IsList(av) => m = Arr(av.list \o bv.list)
    BY <1>2, <1>4, <2>1 DEF MergedValue
  <2>3. ~IsList(av) => m = IF IsAttrs(av) THEN below ELSE bv
    BY <1>2, <1>4, <2>1 DEF MergedValue
  <2>4. \E t \in Values : DOMAIN av = {t}
    BY TidyParts DEF Neat, Plain
  <2>5. DOMAIN Null = {"null"}
    BY DEF Null
  <2>6. CASE IsList(av)
    <3>1. DOMAIN av = {"list"} /\ ~IsAttrs(av)
      BY <2>4, <2>6 DEF IsList, IsAttrs
    <3>2. DOMAIN m = {"list"} /\ m.list = av.list \o bv.list
      <4>1. \A c : DOMAIN Arr(c) = {"list"} /\ Arr(c).list = c
        BY DEF Arr
      <4> HIDE DEF m
      <4>2. QED
        BY <2>2, <2>6, <4>1
    <3>3. m # Null
      BY <3>2, <2>5
    <3>4. QED
      BY <1>2, <1>4, <2>1, <2>6, <3>1, <3>2, <3>3 DEF Heard
  <2>7. CASE IsAttrs(av)
    <3>1. DOMAIN av = {"attrs"} /\ ~IsList(av)
      BY <2>4, <2>7 DEF IsList, IsAttrs
    <3>2. DOMAIN m = {"attrs"}
      BY <2>1, <2>3, <2>7, <3>1 DEF IsAttrs
    <3>3. m # Null
      BY <3>2, <2>5
    <3>4. QED
      BY <1>2, <1>4, <2>1, <2>7, <3>1, <3>2, <3>3 DEF Heard
  <2>8. CASE ~IsList(av) /\ ~IsAttrs(av)
    BY <1>2, <1>4, <2>1, <2>3, <2>8 DEF Heard
  <2>9. QED
    BY <2>1, <2>6, <2>7, <2>8, <1>2
<1>5. QED
  BY <1>2, <1>3, <1>4

\* a is tidy wherever b has something to say.
TidyUnder(a, b) == \A k \in DOMAIN b.attrs : Tidy(AttrOr(a, k, Null))

\* So it is if its fields are, and if they are but those under "" and b has none there.
LEMMA UnderFacts ==
  ASSUME NEW a, NEW b
  PROVE  /\ FieldsTidy(a) => TidyUnder(a, b)
         /\ TidyBut(a, {""}) /\ "" \notin DOMAIN b.attrs => TidyUnder(a, b)
BY NullTidy DEF TidyUnder, TidyBut, FieldsTidy, AttrOr, HasAttr

\* One level of a merge, the values under it given by a function.
LEMMA LevelHeard ==
  ASSUME NEW a, NEW b, TidyUnder(a, b), FieldsTidy(b), IsAttrs(a), IsAttrs(b), NEW below,
         \A k \in DOMAIN b.attrs :
           IsAttrs(AttrOr(a, k, Null)) /\ IsAttrs(b.attrs[k]) =>
             IsRefused(below[k]) \/ DOMAIN below[k] = {"attrs"},
         NEW g,
         g = [k \in DOMAIN a.attrs \cup DOMAIN b.attrs |->
                IF k \notin DOMAIN b.attrs THEN a.attrs[k]
                ELSE MergedValue(AttrOr(a, k, Null), b.attrs[k], below[k])],
         ~IsRefused(Forced(Attrs(g)))
  PROVE  /\ Forced(Attrs(g)) = Attrs(g)
         /\ \A k : Heard(AttrOr(a, k, Null), AttrOr(b, k, Null), AttrOr(Attrs(g), k, Null))
         /\ \A k \in DOMAIN b.attrs :
              /\ b.attrs[k] # Null
              /\ AttrOr(Attrs(g), k, Null)
                   = MergedValue(AttrOr(a, k, Null), b.attrs[k], below[k])
              /\ ~IsRefused(AttrOr(Attrs(g), k, Null))
<1>1. DOMAIN g = DOMAIN a.attrs \cup DOMAIN b.attrs
  OBVIOUS
<1>2. DOMAIN Attrs(g) = {"attrs"} /\ Attrs(g).attrs = g /\ IsAttrs(Attrs(g))
  BY RefusalFacts
<1>3. Forced(Attrs(g)) = IF \E k \in DOMAIN g : IsRefused(g[k])
                         THEN Refused("merge") ELSE Attrs(g)
  BY <1>2, Zenon DEF Forced
<1>4. (\A k \in DOMAIN g : ~IsRefused(g[k])) /\ Forced(Attrs(g)) = Attrs(g)
  BY <1>3, RefusalFacts
<1>5. \A k : AttrOr(Attrs(g), k, Null) = IF k \in DOMAIN g THEN g[k] ELSE Null
  BY <1>2 DEF AttrOr, HasAttr
<1>6. ASSUME NEW k \in DOMAIN b.attrs
      PROVE  /\ b.attrs[k] # Null
             /\ g[k] = MergedValue(AttrOr(a, k, Null), b.attrs[k], below[k])
             /\ ~IsRefused(g[k])
             /\ Heard(AttrOr(a, k, Null), b.attrs[k], g[k])
  <2>1. g[k] = MergedValue(AttrOr(a, k, Null), b.attrs[k], below[k]) /\ ~IsRefused(g[k])
    BY <1>4
  <2>2. Tidy(AttrOr(a, k, Null)) /\ Tidy(b.attrs[k])
    BY DEF TidyUnder, FieldsTidy
  <2>3. IsAttrs(AttrOr(a, k, Null)) /\ IsAttrs(b.attrs[k]) =>
          IsRefused(below[k]) \/ DOMAIN below[k] = {"attrs"}
    OBVIOUS
  <2>4. /\ b.attrs[k] # Null
        /\ Heard(AttrOr(a, k, Null), b.attrs[k],
                 MergedValue(AttrOr(a, k, Null), b.attrs[k], below[k]))
    BY <2>1, <2>2, <2>3, MergedHeard
  <2>5. QED
    BY <2>1, <2>4
<1>7. ASSUME NEW k
      PROVE  Heard(AttrOr(a, k, Null), AttrOr(b, k, Null), AttrOr(Attrs(g), k, Null))
  <2>1. CASE k \in DOMAIN b.attrs
    <3>1. AttrOr(b, k, Null) = b.attrs[k] /\ AttrOr(Attrs(g), k, Null) = g[k]
      BY <1>1, <1>5, <2>1 DEF AttrOr, HasAttr
    <3>2. QED
      BY <1>6, <2>1, <3>1
  <2>2. CASE k \notin DOMAIN b.attrs
    <3>1. AttrOr(b, k, Null) = Null
      BY <2>2 DEF AttrOr, HasAttr
    <3>2. AttrOr(Attrs(g), k, Null) = AttrOr(a, k, Null)
      BY <1>1, <1>5, <2>2 DEF AttrOr, HasAttr
    <3>3. QED
      BY <3>1, <3>2 DEF Heard
  <2>3. QED
    BY <2>1, <2>2
<1>8. QED
  BY <1>1, <1>4, <1>5, <1>6, <1>7

\* Two objects under a field, merged by the level below.
LEMMA BelowHeard ==
  ASSUME NEW a, NEW b, FieldsTidy(a), FieldsTidy(b), IsAttrs(a), IsAttrs(b),
         ~IsRefused(MergeBelow(a, b))
  PROVE  \A k : Heard(AttrOr(a, k, Null), AttrOr(b, k, Null),
                      AttrOr(MergeBelow(a, b), k, Null))
<1> DEFINE below == [k \in DOMAIN b.attrs |-> MergeLast(AttrOr(a, k, Null), b.attrs[k])]
           g == [k \in DOMAIN a.attrs \cup DOMAIN b.attrs |->
                   IF k \notin DOMAIN b.attrs THEN a.attrs[k]
                   ELSE MergedValue(AttrOr(a, k, Null), b.attrs[k], below[k])]
           h == [k \in DOMAIN a.attrs \cup DOMAIN b.attrs |->
                   IF k \notin DOMAIN b.attrs THEN a.attrs[k]
                   ELSE LET av == AttrOr(a, k, Null)
                        IN  MergedValue(av, b.attrs[k], MergeLast(av, b.attrs[k]))]
<1>1. \A k \in DOMAIN b.attrs : below[k] = MergeLast(AttrOr(a, k, Null), b.attrs[k])
  OBVIOUS
<1>2. MergeBelow(a, b) = Forced(Attrs(h))
  BY Zenon DEF MergeBelow, MergeAttrs
<1>3. h = g
  BY <1>1
<1> HIDE DEF below, h
<1>4. ASSUME NEW k \in DOMAIN b.attrs, IsAttrs(AttrOr(a, k, Null)), IsAttrs(b.attrs[k])
      PROVE  IsRefused(below[k]) \/ DOMAIN below[k] = {"attrs"}
  <2> DEFINE x == AttrOr(a, k, Null)
             y == b.attrs[k]
  <2>1. Tidy(x) /\ Tidy(y)
    BY NullTidy DEF AttrOr, HasAttr, FieldsTidy
  <2>2. IsAttrs(x) /\ IsAttrs(y) /\ below[k] = MergeLast(x, y)
    BY <1>1, <1>4
  <2> HIDE DEF x, y
  <2>3. MergedOf(MergeLast(x, y), x, y)
    BY <2>1, <2>2, LastTidy, TidyObject
  <2>4. QED
    BY <2>2, <2>3, RefusalFacts DEF MergedOf
<1>5. ~IsRefused(Forced(Attrs(g)))
  BY <1>2, <1>3
<1>6. /\ Forced(Attrs(g)) = Attrs(g)
      /\ \A k : Heard(AttrOr(a, k, Null), AttrOr(b, k, Null), AttrOr(Attrs(g), k, Null))
      /\ \A k \in DOMAIN b.attrs :
           /\ b.attrs[k] # Null
           /\ AttrOr(Attrs(g), k, Null)
                = MergedValue(AttrOr(a, k, Null), b.attrs[k], below[k])
           /\ ~IsRefused(AttrOr(Attrs(g), k, Null))
  <2>1. TidyUnder(a, b)
    BY UnderFacts
  <2>2. \A k \in DOMAIN b.attrs :
           IsAttrs(AttrOr(a, k, Null)) /\ IsAttrs(b.attrs[k]) =>
             IsRefused(below[k]) \/ DOMAIN below[k] = {"attrs"}
    BY <1>4
  <2>3. g = [k \in DOMAIN a.attrs \cup DOMAIN b.attrs |->
                IF k \notin DOMAIN b.attrs THEN a.attrs[k]
                ELSE MergedValue(AttrOr(a, k, Null), b.attrs[k], below[k])]
    OBVIOUS
  <2> HIDE DEF g
  <2>4. QED
    BY <1>5, <2>1, <2>2, <2>3, LevelHeard
<1>7. QED
  BY <1>2, <1>3, <1>6

\* A field of a field, and a field of a field that is no object.
Second(v, k, j) == AttrOr(AttrOr(v, k, Null), j, Null)
LEMMA NotInside ==
  ASSUME NEW v, NEW j, ~IsAttrs(v) PROVE AttrOr(v, j, Null) = Null
BY DEF AttrOr, HasAttr

\* What is said of a field, and of a field in it, is what the merge hears.
LEMMA NodeHeard ==
  ASSUME NEW a, NEW b, TidyUnder(a, b), FieldsTidy(b), IsAttrs(a), IsAttrs(b),
         ~IsRefused(mergeNode(a, b))
  PROVE  /\ \A k : Heard(AttrOr(a, k, Null), AttrOr(b, k, Null),
                         AttrOr(mergeNode(a, b), k, Null))
         /\ \A k, j : Heard(Second(a, k, j), Second(b, k, j), Second(mergeNode(a, b), k, j))
<1> DEFINE below == [k \in DOMAIN b.attrs |-> MergeBelow(AttrOr(a, k, Null), b.attrs[k])]
           g == [k \in DOMAIN a.attrs \cup DOMAIN b.attrs |->
                   IF k \notin DOMAIN b.attrs THEN a.attrs[k]
                   ELSE MergedValue(AttrOr(a, k, Null), b.attrs[k], below[k])]
           h == [k \in DOMAIN a.attrs \cup DOMAIN b.attrs |->
                   IF k \notin DOMAIN b.attrs THEN a.attrs[k]
                   ELSE LET av == AttrOr(a, k, Null)
                        IN  MergedValue(av, b.attrs[k], MergeBelow(av, b.attrs[k]))]
<1>1. \A k \in DOMAIN b.attrs : below[k] = MergeBelow(AttrOr(a, k, Null), b.attrs[k])
  OBVIOUS
<1>2. mergeNode(a, b) = Forced(Attrs(h))
  BY Zenon DEF mergeNode, MergeAttrs
<1>3. h = g
  BY <1>1
<1> HIDE DEF below, h
<1>4. ASSUME NEW k \in DOMAIN b.attrs, IsAttrs(AttrOr(a, k, Null)), IsAttrs(b.attrs[k])
      PROVE  IsRefused(below[k]) \/ DOMAIN below[k] = {"attrs"}
  <2> DEFINE x == AttrOr(a, k, Null)
             y == b.attrs[k]
  <2>1. Tidy(x) /\ Tidy(y)
    BY DEF TidyUnder, FieldsTidy
  <2>2. IsAttrs(x) /\ IsAttrs(y) /\ below[k] = MergeBelow(x, y)
    BY <1>1, <1>4
  <2> HIDE DEF x, y
  <2>3. MergedOf(MergeBelow(x, y), x, y)
    BY <2>1, <2>2, BelowTidy, TidyObject
  <2>4. QED
    BY <2>2, <2>3, RefusalFacts DEF MergedOf
<1>5. ~IsRefused(Forced(Attrs(g)))
  BY <1>2, <1>3
<1>6. /\ Forced(Attrs(g)) = Attrs(g)
      /\ \A k : Heard(AttrOr(a, k, Null), AttrOr(b, k, Null), AttrOr(Attrs(g), k, Null))
      /\ \A k \in DOMAIN b.attrs :
           /\ b.attrs[k] # Null
           /\ AttrOr(Attrs(g), k, Null)
                = MergedValue(AttrOr(a, k, Null), b.attrs[k], below[k])
           /\ ~IsRefused(AttrOr(Attrs(g), k, Null))
  <2>1. TidyUnder(a, b)
    OBVIOUS
  <2>2. \A k \in DOMAIN b.attrs :
           IsAttrs(AttrOr(a, k, Null)) /\ IsAttrs(b.attrs[k]) =>
             IsRefused(below[k]) \/ DOMAIN below[k] = {"attrs"}
    BY <1>4
  <2>3. g = [k \in DOMAIN a.attrs \cup DOMAIN b.attrs |->
                IF k \notin DOMAIN b.attrs THEN a.attrs[k]
                ELSE MergedValue(AttrOr(a, k, Null), b.attrs[k], below[k])]
    OBVIOUS
  <2> HIDE DEF g
  <2>4. QED
    BY ONLY <1>5, <2>1, <2>2, <2>3, LevelHeard,
            FieldsTidy(b), IsAttrs(a), IsAttrs(b)
<1> DEFINE m == Attrs(g)
<1>7. mergeNode(a, b) = m
  BY <1>2, <1>3, <1>6
<1> HIDE DEF g, m
<1>8. ASSUME NEW k, NEW j PROVE Heard(Second(a, k, j), Second(b, k, j), Second(m, k, j))
  <2> DEFINE x == AttrOr(a, k, Null)
             y == AttrOr(b, k, Null)
             z == AttrOr(m, k, Null)
  <2>1. Heard(x, y, z)
    BY <1>6 DEF m
  <2>2. CASE y = Null
    <3>1. z = x /\ ~IsAttrs(y)
      BY <2>1, <2>2 DEF Heard, Null, IsAttrs
    <3>2. AttrOr(y, j, Null) = Null
      BY <3>1, NotInside
    <3>3. QED
      BY <3>1, <3>2 DEF Second, Heard
  <2>3. CASE y # Null
    <3>1. k \in DOMAIN b.attrs /\ y = b.attrs[k]
      BY <2>3 DEF AttrOr, HasAttr
    <3>2. z = MergedValue(x, y, below[k]) /\ ~IsRefused(z) /\ Tidy(x) /\ Tidy(y)
      BY <1>6, <3>1 DEF m, TidyUnder, FieldsTidy
    <3> HIDE DEF x, y, z
    <3>3. CASE x = Null
      <4>1. z = y /\ ~IsAttrs(x)
        BY <2>1, <2>3, <3>3 DEF Heard, Null, IsAttrs
      <4>2. AttrOr(x, j, Null) = Null
        BY <4>1, NotInside
      <4>3. Heard(AttrOr(x, j, Null), AttrOr(y, j, Null), AttrOr(z, j, Null))
        BY <4>1, <4>2 DEF Heard
      <4>4. QED
        BY <4>3 DEF Second, x, y, z
    <3>4. CASE x # Null /\ ~IsAttrs(x)
      <4>1. DOMAIN x = DOMAIN y /\ DOMAIN z = DOMAIN x
        BY <2>1, <2>3, <3>4 DEF Heard
      <4>2. ~IsAttrs(y) /\ ~IsAttrs(z)
        BY <3>4, <4>1 DEF IsAttrs
      <4>3. Heard(AttrOr(x, j, Null), AttrOr(y, j, Null), AttrOr(z, j, Null))
        BY <3>4, <4>2, NotInside DEF Heard
      <4>4. QED
        BY <4>3 DEF Second, x, y, z
    <3>5. CASE x # Null /\ IsAttrs(x)
      <4>1. DOMAIN x = DOMAIN y
        BY <2>1, <2>3, <3>5 DEF Heard
      <4>2. IsAttrs(y) /\ ~IsList(x)
        <5>1. DOMAIN x = {"attrs"}
          BY <3>2, <3>5, TidyObject
        <5>2. QED
          BY <3>5, <4>1, <5>1 DEF IsAttrs, IsList
      <4>3. z = below[k]
        BY <2>3, <3>2, <3>5, <4>1, <4>2 DEF MergedValue
      <4>4. below[k] = MergeBelow(x, y)
        BY <1>1, <3>1 DEF x, y
      <4>5. FieldsTidy(x) /\ FieldsTidy(y)
        BY <3>2, <3>5, <4>2, TidyObject
      <4>6. ~IsRefused(MergeBelow(x, y)) /\ z = MergeBelow(x, y)
        BY <3>2, <4>3, <4>4
      <4>7. Heard(AttrOr(x, j, Null), AttrOr(y, j, Null), AttrOr(z, j, Null))
        BY <3>5, <4>2, <4>5, <4>6, BelowHeard
      <4>8. QED
        BY <4>7 DEF Second, x, y, z
    <3>6. QED
      BY <3>3, <3>4, <3>5
  <2>4. QED
    BY <2>2, <2>3
<1>9. QED
  BY <1>6, <1>7, <1>8 DEF m

-----------------------------------------------------------------------------
(* Overlays in declaration order.                                          *)

\* How many of the base and the overlays of a level have been merged.
Upto(level) ==
  IF level = "nix"
  THEN IF at = "nix" THEN next ELSE Len(OverlaysOf("nix", raw)) + 1
  ELSE IF at = "top" THEN next
  ELSE IF at = "done" THEN Len(OverlaysOf("top", raw)) + 1 ELSE 1

\* ks leads to a field that the level may vary, or into one.
PathOf(level, ks) ==
  \E k \in allowed(level) : ks = <<k>> \/ \E j : ks = <<k, j>>

\* What the first n of them said of the field.
Spoken(level, p, ks, n) ==
  LET speakers == Taken(Sources(level), Speaking(level, p, ks))[n]
  IN  [i \in DOMAIN speakers |-> Inside(speakers[i], ks)]

\* v is what the first n of them made of the level.
Agrees(level, p, v, n) ==
  \A ks : PathOf(level, ks) =>
    Folded(Spoken(level, p, ks, n), Inside(NodeAt(level, v), ks))

Ordered ==
  Validated /\ Overlaid =>
    \A p \in Parses : Merging(p) =>
      \A level \in {"top", "nix"} : Agrees(level, p, answer[p], Upto(level))

\* A path is a field, or a field of a field.
LEMMA InsideFacts ==
  ASSUME NEW v
  PROVE  /\ \A k : Inside(v, <<k>>) = AttrOr(v, k, Null)
         /\ \A k, j : Inside(v, <<k, j>>) = Second(v, k, j)
<1>1. ASSUME NEW k PROVE Inside(v, <<k>>) = AttrOr(v, k, Null)
  <2>1. Len(<<k>>) = 1 /\ <<k>>[1] = k
    OBVIOUS
  <2>2. QED
    BY <2>1 DEF Inside
<1>2. ASSUME NEW k, NEW j PROVE Inside(v, <<k, j>>) = Second(v, k, j)
  <2>1. Len(<<k, j>>) # 1 /\ <<k, j>>[1] = k /\ <<k, j>>[2] = j
    OBVIOUS
  <2>2. QED
    BY <2>1 DEF Inside, Second
<1>3. QED
  BY <1>1, <1>2

\* Two trees that agree on a field agree on what is inside it.
LEMMA SameInside ==
  ASSUME NEW v, NEW w, NEW level, NEW ks, PathOf(level, ks),
         \A k \in allowed(level) : AttrOr(v, k, Null) = AttrOr(w, k, Null)
  PROVE  Inside(v, ks) = Inside(w, ks)
<1>1. PICK k \in allowed(level) : ks = <<k>> \/ \E j : ks = <<k, j>>
  BY DEF PathOf
<1>2. CASE ks = <<k>>
  BY <1>2, InsideFacts
<1>3. CASE \E j : ks = <<k, j>>
  <2>1. PICK j : ks = <<k, j>>
    BY <1>3
  <2>2. QED
    BY <2>1, InsideFacts DEF Second
<1>4. QED
  BY <1>1, <1>2, <1>3

\* What is said depends on the document and the argument alone.
LEMMA SpokenSame ==
  ASSUME raw' = raw
  PROVE  \A level, p, ks, n : Spoken(level, p, ks, n)' = Spoken(level, p, ks, n)
<1>1. \A level : Sources(level)' = Sources(level)
  BY DEF Sources
<1>2. \A level, p, ks : Speaking(level, p, ks)' = Speaking(level, p, ks)
  BY <1>1 DEF Speaking
<1>3. QED
  BY <1>1, <1>2 DEF Spoken

\* The sources of a level: the base, and the overlays after it.
LEMMA SourcesFacts ==
  ASSUME Shape, NEW level \in {"top", "nix"}
  PROVE  LET m == Len(OverlaysOf(level, raw))
         IN  /\ m \in Nat /\ Len(Sources(level)) = m + 1 /\ DOMAIN Sources(level) = 1..(m + 1)
             /\ Sources(level)[1] = NodeAt(level, Base(raw))
             /\ \A i \in 1..m : Sources(level)[i + 1] = OverlaysOf(level, raw)[i]
<1> DEFINE os == OverlaysOf(level, raw)
           S == ToSet(os) \cup {NodeAt(level, Base(raw))}
<1>1. os \in Seq(ToSet(os)) /\ \A i \in DOMAIN os : os[i] \in ToSet(os)
  BY DEF Shape, ToSet
<1>2. os \in Seq(S) /\ NodeAt(level, Base(raw)) \in S
  BY <1>1
<1>3. Sources(level) = <<NodeAt(level, Base(raw))>> \o os
  BY DEF Sources
<1> HIDE DEF os, S
<1>4. QED
  BY <1>2, <1>3 DEF os

\* The base speaks first,
LEMMA SpokenFirst ==
  ASSUME Shape, NEW level \in {"top", "nix"}, NEW p, NEW ks
  PROVE  LET x == Inside(NodeAt(level, Base(raw)), ks)
         IN  Spoken(level, p, ks, 1) = IF x = Null THEN <<>> ELSE <<x>>
<1> DEFINE K == Speaking(level, p, ks)
           s == Sources(level)
           m == Len(OverlaysOf(level, raw))
           x == Inside(NodeAt(level, Base(raw)), ks)
<1>1. m \in Nat /\ DOMAIN s = 1..(m + 1) /\ s[1] = NodeAt(level, Base(raw))
  BY SourcesFacts
<1>2. 1 \in K <=> x # Null
  BY <1>1 DEF Speaking
<1>3. Taken(s, K)[1] = IF 1 \in K THEN <<s[1]>> ELSE <<>>
  <2>1. /\ Taken(s, K)[0] = Extended(Taken(s, K), s, K, 0)
        /\ Taken(s, K)[1] = Extended(Taken(s, K), s, K, 1)
    BY TakenStep
  <2> HIDE DEF s, K
  <2>2. 1 - 1 = 0 /\ Append(<<>>, s[1]) = <<s[1]>>
    OBVIOUS
  <2>3. Taken(s, K)[0] = <<>>
    BY <2>1 DEF Extended
  <2>4. Taken(s, K)[1] = IF 1 \in K THEN Append(Taken(s, K)[1 - 1], s[1])
                         ELSE Taken(s, K)[1 - 1]
    BY <2>1 DEF Extended
  <2>5. QED
    BY <2>2, <2>3, <2>4
<1>4. CASE x = Null
  <2>1. Taken(s, K)[1] = <<>>
    BY <1>2, <1>3, <1>4
  <2>2. Spoken(level, p, ks, 1) = <<>>
    BY <2>1 DEF Spoken
  <2>3. QED
    BY <1>4, <2>2
<1>5. CASE x # Null
  <2>1. Taken(s, K)[1] = <<NodeAt(level, Base(raw))>>
    BY <1>1, <1>2, <1>3, <1>5
  <2>2. Spoken(level, p, ks, 1) = <<x>>
    BY <2>1 DEF Spoken
  <2>3. QED
    BY <1>5, <2>2
<1>6. QED
  BY <1>4, <1>5

\* and every overlay that applies and sets the field after it.
LEMMA SpokenNext ==
  ASSUME Shape, NEW level \in {"top", "nix"}, NEW p, NEW ks,
         NEW i \in 1..Len(OverlaysOf(level, raw))
  PROVE  LET o == OverlaysOf(level, raw)[i]
             S == {Inside(v, ks) : v \in ToSet(Sources(level))}
         IN  /\ Spoken(level, p, ks, i) \in Seq(S)
             /\ Inside(o, ks) \in S
             /\ Spoken(level, p, ks, i + 1) =
                  IF AppliesTo(o, p) /\ Inside(o, ks) # Null
                  THEN Append(Spoken(level, p, ks, i), Inside(o, ks))
                  ELSE Spoken(level, p, ks, i)
<1> DEFINE K == Speaking(level, p, ks)
           s == Sources(level)
           m == Len(OverlaysOf(level, raw))
           o == OverlaysOf(level, raw)[i]
           S == {Inside(v, ks) : v \in ToSet(s)}
           t == Taken(s, K)[i]
           u == Taken(s, K)[i + 1]
<1>1. /\ m \in Nat /\ Len(s) = m + 1 /\ DOMAIN s = 1..(m + 1) /\ s[i + 1] = o
  BY SourcesFacts
<1>2. i + 1 \in DOMAIN s /\ i + 1 # 1 /\ i + 1 # 0 /\ i + 1 \in Nat /\ (i + 1) - 1 = i
      /\ i \in 0..(m + 1) /\ i \in Nat
  BY <1>1
<1>3. i + 1 \in K <=> AppliesTo(o, p) /\ Inside(o, ks) # Null
  BY <1>1, <1>2 DEF Speaking
<1> HIDE DEF K, s, o
<1>4. u = IF i + 1 \in K THEN Append(t, o) ELSE t
  BY <1>1, <1>2, TakenStep DEF Extended
<1>5. t \in Seq(ToSet(s))
  <2>1. \A j \in (1..(m + 1)) \cap K : s[j] \in ToSet(s)
    BY <1>1 DEF ToSet
  <2>2. \A n \in 0..(m + 1) : Taken(s, K)[n] \in Seq(ToSet(s))
    <3> DEFINE q == m + 1
    <3>1. q \in Nat
      BY <1>1
    <3>2. \A j \in (1..q) \cap K : s[j] \in ToSet(s)
      BY <2>1
    <3> HIDE DEF q
    <3>3. \A n \in 0..q : Taken(s, K)[n] \in Seq(ToSet(s))
      BY <3>1, <3>2, TakenType
    <3>4. QED
      BY <3>3 DEF q
  <2>3. QED
    BY <1>2, <2>2
<1>6. o \in ToSet(s) /\ Inside(o, ks) \in S
  <2>1. o \in ToSet(s)
    BY <1>1, <1>2 DEF ToSet
  <2>2. QED
    BY <2>1
<1> DEFINE f == [j \in DOMAIN t |-> Inside(t[j], ks)]
<1>7. Spoken(level, p, ks, i) = f
      /\ Spoken(level, p, ks, i + 1) = [j \in DOMAIN u |-> Inside(u[j], ks)]
  BY DEF Spoken, s, K
<1> HIDE DEF t, u
<1>8. f \in Seq(S) /\ Len(f) = Len(t) /\ DOMAIN t = 1..Len(t) /\ Len(t) \in Nat
  <2>1. Len(t) \in Nat /\ DOMAIN t = 1..Len(t) /\ \A j \in 1..Len(t) : t[j] \in ToSet(s)
    BY <1>5
  <2>2. \A j \in 1..Len(t) : Inside(t[j], ks) \in S
    BY <2>1
  <2>3. f = [j \in 1..Len(t) |-> Inside(t[j], ks)]
    BY <2>1
  <2> HIDE DEF S, f
  <2>4. f \in Seq(S) /\ Len(f) = Len(t)
    BY <2>1, <2>2, <2>3
  <2>5. QED
    BY <2>1, <2>4
<1>9. CASE i + 1 \in K
  <2>1. u = Append(t, o)
    BY <1>4, <1>9
  <2> DEFINE r == Len(t)
  <2>2. /\ r \in Nat /\ DOMAIN u = 1..(r + 1) /\ u[r + 1] = o /\ \A j \in 1..r : u[j] = t[j]
    BY <1>5, <1>6, <2>1
  <2>3. \A j \in 1..r : f[j] = Inside(t[j], ks)
    BY <1>8
  <2> DEFINE w == Append(f, Inside(o, ks))
             y == Inside(o, ks)
  <2> HIDE DEF f, S, y, r
  <2>4. /\ DOMAIN w = 1..(r + 1) /\ w[r + 1] = y /\ \A j \in 1..r : w[j] = f[j]
        /\ w = [j \in 1..(r + 1) |-> w[j]]
    <3>1. f \in Seq(S) /\ Len(f) = r /\ y \in S
      BY <1>6, <1>8 DEF y, r
    <3>2. w \in Seq(S) /\ Len(w) = r + 1
      BY <3>1 DEF y
    <3>3. w = [j \in 1..(r + 1) |-> w[j]]
      <4> HIDE DEF w
      <4>1. DOMAIN w = 1..(r + 1) /\ w = [j \in DOMAIN w |-> w[j]]
        BY <3>2
      <4>2. QED
        BY <4>1
    <3>4. QED
      BY <3>1, <3>3 DEF y
  <2> HIDE DEF w
  <2>5. \A j \in 1..(r + 1) : j \in 1..r \/ j = r + 1
    BY <2>2
  <2>6. \A j \in 1..(r + 1) : Inside(u[j], ks) = w[j]
    BY <2>2, <2>3, <2>4, <2>5 DEF y
  <2>7. Spoken(level, p, ks, i + 1) = w
    BY <1>7, <2>2, <2>4, <2>6
  <2>8. QED
    BY <1>3, <1>6, <1>7, <1>8, <1>9, <2>7 DEF w, S, o, s
<1>10. CASE i + 1 \notin K
  <2>1. Spoken(level, p, ks, i + 1) = f
    BY <1>4, <1>7, <1>10
  <2> HIDE DEF f
  <2>2. QED
    BY <1>3, <1>6, <1>7, <1>8, <1>10, <2>1 DEF S, o, s
<1>11. QED
  BY <1>9, <1>10

\* Of a selector that passed validation, the test of the code is the test of
\* the documentation.
LEMMA MatchesApplies ==
  ASSUME PInv, Validated, Overlaid, NEW p \in Parses, Merging(p),
         NEW level \in {"top", "nix"}, NEW i \in 1..Len(OverlaysOf(level, raw))
  PROVE  LET o == OverlaysOf(level, raw)[i]
         IN  /\ Matching(level, i, p) <=> AppliesTo(o, p)
             /\ o \in ToSet(OverlaysOf(level, raw)) /\ IsAttrs(o)
             /\ DOMAIN Body(o).attrs \subseteq allowed(level)
<1> DEFINE o == OverlaysOf(level, raw)[i]
           when == o.attrs["when"]
<1>1. ~SelectorError(p) /\ Accepted(p) /\ Arguments[p] # NoPlatform
  BY MergingFacts DEF Merging, Agnostic
<1>2. ValidArgument(Arguments[p])
  BY <1>1 DEF PInv, Guarded, Started, Validated, CallGuards
<1>3. o \in ToSet(OverlaysOf(level, raw))
  BY DEF PInv, Shape, ToSet
<1> HIDE DEF o
<1>4. ~OverlayRefused(level, o, p)
  BY <1>1, <1>3 DEF SelectorError, LevelRefused
<1>5. /\ HasAttr(o, "when") /\ DOMAIN Body(o).attrs \subseteq allowed(level)
      /\ DOMAIN when.attrs \subseteq selectorKeys
  BY <1>4 DEF OverlayRefused
<1>6. PlatformOf(p) = [k \in selectorKeys |-> canon(k, Arguments[p][k])]
  BY <1>1 DEF PlatformOf
<1>7. PlatformOf(p) # NoPlatform
  <2>1. DOMAIN PlatformOf(p) = selectorKeys /\ DOMAIN NoPlatform = {"platform"}
    BY <1>6 DEF NoPlatform
  <2>2. "os" \in selectorKeys /\ "os" \notin {"platform"}
    BY DEF selectorKeys
  <2>3. QED
    BY <2>1, <2>2
<1>8. \A k \in DOMAIN when.attrs :
        canon(k, when.attrs[k].string) = PlatformOf(p)[k] <=>
          canonTables[k][when.attrs[k].string] = canonTables[k][Arguments[p][k]]
  BY <1>5, <1>6 DEF canon
<1>9. matches(when, p) <=> AppliesTo(o, p)
  BY <1>7, <1>8 DEF matches, AppliesTo
<1>10. QED
  BY <1>3, <1>5, <1>9 DEF Matching, HasAttr, o

\* A path leads to the same in an overlay and in its body.
LEMMA BodyInside ==
  ASSUME NEW o, IsAttrs(o), NEW level, NEW ks, PathOf(level, ks), level \in {"top", "nix"}
  PROVE  Inside(Body(o), ks) = Inside(o, ks)
<1> DEFINE f == [k \in DOMAIN o.attrs \ {"when"} |-> o.attrs[k]]
<1>1. Body(o) = Attrs(f) /\ IsAttrs(Attrs(f)) /\ Attrs(f).attrs = f
  BY RefusalFacts DEF Body, RemoveAttrs
<1>2. "when" \notin allowed(level)
  BY DEF allowed, nixAllowed, topAllowed
<1>3. \A k \in allowed(level) : AttrOr(Body(o), k, Null) = AttrOr(o, k, Null)
  BY <1>1, <1>2 DEF AttrOr, HasAttr
<1>4. QED
  BY <1>3, SameInside

\* Merging two tidy objects does to a field what the second says of it.
LEMMA MergeHeard ==
  ASSUME NEW a, NEW b, TidyUnder(a, b), FieldsTidy(b), IsAttrs(a), IsAttrs(b),
         ~IsRefused(mergeNode(a, b)), NEW level, NEW ks, PathOf(level, ks)
  PROVE  Heard(Inside(a, ks), Inside(b, ks), Inside(mergeNode(a, b), ks))
<1>1. PICK k \in allowed(level) : ks = <<k>> \/ \E j : ks = <<k, j>>
  BY DEF PathOf
<1> DEFINE m == mergeNode(a, b)
<1>2. /\ \A i : Heard(AttrOr(a, i, Null), AttrOr(b, i, Null), AttrOr(m, i, Null))
      /\ \A i, j : Heard(Second(a, i, j), Second(b, i, j), Second(m, i, j))
  BY NodeHeard
<1> HIDE DEF m
<1>3. CASE ks = <<k>>
  BY <1>2, <1>3, InsideFacts DEF m
<1>4. CASE \E j : ks = <<k, j>>
  <2>1. PICK j : ks = <<k, j>>
    BY <1>4
  <2>2. QED
    BY <1>2, <2>1, InsideFacts DEF m
<1>5. QED
  BY <1>1, <1>3, <1>4

\* One overlay of a level, merged if it matches.
LEMMA OneOverlay ==
  ASSUME PInv, Contents, Validated, Overlaid, NEW p \in Parses, Merging(p),
         NEW level \in {"top", "nix"}, NEW i \in 1..Len(OverlaysOf(level, raw)),
         NEW a, IsAttrs(a), TidyBut(a, {""}), NEW z,
         IF Matching(level, i, p)
         THEN z = mergeNode(a, Body(OverlaysOf(level, raw)[i])) /\ ~IsRefused(z)
         ELSE z = a,
         NEW ks, PathOf(level, ks),
         Folded(Spoken(level, p, ks, i), Inside(a, ks))
  PROVE  Folded(Spoken(level, p, ks, i + 1), Inside(z, ks))
<1> DEFINE o == OverlaysOf(level, raw)[i]
           y == Inside(o, ks)
           said == Spoken(level, p, ks, i)
           S == {Inside(v, ks) : v \in ToSet(Sources(level))}
<1>1. /\ Matching(level, i, p) <=> AppliesTo(o, p)
      /\ IsAttrs(o)
  BY MatchesApplies
<1>2. /\ said \in Seq(S) /\ y \in S
      /\ Spoken(level, p, ks, i + 1) =
           IF AppliesTo(o, p) /\ y # Null THEN Append(said, y) ELSE said
  BY SpokenNext DEF PInv
<1>3. CASE Matching(level, i, p)
  <2>1. Inside(Body(o), ks) = y
    BY <1>1, BodyInside
  <2>2. DOMAIN Body(o) = {"attrs"} /\ FieldsTidy(Body(o)) /\ TidyUnder(a, Body(o))
    BY MergingTidy, UnderFacts
  <2>3. z = mergeNode(a, Body(o)) /\ ~IsRefused(z) /\ IsAttrs(Body(o))
    BY <1>3, <2>2 DEF IsAttrs
  <2> HIDE DEF o, y, said, S
  <2>4. Heard(Inside(a, ks), y, Inside(z, ks))
    BY <2>1, <2>2, <2>3, MergeHeard
  <2>5. Folded(IF y = Null THEN said ELSE Append(said, y), Inside(z, ks))
    BY <1>2, <2>4, FoldedStep DEF said
  <2>6. QED
    BY <1>1, <1>2, <1>3, <2>5
<1>4. CASE ~Matching(level, i, p)
  <2>1. Spoken(level, p, ks, i + 1) = said /\ z = a
    BY <1>1, <1>2, <1>4
  <2>2. QED
    BY <2>1
<1>5. QED
  BY <1>3, <1>4

\* The node of a level in a tree a parse holds, tidy and an object.
LEMMA NodeFacts ==
  ASSUME PInv, Contents, Validated, Overlaid, NEW p \in Parses, Merging(p)
  PROVE  /\ NodeAt("top", answer[p]) = answer[p]
         /\ IsAttrs(answer[p]) /\ TidyBut(answer[p], {""})
         /\ 1 \in 1..Len(OverlaysOf("nix", raw)) =>
              /\ HasNix(answer[p])
              /\ NodeAt("nix", answer[p]) = answer[p].attrs["nix"]
              /\ IsAttrs(answer[p].attrs["nix"]) /\ FieldsTidy(answer[p].attrs["nix"])
<1>1. TreeOf(answer[p]) /\ TidyTree(answer[p])
  BY MergingFacts DEF Contents, Merging
<1>2. IsAttrs(answer[p]) /\ TidyBut(answer[p], {""})
  BY <1>1 DEF TidyTree, IsAttrs
<1>3. NodeAt("top", answer[p]) = answer[p]
  BY DEF NodeAt
<1>4. ASSUME 1 \in 1..Len(OverlaysOf("nix", raw))
      PROVE  /\ HasNix(answer[p])
             /\ NodeAt("nix", answer[p]) = answer[p].attrs["nix"]
             /\ IsAttrs(answer[p].attrs["nix"]) /\ FieldsTidy(answer[p].attrs["nix"])
  <2>1. HasNix(Base(raw))
    BY <1>4, NixOverlays, BaseFacts DEF PInv, Shape
  <2>2. HasNix(answer[p])
    BY <1>1, <2>1 DEF TreeOf
  <2>3. IsAttrs(answer[p].attrs["nix"]) /\ "nix" \in DOMAIN answer[p].attrs
    BY <2>2 DEF HasNix, HasAttr
  <2>4. Tidy(answer[p].attrs["nix"])
    BY <1>1, <2>3 DEF TidyTree, TidyBut
  <2>5. NodeAt("nix", answer[p]) = answer[p].attrs["nix"]
    BY <2>2 DEF NodeAt, HasNix
  <2>6. QED
    BY <2>2, <2>3, <2>4, <2>5, TidyObject
<1>5. QED
  BY <1>2, <1>3, <1>4

\* A parse that merges after a step of a fold merged before it.
LEMMA StillMerging ==
  ASSUME Folds, NEW p \in Parses, Merging(p)' PROVE Merging(p)
BY DEF Folds, Merging, Accepted, Agnostic

\* What a step of the `nix` fold does to a parse that it leaves accepted.
LEMMA NixStep ==
  ASSUME PInv, MergeNix, at' = "nix", NEW p \in Parses, Merging(p)'
  PROVE  LET n == mergeNode(answer[p].attrs["nix"], Body(OverlaysOf("nix", raw)[next]))
         IN  /\ next \in 1..Len(OverlaysOf("nix", raw)) /\ next' = next + 1 /\ Merging(p)
             /\ IF Matching("nix", next, p)
                THEN answer'[p] = SetAttr(answer[p], "nix", n) /\ ~IsRefused(n)
                ELSE answer'[p] = answer[p]
<1> DEFINE o == OverlaysOf("nix", raw)[next]
           n == mergeNode(answer[p].attrs["nix"], Body(o))
<1>1. /\ Folds /\ next \in Nat \ {0} /\ next <= Len(OverlaysOf("nix", raw))
      /\ Len(OverlaysOf("nix", raw)) \in Nat
  BY NixFold DEF PInv, Shape
<1>2. Merging(p)
  BY <1>1, StillMerging
<1>3. /\ answer'[p] = IF Merging(p) /\ Matching("nix", next, p)
                     THEN IF IsRefused(n) THEN n ELSE SetAttr(answer[p], "nix", n)
                     ELSE answer[p]
      /\ next' = next + 1
  BY <1>1 DEF MergeNix
<1>4. ~IsRefused(answer'[p])
  BY DEF Merging, Accepted
<1> HIDE DEF n
<1>5. QED
  BY <1>1, <1>2, <1>3, <1>4 DEF n

\* The same of the top level.
LEMMA TopStep ==
  ASSUME PInv, MergeTop, at' = "top", NEW p \in Parses, Merging(p)'
  PROVE  /\ next \in 1..Len(OverlaysOf("top", raw)) /\ next' = next + 1 /\ Merging(p)
         /\ IF Matching("top", next, p)
            THEN /\ answer'[p] = mergeNode(answer[p], Body(OverlaysOf("top", raw)[next]))
                 /\ ~IsRefused(answer'[p])
            ELSE answer'[p] = answer[p]
<1>1. /\ Folds /\ next \in Nat \ {0} /\ next <= Len(OverlaysOf("top", raw))
      /\ Len(OverlaysOf("top", raw)) \in Nat
  BY TopFold DEF PInv, Shape
<1>2. Merging(p)
  BY <1>1, StillMerging
<1>3. /\ answer'[p] = IF Merging(p) /\ Matching("top", next, p)
                     THEN mergeNode(answer[p], Body(OverlaysOf("top", raw)[next]))
                     ELSE answer[p]
      /\ next' = next + 1
  BY <1>1 DEF MergeTop
<1>4. ~IsRefused(answer'[p])
  BY DEF Merging, Accepted
<1>5. QED
  BY <1>1, <1>2, <1>3, <1>4

\* What a step must leave of every parse that still merges.
LEMMA OrderedNext ==
  ASSUME raw' = raw, NEW n, NEW t, n = Upto("nix")', t = Upto("top")',
         Validated' /\ Overlaid => \A p \in Parses : Merging(p)' =>
           Agrees("nix", p, answer'[p], n) /\ Agrees("top", p, answer'[p], t)
  PROVE  Ordered'
<1> SUFFICES ASSUME Validated', Overlaid', NEW p \in Parses, Merging(p)',
                    NEW level \in {"top", "nix"}, NEW ks, PathOf(level, ks)
             PROVE  Folded(Spoken(level, p, ks, Upto(level))',
                           Inside(NodeAt(level, answer'[p]), ks))
  BY DEF Ordered, Agrees
<1> DEFINE m == IF level = "nix" THEN n ELSE t
<1>1. Overlaid
  BY RawOnly
<1>2. Agrees(level, p, answer'[p], m)
  BY <1>1
<1>3. Folded(Spoken(level, p, ks, m), Inside(NodeAt(level, answer'[p]), ks))
  BY <1>2 DEF Agrees
<1>4. Upto(level)' = m
  OBVIOUS
<1>5. Spoken(level, p, ks, Upto(level))' = Spoken(level, p, ks, m)
  BY <1>4, SpokenSame
<1>6. QED
  BY <1>3, <1>5

\* The base alone.
LEMMA BaseAgrees ==
  ASSUME Shape, NEW level \in {"top", "nix"}, NEW p
  PROVE  Agrees(level, p, Base(raw), 1)
<1> SUFFICES ASSUME NEW ks
             PROVE  Folded(Spoken(level, p, ks, 1), Inside(NodeAt(level, Base(raw)), ks))
  BY DEF Agrees
<1> DEFINE x == Inside(NodeAt(level, Base(raw)), ks)
<1>1. Spoken(level, p, ks, 1) = IF x = Null THEN <<>> ELSE <<x>>
  BY SpokenFirst
<1> HIDE DEF x
<1>2. CASE x = Null
  BY <1>1, <1>2 DEF Folded, x
<1>3. CASE x # Null
  <2>1. Folded(<<x>>, x)
    BY <1>3, FoldedOnce
  <2>2. QED
    BY <1>1, <1>3, <2>1 DEF x
<1>4. QED
  BY <1>2, <1>3

\* A tree that has the fields of another that a level may vary.
LEMMA AgreesSame ==
  ASSUME NEW level, NEW p, NEW v, NEW w, NEW n, Agrees(level, p, v, n),
         \A k \in allowed(level) :
           AttrOr(NodeAt(level, v), k, Null) = AttrOr(NodeAt(level, w), k, Null)
  PROVE  Agrees(level, p, w, n)
<1> SUFFICES ASSUME NEW ks, PathOf(level, ks)
             PROVE  Folded(Spoken(level, p, ks, n), Inside(NodeAt(level, w), ks))
  BY DEF Agrees
<1>1. Inside(NodeAt(level, v), ks) = Inside(NodeAt(level, w), ks)
  BY SameInside
<1>2. Folded(Spoken(level, p, ks, n), Inside(NodeAt(level, v), ks))
  BY DEF Agrees
<1>3. QED
  BY <1>1, <1>2

\* The answers before any overlay is merged.
LEMMA ValidateOrdered == ASSUME PInv, Validate, next = 1 PROVE Ordered'
<1>1. /\ Shape /\ raw' = raw /\ next' = 1 /\ at' = "nix"
      /\ answer' = [p \in Parses |->
             IF ~Accepted(p) THEN answer[p]
             ELSE IF SelectorError(p) THEN Refused("selector")
             ELSE IF Agnostic(p) THEN poisoned ELSE Base(raw)]
  BY DEF PInv, Validate, SelectorError
<1>2. Upto("nix")' = 1 /\ Upto("top")' = 1
  BY <1>1 DEF Upto
<1>3. ASSUME NEW p \in Parses, Merging(p)' PROVE answer'[p] = Base(raw)
  <2>1. ~IsRefused(answer'[p]) /\ ~Agnostic(p)
    BY <1>3 DEF Merging, Accepted, Agnostic
  <2>2. IsRefused(Refused("selector"))
    BY RefusalFacts
  <2>3. QED
    BY <1>1, <2>1, <2>2 DEF Accepted
<1>4. QED
  BY <1>1, <1>2, <1>3, BaseAgrees, OrderedNext

\* One overlay of `nix`.
LEMMA NixOrdered == ASSUME PInv, Contents, Ordered, MergeNix PROVE Ordered'
<1>1. Folds /\ Overlaid /\ at = "nix" /\ Validated /\ raw' = raw /\ Shape
  BY NixFold DEF MergeNix, Folds, PInv
<1>2. Upto("nix") = next /\ Upto("top") = 1
  BY <1>1 DEF Upto
<1>3. \A p \in Parses : Merging(p) =>
        Agrees("nix", p, answer[p], next) /\ Agrees("top", p, answer[p], 1)
  BY <1>1, <1>2 DEF Ordered
<1>4. CASE at' = "nix"
  <2>1. Upto("nix")' = next + 1 /\ Upto("top")' = 1
    BY <1>4, NixFold DEF Upto
  <2>2. ASSUME NEW p \in Parses, Merging(p)'
        PROVE  Agrees("nix", p, answer'[p], next + 1) /\ Agrees("top", p, answer'[p], 1)
    <3> DEFINE a == answer[p].attrs["nix"]
               n == mergeNode(a, Body(OverlaysOf("nix", raw)[next]))
               z == IF Matching("nix", next, p) THEN n ELSE a
    <3>1. /\ next \in 1..Len(OverlaysOf("nix", raw)) /\ Merging(p)
          /\ IF Matching("nix", next, p)
             THEN answer'[p] = SetAttr(answer[p], "nix", n) /\ ~IsRefused(n)
             ELSE answer'[p] = answer[p]
      BY <1>4, <2>2, NixStep
    <3>2. 1 \in 1..Len(OverlaysOf("nix", raw))
      <4>1. Len(OverlaysOf("nix", raw)) \in Nat
        BY <1>1 DEF Shape
      <4>2. QED
        BY <3>1, <4>1
    <3>3. /\ HasNix(answer[p]) /\ NodeAt("nix", answer[p]) = a
          /\ IsAttrs(a) /\ TidyBut(a, {""})
          /\ NodeAt("top", answer[p]) = answer[p] /\ IsAttrs(answer[p])
      BY <1>1, <3>1, <3>2, NodeFacts, ButFields
    <3>4. NodeAt("nix", answer'[p]) = z
      <4>1. CASE Matching("nix", next, p)
        <5>1. n = Refused("merge") \/ DOMAIN n = {"attrs"}
          BY MergeFacts
        <5> HIDE DEF n
        <5>2. IsAttrs(n)
          BY <3>1, <4>1, <5>1, RefusalFacts DEF IsAttrs
        <5>3. /\ DOMAIN answer'[p] = {"attrs"} /\ "nix" \in DOMAIN answer'[p].attrs
              /\ answer'[p].attrs["nix"] = n
          BY <3>1, <4>1, SetFacts
        <5>4. QED
          BY <4>1, <5>2, <5>3 DEF NodeAt, HasAttr, IsAttrs
      <4>2. CASE ~Matching("nix", next, p)
        BY <3>1, <3>3, <4>2
      <4>3. QED
        BY <4>1, <4>2
    <3>5. NodeAt("top", answer'[p]) = answer'[p]
      BY DEF NodeAt
    <3>6. \A k \in allowed("top") : AttrOr(answer[p], k, Null) = AttrOr(answer'[p], k, Null)
      <4>1. "nix" \notin allowed("top")
        BY DEF allowed, topAllowed
      <4>2. CASE Matching("nix", next, p)
        <5> HIDE DEF n
        <5>1. /\ DOMAIN answer'[p] = {"attrs"}
              /\ DOMAIN answer'[p].attrs = DOMAIN answer[p].attrs \cup {"nix"}
              /\ \A j \in DOMAIN answer[p].attrs : j # "nix" =>
                   answer'[p].attrs[j] = answer[p].attrs[j]
          BY <3>1, <4>2, SetFacts
        <5>2. QED
          BY <3>3, <4>1, <5>1 DEF AttrOr, HasAttr, IsAttrs
      <4>3. CASE ~Matching("nix", next, p)
        BY <3>1, <4>3
      <4>4. QED
        BY <4>2, <4>3
    <3>7. Agrees("top", p, answer'[p], 1)
      BY <1>3, <3>1, <3>3, <3>5, <3>6, AgreesSame
    <3>8. ASSUME NEW ks, PathOf("nix", ks)
          PROVE  Folded(Spoken("nix", p, ks, next + 1), Inside(NodeAt("nix", answer'[p]), ks))
      <4>1. Folded(Spoken("nix", p, ks, next), Inside(a, ks))
        BY <1>3, <3>1, <3>3, <3>8 DEF Agrees
      <4>2. IF Matching("nix", next, p) THEN z = n /\ ~IsRefused(z) ELSE z = a
        BY <3>1
      <4> HIDE DEF z, a
      <4>3. Folded(Spoken("nix", p, ks, next + 1), Inside(z, ks))
        BY <1>1, <3>1, <3>3, <3>8, <4>1, <4>2, OneOverlay
      <4>4. QED
        BY <3>4, <4>3
    <3>9. Agrees("nix", p, answer'[p], next + 1)
      BY <3>8 DEF Agrees
    <3>10. QED
      BY <3>7, <3>9
  <2>3. QED
    BY <1>1, <2>1, <2>2, OrderedNext
<1>5. CASE at' # "nix"
  <2>1. at' = "libraries" /\ next' = 1 /\ answer' = answer
    BY <1>5, NixFold
  <2>2. next = Len(OverlaysOf("nix", raw)) + 1
    <3>1. next \in 1..(Len(OverlaysOf("nix", raw)) + 1) /\ Len(OverlaysOf("nix", raw)) \in Nat
      BY <1>1 DEF Contents, Shape
    <3>2. ~(next <= Len(OverlaysOf("nix", raw)))
      BY <1>1, <1>5 DEF MergeNix
    <3>3. QED
      BY <3>1, <3>2
  <2>3. OverlaysOf("nix", raw)' = OverlaysOf("nix", raw)
    BY <1>1
  <2>4. Upto("nix")' = next /\ Upto("top")' = 1
    BY <2>1, <2>2, <2>3 DEF Upto
  <2>5. \A p \in Parses : Merging(p)' => Merging(p)
    BY <1>1, StillMerging
  <2>6. QED
    BY <1>1, <1>3, <2>1, <2>4, <2>5, OrderedNext
<1>6. QED
  BY <1>4, <1>5

\* The check of the libraries changes no tree.
LEMMA LibrariesOrdered == ASSUME PInv, Contents, Ordered, CheckLibraries PROVE Ordered'
<1>1. /\ at = "libraries" /\ at' = "top" /\ raw' = raw /\ next' = next /\ Shape /\ Overlaid
      /\ Validated /\ next = 1
  BY DEF CheckLibraries, PInv, Shape, Validated, Contents
<1>2. OverlaysOf("nix", raw)' = OverlaysOf("nix", raw)
  BY <1>1
<1>3. /\ Upto("nix")' = Upto("nix") /\ Upto("top")' = Upto("top")
  BY <1>1, <1>2 DEF Upto
<1>4. ASSUME NEW p \in Parses, Merging(p)' PROVE Merging(p) /\ answer'[p] = answer[p]
  <2>1. answer'[p] \in {Refused("libraries"), answer[p]}
    BY DEF CheckLibraries
  <2>2. answer'[p] # Refused("libraries")
    BY <1>4, RefusalFacts DEF Merging, Accepted
  <2>3. QED
    BY <1>4, <2>1, <2>2 DEF Merging, Accepted, Agnostic
<1>5. \A p \in Parses : Merging(p)' =>
        Agrees("nix", p, answer'[p], Upto("nix")) /\ Agrees("top", p, answer'[p], Upto("top"))
  BY <1>1, <1>4 DEF Ordered
<1>6. QED
  BY <1>1, <1>3, <1>5, OrderedNext

\* A merge into a tree leaves its `nix` where the overlay does not set it.
LEMMA NixLeft ==
  ASSUME NEW a, NEW b, IsAttrs(a), "nix" \notin DOMAIN b.attrs,
         DOMAIN a = {"attrs"}, ~IsRefused(mergeNode(a, b))
  PROVE  NodeAt("nix", mergeNode(a, b)) = NodeAt("nix", a)
<1> DEFINE m == mergeNode(a, b)
<1>1. /\ DOMAIN m = {"attrs"} /\ DOMAIN m.attrs = DOMAIN a.attrs \cup DOMAIN b.attrs
      /\ \A k \in DOMAIN a.attrs \ DOMAIN b.attrs : m.attrs[k] = a.attrs[k]
  BY MergeFacts, RefusalFacts
<1> HIDE DEF m
<1>2. HasAttr(m, "nix") <=> HasAttr(a, "nix")
  BY <1>1 DEF HasAttr, IsAttrs
<1>3. HasAttr(a, "nix") => m.attrs["nix"] = a.attrs["nix"]
  BY <1>1 DEF HasAttr
<1>4. NodeAt("nix", m) = NodeAt("nix", a)
  BY <1>2, <1>3 DEF NodeAt
<1>5. QED
  BY <1>4 DEF m

\* One overlay of the top level.
LEMMA TopOrdered == ASSUME PInv, Contents, Ordered, MergeTop PROVE Ordered'
<1>1. Folds /\ Overlaid /\ at = "top" /\ Validated /\ raw' = raw /\ Shape
  BY TopFold DEF MergeTop, Folds, PInv
<1> DEFINE c == Len(OverlaysOf("nix", raw)) + 1
<1>2. Upto("nix") = c /\ Upto("top") = next
  BY <1>1 DEF Upto
<1>3. \A p \in Parses : Merging(p) =>
        Agrees("nix", p, answer[p], c) /\ Agrees("top", p, answer[p], next)
  BY <1>1, <1>2 DEF Ordered
<1>4. OverlaysOf("nix", raw)' = OverlaysOf("nix", raw)
      /\ OverlaysOf("top", raw)' = OverlaysOf("top", raw)
  BY <1>1
<1>5. CASE at' = "top"
  <2>1. Upto("nix")' = c /\ Upto("top")' = next + 1
    BY <1>4, <1>5, TopFold DEF Upto
  <2> HIDE DEF c
  <2>2. ASSUME NEW p \in Parses, Merging(p)'
        PROVE  Agrees("nix", p, answer'[p], c) /\ Agrees("top", p, answer'[p], next + 1)
    <3> DEFINE a == answer[p]
               b == Body(OverlaysOf("top", raw)[next])
               z == answer'[p]
    <3>1. /\ next \in 1..Len(OverlaysOf("top", raw)) /\ Merging(p)
          /\ IF Matching("top", next, p) THEN z = mergeNode(a, b) /\ ~IsRefused(z)
             ELSE z = a
      BY <1>5, <2>2, TopStep
    <3>2. NodeAt("top", a) = a /\ IsAttrs(a) /\ TidyBut(a, {""}) /\ DOMAIN a = {"attrs"}
      BY <1>1, <3>1, NodeFacts, MergingFacts
    <3>3. NodeAt("nix", z) = NodeAt("nix", a)
      <4>1. "nix" \notin DOMAIN b.attrs
        <5>1. DOMAIN b.attrs \subseteq allowed("top")
          BY <1>1, <3>1, MatchesApplies
        <5>2. QED
          BY <5>1 DEF allowed, topAllowed
      <4> HIDE DEF a, b, z
      <4>2. CASE Matching("top", next, p)
        BY <3>1, <3>2, <4>1, <4>2, NixLeft
      <4>3. CASE ~Matching("top", next, p)
        BY <3>1, <4>3
      <4>4. QED
        BY <4>2, <4>3
    <3>4. Agrees("nix", p, z, c)
      BY <1>3, <3>1, <3>3, AgreesSame
    <3>5. ASSUME NEW ks, PathOf("top", ks)
          PROVE  Folded(Spoken("top", p, ks, next + 1), Inside(NodeAt("top", z), ks))
      <4>1. Folded(Spoken("top", p, ks, next), Inside(a, ks))
        BY <1>3, <3>1, <3>2, <3>5 DEF Agrees
      <4> HIDE DEF z, a
      <4>2. Folded(Spoken("top", p, ks, next + 1), Inside(z, ks))
        BY <1>1, <3>1, <3>2, <3>5, <4>1, OneOverlay
      <4>3. NodeAt("top", z) = z
        BY DEF NodeAt
      <4>4. QED
        BY <4>2, <4>3
    <3>6. Agrees("top", p, z, next + 1)
      BY <3>5 DEF Agrees
    <3>7. QED
      BY <3>4, <3>6
  <2>3. QED
    BY <1>1, <2>1, <2>2, OrderedNext
<1>6. CASE at' # "top"
  <2>1. at' = "done" /\ next' = next /\ answer' = answer
    BY <1>6, TopFold
  <2>2. next = Len(OverlaysOf("top", raw)) + 1
    <3>1. next \in 1..(Len(OverlaysOf("top", raw)) + 1) /\ Len(OverlaysOf("top", raw)) \in Nat
      BY <1>1 DEF Contents, Shape
    <3>2. ~(next <= Len(OverlaysOf("top", raw)))
      BY <1>1, <1>6 DEF MergeTop
    <3>3. QED
      BY <3>1, <3>2
  <2>3. Upto("nix")' = c /\ Upto("top")' = next
    BY <1>4, <2>1, <2>2 DEF Upto
  <2>4. \A p \in Parses : Merging(p)' => Merging(p)
    BY <1>1, StillMerging
  <2>5. QED
    BY <1>1, <1>3, <2>1, <2>3, <2>4, OrderedNext
<1>7. QED
  BY <1>5, <1>6

\* At every moment of the folds a parse is what its overlays so far made of it.
LEMMA OrderedInductive == PInv /\ Contents /\ Ordered /\ [Next]_vars => Ordered'
<1>1. ASSUME PInv, Contents, Call PROVE Ordered'
  <2>1. raw' = raw /\ at' = IF Overlaid THEN "validate" ELSE "done"
    BY <1>1 DEF Call
  <2>2. Overlaid' = Overlaid
    BY <2>1, RawOnly
  <2>3. QED
    BY <2>1, <2>2 DEF Ordered, Validated
<1>2. ASSUME PInv, Contents, Validate PROVE Ordered'
  <2>1. next = 1
    BY <1>2 DEF Contents, Validate
  <2>2. QED
    BY <1>2, <2>1, ValidateOrdered
<1>3. ASSUME Ordered, UNCHANGED vars PROVE Ordered'
  <2>1. raw' = raw /\ at' = at /\ next' = next /\ answer' = answer
    BY <1>3 DEF vars
  <2>2. Upto("nix")' = Upto("nix") /\ Upto("top")' = Upto("top")
    BY <2>1 DEF Upto
  <2>3. \A p \in Parses : Merging(p)' => Merging(p)
    BY <2>1 DEF Merging, Accepted, Agnostic
  <2>4. Validated' = Validated
    BY <2>1 DEF Validated
  <2>5. Validated' /\ Overlaid => \A p \in Parses : Merging(p)' =>
          Agrees("nix", p, answer'[p], Upto("nix")) /\ Agrees("top", p, answer'[p], Upto("top"))
    BY <1>3, <2>1, <2>3, <2>4 DEF Ordered
  <2>6. QED
    BY <2>1, <2>2, <2>5, OrderedNext
<1>4. QED
  BY <1>1, <1>2, <1>3, NixOrdered, LibrariesOrdered, TopOrdered DEF Next

\* It holds of every reachable state.
THEOREM OrderedInvariant == Spec => [](PInv /\ Contents /\ Ordered)
<1>1. Init => PInv /\ Contents
  BY InitPInv, InitContents
<1>2. Init => Ordered
  BY DEF Init, Ordered, Validated
<1>3. PInv /\ Contents /\ Ordered /\ [Next]_vars => PInv' /\ Contents' /\ Ordered'
  BY PInductive, ContentsInductive, OrderedInductive
<1>4. QED
  BY <1>1, <1>2, <1>3, PTL DEF Spec

\* A field that some overlay of a level sets, or a field of one.
LEMMA LeafPath ==
  ASSUME PInv, NEW p, ~SelectorError(p), NEW level \in {"top", "nix"},
         NEW ks \in LeafPaths(level)
  PROVE  PathOf(level, ks)
<1>1. PICK o \in ToSet(OverlaysOf(level, raw)) :
        \/ \E k \in DOMAIN Body(o).attrs : ks = <<k>>
        \/ \E k \in DOMAIN Body(o).attrs : \E j : ks = <<k, j>>
  BY DEF LeafPaths
<1>2. DOMAIN Body(o).attrs \subseteq allowed(level)
  BY <1>1 DEF SelectorError, LevelRefused, OverlayRefused
<1>3. QED
  BY <1>1, <1>2 DEF PathOf

\* What all sources of a level said, and what the fold made of it.
LEMMA AllSpoken ==
  ASSUME PInv, Contents, Ordered, at = "done", Overlaid, NEW p \in Parses, Merging(p),
         NEW level \in {"top", "nix"}, NEW ks, PathOf(level, ks)
  PROVE  Folded(Said(level, p, ks), Inside(NodeAt(level, answer[p]), ks))
<1>1. Validated
  BY DEF Validated
<1>2. Upto(level) = Len(Sources(level))
  <2>1. Upto(level) = Len(OverlaysOf(level, raw)) + 1
    BY DEF Upto
  <2>2. Len(Sources(level)) = Len(OverlaysOf(level, raw)) + 1
    BY SourcesFacts DEF PInv
  <2>3. QED
    BY <2>1, <2>2
<1>3. Folded(Spoken(level, p, ks, Upto(level)), Inside(NodeAt(level, answer[p]), ks))
  BY <1>1 DEF Ordered, Agrees
<1>4. Said(level, p, ks) = Spoken(level, p, ks, Upto(level))
  BY <1>2, Zenon DEF Said, Spoken, SelectAt
<1>5. QED
  BY <1>3, <1>4

\* Nothing an applying overlay says is lost, reordered or blanked, and nothing
\* else is in the answer, for every document and every list of overlays.
THEOREM OverlaysInOrder == Spec => []OverlaysInDeclarationOrder
<1>1. PInv /\ Contents /\ Ordered => OverlaysInDeclarationOrder
  <2> SUFFICES ASSUME PInv, Contents, Ordered, at = "done", NEW p \in Parses,
                      NEW level \in {"top", "nix"},
                      Accepted(p), ~Agnostic(p), Overlaid, NEW ks \in LeafPaths(level)
               PROVE  LET said == Said(level, p, ks)
                          is == Inside(NodeAt(level, answer[p]), ks)
                      IN  IF said = <<>> THEN is = Null
                          ELSE /\ \A i \in DOMAIN said : DOMAIN said[i] = DOMAIN is
                               /\ IsList(is) =>
                                    is.list = FlattenSeq([i \in DOMAIN said |-> said[i].list])
                               /\ ~IsList(is) /\ ~IsAttrs(is) => is = Last(said)
    BY DEF OverlaysInDeclarationOrder
  <2> DEFINE said == Said(level, p, ks)
             is == Inside(NodeAt(level, answer[p]), ks)
  <2>1. Merging(p) /\ ~SelectorError(p)
    BY MergingFacts DEF Merging, Validated
  <2>2. PathOf(level, ks)
    BY <2>1, LeafPath
  <2>3. Folded(said, is)
    BY <2>1, <2>2, AllSpoken
  <2> HIDE DEF said, is
  <2>4. IF said = <<>> THEN is = Null
        ELSE /\ \A i \in DOMAIN said : DOMAIN said[i] = DOMAIN is
             /\ IsList(is) => is.list = FlattenSeq([i \in DOMAIN said |-> said[i].list])
             /\ ~IsList(is) /\ ~IsAttrs(is) => is = Last(said)
    BY <2>3 DEF Folded, Lists
  <2>5. QED
    BY <2>4 DEF said, is
<1>2. QED
  BY <1>1, OrderedInvariant, PTL

-----------------------------------------------------------------------------
(* The library that is kept for a name.                                    *)

\* Two sequences of the same elements, one after the other.
LEMMA ToSetConcat ==
  ASSUME NEW T, NEW a \in Seq(T), NEW b \in Seq(T)
  PROVE  /\ a \o b \in Seq(T)
         /\ ToSet(a) \subseteq ToSet(a \o b) /\ ToSet(b) \subseteq ToSet(a \o b)
<1> DEFINE c == a \o b
           m == Len(a)
           n == Len(b)
<1>1. /\ m \in Nat /\ n \in Nat /\ DOMAIN a = 1..m /\ DOMAIN b = 1..n
      /\ c \in Seq(T) /\ DOMAIN c = 1..(m + n)
      /\ \A i \in 1..m : c[i] = a[i]
      /\ \A i \in 1..n : c[m + i] = b[i]
  OBVIOUS
<1>2. \A i \in 1..m : i \in 1..(m + n)
  BY <1>1
<1>3. \A i \in 1..n : m + i \in 1..(m + n)
  BY <1>1
<1> HIDE DEF c, m, n
<1>4. ToSet(a) \subseteq ToSet(c)
  BY <1>1, <1>2 DEF ToSet
<1>5. ToSet(b) \subseteq ToSet(c)
  BY <1>1, <1>3 DEF ToSet
<1>6. QED
  BY <1>1, <1>4, <1>5 DEF c

\* Flattening keeps every element.
LEMMA FlattenKeeps ==
  ASSUME NEW T, NEW ss \in Seq(Seq(T)), ss # <<>>, NEW i \in DOMAIN ss
  PROVE  FlattenSeq(ss) \in Seq(T) /\ ToSet(ss[i]) \subseteq ToSet(FlattenSeq(ss))
<1> DEFINE m == Len(ss)
<1>1. m \in Nat /\ m # 0 /\ DOMAIN ss = 1..m /\ \A k \in 1..m : ss[k] \in Seq(T)
  OBVIOUS
<1>2. PICK t : Flattens(t, m, ss) /\ FlattenSeq(ss) = t[m]
  BY FlattenValue
<1> HIDE DEF m
<1> DEFINE Good(n) == t[n] \in Seq(T) /\ \A k \in 1..n : ToSet(ss[k]) \subseteq ToSet(t[n])
           N == {n \in Nat : 1 <= n /\ n <= m => Good(n)}
<1>3. 0 \in N
  OBVIOUS
<1>4. ASSUME NEW n \in Nat, n \in N PROVE n + 1 \in N
  <2>1. CASE n + 1 <= m /\ n + 1 = 1
    <3>1. 1 \in 1..m /\ \A k \in 1..1 : k = 1
      BY <1>1, <2>1
    <3>2. t[1] = ss[1]
      BY <1>2, <3>1 DEF Flattens, Flatter
    <3>3. Good(1)
      BY <1>1, <3>1, <3>2
    <3>4. QED
      BY <2>1, <3>3
  <2>2. CASE n + 1 <= m /\ n + 1 # 1
    <3>1. n + 1 \in 1..m /\ (n + 1) - 1 = n /\ 1 <= n /\ n <= m
          /\ \A k \in 1..(n + 1) : k \in 1..n \/ k = n + 1
      BY <1>1, <2>2
    <3>2. t[n + 1] = t[n] \o ss[n + 1]
      BY <1>2, <2>2, <3>1 DEF Flattens, Flatter
    <3>3. Good(n)
      BY <1>4, <3>1
    <3>4. ss[n + 1] \in Seq(T)
      BY <1>1, <3>1
    <3> DEFINE a == t[n]
               b == ss[n + 1]
               c == t[n + 1]
    <3>5. /\ c \in Seq(T) /\ ToSet(a) \subseteq ToSet(c) /\ ToSet(b) \subseteq ToSet(c)
      <4>1. a \in Seq(T) /\ b \in Seq(T) /\ c = a \o b
        BY <3>2, <3>3, <3>4
      <4> HIDE DEF a, b, c
      <4>2. QED
        BY <4>1, ToSetConcat
    <3> HIDE DEF a, c
    <3>6. \A k \in 1..(n + 1) : ToSet(ss[k]) \subseteq ToSet(c)
      BY <3>1, <3>3, <3>5 DEF a
    <3>7. Good(n + 1)
      BY <3>5, <3>6 DEF c
    <3> HIDE DEF Good
    <3>8. QED
      BY <3>7
  <2>3. CASE ~(n + 1 <= m)
    BY <2>3
  <2>4. QED
    BY <2>1, <2>2, <2>3
<1>5. m \in N
  <2> HIDE DEF N
  <2>1. Nat \subseteq N
    BY <1>3, <1>4, SetInduction
  <2>2. QED
    BY <1>1, <2>1
<1>6. Good(m)
  BY <1>1, <1>5
<1>7. i \in 1..m
  BY <1>1
<1>8. QED
  BY <1>2, <1>6, <1>7

\* No two libraries of a node have one name.
Distinct(node) ==
  LET libs == LibrariesIn(node)
  IN  \A i, j \in DOMAIN libs :
        NameOf(libs[i]) = NameOf(libs[j]) /\ NameOf(libs[i]) # Null => i = j

\* The check refuses every other node.
LEMMA CheckedDistinct ==
  ASSUME NEW node, ~IsRefused(checkExternalLibs(node)) PROVE Distinct(node)
<1> DEFINE libs == AttrOr(node, "external_libraries", Arr(<<>>))
           list == LibrariesIn(node)
<1>1. IsRefused(Refused("libraries"))
  BY RefusalFacts
<1>2. ~(IsList(libs) /\ \E i, j \in DOMAIN libs.list :
          /\ i # j /\ AttrOr(libs.list[i], "name", Null) = AttrOr(libs.list[j], "name", Null)
          /\ AttrOr(libs.list[i], "name", Null) # Null)
  BY <1>1 DEF checkExternalLibs
<1>3. CASE list = <<>>
  <2>1. DOMAIN <<>> = {}
    OBVIOUS
  <2>2. QED
    BY <1>3, <2>1 DEF Distinct
<1>4. CASE list # <<>>
  <2>1. IsList(AttrOr(node, "external_libraries", Null))
        /\ list = AttrOr(node, "external_libraries", Null).list
    BY <1>4 DEF LibrariesIn
  <2>2. ~IsList(Null)
    BY DEF Null, IsList
  <2>3. HasAttr(node, "external_libraries")
    BY <2>1, <2>2 DEF AttrOr
  <2>4. IsList(libs) /\ list = libs.list
    BY <2>1, <2>3 DEF AttrOr
  <2> HIDE DEF libs, list
  <2>5. QED
    BY <1>2, <2>4 DEF Distinct, NameOf, list
<1>5. QED
  BY <1>3, <1>4

\* After the check, where an applying overlay supplied libraries.
Checked ==
  at \in {"top", "done"} /\ Overlaid =>
    \A p \in Parses :
      Merging(p) /\ LibrariesOverlaid(p) => Distinct(NodeAt("nix", answer[p]))

\* Which overlays supply libraries does not change.
LEMMA LibrariesSame ==
  ASSUME raw' = raw PROVE \A p : LibrariesOverlaid(p)' <=> LibrariesOverlaid(p)
BY DEF LibrariesOverlaid, Matching

\* Every step keeps it: the check makes it so, and no later merge sets `nix`.
LEMMA CheckedInductive == PInv /\ Contents /\ Checked /\ [Next]_vars => Checked'
<1> SUFFICES ASSUME PInv, Contents, Checked, [Next]_vars,
                    at' \in {"top", "done"}, Overlaid',
                    NEW p \in Parses, Merging(p)', LibrariesOverlaid(p)'
             PROVE  Distinct(NodeAt("nix", answer'[p]))
  BY DEF Checked
<1>1. raw' = raw
  BY DEF Next, Call, Validate, MergeNix, CheckLibraries, MergeTop, vars
<1>2. Overlaid /\ LibrariesOverlaid(p)
  BY <1>1, RawOnly, LibrariesSame
<1>3. CASE Call
  BY <1>2, <1>3 DEF Call
<1>4. CASE Validate \/ MergeNix
  BY <1>4 DEF Validate, MergeNix
<1>5. CASE CheckLibraries
  <2>1. at = "libraries" /\ Validated
    BY <1>5 DEF CheckLibraries, Validated
  <2>2. /\ answer'[p] = IF Merging(p) /\ LibrariesOverlaid(p)
                           /\ IsRefused(checkExternalLibs(answer[p].attrs["nix"]))
                        THEN Refused("libraries") ELSE answer[p]
    BY <1>5 DEF CheckLibraries
  <2>3. ~IsRefused(answer'[p]) /\ ~Agnostic(p)
    BY DEF Merging, Accepted, Agnostic
  <2>4. /\ answer'[p] = answer[p] /\ Merging(p)
        /\ ~IsRefused(checkExternalLibs(answer[p].attrs["nix"]))
    BY <1>2, <2>2, <2>3, RefusalFacts DEF Merging, Accepted
  <2>5. 1 \in 1..Len(OverlaysOf("nix", raw))
    <3>1. PICK i \in DOMAIN OverlaysOf("nix", raw) : TRUE
      BY <1>2 DEF LibrariesOverlaid
    <3>2. Len(OverlaysOf("nix", raw)) \in Nat
          /\ DOMAIN OverlaysOf("nix", raw) = 1..Len(OverlaysOf("nix", raw))
      BY DEF PInv, Shape
    <3>3. QED
      BY <3>1, <3>2
  <2>6. NodeAt("nix", answer[p]) = answer[p].attrs["nix"]
    BY <1>2, <2>1, <2>4, <2>5, NodeFacts
  <2>7. QED
    BY <2>4, <2>6, CheckedDistinct
<1>6. CASE MergeTop
  <2>1. Folds /\ at = "top" /\ Validated
    BY <1>6, TopFold DEF MergeTop, Folds
  <2>2. Merging(p)
    BY <2>1, StillMerging
  <2>3. Distinct(NodeAt("nix", answer[p]))
    BY <1>2, <2>1, <2>2 DEF Checked
  <2>4. CASE answer'[p] = answer[p]
    BY <2>3, <2>4
  <2>5. CASE answer'[p] # answer[p]
    <3> DEFINE b == Body(OverlaysOf("top", raw)[next])
    <3>1. next \in 1..Len(OverlaysOf("top", raw)) /\ answer'[p] = mergeNode(answer[p], b)
      BY <1>6, <2>5, TopFold
    <3>2. "nix" \notin DOMAIN b.attrs
      <4>1. DOMAIN b.attrs \subseteq allowed("top")
        BY <1>2, <2>1, <2>2, <3>1, MatchesApplies
      <4>2. QED
        BY <4>1 DEF allowed, topAllowed
    <3>3. ~IsRefused(answer'[p])
      BY DEF Merging, Accepted
    <3>4. IsAttrs(answer[p]) /\ DOMAIN answer[p] = {"attrs"}
      BY <1>2, <2>1, <2>2, MergingFacts DEF IsAttrs
    <3> HIDE DEF b
    <3>5. NodeAt("nix", answer'[p]) = NodeAt("nix", answer[p])
      BY <3>1, <3>2, <3>3, <3>4, NixLeft
    <3>6. QED
      BY <2>3, <3>5
  <2>6. QED
    BY <2>4, <2>5
<1>7. CASE UNCHANGED vars
  BY <1>2, <1>7 DEF vars, Checked, Merging, Accepted, Agnostic
<1>8. QED
  BY <1>3, <1>4, <1>5, <1>6, <1>7 DEF Next

\* The sources of a level are a sequence, of which the speakers are a part.
LEMMA Speakers ==
  ASSUME Shape, NEW level \in {"top", "nix"}, NEW p, NEW ks
  PROVE  LET s == Sources(level)
             K == Speaking(level, p, ks)
             T == {s[i] : i \in DOMAIN s}
         IN  s \in Seq(T) /\ SelectAt(s, K) \in Seq(T)
<1> DEFINE s == Sources(level)
           K == Speaking(level, p, ks)
           T == {s[i] : i \in DOMAIN s}
           m == Len(OverlaysOf(level, raw))
<1>1. m \in Nat /\ Len(s) = m + 1 /\ DOMAIN s = 1..(m + 1)
  BY SourcesFacts
<1>2. s \in Seq(T)
  <2>1. s = <<NodeAt(level, Base(raw))>> \o OverlaysOf(level, raw)
    BY DEF Sources
  <2>2. OverlaysOf(level, raw) \in Seq(ToSet(OverlaysOf(level, raw)))
    BY DEF Shape
  <2> DEFINE U == ToSet(OverlaysOf(level, raw)) \cup {NodeAt(level, Base(raw))}
  <2>3. s \in Seq(U)
    BY <2>1, <2>2
  <2> HIDE DEF s, U
  <2>4. QED
    BY <2>3
<1> HIDE DEF s, K
<1>3. \A i \in DOMAIN s \cap K : s[i] \in T
  OBVIOUS
<1> HIDE DEF T
<1>4. SelectAt(s, K) \in Seq(T)
  BY <1>2, <1>3, SelectType
<1>5. QED
  BY <1>2, <1>4 DEF s, K, T

\* An overlay that applies and sets a field is heard of it.
LEMMA SaidByOverlay ==
  ASSUME Shape, NEW level \in {"top", "nix"}, NEW p, NEW ks,
         NEW i \in 1..Len(OverlaysOf(level, raw)),
         AppliesTo(OverlaysOf(level, raw)[i], p),
         Inside(OverlaysOf(level, raw)[i], ks) # Null
  PROVE  \E c \in DOMAIN Said(level, p, ks) :
           Said(level, p, ks)[c] = Inside(OverlaysOf(level, raw)[i], ks)
<1> DEFINE s == Sources(level)
           K == Speaking(level, p, ks)
           T == {s[j] : j \in DOMAIN s}
           o == OverlaysOf(level, raw)[i]
           m == Len(OverlaysOf(level, raw))
           w == SelectAt(s, K)
           c == Len(Taken(s, K)[i])
<1>1. m \in Nat /\ Len(s) = m + 1 /\ DOMAIN s = 1..(m + 1) /\ s[i + 1] = o
  BY SourcesFacts
<1>2. i + 1 \in DOMAIN s /\ i + 1 # 1 /\ i \in 0..Len(s) /\ i < Len(s)
  BY <1>1
<1>3. i + 1 \in K
  BY <1>1, <1>2 DEF Speaking
<1>4. s \in Seq(T) /\ w \in Seq(T)
  BY Speakers
<1>5. Said(level, p, ks) = [j \in DOMAIN w |-> Inside(w[j], ks)]
  BY DEF Said
<1> HIDE DEF s, K, T, o
<1>6. Taken(s, K)[i] \in Seq(T)
  BY <1>2, <1>4, TakenGrows
<1>7. c < Len(w) /\ w[c + 1] = s[i + 1] /\ c \in Nat
  BY <1>2, <1>3, <1>4, <1>6, SelectNext
<1> HIDE DEF w, c
<1>8. c + 1 \in DOMAIN w
  BY <1>4, <1>7
<1>9. QED
  BY <1>1, <1>5, <1>7, <1>8 DEF o

\* What is said of the libraries is tidy.
LEMMA LibrariesTidy ==
  ASSUME PInv, Contents, Validated, Overlaid, NEW p \in Parses, Merging(p),
         NEW c \in DOMAIN Said("nix", p, <<"external_libraries">>)
  PROVE  Tidy(Said("nix", p, <<"external_libraries">>)[c])
<1> DEFINE ks == <<"external_libraries">>
           s == Sources("nix")
           K == Speaking("nix", p, ks)
           T == {s[j] : j \in DOMAIN s}
           w == SelectAt(s, K)
           m == Len(OverlaysOf("nix", raw))
<1>1. m \in Nat /\ DOMAIN s = 1..(m + 1) /\ s[1] = NodeAt("nix", Base(raw))
      /\ \A i \in 1..m : s[i + 1] = OverlaysOf("nix", raw)[i]
  BY SourcesFacts DEF PInv
<1>2. w \in Seq(T)
  BY Speakers DEF PInv
<1>3. Said("nix", p, ks) = [j \in DOMAIN w |-> Inside(w[j], ks)]
  BY DEF Said
<1>4. ~SelectorError(p) /\ raw \in Documents /\ Misplaced(raw) = {}
  BY MergingFacts DEF PInv, Shape, Guarded, Started, Validated, CallGuards, Merging
<1>5. ASSUME NEW v \in T PROVE Tidy(AttrOr(v, "external_libraries", Null))
  <2>1. PICK j \in 1..(m + 1) : v = s[j]
    BY <1>1
  <2>2. CASE j = 1
    <3>1. v = NodeAt("nix", Base(raw))
      BY <1>1, <2>1, <2>2
    <3>2. TidyTree(Base(raw))
      BY <1>4, BaseTidy
    <3>3. CASE HasNix(Base(raw))
      <4>1. v = Base(raw).attrs["nix"] /\ IsAttrs(v) /\ "nix" \in DOMAIN Base(raw).attrs
        BY <3>1, <3>3 DEF NodeAt, HasNix, HasAttr
      <4>2. Tidy(v)
        BY <3>2, <4>1 DEF TidyTree, TidyBut
      <4>3. FieldsTidy(v)
        BY <4>1, <4>2, TidyObject
      <4>4. QED
        BY <4>3, NullTidy DEF AttrOr, HasAttr, FieldsTidy
    <3>4. CASE ~HasNix(Base(raw))
      <4>1. v = Attrs(<<>>)
        BY <3>1, <3>4 DEF NodeAt, HasNix
      <4>2. "external_libraries" \notin DOMAIN Attrs(<<>>).attrs
        BY RefusalFacts
      <4>3. QED
        BY <4>1, <4>2, NullTidy DEF AttrOr, HasAttr
    <3>5. QED
      BY <3>3, <3>4
  <2>3. CASE j # 1
    <3>1. j - 1 \in 1..m /\ j = (j - 1) + 1
      BY <1>1, <2>3
    <3>2. v = OverlaysOf("nix", raw)[j - 1]
      BY <1>1, <2>1, <3>1
    <3>3. v \in ToSet(OverlaysOf("nix", raw)) /\ IsAttrs(v)
      BY <3>1, <3>2, MatchesApplies
    <3>4. Tidy(v)
      BY <1>4, <3>3, OverlayTidy
    <3>5. FieldsTidy(v)
      BY <3>3, <3>4, TidyObject
    <3>6. QED
      BY <3>5, NullTidy DEF AttrOr, HasAttr, FieldsTidy
  <2>4. QED
    BY <2>2, <2>3
<1>6. c \in DOMAIN w /\ Said("nix", p, ks)[c] = Inside(w[c], ks)
  BY <1>3
<1> HIDE DEF w, T
<1>7. w[c] \in T
  BY <1>2, <1>6
<1>8. Inside(w[c], ks) = AttrOr(w[c], "external_libraries", Null)
  BY InsideFacts
<1>9. QED
  BY <1>5, <1>6, <1>7, <1>8

\* A library of an applying overlay is in the answer.
LEMMA LibraryArrives ==
  ASSUME PInv, Contents, Ordered, at = "done", Overlaid, NEW p \in Parses, Merging(p),
         NEW i \in 1..Len(OverlaysOf("nix", raw)), AppliesTo(OverlaysOf("nix", raw)[i], p),
         NEW l \in ToSet(LibrariesIn(OverlaysOf("nix", raw)[i]))
  PROVE  l \in ToSet(LibrariesIn(NodeAt("nix", answer[p])))
<1> DEFINE o == OverlaysOf("nix", raw)[i]
           ks == <<"external_libraries">>
           said == Said("nix", p, ks)
           is == AttrOr(NodeAt("nix", answer[p]), "external_libraries", Null)
           mine == AttrOr(o, "external_libraries", Null)
<1>1. Validated
  BY DEF Validated
<1>2. IsList(mine) /\ l \in ToSet(mine.list)
  <2>1. ToSet(<<>>) = {}
    BY DEF ToSet
  <2>2. QED
    BY <2>1 DEF LibrariesIn
<1>3. mine # Null
  BY <1>2 DEF Null, IsList
<1>4. Inside(o, ks) = mine /\ Inside(NodeAt("nix", answer[p]), ks) = is
  BY InsideFacts
<1>5. PathOf("nix", ks)
  BY DEF PathOf, allowed, nixAllowed
<1>6. Folded(said, is)
  BY <1>4, <1>5, AllSpoken
<1>7. PICK c \in DOMAIN said : said[c] = mine
  BY <1>3, <1>4, SaidByOverlay DEF PInv
<1>8. \A d \in DOMAIN said : Tidy(said[d])
  BY <1>1, LibrariesTidy
<1>9. \E n \in Nat : DOMAIN said = 1..n
  <2> DEFINE w == SelectAt(Sources("nix"), Speaking("nix", p, ks))
             s == Sources("nix")
             T == {s[j] : j \in DOMAIN s}
  <2>1. w \in Seq(T)
    BY Speakers DEF PInv
  <2>2. DOMAIN said = DOMAIN w
    BY DEF Said
  <2> HIDE DEF w, T
  <2>3. QED
    BY <2>1, <2>2
<1> HIDE DEF said, is, mine, o
<1>10. PICK n \in Nat : DOMAIN said = 1..n
  BY <1>9
<1>11. said # <<>>
  <2>1. DOMAIN <<>> = {}
    OBVIOUS
  <2>2. QED
    BY <1>7, <2>1
<1>12. /\ \A d \in DOMAIN said : DOMAIN said[d] = DOMAIN is
       /\ IsList(is) => is.list = FlattenSeq(Lists(said))
  BY <1>6, <1>11 DEF Folded
<1>13. IsList(is)
  BY <1>2, <1>7, <1>12 DEF IsList
<1> DEFINE U == UNION {ToSet(said[d].list) : d \in DOMAIN said}
           ls == Lists(said)
<1>14. ASSUME NEW d \in DOMAIN said PROVE said[d].list \in Seq(U)
  <2>1. IsList(said[d]) /\ Tidy(said[d])
    BY <1>8, <1>12, <1>13 DEF IsList
  <2>2. said[d].list \in Seq(ToSet(said[d].list))
    BY <2>1, TidyParts DEF Neat
  <2>3. ToSet(said[d].list) \subseteq U
    OBVIOUS
  <2> HIDE DEF U
  <2>4. QED
    BY <2>2, <2>3
<1> HIDE DEF U
<1>15. ls \in Seq(Seq(U)) /\ DOMAIN ls = 1..n /\ \A d \in 1..n : ls[d] = said[d].list
  <2>1. ls = [d \in 1..n |-> said[d].list]
    BY <1>10 DEF Lists
  <2>2. \A d \in 1..n : said[d].list \in Seq(U)
    BY <1>10, <1>14
  <2>3. QED
    BY <2>1, <2>2
<1> HIDE DEF ls
<1>16. ls # <<>> /\ c \in DOMAIN ls /\ ls[c] = mine.list
  <2>1. DOMAIN <<>> = {}
    OBVIOUS
  <2>2. QED
    BY <1>7, <1>10, <1>15, <2>1
<1>17. ToSet(ls[c]) \subseteq ToSet(FlattenSeq(ls))
  BY <1>15, <1>16, FlattenKeeps
<1>18. l \in ToSet(is.list)
  BY <1>2, <1>12, <1>13, <1>16, <1>17 DEF ls
<1>19. QED
  BY <1>13, <1>18 DEF LibrariesIn, is

\* Each name has one library in an answer with overlaid libraries, so the one
\* that mkExternalLib keeps for the name an applying overlay gave is the overlay's.
THEOREM LibraryKept == Spec => []OverlayLibraryIsKept
<1>1. Init => Checked
  BY DEF Init, Checked
<1>2. PInv /\ Contents /\ Checked /\ [Next]_vars => Checked'
  BY CheckedInductive
<1>3. PInv /\ Contents /\ Ordered /\ Checked => OverlayLibraryIsKept
  <2> DEFINE libs(p) == LibrariesIn(NodeAt("nix", answer[p]))
             Kept(p, name) == CHOOSE i \in DOMAIN libs(p) :
                                /\ NameOf(libs(p)[i]) = name
                                /\ \A j \in DOMAIN libs(p) : NameOf(libs(p)[j]) = name => i <= j
  <2>1. SUFFICES ASSUME PInv, Contents, Ordered, Checked, at = "done", NEW p \in Parses,
                        Accepted(p), ~Agnostic(p), Overlaid,
                        NEW o \in ToSet(OverlaysOf("nix", raw)), AppliesTo(o, p),
                        NEW l \in ToSet(LibrariesIn(o)), NameOf(l) # Null
                 PROVE  libs(p)[Kept(p, NameOf(l))] = l
    BY DEF OverlayLibraryIsKept
  <2>2. Merging(p) /\ Validated
    BY <2>1 DEF Merging, Validated
  <2>3. PICK i \in 1..Len(OverlaysOf("nix", raw)) : o = OverlaysOf("nix", raw)[i]
    BY <2>1 DEF PInv, Shape, ToSet
  <2>4. l \in ToSet(libs(p))
    BY <2>1, <2>2, <2>3, LibraryArrives
  <2>5. LibrariesOverlaid(p)
    <3>1. i \in DOMAIN OverlaysOf("nix", raw)
      BY <2>1 DEF PInv, Shape
    <3>2. Matching("nix", i, p)
      BY <2>1, <2>2, <2>3, MatchesApplies
    <3>3. HasAttr(o, "external_libraries")
      <4>1. ToSet(<<>>) = {} /\ ~IsList(Null)
        BY DEF ToSet, Null, IsList
      <4>2. IsList(AttrOr(o, "external_libraries", Null))
        BY <2>1, <4>1 DEF LibrariesIn
      <4>3. QED
        BY <4>1, <4>2 DEF AttrOr
    <3>4. QED
      BY <2>3, <3>1, <3>2, <3>3 DEF LibrariesOverlaid
  <2>6. Distinct(NodeAt("nix", answer[p]))
    BY <2>1, <2>2, <2>5 DEF Checked
  <2> DEFINE s == libs(p)
             name == NameOf(l)
             k == Kept(p, name)
  <2>7. PICK j \in DOMAIN s : s[j] = l
    BY <2>4 DEF ToSet
  <2>8. \A a, b \in DOMAIN s : NameOf(s[a]) = NameOf(s[b]) /\ NameOf(s[a]) # Null => a = b
    BY <2>6 DEF Distinct
  <2>9. j \in Nat
    <3> DEFINE v == AttrOr(NodeAt("nix", answer[p]), "external_libraries", Null)
    <3>1. 1 \in 1..Len(OverlaysOf("nix", raw))
      BY <2>1, <2>3 DEF PInv, Shape
    <3>2. FieldsTidy(NodeAt("nix", answer[p]))
      BY <2>1, <2>2, <3>1, NodeFacts
    <3>3. Tidy(v)
      BY <3>2, NullTidy DEF AttrOr, HasAttr, FieldsTidy
    <3>4. IsList(v) /\ s = v.list
      <4>1. DOMAIN <<>> = {}
        OBVIOUS
      <4>2. QED
        BY <2>7, <4>1 DEF LibrariesIn
    <3> HIDE DEF v, s
    <3>5. s \in Seq(ToSet(v.list))
      BY <3>3, <3>4, TidyParts DEF Neat
    <3>6. QED
      BY <2>7, <3>5
  <2>10. k = CHOOSE a \in DOMAIN s : /\ NameOf(s[a]) = name
                                     /\ \A b \in DOMAIN s : NameOf(s[b]) = name => a <= b
    OBVIOUS
  <2> HIDE DEF s, k
  <2>11. /\ NameOf(s[j]) = name
         /\ \A b \in DOMAIN s : NameOf(s[b]) = name => b = j
    BY <2>1, <2>7, <2>8
  <2>12. k \in DOMAIN s /\ NameOf(s[k]) = name
    <3>1. j <= j
      BY <2>9
    <3>2. QED
      BY <2>7, <2>10, <2>11, <3>1
  <2>13. s[k] = l
    BY <2>7, <2>11, <2>12
  <2>14. QED
    BY <2>13 DEF s, k
<1>4. QED
  BY <1>1, <1>2, <1>3, OrderedInvariant, PTL DEF Spec
=============================================================================
