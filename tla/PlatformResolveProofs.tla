----------------------- MODULE PlatformResolveProofs -----------------------
(***************************************************************************)
(* What the parses of one document promise one another, for every          *)
(* document, set of arguments and vocabulary.                              *)
(*                                                                         *)
(* What the guards and the validation decided about a parse is never taken *)
(* back by the folds, whose own refusals are others, and the folds touch   *)
(* only the fields some overlay sets.                                      *)
(***************************************************************************)
EXTENDS PlatformResolve, SubsequencesProofs

-----------------------------------------------------------------------------
(* The levels of a value, and of the sweep.                                *)

\* One level of Within, from the level above.
Deeper(t, v, n) == IF n = 0 THEN {v} ELSE UNION {Parts(x) : x \in t[n - 1]}

\* t is the first m + 1 levels.
Levels(t, m, v) == DOMAIN t = 0..m /\ \A n \in 0..m : t[n] = Deeper(t, v, n)

\* There are levels to any depth.
LEMMA LevelsExist ==
  ASSUME NEW v, NEW m \in Nat PROVE \E t : Levels(t, m, v)
<1> DEFINE S == {j \in Nat : \E t : Levels(t, j, v)}
<1>1. 0 \in S
  <2> DEFINE t == [n \in 0..0 |-> {v}]
  <2>1. Levels(t, 0, v)
    BY DEF Levels, Deeper
  <2>2. QED
    BY <2>1
<1>2. ASSUME NEW j \in Nat, j \in S PROVE j + 1 \in S
  <2>1. PICK t : Levels(t, j, v)
    BY <1>2
  <2> DEFINE u == [n \in 0..(j + 1) |-> IF n = j + 1 THEN Deeper(t, v, j + 1) ELSE t[n]]
  <2>2. /\ DOMAIN u = 0..(j + 1)
        /\ \A n \in 0..j : u[n] = t[n]
        /\ u[j + 1] = Deeper(t, v, j + 1)
    OBVIOUS
  <2> HIDE DEF u
  <2>3. \A n \in 0..(j + 1) : Deeper(u, v, n) = Deeper(t, v, n)
    <3>1. \A n \in 0..(j + 1) : n # 0 => n - 1 \in 0..j
      OBVIOUS
    <3>2. QED
      BY <2>2, <3>1 DEF Deeper
  <2>4. \A n \in 0..(j + 1) : n \in 0..j \/ n = j + 1
    OBVIOUS
  <2>5. Levels(u, j + 1, v)
    BY <2>1, <2>2, <2>3, <2>4 DEF Levels
  <2>6. QED
    BY <2>5
<1>3. QED
  BY <1>1, <1>2, SetInduction

\* And only one each.
LEMMA LevelsUnique ==
  ASSUME NEW v, NEW m \in Nat, NEW l \in Nat, NEW t, NEW u,
         Levels(t, m, v), Levels(u, l, v)
  PROVE  \A n \in Nat : n <= m /\ n <= l => t[n] = u[n]
<1> DEFINE S == {n \in Nat : n <= m /\ n <= l => t[n] = u[n]}
<1>1. 0 \in S
  <2>1. 0 \in 0..m /\ 0 \in 0..l
    OBVIOUS
  <2>2. t[0] = Deeper(t, v, 0) /\ u[0] = Deeper(u, v, 0)
    BY <2>1 DEF Levels
  <2>3. QED
    BY <2>2 DEF Deeper
<1>2. ASSUME NEW n \in Nat, n \in S PROVE n + 1 \in S
  <2>1. CASE n + 1 <= m /\ n + 1 <= l
    <3>1. n + 1 \in 0..m /\ n + 1 \in 0..l /\ n <= m /\ n <= l /\ (n + 1) - 1 = n
          /\ n + 1 # 0
      BY <2>1
    <3>2. t[n] = u[n]
      BY <1>2, <3>1
    <3>3. t[n + 1] = Deeper(t, v, n + 1) /\ u[n + 1] = Deeper(u, v, n + 1)
      BY <3>1 DEF Levels
    <3>4. Deeper(t, v, n + 1) = Deeper(u, v, n + 1)
      BY <3>1, <3>2 DEF Deeper
    <3>5. QED
      BY <3>3, <3>4
  <2>2. QED
    BY <2>1
<1>3. QED
  BY <1>1, <1>2, SetInduction

\* The recursive equation of Within.
LEMMA WithinStep ==
  ASSUME NEW v
  PROVE  \A n \in Nat : Within(v)[n] = Deeper(Within(v), v, n)
<1> DEFINE f(n) == CHOOSE t : Levels(t, n, v)
           g == [n \in Nat |-> f(n)[n]]
           body(t) == [n \in Nat |->
                         IF n = 0 THEN {v} ELSE UNION {Parts(x) : x \in t[n - 1]}]
<1>1. \A n \in Nat : Levels(f(n), n, v)
  BY LevelsExist
<1> HIDE DEF f
<1>2. ASSUME NEW n \in Nat PROVE g[n] = Deeper(g, v, n)
  <2>1. CASE n = 0
    <3>1. f(0)[0] = Deeper(f(0), v, 0)
      BY <1>1 DEF Levels
    <3>2. QED
      BY <2>1, <3>1 DEF Deeper
  <2>2. CASE n # 0
    <3>1. n - 1 \in Nat /\ n - 1 <= n /\ n - 1 <= n - 1 /\ n \in 0..n
      BY <2>2
    <3>2. f(n)[n - 1] = f(n - 1)[n - 1]
      BY <1>1, <3>1, LevelsUnique
    <3>3. f(n)[n] = Deeper(f(n), v, n)
      BY <1>1, <3>1 DEF Levels
    <3>4. g[n] = f(n)[n] /\ g[n - 1] = f(n)[n - 1]
      BY <3>1, <3>2
    <3>5. QED
      BY <2>2, <3>2, <3>3, <3>4 DEF Deeper
  <2>3. QED
    BY <2>1, <2>2
<1>3. \A n \in Nat : g[n] = body(g)[n]
  BY <1>2 DEF Deeper
<1>4. g = body(g)
  BY <1>3
<1>5. Within(v) = CHOOSE t : t = body(t)
  BY Zenon DEF Within
<1> HIDE DEF g, body
<1>6. Within(v) = body(Within(v))
  BY <1>4, <1>5, Zenon
<1> USE DEF body
<1>7. QED
  BY <1>6 DEF Deeper

\* One level of Nodes, from the level above.
Lower(t, v, n) ==
  IF n = 0 THEN {[place |-> "root", v |-> v]} ELSE UNION {SubValues(x) : x \in t[n - 1]}

\* t is the first m + 1 levels of the sweep.
Sweeps(t, m, v) == DOMAIN t = 0..m /\ \A n \in 0..m : t[n] = Lower(t, v, n)

\* The sweep goes to any depth.
LEMMA SweepsExist ==
  ASSUME NEW v, NEW m \in Nat PROVE \E t : Sweeps(t, m, v)
<1> DEFINE S == {j \in Nat : \E t : Sweeps(t, j, v)}
<1>1. 0 \in S
  <2> DEFINE t == [n \in 0..0 |-> {[place |-> "root", v |-> v]}]
  <2>1. Sweeps(t, 0, v)
    BY DEF Sweeps, Lower
  <2>2. QED
    BY <2>1
<1>2. ASSUME NEW j \in Nat, j \in S PROVE j + 1 \in S
  <2>1. PICK t : Sweeps(t, j, v)
    BY <1>2
  <2> DEFINE u == [n \in 0..(j + 1) |-> IF n = j + 1 THEN Lower(t, v, j + 1) ELSE t[n]]
  <2>2. /\ DOMAIN u = 0..(j + 1)
        /\ \A n \in 0..j : u[n] = t[n]
        /\ u[j + 1] = Lower(t, v, j + 1)
    OBVIOUS
  <2> HIDE DEF u
  <2>3. \A n \in 0..(j + 1) : Lower(u, v, n) = Lower(t, v, n)
    <3>1. \A n \in 0..(j + 1) : n # 0 => n - 1 \in 0..j
      OBVIOUS
    <3>2. QED
      BY <2>2, <3>1 DEF Lower
  <2>4. \A n \in 0..(j + 1) : n \in 0..j \/ n = j + 1
    OBVIOUS
  <2>5. Sweeps(u, j + 1, v)
    BY <2>1, <2>2, <2>3, <2>4 DEF Sweeps
  <2>6. QED
    BY <2>5
<1>3. QED
  BY <1>1, <1>2, SetInduction

\* In one way only.
LEMMA SweepsUnique ==
  ASSUME NEW v, NEW m \in Nat, NEW l \in Nat, NEW t, NEW u,
         Sweeps(t, m, v), Sweeps(u, l, v)
  PROVE  \A n \in Nat : n <= m /\ n <= l => t[n] = u[n]
<1> DEFINE S == {n \in Nat : n <= m /\ n <= l => t[n] = u[n]}
<1>1. 0 \in S
  <2>1. 0 \in 0..m /\ 0 \in 0..l
    OBVIOUS
  <2>2. t[0] = Lower(t, v, 0) /\ u[0] = Lower(u, v, 0)
    BY <2>1 DEF Sweeps
  <2>3. QED
    BY <2>2 DEF Lower
<1>2. ASSUME NEW n \in Nat, n \in S PROVE n + 1 \in S
  <2>1. CASE n + 1 <= m /\ n + 1 <= l
    <3>1. n + 1 \in 0..m /\ n + 1 \in 0..l /\ n <= m /\ n <= l /\ (n + 1) - 1 = n
          /\ n + 1 # 0
      BY <2>1
    <3>2. t[n] = u[n]
      BY <1>2, <3>1
    <3>3. t[n + 1] = Lower(t, v, n + 1) /\ u[n + 1] = Lower(u, v, n + 1)
      BY <3>1 DEF Sweeps
    <3>4. Lower(t, v, n + 1) = Lower(u, v, n + 1)
      BY <3>1, <3>2 DEF Lower
    <3>5. QED
      BY <3>3, <3>4
  <2>2. QED
    BY <2>1
<1>3. QED
  BY <1>1, <1>2, SetInduction

\* The recursive equation of Nodes.
LEMMA NodesStep ==
  ASSUME NEW v
  PROVE  \A n \in Nat : Nodes(v)[n] = Lower(Nodes(v), v, n)
<1> DEFINE f(n) == CHOOSE t : Sweeps(t, n, v)
           g == [n \in Nat |-> f(n)[n]]
           body(t) == [n \in Nat |->
                         IF n = 0 THEN {[place |-> "root", v |-> v]}
                         ELSE UNION {SubValues(x) : x \in t[n - 1]}]
<1>1. \A n \in Nat : Sweeps(f(n), n, v)
  BY SweepsExist
<1> HIDE DEF f
<1>2. ASSUME NEW n \in Nat PROVE g[n] = Lower(g, v, n)
  <2>1. CASE n = 0
    <3>1. f(0)[0] = Lower(f(0), v, 0)
      BY <1>1 DEF Sweeps
    <3>2. QED
      BY <2>1, <3>1 DEF Lower
  <2>2. CASE n # 0
    <3>1. n - 1 \in Nat /\ n - 1 <= n /\ n - 1 <= n - 1 /\ n \in 0..n
      BY <2>2
    <3>2. f(n)[n - 1] = f(n - 1)[n - 1]
      BY <1>1, <3>1, SweepsUnique
    <3>3. f(n)[n] = Lower(f(n), v, n)
      BY <1>1, <3>1 DEF Sweeps
    <3>4. g[n] = f(n)[n] /\ g[n - 1] = f(n)[n - 1]
      BY <3>1, <3>2
    <3>5. QED
      BY <2>2, <3>2, <3>3, <3>4 DEF Lower
  <2>3. QED
    BY <2>1, <2>2
<1>3. \A n \in Nat : g[n] = body(g)[n]
  BY <1>2 DEF Lower
<1>4. g = body(g)
  BY <1>3
<1>5. Nodes(v) = CHOOSE t : t = body(t)
  BY Zenon DEF Nodes
<1> HIDE DEF g, body
<1>6. Nodes(v) = body(Nodes(v))
  BY <1>4, <1>5, Zenon
<1> USE DEF body
<1>7. QED
  BY <1>6 DEF Lower

\* The levels below the first are those of the parts.
LEMMA WithinParts ==
  ASSUME NEW v
  PROVE  /\ Within(v)[0] = {v}
         /\ \A n \in Nat : \A y : y \in Within(v)[n + 1] <=>
              \E x \in Parts(v) : y \in Within(x)[n]
<1>1. \A w : Within(w)[0] = {w}
  BY WithinStep DEF Deeper
<1>2. \A w : \A n \in Nat : \A y :
        y \in Within(w)[n + 1] <=> \E x \in Within(w)[n] : y \in Parts(x)
  <2> SUFFICES ASSUME NEW w, NEW n \in Nat
               PROVE \A y : y \in Within(w)[n + 1] <=> \E x \in Within(w)[n] : y \in Parts(x)
    OBVIOUS
  <2>1. n + 1 \in Nat /\ n + 1 # 0 /\ (n + 1) - 1 = n
    OBVIOUS
  <2>2. Within(w)[n + 1] = UNION {Parts(x) : x \in Within(w)[n]}
    BY <2>1, WithinStep DEF Deeper
  <2>3. QED
    BY <2>2
<1> DEFINE S == {n \in Nat : \A y : y \in Within(v)[n + 1] <=>
                   \E x \in Parts(v) : y \in Within(x)[n]}
<1>3. 0 \in S
  <2>1. \A y : y \in Within(v)[0 + 1] <=> \E x \in Within(v)[0] : y \in Parts(x)
    BY <1>2
  <2>2. \A y : y \in Within(v)[0 + 1] <=> y \in Parts(v)
    BY <1>1, <2>1
  <2>3. QED
    BY <1>1, <2>2
<1>4. ASSUME NEW n \in Nat, n \in S PROVE n + 1 \in S
  <2>1. n + 1 \in Nat
    OBVIOUS
  <2>2. \A y : y \in Within(v)[(n + 1) + 1] <=> \E x \in Within(v)[n + 1] : y \in Parts(x)
    BY <1>2, <2>1
  <2>3. \A x : x \in Within(v)[n + 1] <=> \E z \in Parts(v) : x \in Within(z)[n]
    BY <1>4
  <2>4. \A z : \A y : y \in Within(z)[n + 1] <=> \E x \in Within(z)[n] : y \in Parts(x)
    BY <1>2
  <2>5. \A y : y \in Within(v)[(n + 1) + 1] <=> \E z \in Parts(v) : y \in Within(z)[n + 1]
    BY <2>2, <2>3, <2>4, Zenon
  <2>6. QED
    BY <2>1, <2>5
<1>5. Nat \subseteq S
  BY <1>3, <1>4, SetInduction
<1>6. QED
  BY <1>1, <1>5

\* The equations of both, one level at a time.
LEMMA NextLevel ==
  ASSUME NEW v, NEW n \in Nat
  PROVE  /\ Within(v)[n + 1] = UNION {Parts(z) : z \in Within(v)[n]}
         /\ Nodes(v)[n + 1] = UNION {SubValues(z) : z \in Nodes(v)[n]}
<1>1. n + 1 \in Nat /\ (n + 1) - 1 = n /\ n + 1 # 0
  OBVIOUS
<1>2. Within(v)[n + 1] = Deeper(Within(v), v, n + 1)
  BY <1>1, WithinStep
<1>3. Nodes(v)[n + 1] = Lower(Nodes(v), v, n + 1)
  BY <1>1, NodesStep
<1>4. QED
  BY <1>1, <1>2, <1>3 DEF Deeper, Lower

-----------------------------------------------------------------------------
(* What is inside a document.                                              *)

HasNix(v) == HasAttr(v, "nix") /\ IsAttrs(v.attrs["nix"])

\* A value is one JSON value or poison, and its keys are none of those an
\* overlay list, or a mistake for one, is under.
Bad == {"platforms"} \cup platformsNearMisses
Plain(x) == \E t \in Values : DOMAIN x = {t}
Neat(x) ==
  /\ Plain(x)
  /\ IsList(x) => x.list \in Seq(ToSet(x.list))
  /\ IsAttrs(x) => DOMAIN x.attrs \cap Bad = {}

\* So is everything inside it.
Tidy(v) == \A n \in Nat : \A x \in Within(v)[n] : Neat(x)

\* A value is tidy when it is neat and its parts are tidy.
LEMMA TidyParts ==
  ASSUME NEW v
  PROVE  Tidy(v) <=> Neat(v) /\ \A x \in Parts(v) : Tidy(x)
<1>1. ASSUME Tidy(v) PROVE Neat(v) /\ \A x \in Parts(v) : Tidy(x)
  <2>1. Neat(v)
    BY <1>1, WithinParts DEF Tidy
  <2>2. ASSUME NEW x \in Parts(v), NEW n \in Nat, NEW y \in Within(x)[n] PROVE Neat(y)
    <3>1. y \in Within(v)[n + 1] /\ n + 1 \in Nat
      BY WithinParts
    <3>2. QED
      BY <1>1, <3>1 DEF Tidy
  <2>3. QED
    BY <2>1, <2>2 DEF Tidy
<1>2. ASSUME Neat(v), \A x \in Parts(v) : Tidy(x) PROVE Tidy(v)
  <2> SUFFICES ASSUME NEW n \in Nat, NEW y \in Within(v)[n] PROVE Neat(y)
    BY DEF Tidy
  <2>1. CASE n = 0
    BY <1>2, <2>1, WithinParts
  <2>2. CASE n # 0
    <3>1. n - 1 \in Nat /\ (n - 1) + 1 = n
      BY <2>2
    <3>2. \E x \in Parts(v) : y \in Within(x)[n - 1]
      BY <3>1, WithinParts
    <3>3. QED
      BY <1>2, <3>1, <3>2 DEF Tidy
  <2>3. QED
    BY <2>1, <2>2
<1>3. QED
  BY <1>1, <1>2

\* What is inside a value inside v is inside v.
LEMMA WithinDeeper ==
  ASSUME NEW v, NEW n \in Nat, NEW x \in Within(v)[n]
  PROVE  \A m \in Nat : Within(x)[m] \subseteq Within(v)[n + m]
<1> DEFINE S == {m \in Nat : Within(x)[m] \subseteq Within(v)[n + m]}
<1>1. 0 \in S
  BY WithinParts
<1>2. ASSUME NEW m \in Nat, m \in S PROVE m + 1 \in S
  <2>1. m + 1 \in Nat /\ n + m \in Nat /\ n + (m + 1) = (n + m) + 1
    OBVIOUS
  <2>2. Within(x)[m + 1] = UNION {Parts(z) : z \in Within(x)[m]}
    BY <2>1, NextLevel
  <2>3. Within(v)[n + (m + 1)] = UNION {Parts(z) : z \in Within(v)[n + m]}
    BY <2>1, NextLevel
  <2>4. QED
    BY <1>2, <2>1, <2>2, <2>3
<1>3. QED
  BY <1>1, <1>2, SetInduction

\* The sweep goes into everything inside a value below the root and `nix`.
LEMMA SweptDeeper ==
  ASSUME NEW v, NEW n \in Nat, NEW x, [place |-> "below", v |-> x] \in Nodes(v)[n]
  PROVE  \A m \in Nat : \A y \in Within(x)[m] :
           [place |-> "below", v |-> y] \in Nodes(v)[n + m]
<1> DEFINE S == {m \in Nat : \A y \in Within(x)[m] :
                   [place |-> "below", v |-> y] \in Nodes(v)[n + m]}
<1>1. 0 \in S
  BY WithinParts
<1>2. ASSUME NEW m \in Nat, m \in S PROVE m + 1 \in S
  <2>1. m + 1 \in Nat /\ n + m \in Nat /\ n + (m + 1) = (n + m) + 1
    OBVIOUS
  <2>2. Within(x)[m + 1] = UNION {Parts(z) : z \in Within(x)[m]}
    BY <2>1, NextLevel
  <2>3. Nodes(v)[n + (m + 1)] = UNION {SubValues(z) : z \in Nodes(v)[n + m]}
    BY <2>1, NextLevel
  <2>4. ASSUME NEW z, NEW y \in Parts(z)
        PROVE  [place |-> "below", v |-> y] \in SubValues([place |-> "below", v |-> z])
    BY DEF Parts, SubValues, PlaceOf
  <2>5. QED
    BY <1>2, <2>1, <2>2, <2>3, <2>4
<1>3. QED
  BY <1>1, <1>2, SetInduction

\* A document has JSON values inside it, and nothing beyond the bound.
LEMMA DocumentJson ==
  ASSUME NEW doc \in Documents, NEW n \in Nat, NEW x \in Within(doc)[n]
  PROVE  JsonValue(x) /\ n \in 0..Depth
<1>1. Depth \in Nat /\ \A y \in Within(doc)[Depth] : Parts(y) = {}
  BY DocumentsAssumption DEF DocumentsAssumption
<1> DEFINE S == {m \in Nat : m > Depth => Within(doc)[m] = {}}
<1>2. 0 \in S
  BY <1>1
<1>3. ASSUME NEW m \in Nat, m \in S PROVE m + 1 \in S
  <2>1. m + 1 \in Nat
    OBVIOUS
  <2>2. Within(doc)[m + 1] = UNION {Parts(z) : z \in Within(doc)[m]}
    BY <2>1, NextLevel
  <2>3. CASE m + 1 > Depth
    <3>1. m = Depth \/ m > Depth
      BY <1>1, <2>3
    <3>2. \A z \in Within(doc)[m] : Parts(z) = {}
      BY <1>1, <1>3, <3>1
    <3>3. Within(doc)[m + 1] = {}
      BY <2>2, <3>2
    <3>4. QED
      BY <2>1, <3>3
  <2>4. CASE ~(m + 1 > Depth)
    BY <2>1, <2>4
  <2>5. QED
    BY <2>3, <2>4
<1>4. Nat \subseteq S
  BY <1>2, <1>3, SetInduction
<1>5. ~(n > Depth)
  BY <1>4
<1>6. n \in 0..Depth
  BY <1>1, <1>5
<1>7. QED
  BY <1>6, DocumentsAssumption DEF DocumentsAssumption

\* A JSON value with tidy keys is neat.
LEMMA JsonNeat ==
  ASSUME NEW x, JsonValue(x), IsAttrs(x) => DOMAIN x.attrs \cap Bad = {}
  PROVE  Neat(x)
BY DEF JsonValue, Neat, Plain, Values

\* What the sweep passed is tidy.
LEMMA SweptTidy ==
  ASSUME NEW doc \in Documents, Misplaced(doc) = {}, NEW n \in Nat,
         NEW x \in Within(doc)[n], [place |-> "below", v |-> x] \in Nodes(doc)[n]
  PROVE  Tidy(x)
<1> SUFFICES ASSUME NEW m \in Nat, NEW y \in Within(x)[m] PROVE Neat(y)
  BY DEF Tidy
<1>1. n + m \in Nat /\ y \in Within(doc)[n + m]
  BY WithinDeeper
<1>2. JsonValue(y) /\ n + m \in 0..Depth
  BY <1>1, DocumentJson
<1>3. [place |-> "below", v |-> y] \in Nodes(doc)[n + m]
  BY SweptDeeper
<1>4. Offending([place |-> "below", v |-> y]) = {}
  BY <1>2, <1>3 DEF Misplaced
<1>5. IsAttrs(y) => DOMAIN y.attrs \cap Bad = {}
  BY <1>4 DEF Offending, Bad
<1>6. QED
  BY <1>2, <1>5, JsonNeat

\* The keys and the values of a document that the sweep passed, but for what is
\* under an empty key of the root: the sweep takes it for the root.
LEMMA SweptDocument ==
  ASSUME NEW doc \in Documents, Misplaced(doc) = {}
  PROVE  /\ DOMAIN doc = {"attrs"}
         /\ DOMAIN doc.attrs \cap Bad \subseteq {"platforms", "platform"}
         /\ \A k \in DOMAIN doc.attrs : Plain(doc.attrs[k])
         /\ \A k \in DOMAIN doc.attrs \ {"nix", ""} : Tidy(doc.attrs[k])
         /\ HasNix(doc) =>
              /\ DOMAIN doc.attrs["nix"].attrs \cap Bad \subseteq {"platforms"}
              /\ \A k \in DOMAIN doc.attrs["nix"].attrs : Tidy(doc.attrs["nix"].attrs[k])
         /\ \A k \in DOMAIN doc.attrs \ {""} : ~HasNix(doc) => Tidy(doc.attrs[k])
<1> DEFINE root == [place |-> "root", v |-> doc]
           Place(k) == PlaceOf("root", k)
<1>1. /\ Nodes(doc)[0] = {root}
      /\ Nodes(doc)[1] = UNION {SubValues(z) : z \in Nodes(doc)[0]}
      /\ Nodes(doc)[2] = UNION {SubValues(z) : z \in Nodes(doc)[1]}
  <2>1. 0 + 1 = 1 /\ 1 + 1 = 2 /\ 0 \in Nat /\ 1 \in Nat
    OBVIOUS
  <2>2. Nodes(doc)[0] = {root}
    BY <2>1, NodesStep DEF Lower
  <2>3. QED
    BY <2>1, <2>2, NextLevel
<1>2. /\ Within(doc)[0] = {doc}
      /\ Within(doc)[1] = UNION {Parts(z) : z \in Within(doc)[0]}
      /\ Within(doc)[2] = UNION {Parts(z) : z \in Within(doc)[1]}
  <2>1. 0 + 1 = 1 /\ 1 + 1 = 2 /\ 0 \in Nat /\ 1 \in Nat
    OBVIOUS
  <2>2. QED
    BY <2>1, NextLevel, WithinParts
<1>3. /\ JsonValue(doc) /\ 0 \in 0..Depth /\ IsAttrs(doc)
  BY <1>2, DocumentJson, DocumentsAssumption DEF DocumentsAssumption
<1>4. DOMAIN doc = {"attrs"}
  BY <1>3 DEF JsonValue, IsAttrs
<1>5. \A n \in 0..Depth : \A node \in Nodes(doc)[n] : Offending(node) = {}
  BY DEF Misplaced
<1>6. DOMAIN doc.attrs \cap Bad \subseteq {"platforms", "platform"}
  <2>1. Offending(root) = {}
    BY <1>1, <1>3, <1>5
  <2>2. QED
    BY <1>3, <2>1 DEF Offending, Bad
<1>7. ASSUME NEW k \in DOMAIN doc.attrs
      PROVE  /\ doc.attrs[k] \in Within(doc)[1] /\ 1 \in 0..Depth
             /\ [place |-> Place(k), v |-> doc.attrs[k]] \in Nodes(doc)[1]
             /\ JsonValue(doc.attrs[k])
  <2>1. doc.attrs[k] \in Parts(doc)
    BY <1>3 DEF Parts
  <2>2. doc.attrs[k] \in Within(doc)[1]
    BY <1>2, <2>1
  <2>3. [place |-> Place(k), v |-> doc.attrs[k]] \in SubValues(root)
    BY <1>3 DEF SubValues
  <2>4. [place |-> Place(k), v |-> doc.attrs[k]] \in Nodes(doc)[1]
    BY <1>1, <2>3
  <2>5. QED
    BY <2>2, <2>4, DocumentJson
<1>8. ASSUME NEW k \in DOMAIN doc.attrs, k # "nix", k # "" PROVE Tidy(doc.attrs[k])
  <2>1. Place(k) = "below"
    BY <1>8 DEF PlaceOf
  <2>2. QED
    BY <1>7, <2>1, SweptTidy
<1>9. ASSUME "nix" \in DOMAIN doc.attrs, NEW x \in Parts(doc.attrs["nix"]) PROVE Tidy(x)
  <2>1. x \in Within(doc)[2]
    BY <1>2, <1>7, <1>9
  <2>2. [place |-> "below", v |-> x] \in SubValues([place |-> "nix", v |-> doc.attrs["nix"]])
    BY <1>9 DEF Parts, SubValues, PlaceOf
  <2>3. [place |-> "below", v |-> x] \in Nodes(doc)[2]
    <3>1. Place("nix") = "nix"
      BY DEF PlaceOf
    <3>2. QED
      BY <1>1, <1>7, <1>9, <2>2, <3>1
  <2>4. QED
    BY <2>1, <2>3, SweptTidy
<1>10. ASSUME HasNix(doc)
       PROVE  /\ DOMAIN doc.attrs["nix"].attrs \cap Bad \subseteq {"platforms"}
              /\ \A k \in DOMAIN doc.attrs["nix"].attrs : Tidy(doc.attrs["nix"].attrs[k])
  <2>1. "nix" \in DOMAIN doc.attrs /\ IsAttrs(doc.attrs["nix"])
    BY <1>10 DEF HasNix, HasAttr
  <2>2. Offending([place |-> "nix", v |-> doc.attrs["nix"]]) = {}
    <3>1. Place("nix") = "nix"
      BY DEF PlaceOf
    <3>2. QED
      BY <1>5, <1>7, <2>1, <3>1
  <2>3. DOMAIN doc.attrs["nix"].attrs \cap Bad \subseteq {"platforms"}
    BY <2>1, <2>2 DEF Offending, Bad
  <2>4. \A k \in DOMAIN doc.attrs["nix"].attrs :
          doc.attrs["nix"].attrs[k] \in Parts(doc.attrs["nix"])
    BY <2>1 DEF Parts
  <2>5. QED
    BY <1>9, <2>1, <2>3, <2>4
<1>11. ASSUME ~HasNix(doc), NEW k \in DOMAIN doc.attrs, k # "" PROVE Tidy(doc.attrs[k])
  <2>1. CASE k # "nix"
    BY <1>8, <1>11, <2>1
  <2>2. CASE k = "nix"
    <3>1. ~IsAttrs(doc.attrs["nix"])
      BY <1>3, <1>11, <2>2 DEF HasNix, HasAttr
    <3>2. Neat(doc.attrs["nix"])
      BY <1>7, <2>2, <3>1, JsonNeat
    <3>3. QED
      BY <1>9, <2>2, <3>2, TidyParts
  <2>3. QED
    BY <2>1, <2>2
<1>12. \A k \in DOMAIN doc.attrs : Plain(doc.attrs[k])
  BY <1>7 DEF JsonValue, Plain, Values
<1>13. QED
  BY <1>4, <1>6, <1>8, <1>10, <1>11, <1>12

\* A document is an object, and its overlays are sequences.
LEMMA DocumentOverlays ==
  ASSUME NEW doc \in Documents, NEW level \in {"top", "nix"}
  PROVE  /\ DOMAIN doc = {"attrs"}
         /\ OverlaysOf(level, doc) \in Seq(ToSet(OverlaysOf(level, doc)))
<1> DEFINE node == NodeAt(level, doc)
           list == Declared(level, doc)
<1>1. doc \in Within(doc)[0]
  BY WithinParts
<1>2. JsonValue(doc) /\ IsAttrs(doc)
  BY <1>1, DocumentJson, DocumentsAssumption DEF DocumentsAssumption
<1>3. DOMAIN doc = {"attrs"}
  BY <1>2 DEF JsonValue, IsAttrs
<1>4. /\ \A k \in DOMAIN doc.attrs : doc.attrs[k] \in Within(doc)[1]
      /\ HasNix(doc) => \A k \in DOMAIN doc.attrs["nix"].attrs :
                          doc.attrs["nix"].attrs[k] \in Within(doc)[2]
  <2>1. 0 + 1 = 1 /\ 1 + 1 = 2 /\ 0 \in Nat /\ 1 \in Nat
    OBVIOUS
  <2>2. /\ Within(doc)[1] = UNION {Parts(z) : z \in Within(doc)[0]}
        /\ Within(doc)[2] = UNION {Parts(z) : z \in Within(doc)[1]}
    BY <2>1, NextLevel
  <2>3. \A k \in DOMAIN doc.attrs : doc.attrs[k] \in Within(doc)[1]
    BY <1>1, <1>2, <2>2 DEF Parts
  <2>4. HasNix(doc) => \A k \in DOMAIN doc.attrs["nix"].attrs :
                        doc.attrs["nix"].attrs[k] \in Within(doc)[2]
    BY <2>2, <2>3 DEF Parts, HasNix, HasAttr
  <2>5. QED
    BY <2>3, <2>4
<1>5. node = doc \/ (HasNix(doc) /\ node = doc.attrs["nix"]) \/ node = Attrs(<<>>)
  BY DEF NodeAt, HasNix
<1>6. DOMAIN Attrs(<<>>).attrs = {}
  BY DEF Attrs
<1>7. list = Arr(<<>>) \/ list \in Within(doc)[1] \/ list \in Within(doc)[2]
  <2> HIDE DEF node
  <2>1. list = IF HasAttr(node, "platforms") THEN node.attrs["platforms"] ELSE Arr(<<>>)
    BY DEF Declared, AttrOr, node
  <2>2. HasAttr(node, "platforms") => "platforms" \in DOMAIN node.attrs
    BY DEF HasAttr
  <2>3. QED
    BY <1>4, <1>5, <1>6, <2>1, <2>2
<1> HIDE DEF list
<1>8. IsList(list) => list.list \in Seq(ToSet(list.list))
  <2>1. CASE list = Arr(<<>>)
    <3>1. list.list = <<>>
      BY <2>1 DEF Arr
    <3>2. QED
      BY <3>1
  <2>2. CASE list \in Within(doc)[1] \/ list \in Within(doc)[2]
    BY <2>2, DocumentJson DEF JsonValue
  <2>3. QED
    BY <1>7, <2>1, <2>2
<1>9. OverlaysOf(level, doc) = IF IsList(list) THEN list.list ELSE <<>>
  BY DEF OverlaysOf, list
<1>10. <<>> \in Seq(ToSet(<<>>))
  OBVIOUS
<1>11. OverlaysOf(level, doc) \in Seq(ToSet(OverlaysOf(level, doc)))
  <2>1. CASE IsList(list)
    BY <1>8, <1>9, <2>1
  <2>2. CASE ~IsList(list)
    BY <1>9, <1>10, <2>2
  <2>3. QED
    BY <2>1, <2>2
<1>12. QED
  BY <1>3, <1>11

-----------------------------------------------------------------------------
(* What the invariant says.                                                *)

Started == at # "call"
Validated == at \notin {"call", "validate"}

\* v and w have the same fields, those of ks apart.
SameBut(v, w, ks) ==
  \A k \in (DOMAIN v.attrs \cup DOMAIN w.attrs) \ ks :
    k \in DOMAIN v.attrs /\ k \in DOMAIN w.attrs /\ v.attrs[k] = w.attrs[k]

Shape ==
  /\ raw \in Documents
  /\ DOMAIN raw = {"attrs"}
  /\ \A level \in {"top", "nix"} :
       OverlaysOf(level, raw) \in Seq(ToSet(OverlaysOf(level, raw)))
  /\ at \in {"call", "validate", "nix", "libraries", "top", "done"}
  /\ at \in {"validate", "nix", "libraries", "top"} => Overlaid
  /\ next \in Nat \ {0}
  /\ DOMAIN answer = Parses
  /\ \A p \in Parses : DOMAIN answer[p] \in {{"attrs"}, {"refused"}}

\* The guards of the call: before it every parse holds the document.
Guarded ==
  /\ ~Started => answer = [p \in Parses |-> raw]
  /\ Started => \A p \in Parses : Accepted(p) => CallGuards(p)
  /\ at = "validate" =>
       \A p \in Parses : answer[p] \in {raw, Refused("call")}

\* The selectors: refused for one parse, refused for all.
SelectorError(p) == \E level \in {"top", "nix"} : LevelRefused(level, raw, p)
Selectors ==
  /\ ~Validated => \A p \in Parses : answer[p] # Refused("selector")
  /\ \A p \in Parses :
       answer[p] = Refused("selector") => Overlaid /\ SelectorError(p)
  /\ Validated /\ Overlaid =>
       \A p \in Parses :
         answer[p] \notin {Refused("call"), Refused("selector")} => ~SelectorError(p)

\* The trees: a parse with no platform holds the poisoned one, and the others
\* are the base in every field that no overlay sets.
TreeOf(v) ==
  /\ SameBut(v, Base(raw), touchedKeys("top") \cup {"nix"})
  /\ HasNix(v) <=> HasNix(Base(raw))
  /\ HasNix(v) =>
       SameBut(v.attrs["nix"], Base(raw).attrs["nix"], touchedKeys("nix"))
Trees ==
  /\ at = "done" /\ ~Overlaid => \A p \in Parses : Accepted(p) => answer[p] = raw
  /\ Validated /\ Overlaid => \A p \in Parses : Accepted(p) =>
       IF Agnostic(p) THEN answer[p] = poisoned ELSE TreeOf(answer[p])

PInv == Shape /\ Guarded /\ Selectors /\ Trees

-----------------------------------------------------------------------------
(* Trees and refusals.                                                     *)

\* A refusal is no tree, and is one refusal only.
LEMMA RefusalFacts ==
  /\ \A r : IsRefused(Refused(r)) /\ DOMAIN Refused(r) = {"refused"}
  /\ \A f : ~IsRefused(Attrs(f)) /\ IsAttrs(Attrs(f)) /\ DOMAIN Attrs(f) = {"attrs"}
  /\ \A f : Attrs(f).attrs = f
  /\ \A r, s : Refused(r) = Refused(s) => r = s
<1>1. \A r : DOMAIN Refused(r) = {"refused"} /\ Refused(r).refused = r
  BY DEF Refused
<1>2. \A f : DOMAIN Attrs(f) = {"attrs"} /\ Attrs(f).attrs = f
  BY DEF Attrs
<1>3. "refused" # "attrs"
  OBVIOUS
<1>4. \A r, s : Refused(r) = Refused(s) => r = s
  BY <1>1
<1>5. QED
  BY <1>1, <1>2, <1>3, <1>4 DEF IsRefused, IsAttrs

\* A field set, a field's reading.
LEMMA SetFacts ==
  ASSUME NEW v, NEW k, NEW x
  PROVE  /\ DOMAIN SetAttr(v, k, x) = {"attrs"}
         /\ DOMAIN SetAttr(v, k, x).attrs = DOMAIN v.attrs \cup {k}
         /\ SetAttr(v, k, x).attrs[k] = x
         /\ \A j \in DOMAIN v.attrs : j # k => SetAttr(v, k, x).attrs[j] = v.attrs[j]
BY RefusalFacts DEF SetAttr

\* The fields left by a removal.
LEMMA RemoveFacts ==
  ASSUME NEW v, NEW ks
  PROVE  /\ DOMAIN RemoveAttrs(v, ks) = {"attrs"}
         /\ DOMAIN RemoveAttrs(v, ks).attrs = DOMAIN v.attrs \ ks
BY RefusalFacts DEF RemoveAttrs

\* The merge of two objects is refused, or has the fields of both and keeps
\* those of the first that the second does not set.
LEMMA MergeFacts ==
  ASSUME NEW a, NEW b
  PROVE  \/ mergeNode(a, b) = Refused("merge")
         \/ /\ DOMAIN mergeNode(a, b) = {"attrs"}
            /\ DOMAIN mergeNode(a, b).attrs = DOMAIN a.attrs \cup DOMAIN b.attrs
            /\ \A k \in DOMAIN a.attrs \ DOMAIN b.attrs :
                 mergeNode(a, b).attrs[k] = a.attrs[k]
<1> DEFINE g == [k \in DOMAIN a.attrs \cup DOMAIN b.attrs |->
                   IF k \notin DOMAIN b.attrs THEN a.attrs[k]
                   ELSE LET av == AttrOr(a, k, Null)
                        IN  MergedValue(av, b.attrs[k], MergeBelow(av, b.attrs[k]))]
<1>1. mergeNode(a, b) = Forced(Attrs(g))
  BY DEF mergeNode, MergeAttrs
<1>2. /\ DOMAIN g = DOMAIN a.attrs \cup DOMAIN b.attrs
      /\ \A k \in DOMAIN a.attrs \ DOMAIN b.attrs : g[k] = a.attrs[k]
  OBVIOUS
<1> HIDE DEF g
<1>3. Forced(Attrs(g)) = Refused("merge") \/ Forced(Attrs(g)) = Attrs(g)
  BY DEF Forced
<1>4. DOMAIN Attrs(g) = {"attrs"} /\ Attrs(g).attrs = g
  BY RefusalFacts
<1>5. QED
  BY <1>1, <1>2, <1>3, <1>4

\* The base is a tree, and its `nix` an object when the document's is.
LEMMA BaseFacts ==
  ASSUME DOMAIN raw = {"attrs"}
  PROVE  /\ DOMAIN Base(raw) = {"attrs"}
         /\ HasNix(Base(raw)) <=> HasNix(raw)
<1> DEFINE top == RemoveAttrs(raw, {"platforms"})
<1>1. /\ DOMAIN top = {"attrs"} /\ DOMAIN top.attrs = DOMAIN raw.attrs \ {"platforms"}
      /\ \A k \in DOMAIN top.attrs : top.attrs[k] = raw.attrs[k]
  BY RemoveFacts, RefusalFacts DEF RemoveAttrs
<1>2. Base(raw) = IF HasNix(top)
                  THEN SetAttr(top, "nix", RemoveAttrs(top.attrs["nix"], {"platforms"}))
                  ELSE top
  BY DEF Base, HasNix
<1> HIDE DEF top
<1>3. HasNix(top) <=> HasNix(raw)
  BY <1>1 DEF HasNix, HasAttr, IsAttrs
<1>4. CASE HasNix(top)
  <2> DEFINE nix == RemoveAttrs(top.attrs["nix"], {"platforms"})
  <2>1. IsAttrs(nix)
    BY RefusalFacts DEF RemoveAttrs
  <2> HIDE DEF nix
  <2>2. Base(raw) = SetAttr(top, "nix", nix)
    BY <1>2, <1>4 DEF nix
  <2>3. HasNix(Base(raw))
    BY <2>1, <2>2, SetFacts DEF HasNix, HasAttr, IsAttrs
  <2>4. QED
    BY <1>3, <1>4, <2>2, <2>3, SetFacts
<1>5. CASE ~HasNix(top)
  BY <1>1, <1>2, <1>3, <1>5
<1>6. QED
  BY <1>4, <1>5

-----------------------------------------------------------------------------
(* The guards and the validation.                                          *)

\* Every component of a selector is evaluated whatever the platform is, so an
\* overlay refused by one parse is refused by every other.
LEMMA SelectorShared ==
  ASSUME NEW p, NEW q PROVE SelectorError(p) <=> SelectorError(q)
<1>1. \A level, o : OverlayRefused(level, o, p) <=> OverlayRefused(level, o, q)
  BY Zenon DEF OverlayRefused, ForcedComponents
<1>2. \A level : LevelRefused(level, raw, p) <=> LevelRefused(level, raw, q)
  BY <1>1, Zenon DEF LevelRefused
<1>3. QED
  BY <1>2, Zenon DEF SelectorError

\* What depends on the document alone does not change.
LEMMA RawOnly ==
  ASSUME raw' = raw
  PROVE  /\ Overlaid' = Overlaid /\ Base(raw)' = Base(raw) /\ poisoned' = poisoned
         /\ \A level : touchedKeys(level)' = touchedKeys(level)
         /\ \A p : SelectorError(p)' <=> SelectorError(p)
         /\ \A p : CallGuards(p)' <=> CallGuards(p)
         /\ \A level : OverlaysOf(level, raw)' = OverlaysOf(level, raw)
<1>1. Overlaid' = Overlaid
  BY DEF Overlaid
<1>2. Base(raw)' = Base(raw)
  OBVIOUS
<1>3. \A level : touchedKeys(level)' = touchedKeys(level)
  BY DEF touchedKeys
<1>4. poisoned' = poisoned
  BY <1>2, <1>3 DEF poisoned, Poison
<1>5. \A p : SelectorError(p)' <=> SelectorError(p)
  BY DEF SelectorError
<1>6. \A p : CallGuards(p)' <=> CallGuards(p)
  BY DEF CallGuards
<1>7. \A level : OverlaysOf(level, raw)' = OverlaysOf(level, raw)
  OBVIOUS
<1>8. QED
  BY <1>1, <1>2, <1>3, <1>4, <1>5, <1>6, <1>7

\* Before the call every parse holds the document itself.
LEMMA InitPInv == Init => PInv
<1> SUFFICES ASSUME Init PROVE PInv
  OBVIOUS
<1>1. /\ raw \in Documents /\ at = "call" /\ next = 1
      /\ answer = [p \in Parses |-> raw]
  BY DEF Init
<1>2. /\ DOMAIN raw = {"attrs"}
      /\ \A level \in {"top", "nix"} :
           OverlaysOf(level, raw) \in Seq(ToSet(OverlaysOf(level, raw)))
  BY <1>1, DocumentOverlays
<1>3. Shape
  BY <1>1, <1>2 DEF Shape
<1>4. \A p \in Parses : answer[p] # Refused("selector")
  BY <1>1, <1>2, RefusalFacts
<1>5. Guarded /\ Selectors /\ Trees
  BY <1>1, <1>4 DEF Guarded, Selectors, Trees, Started, Validated
<1>6. QED
  BY <1>3, <1>5 DEF PInv

\* The call: both guards, and the early return.
LEMMA CallStep == ASSUME PInv, Call PROVE PInv'
<1>1. /\ answer' = [p \in Parses |-> IF CallGuards(p) THEN raw ELSE Refused("call")]
      /\ at' = IF Overlaid THEN "validate" ELSE "done"
      /\ UNCHANGED <<raw, next>> /\ at = "call"
  BY DEF Call
<1>2. Shape
  BY DEF PInv
<1>3. DOMAIN raw = {"attrs"} /\ DOMAIN Refused("call") = {"refused"}
  BY <1>2, RefusalFacts DEF Shape
<1>4. Overlaid' <=> Overlaid
  BY <1>1 DEF Overlaid
<1>5. Shape'
  BY <1>1, <1>2, <1>3, <1>4 DEF Shape
<1>6. \A p \in Parses : CallGuards(p)' <=> CallGuards(p)
  BY <1>1 DEF CallGuards
<1>7. \A p \in Parses : Accepted(p)' => CallGuards(p) /\ answer'[p] = raw
  BY <1>1, RefusalFacts DEF Accepted
<1>8. Guarded'
  BY <1>1, <1>6, <1>7 DEF Guarded, Started
<1>9. \A p \in Parses : answer'[p] # Refused("selector")
  BY <1>1, <1>3, RefusalFacts
<1>10. Selectors'
  BY <1>1, <1>4, <1>9 DEF Selectors, Validated
<1>11. Trees'
  BY <1>1, <1>4, <1>7 DEF Trees, Validated
<1>12. QED
  BY <1>5, <1>8, <1>10, <1>11 DEF PInv

\* The poisoned tree is a tree.
LEMMA PoisonedIsTree == DOMAIN poisoned = {"attrs"}
BY RefusalFacts, Zenon DEF poisoned, Poison

\* The validation, and what each parse starts from.
LEMMA ValidateStep == ASSUME PInv, Validate PROVE PInv'
<1>1. /\ answer' = [p \in Parses |->
             IF ~Accepted(p) THEN answer[p]
             ELSE IF SelectorError(p) THEN Refused("selector")
             ELSE IF Agnostic(p) THEN poisoned ELSE Base(raw)]
      /\ at = "validate" /\ at' = "nix" /\ UNCHANGED <<raw, next>>
  BY DEF Validate, SelectorError
<1>2. Shape /\ Guarded /\ Overlaid
  BY <1>1 DEF PInv, Shape
<1>3. DOMAIN raw = {"attrs"} /\ DOMAIN Base(raw) = {"attrs"} /\ DOMAIN poisoned = {"attrs"}
  BY <1>2, BaseFacts, PoisonedIsTree DEF Shape
<1>4. /\ Overlaid' /\ Base(raw)' = Base(raw) /\ poisoned' = poisoned
      /\ \A level : touchedKeys(level)' = touchedKeys(level)
      /\ \A p : SelectorError(p)' <=> SelectorError(p)
      /\ \A p : CallGuards(p)' <=> CallGuards(p)
  BY <1>1, <1>2, RawOnly
<1>5. \A p \in Parses : Accepted(p) \/ answer[p] = Refused("call")
  BY <1>1, <1>2, <1>3 DEF Guarded, Accepted, IsRefused
<1>6. ASSUME NEW p \in Parses
      PROVE  \/ answer'[p] = Refused("call")
             \/ /\ SelectorError(p) /\ answer'[p] = Refused("selector")
             \/ /\ Accepted(p) /\ ~SelectorError(p)
                /\ answer'[p] = IF Agnostic(p) THEN poisoned ELSE Base(raw)
  BY <1>1, <1>5
<1>7. ASSUME NEW p \in Parses, Accepted(p)'
      PROVE  /\ Accepted(p) /\ answer'[p] = IF Agnostic(p) THEN poisoned ELSE Base(raw)
             /\ ~SelectorError(p)
  <2>1. IsRefused(Refused("call")) /\ IsRefused(Refused("selector"))
    BY RefusalFacts
  <2>2. ~IsRefused(answer'[p])
    BY <1>7 DEF Accepted
  <2>3. QED
    BY <1>6, <2>1, <2>2
<1>8. Shape'
  <2>1. \A p \in Parses : DOMAIN answer'[p] \in {{"attrs"}, {"refused"}}
    BY <1>3, <1>6, RefusalFacts
  <2>2. DOMAIN answer' = Parses
    BY <1>1
  <2>3. QED
    BY <1>1, <1>2, <1>4, <2>1, <2>2 DEF Shape
<1>9. Guarded'
  BY <1>1, <1>2, <1>4, <1>7 DEF Guarded, Started
<1>10. Selectors'
  <2>1. \A p \in Parses : answer'[p] = Refused("selector") => SelectorError(p)
    BY <1>3, <1>6, RefusalFacts
  <2>2. \A p \in Parses :
          answer'[p] \notin {Refused("call"), Refused("selector")} => ~SelectorError(p)
    BY <1>6
  <2>3. QED
    BY <1>1, <1>2, <1>4, <2>1, <2>2 DEF Selectors, Validated
<1>11. Trees'
  <2>1. \A v, ks : SameBut(v, v, ks)
    BY DEF SameBut
  <2>2. TreeOf(Base(raw))
    BY <2>1 DEF TreeOf
  <2>3. ASSUME NEW p \in Parses, Accepted(p)'
        PROVE  IF Agnostic(p) THEN answer'[p] = poisoned ELSE TreeOf(answer'[p])
    BY <1>7, <2>2, <2>3
  <2>5. QED
    BY <1>1, <1>4, <2>3 DEF Trees, TreeOf
<1>12. QED
  BY <1>8, <1>9, <1>10, <1>11 DEF PInv

-----------------------------------------------------------------------------
(* The folds.                                                              *)

\* A later step changes an accepted parse for some platform, to a tree or to a
\* refusal of its own.
Folds ==
  /\ Validated /\ at' \in {"nix", "libraries", "top", "done"} /\ raw' = raw
  /\ at # "done" /\ next' \in Nat \ {0} /\ DOMAIN answer' = Parses
  /\ \A p \in Parses :
       answer'[p] # answer[p] =>
         /\ Merging(p)
         /\ \/ DOMAIN answer'[p] = {"attrs"}
            \/ answer'[p] \in {Refused("merge"), Refused("libraries")}

\* Such a step leaves what was decided about every parse.
LEMMA FoldKeeps == ASSUME PInv, Folds PROVE Shape' /\ Guarded' /\ Selectors'
<1>1. /\ Shape /\ Guarded /\ Selectors /\ Validated /\ Started
      /\ at \in {"nix", "libraries", "top"} /\ Overlaid
  BY DEF PInv, Folds, Validated, Started, Shape
<1>2. /\ raw' = raw /\ Overlaid' = Overlaid
      /\ \A p : SelectorError(p)' <=> SelectorError(p)
      /\ \A p : CallGuards(p)' <=> CallGuards(p)
  BY RawOnly DEF Folds
<1>3. ASSUME NEW p \in Parses
      PROVE  \/ answer'[p] = answer[p]
             \/ /\ Accepted(p)
                /\ \/ DOMAIN answer'[p] = {"attrs"}
                   \/ answer'[p] \in {Refused("merge"), Refused("libraries")}
  BY DEF Folds, Merging
<1>4. /\ \A r : DOMAIN Refused(r) = {"refused"}
      /\ Refused("merge") # Refused("selector") /\ Refused("libraries") # Refused("selector")
      /\ Refused("merge") # Refused("call") /\ Refused("libraries") # Refused("call")
  BY RefusalFacts
<1>5. Shape'
  <2>1. \A p \in Parses : DOMAIN answer'[p] \in {{"attrs"}, {"refused"}}
    BY <1>1, <1>3, <1>4 DEF Shape
  <2>2. QED
    BY <1>1, <1>2, <2>1 DEF Folds, Shape
<1>6. Guarded'
  <2>1. \A p \in Parses : Accepted(p)' => Accepted(p)
    BY <1>3 DEF Accepted
  <2>2. Started' /\ at' # "validate"
    BY DEF Folds, Started
  <2>3. QED
    BY <1>1, <1>2, <2>1, <2>2 DEF Guarded
<1>7. Selectors'
  <2>1. \A p \in Parses : answer'[p] = Refused("selector") => answer[p] = Refused("selector")
    BY <1>3, <1>4
  <2>2. ASSUME NEW p \in Parses, answer'[p] \notin {Refused("call"), Refused("selector")}
        PROVE  ~SelectorError(p)
    <3>1. answer[p] \notin {Refused("call"), Refused("selector")}
      <4>1. Accepted(p) => answer[p] \notin {Refused("call"), Refused("selector")}
        BY RefusalFacts DEF Accepted
      <4>2. QED
        BY <1>3, <2>2, <4>1
    <3>2. QED
      BY <1>1, <3>1 DEF Selectors
  <2>3. Validated'
    BY DEF Folds, Validated
  <2>4. QED
    BY <1>1, <1>2, <2>1, <2>2, <2>3 DEF Selectors
<1>8. QED
  BY <1>5, <1>6, <1>7

\* An overlay of a level that was validated sets fields of its own level only.
LEMMA OverlaySets ==
  ASSUME Shape, NEW level \in {"top", "nix"}, NEW p, ~SelectorError(p),
         NEW i \in 1..Len(OverlaysOf(level, raw))
  PROVE  LET o == OverlaysOf(level, raw)[i]
         IN  /\ DOMAIN Body(o).attrs \subseteq touchedKeys(level)
             /\ DOMAIN Body(o).attrs \subseteq allowed(level)
<1> DEFINE o == OverlaysOf(level, raw)[i]
<1>1. o \in ToSet(OverlaysOf(level, raw))
  <2>1. OverlaysOf(level, raw) \in Seq(ToSet(OverlaysOf(level, raw)))
    BY DEF Shape
  <2>2. QED
    BY <2>1
<1> HIDE DEF o
<1>2. DOMAIN Body(o).attrs \subseteq touchedKeys(level)
  BY <1>1 DEF touchedKeys
<1>3. ~OverlayRefused(level, o, p)
  BY <1>1 DEF SelectorError, LevelRefused
<1>4. DOMAIN Body(o).attrs \subseteq allowed(level)
  BY <1>3 DEF OverlayRefused
<1>5. QED
  BY <1>2, <1>4 DEF o

\* An overlay of `nix` is read from an object.
LEMMA NixOverlays ==
  ASSUME 1 \in 1..Len(OverlaysOf("nix", raw)) PROVE HasNix(raw)
<1>1. SUFFICES ASSUME ~HasNix(raw) PROVE FALSE
  OBVIOUS
<1>2. NodeAt("nix", raw) = Attrs(<<>>)
  BY <1>1 DEF NodeAt, HasNix
<1>3. Declared("nix", raw) = Arr(<<>>)
  <2>1. "platforms" \notin DOMAIN Attrs(<<>>).attrs
    BY RefusalFacts
  <2>2. QED
    BY <1>2, <2>1 DEF Declared, AttrOr, HasAttr
<1>4. OverlaysOf("nix", raw) = <<>>
  BY <1>3 DEF OverlaysOf, Arr, IsList
<1>5. QED
  BY <1>4

\* A body merged over an object keeps what it does not set.
LEMMA MergeSame ==
  ASSUME NEW a, NEW b, NEW w, NEW ks, DOMAIN b.attrs \subseteq ks,
         SameBut(a, w, ks), mergeNode(a, b) # Refused("merge")
  PROVE  SameBut(mergeNode(a, b), w, ks)
<1> DEFINE m == mergeNode(a, b)
<1>1. /\ DOMAIN m.attrs = DOMAIN a.attrs \cup DOMAIN b.attrs
      /\ \A k \in DOMAIN a.attrs \ DOMAIN b.attrs : m.attrs[k] = a.attrs[k]
  BY MergeFacts
<1> HIDE DEF m
<1>2. SameBut(m, w, ks)
  BY <1>1 DEF SameBut
<1>3. QED
  BY <1>2 DEF m

\* What is known of a parse that is still being merged.
LEMMA MergingFacts ==
  ASSUME PInv, Validated, Overlaid, NEW p \in Parses, Merging(p)
  PROVE  TreeOf(answer[p]) /\ ~SelectorError(p) /\ DOMAIN answer[p] = {"attrs"}
<1>1. Accepted(p) /\ ~Agnostic(p)
  BY DEF Merging
<1>2. answer[p] \notin {Refused("call"), Refused("selector")}
  BY <1>1, RefusalFacts DEF Accepted
<1>3. DOMAIN answer[p] = {"attrs"}
  BY <1>1 DEF PInv, Shape, Accepted, IsRefused
<1>4. QED
  BY <1>1, <1>2, <1>3 DEF PInv, Trees, Selectors

\* A fold whose results are trees of that kind keeps the invariant.
LEMMA TreesKept ==
  ASSUME PInv, Folds, Overlaid,
         \A p \in Parses : answer'[p] # answer[p] /\ Accepted(p)' => TreeOf(answer'[p])
  PROVE  PInv'
<1>1. Shape' /\ Guarded' /\ Selectors'
  BY FoldKeeps
<1>2. /\ Overlaid' /\ Base(raw)' = Base(raw) /\ poisoned' = poisoned
      /\ \A level : touchedKeys(level)' = touchedKeys(level)
  BY RawOnly DEF Folds
<1>3. ASSUME NEW p \in Parses, Accepted(p)'
      PROVE  IF Agnostic(p) THEN answer'[p] = poisoned ELSE TreeOf(answer'[p])
  <2>1. CASE answer'[p] = answer[p]
    <3>1. Accepted(p) /\ Validated
      BY <1>3, <2>1 DEF Accepted, Folds
    <3>2. QED
      BY <2>1, <3>1 DEF PInv, Trees
  <2>2. CASE answer'[p] # answer[p]
    <3>1. ~Agnostic(p)
      BY <2>2 DEF Folds, Merging
    <3>2. QED
      BY <1>3, <2>2, <3>1
  <2>3. QED
    BY <2>1, <2>2
<1>4. Trees'
  BY <1>2, <1>3 DEF Trees, TreeOf
<1>5. QED
  BY <1>1, <1>4 DEF PInv

\* One overlay of `nix`: refused, or merged into the `nix` of a tree.
LEMMA NixFold ==
  ASSUME PInv, MergeNix
  PROVE  /\ Folds /\ Overlaid /\ next \in Nat
         /\ at' = "nix" => next' = next + 1 /\ next <= Len(OverlaysOf("nix", raw))
         /\ at' # "nix" => at' = "libraries" /\ next' = 1 /\ answer' = answer
         /\ \A p \in Parses : answer'[p] # answer[p] =>
              LET n == mergeNode(answer[p].attrs["nix"], Body(OverlaysOf("nix", raw)[next]))
              IN  /\ Merging(p) /\ next \in 1..Len(OverlaysOf("nix", raw))
                  /\ IF IsRefused(n) THEN answer'[p] = Refused("merge")
                     ELSE n # Refused("merge") /\ DOMAIN n = {"attrs"}
                          /\ answer'[p] = SetAttr(answer[p], "nix", n)
<1>1. Shape /\ at = "nix" /\ Validated /\ Overlaid /\ raw' = raw
  BY DEF PInv, Shape, MergeNix, Validated
<1>2. next \in Nat \ {0} /\ DOMAIN answer = Parses
  BY <1>1 DEF Shape
<1>3. CASE next <= Len(OverlaysOf("nix", raw))
  <2> DEFINE o == OverlaysOf("nix", raw)[next]
             Nix(p) == mergeNode(answer[p].attrs["nix"], Body(o))
  <2>1. /\ answer' = [p \in Parses |->
              IF Merging(p) /\ Matching("nix", next, p)
              THEN IF IsRefused(Nix(p)) THEN Nix(p) ELSE SetAttr(answer[p], "nix", Nix(p))
              ELSE answer[p]]
        /\ next' = next + 1 /\ at' = at
    BY <1>3 DEF MergeNix
  <2>2. next \in 1..Len(OverlaysOf("nix", raw))
    <3>1. Len(OverlaysOf("nix", raw)) \in Nat
      BY <1>1 DEF Shape
    <3>2. QED
      BY <1>2, <1>3, <3>1
  <2> HIDE DEF o
  <2>3. \A p : IsRefused(Nix(p)) => Nix(p) = Refused("merge")
    BY MergeFacts DEF IsRefused
  <2>4. \A p : ~IsRefused(Nix(p)) => Nix(p) # Refused("merge") /\ DOMAIN Nix(p) = {"attrs"}
    BY MergeFacts, RefusalFacts
  <2>5. ASSUME NEW p \in Parses, answer'[p] # answer[p]
        PROVE  /\ Merging(p)
               /\ IF IsRefused(Nix(p)) THEN answer'[p] = Refused("merge")
                  ELSE answer'[p] = SetAttr(answer[p], "nix", Nix(p))
    BY <2>1, <2>3, <2>5
  <2>6. Folds
    <3>1. ASSUME NEW p \in Parses, answer'[p] # answer[p]
          PROVE  DOMAIN answer'[p] = {"attrs"} \/ answer'[p] = Refused("merge")
      BY <2>5, <3>1, SetFacts
    <3>2. next' \in Nat \ {0} /\ DOMAIN answer' = Parses
      BY <1>2, <2>1
    <3>3. QED
      BY <1>1, <2>1, <2>5, <3>1, <3>2 DEF Folds
  <2>7. QED
    BY <1>1, <1>2, <1>3, <2>1, <2>2, <2>4, <2>5, <2>6 DEF o
<1>4. CASE ~(next <= Len(OverlaysOf("nix", raw)))
  <2>1. at' = "libraries" /\ next' = 1 /\ answer' = answer
    BY <1>4 DEF MergeNix
  <2>2. Folds
    BY <1>1, <1>2, <2>1 DEF Folds
  <2>3. QED
    BY <1>1, <1>2, <2>1, <2>2
<1>5. QED
  BY <1>3, <1>4

\* Such a step leaves trees.
LEMMA MergeNixStep == ASSUME PInv, MergeNix PROVE PInv'
<1>1. Folds /\ Overlaid
  BY NixFold
<1>2. Shape /\ Validated
  BY <1>1 DEF PInv, Folds
<1>3. ASSUME NEW p \in Parses, answer'[p] # answer[p], Accepted(p)'
      PROVE  TreeOf(answer'[p])
  <2> DEFINE o == OverlaysOf("nix", raw)[next]
             n == mergeNode(answer[p].attrs["nix"], Body(o))
             v == SetAttr(answer[p], "nix", n)
  <2>1. /\ Merging(p) /\ next \in 1..Len(OverlaysOf("nix", raw))
        /\ answer'[p] = v /\ n # Refused("merge") /\ DOMAIN n = {"attrs"}
    BY <1>3, NixFold, RefusalFacts DEF Accepted
  <2>2. DOMAIN Body(o).attrs \subseteq touchedKeys("nix")
    BY <1>1, <1>2, <2>1, MergingFacts, OverlaySets
  <2>3. HasNix(raw) /\ HasNix(Base(raw))
    <3>1. 1 \in 1..Len(OverlaysOf("nix", raw))
      BY <1>2, <2>1 DEF Shape
    <3>2. QED
      BY <1>2, <3>1, NixOverlays, BaseFacts DEF Shape
  <2>4. TreeOf(answer[p])
    BY <1>1, <1>2, <2>1, MergingFacts
  <2>5. SameBut(answer[p].attrs["nix"], Base(raw).attrs["nix"], touchedKeys("nix"))
    BY <2>3, <2>4 DEF TreeOf
  <2>6. SameBut(n, Base(raw).attrs["nix"], touchedKeys("nix"))
    BY <2>1, <2>2, <2>5, MergeSame
  <2> HIDE DEF n
  <2>7. /\ DOMAIN v = {"attrs"} /\ DOMAIN v.attrs = DOMAIN answer[p].attrs \cup {"nix"}
        /\ v.attrs["nix"] = n
        /\ \A j \in DOMAIN answer[p].attrs : j # "nix" => v.attrs[j] = answer[p].attrs[j]
    BY SetFacts
  <2> HIDE DEF v
  <2>8. HasNix(v)
    BY <2>1, <2>7 DEF HasNix, HasAttr, IsAttrs
  <2>9. SameBut(v, Base(raw), touchedKeys("top") \cup {"nix"})
    BY <2>4, <2>7 DEF TreeOf, SameBut
  <2>10. TreeOf(v)
    BY <2>3, <2>6, <2>7, <2>8, <2>9 DEF TreeOf
  <2>11. QED
    BY <2>1, <2>10
<1>4. QED
  BY <1>1, <1>3, TreesKept

\* The check of the libraries refuses a parse or leaves it.
LEMMA CheckLibrariesStep == ASSUME PInv, CheckLibraries PROVE PInv'
<1>1. Shape /\ at = "libraries" /\ at' = "top" /\ Validated /\ Overlaid
      /\ UNCHANGED <<raw, next>>
  BY DEF PInv, Shape, CheckLibraries, Validated
<1>2. /\ next \in Nat \ {0} /\ DOMAIN answer = Parses /\ DOMAIN answer' = Parses
      /\ \A p \in Parses : answer'[p] # answer[p] =>
           Merging(p) /\ answer'[p] = Refused("libraries")
  BY <1>1 DEF Shape, CheckLibraries
<1>3. Folds
  BY <1>1, <1>2 DEF Folds
<1>4. \A p \in Parses : answer'[p] # answer[p] => ~Accepted(p)'
  BY <1>2, RefusalFacts DEF Accepted
<1>5. QED
  BY <1>1, <1>3, <1>4, TreesKept

\* One overlay of the top level.
LEMMA TopFold ==
  ASSUME PInv, MergeTop
  PROVE  /\ Folds /\ Overlaid /\ next \in Nat
         /\ at' = "top" => next' = next + 1 /\ next <= Len(OverlaysOf("top", raw))
         /\ at' # "top" => at' = "done" /\ next' = next /\ answer' = answer
         /\ \A p \in Parses : answer'[p] # answer[p] =>
              /\ Merging(p) /\ next \in 1..Len(OverlaysOf("top", raw))
              /\ answer'[p] = mergeNode(answer[p], Body(OverlaysOf("top", raw)[next]))
<1>1. Shape /\ at = "top" /\ Validated /\ Overlaid /\ raw' = raw
  BY DEF PInv, Shape, MergeTop, Validated
<1>2. next \in Nat \ {0} /\ DOMAIN answer = Parses
  BY <1>1 DEF Shape
<1>3. CASE next <= Len(OverlaysOf("top", raw))
  <2> DEFINE o == OverlaysOf("top", raw)[next]
             Top(p) == mergeNode(answer[p], Body(o))
  <2>1. /\ answer' = [p \in Parses |->
              IF Merging(p) /\ Matching("top", next, p) THEN Top(p) ELSE answer[p]]
        /\ next' = next + 1 /\ at' = at
    BY <1>3 DEF MergeTop
  <2>2. next \in 1..Len(OverlaysOf("top", raw))
    <3>1. Len(OverlaysOf("top", raw)) \in Nat
      BY <1>1 DEF Shape
    <3>2. QED
      BY <1>2, <1>3, <3>1
  <2> HIDE DEF o
  <2>3. \A p : Top(p) = Refused("merge") \/ DOMAIN Top(p) = {"attrs"}
    BY MergeFacts
  <2>4. ASSUME NEW p \in Parses, answer'[p] # answer[p]
        PROVE  Merging(p) /\ answer'[p] = Top(p)
    BY <2>1, <2>4
  <2>5. Folds
    <3>1. next' \in Nat \ {0} /\ DOMAIN answer' = Parses
      BY <1>2, <2>1
    <3>2. QED
      BY <1>1, <2>1, <2>3, <2>4, <3>1 DEF Folds
  <2>6. QED
    BY <1>1, <1>2, <1>3, <2>1, <2>2, <2>4, <2>5 DEF o
<1>4. CASE ~(next <= Len(OverlaysOf("top", raw)))
  <2>1. at' = "done" /\ UNCHANGED <<next, answer>>
    BY <1>4 DEF MergeTop
  <2>2. Folds
    BY <1>1, <1>2, <2>1 DEF Folds
  <2>3. QED
    BY <1>1, <1>2, <2>1, <2>2
<1>5. QED
  BY <1>3, <1>4

\* It leaves trees as well, and never sets `nix`.
LEMMA MergeTopStep == ASSUME PInv, MergeTop PROVE PInv'
<1>1. Folds /\ Overlaid
  BY TopFold
<1>2. Shape /\ Validated
  BY <1>1 DEF PInv, Folds
<1>3. ASSUME NEW p \in Parses, answer'[p] # answer[p], Accepted(p)'
      PROVE  TreeOf(answer'[p])
  <2> DEFINE o == OverlaysOf("top", raw)[next]
             t == mergeNode(answer[p], Body(o))
  <2>1. /\ Merging(p) /\ next \in 1..Len(OverlaysOf("top", raw))
        /\ answer'[p] = t /\ t # Refused("merge")
    BY <1>3, TopFold, RefusalFacts DEF Accepted
  <2>2. /\ DOMAIN Body(o).attrs \subseteq touchedKeys("top")
        /\ DOMAIN Body(o).attrs \subseteq allowed("top")
    BY <1>1, <1>2, <2>1, MergingFacts, OverlaySets
  <2> HIDE DEF o
  <2>3. TreeOf(answer[p]) /\ DOMAIN answer[p] = {"attrs"}
    BY <1>1, <1>2, <2>1, MergingFacts
  <2>4. SameBut(t, Base(raw), touchedKeys("top") \cup {"nix"})
    BY <2>1, <2>2, <2>3, MergeSame DEF TreeOf
  <2>5. "nix" \notin DOMAIN Body(o).attrs
    BY <2>2 DEF allowed, topAllowed
  <2>6. /\ DOMAIN t = {"attrs"}
        /\ DOMAIN t.attrs = DOMAIN answer[p].attrs \cup DOMAIN Body(o).attrs
        /\ \A k \in DOMAIN answer[p].attrs \ DOMAIN Body(o).attrs :
             t.attrs[k] = answer[p].attrs[k]
    BY <2>1, MergeFacts
  <2> HIDE DEF t
  <2>7. /\ HasNix(t) <=> HasNix(answer[p])
        /\ HasNix(answer[p]) => t.attrs["nix"] = answer[p].attrs["nix"]
    BY <2>3, <2>5, <2>6 DEF HasNix, HasAttr, IsAttrs
  <2>8. TreeOf(t)
    BY <2>3, <2>4, <2>7 DEF TreeOf
  <2>9. QED
    BY <2>1, <2>8
<1>4. QED
  BY <1>1, <1>3, TreesKept

\* Every step keeps the invariant.
LEMMA PInductive == PInv /\ [Next]_vars => PInv'
<1>1. ASSUME PInv, UNCHANGED vars PROVE PInv'
  <2>1. raw' = raw /\ at' = at /\ next' = next /\ answer' = answer
    BY <1>1 DEF vars
  <2>2. /\ Overlaid' = Overlaid /\ Base(raw)' = Base(raw) /\ poisoned' = poisoned
        /\ \A level : touchedKeys(level)' = touchedKeys(level)
        /\ \A p : SelectorError(p)' <=> SelectorError(p)
        /\ \A p : CallGuards(p)' <=> CallGuards(p)
    BY <2>1, RawOnly
  <2>3. Shape' /\ Guarded'
    BY <1>1, <2>1, <2>2 DEF PInv, Shape, Guarded, Started, Accepted
  <2>4. Selectors'
    BY <1>1, <2>1, <2>2 DEF PInv, Selectors, Validated, Accepted
  <2>5. Trees'
    BY <1>1, <2>1, <2>2 DEF PInv, Trees, TreeOf, Validated, Accepted
  <2>6. QED
    BY <2>3, <2>4, <2>5 DEF PInv
<1>2. QED
  BY <1>1, CallStep, ValidateStep, MergeNixStep, CheckLibrariesStep, MergeTopStep
     DEF Next

\* Every reachable state of the parses satisfies the invariant.
THEOREM ParsesInvariant == Spec => []PInv
BY InitPInv, PInductive, PTL DEF Spec

-----------------------------------------------------------------------------
(* What the parses promise one another.                                    *)

\* Whatever the document holds, an argument that is not the triple of a target
\* is refused by the call itself.
THEOREM HandmadeRefused == Spec => []NoHandmadePlatform
<1>1. PInv => NoHandmadePlatform
  <2> SUFFICES ASSUME PInv, Started, NEW p \in Parses, ~Agnostic(p), Accepted(p)
               PROVE  /\ DOMAIN Arguments[p] = selectorKeys
                      /\ \E triple \in triples : PlatformOf(p) = triple
    BY DEF NoHandmadePlatform, Started
  <2>1. ValidArgument(Arguments[p])
    BY DEF PInv, Guarded, CallGuards
  <2>2. Arguments[p] # NoPlatform
    BY DEF Agnostic
  <2>3. /\ DOMAIN Arguments[p] = selectorKeys
        /\ [k \in selectorKeys |-> canon(k, Arguments[p][k])] \in triples
    BY <2>1, <2>2, Zenon DEF ValidArgument
  <2>4. PlatformOf(p) = [k \in selectorKeys |-> canon(k, Arguments[p][k])]
    BY <2>2, Zenon DEF PlatformOf
  <2>5. QED
    BY <2>3, <2>4, Zenon
<1>2. QED
  BY <1>1, ParsesInvariant, PTL

\* A mistake in a selector or in the shape of an overlay is refused by every
\* parse that the guards let through.
THEOREM SelectorsAgree == Spec => []SelectorsRefusedEverywhere
<1>1. PInv => SelectorsRefusedEverywhere
  <2> SUFFICES ASSUME PInv, NEW p \in Parses, NEW q \in Parses,
                      answer[p] = Refused("selector")
               PROVE  answer[q] \in {Refused("selector"), Refused("call")}
    BY DEF SelectorsRefusedEverywhere
  <2>1. Validated /\ Overlaid /\ SelectorError(p)
    BY DEF PInv, Selectors
  <2>2. SelectorError(q)
    BY <2>1, SelectorShared
  <2>3. QED
    BY <2>1, <2>2 DEF PInv, Selectors
<1>2. QED
  BY <1>1, ParsesInvariant, PTL

\* An overlay that passed validation sets fields of its own level only.
LEMMA TouchedAllowed ==
  ASSUME NEW level \in {"top", "nix"}, NEW p, ~SelectorError(p)
  PROVE  touchedKeys(level) \subseteq allowed(level)
<1>1. \A o \in ToSet(OverlaysOf(level, raw)) :
        DOMAIN Body(o).attrs \subseteq allowed(level)
  BY DEF SelectorError, LevelRefused, OverlayRefused
<1>2. QED
  BY <1>1 DEF touchedKeys

\* The answer of a tree to a top-level field.
LEMMA TopField ==
  ASSUME NEW v, NEW k, k # "nix"
  PROVE  FieldOf(v, <<k>>) = IF k \in DOMAIN v.attrs THEN v.attrs[k] ELSE Null
<1>1. /\ \A j : <<k>> # <<"nix", j>> /\ (<<k>> = <<j>> => j = k)
      /\ Len(<<k>>) = 1 /\ <<k>>[1] = k
  OBVIOUS
<1>2. <<k>> \in Fields(v) <=> k \in DOMAIN v.attrs
  BY <1>1 DEF Fields
<1>3. QED
  BY <1>1, <1>2 DEF FieldOf

\* Its answer to a field of `nix`.
LEMMA NixField ==
  ASSUME NEW v, NEW k
  PROVE  FieldOf(v, <<"nix", k>>) =
           IF HasNix(v) /\ k \in DOMAIN v.attrs["nix"].attrs
           THEN v.attrs["nix"].attrs[k] ELSE Null
<1>1. /\ \A j : <<"nix", k>> # <<j>> /\ (<<"nix", k>> = <<"nix", j>> => j = k)
      /\ Len(<<"nix", k>>) # 1 /\ <<"nix", k>>[2] = k
  OBVIOUS
<1>2. <<"nix", k>> \in Fields(v) <=> HasNix(v) /\ k \in DOMAIN v.attrs["nix"].attrs
  BY <1>1 DEF Fields, HasNix
<1>3. QED
  BY <1>1, <1>2 DEF FieldOf

\* A poisoned object answers poison for what some overlay sets, and what it
\* answered before for the rest.
LEMMA PoisonFacts ==
  ASSUME NEW v, NEW level
  PROVE  /\ IsAttrs(Poison(v, level))
         /\ DOMAIN Poison(v, level).attrs = DOMAIN v.attrs \cup touchedKeys(level)
         /\ \A k \in touchedKeys(level) : Poison(v, level).attrs[k] = poisonField
         /\ \A k \in DOMAIN v.attrs \ touchedKeys(level) :
              Poison(v, level).attrs[k] = v.attrs[k]
<1> DEFINE ks == touchedKeys(level)
           g == [k \in DOMAIN v.attrs \cup ks |->
                   IF k \in ks THEN poisonField ELSE v.attrs[k]]
<1>1. Poison(v, level) = Attrs(g)
  BY DEF Poison
<1>2. /\ DOMAIN g = DOMAIN v.attrs \cup ks
      /\ \A k \in ks : g[k] = poisonField
      /\ \A k \in DOMAIN v.attrs \ ks : g[k] = v.attrs[k]
  OBVIOUS
<1> HIDE DEF g
<1>3. Poison(v, level).attrs = g /\ IsAttrs(Poison(v, level))
  BY <1>1, RefusalFacts
<1>4. QED
  BY <1>2, <1>3

\* The whole poisoned tree, where no overlay of the top level sets `nix`.
LEMMA PoisonedFacts ==
  ASSUME DOMAIN raw = {"attrs"}, "nix" \notin touchedKeys("top")
  PROVE  /\ DOMAIN poisoned.attrs = DOMAIN Base(raw).attrs \cup touchedKeys("top")
         /\ \A k \in touchedKeys("top") : poisoned.attrs[k] = poisonField
         /\ \A k \in DOMAIN Base(raw).attrs \ (touchedKeys("top") \cup {"nix"}) :
              poisoned.attrs[k] = Base(raw).attrs[k]
         /\ HasNix(poisoned) <=> HasNix(Base(raw))
         /\ HasNix(poisoned) =>
              poisoned.attrs["nix"] = Poison(Base(raw).attrs["nix"], "nix")
<1> DEFINE base == Base(raw)
           nix == Poison(base.attrs["nix"], "nix")
           b == IF HasNix(base) THEN SetAttr(base, "nix", nix) ELSE base
<1>1. poisoned = Poison(b, "top")
  BY DEF poisoned, HasNix
<1>2. DOMAIN base = {"attrs"}
  BY BaseFacts
<1>3. IsAttrs(nix)
  BY PoisonFacts
<1> HIDE DEF base, nix
<1>4. /\ DOMAIN b.attrs = DOMAIN base.attrs
      /\ \A k \in DOMAIN base.attrs \ {"nix"} : b.attrs[k] = base.attrs[k]
      /\ HasNix(base) => b.attrs["nix"] = nix
      /\ ~HasNix(base) => b = base
  <2>1. CASE HasNix(base)
    BY <2>1, SetFacts DEF HasNix, HasAttr
  <2>2. CASE ~HasNix(base)
    BY <2>2
  <2>3. QED
    BY <2>1, <2>2
<1> HIDE DEF b
<1>5. /\ IsAttrs(poisoned)
      /\ DOMAIN poisoned.attrs = DOMAIN base.attrs \cup touchedKeys("top")
      /\ \A k \in touchedKeys("top") : poisoned.attrs[k] = poisonField
      /\ \A k \in DOMAIN base.attrs \ touchedKeys("top") :
           poisoned.attrs[k] = b.attrs[k]
  BY <1>1, <1>4, PoisonFacts
<1>6. HasNix(base) => HasNix(poisoned) /\ poisoned.attrs["nix"] = nix
  BY <1>3, <1>4, <1>5 DEF HasNix, HasAttr
<1>7. ~HasNix(base) => ~HasNix(poisoned)
  BY <1>2, <1>4, <1>5 DEF HasNix, HasAttr, IsAttrs
<1>8. QED
  BY <1>4, <1>5, <1>6, <1>7 DEF base, nix

\* The poisoned tree against the tree of a platform, field by field.
LEMMA PoisonAgrees ==
  ASSUME DOMAIN raw = {"attrs"}, "nix" \notin touchedKeys("top"),
         NEW v, TreeOf(v), NEW f \in Fields(poisoned) \cup Fields(v)
  PROVE  FieldOf(poisoned, f) \in {poisonField, FieldOf(v, f)}
<1> DEFINE base == Base(raw)
<1>1. \/ \E k : k # "nix" /\ f = <<k>>
      \/ \E k : f = <<"nix", k>>
  BY DEF Fields
<1>2. ASSUME NEW k, k # "nix"
      PROVE  FieldOf(poisoned, <<k>>) \in {poisonField, FieldOf(v, <<k>>)}
  <2>1. CASE k \in touchedKeys("top")
    BY <1>2, <2>1, PoisonedFacts, TopField
  <2>2. CASE k \notin touchedKeys("top")
    <3>1. /\ k \in DOMAIN v.attrs <=> k \in DOMAIN base.attrs
          /\ k \in DOMAIN v.attrs => v.attrs[k] = base.attrs[k]
      BY <1>2, <2>2 DEF TreeOf, SameBut
    <3>2. /\ k \in DOMAIN poisoned.attrs <=> k \in DOMAIN base.attrs
          /\ k \in DOMAIN poisoned.attrs => poisoned.attrs[k] = base.attrs[k]
      BY <1>2, <2>2, PoisonedFacts
    <3> HIDE DEF base
    <3>3. QED
      BY <1>2, <3>1, <3>2, TopField
  <2>3. QED
    BY <2>1, <2>2
<1>3. ASSUME NEW k
      PROVE  FieldOf(poisoned, <<"nix", k>>) \in {poisonField, FieldOf(v, <<"nix", k>>)}
  <2>1. (HasNix(poisoned) <=> HasNix(base)) /\ (HasNix(v) <=> HasNix(base))
    BY PoisonedFacts DEF TreeOf
  <2>2. CASE ~HasNix(base)
    BY <2>1, <2>2, NixField
  <2>3. CASE HasNix(base)
    <3> DEFINE pn == poisoned.attrs["nix"]
               vn == v.attrs["nix"]
               bn == base.attrs["nix"]
    <3>1. pn = Poison(bn, "nix")
      BY <2>1, <2>3, PoisonedFacts
    <3>2. SameBut(vn, bn, touchedKeys("nix"))
      BY <2>1, <2>3 DEF TreeOf
    <3>3. /\ FieldOf(v, <<"nix", k>>) = IF k \in DOMAIN vn.attrs THEN vn.attrs[k] ELSE Null
          /\ FieldOf(poisoned, <<"nix", k>>) =
               IF k \in DOMAIN pn.attrs THEN pn.attrs[k] ELSE Null
      BY <2>1, <2>3, NixField
    <3> HIDE DEF pn, vn, bn
    <3>4. CASE k \in touchedKeys("nix")
      BY <3>1, <3>3, <3>4, PoisonFacts
    <3>5. CASE k \notin touchedKeys("nix")
      <4>1. /\ k \in DOMAIN vn.attrs <=> k \in DOMAIN bn.attrs
            /\ k \in DOMAIN vn.attrs => vn.attrs[k] = bn.attrs[k]
        BY <3>2, <3>5 DEF SameBut
      <4>2. /\ k \in DOMAIN pn.attrs <=> k \in DOMAIN bn.attrs
            /\ k \in DOMAIN pn.attrs => pn.attrs[k] = bn.attrs[k]
        BY <3>1, <3>5, PoisonFacts
      <4>3. QED
        BY <3>3, <4>1, <4>2
    <3>6. QED
      BY <3>4, <3>5
  <2>4. QED
    BY <2>2, <2>3
<1>4. QED
  BY <1>1, <1>2, <1>3

\* What a parse with no platform does answer, the parse of every accepted
\* target answers the same.
THEOREM AgnosticAgrees == Spec => []AgnosticAnswersAgree
<1>1. PInv => AgnosticAnswersAgree
  <2> SUFFICES ASSUME PInv, at = "done", NEW n \in Parses, NEW p \in Parses,
                      Agnostic(n), Accepted(n), Accepted(p),
                      NEW f \in Fields(answer[n]) \cup Fields(answer[p])
               PROVE  FieldOf(answer[n], f) \in {poisonField, FieldOf(answer[p], f)}
    BY DEF AgnosticAnswersAgree
  <2>1. Validated
    BY DEF Validated
  <2>2. CASE ~Overlaid
    <3>1. answer[n] = raw /\ answer[p] = raw
      BY <2>2 DEF PInv, Trees
    <3>2. QED
      BY <3>1
  <2>3. CASE Overlaid
    <3>1. answer[n] = poisoned
      BY <2>1, <2>3 DEF PInv, Trees
    <3>2. CASE Agnostic(p)
      <4>1. answer[p] = poisoned
        BY <2>1, <2>3, <3>2 DEF PInv, Trees
      <4>2. QED
        BY <3>1, <4>1
    <3>3. CASE ~Agnostic(p)
      <4>1. TreeOf(answer[p])
        BY <2>1, <2>3, <3>3 DEF PInv, Trees
      <4>2. answer[n] \notin {Refused("call"), Refused("selector")}
        BY RefusalFacts DEF Accepted
      <4>3. ~SelectorError(n)
        BY <2>1, <2>3, <4>2 DEF PInv, Selectors
      <4>4. "nix" \notin touchedKeys("top")
        BY <4>3, TouchedAllowed DEF allowed, topAllowed
      <4>5. QED
        BY <3>1, <4>1, <4>4, PoisonAgrees DEF PInv, Shape
    <3>4. QED
      BY <3>2, <3>3
  <2>4. QED
    BY <2>2, <2>3
<1>2. QED
  BY <1>1, ParsesInvariant, PTL

-----------------------------------------------------------------------------
(* What a merge makes of tidy values.                                      *)

FieldsTidy(v) == \A k \in DOMAIN v.attrs : Tidy(v.attrs[k])
RefusedOrTidy(v) == IsRefused(v) \/ Tidy(v)

\* The fields of an object, those under the keys ks apart: of these nothing is
\* known but that they are values.
TidyBut(v, ks) ==
  \A k \in DOMAIN v.attrs : IF k \in ks THEN Plain(v.attrs[k]) ELSE Tidy(v.attrs[k])

\* Tidy fields are values, and no value is a refusal.
LEMMA ButFields ==
  ASSUME NEW v, NEW ks
  PROVE  /\ FieldsTidy(v) => TidyBut(v, ks)
         /\ TidyBut(v, {}) => FieldsTidy(v)
         /\ \A x : Plain(x) => ~IsRefused(x)
<1>1. \A x : Tidy(x) => Plain(x)
  BY TidyParts DEF Neat
<1>2. \A x : Plain(x) => ~IsRefused(x)
  BY DEF Plain, IsRefused, Values, JsonTypes
<1>3. QED
  BY <1>1, <1>2 DEF FieldsTidy, TidyBut

\* A tidy object has tidy fields and none of the keys of an overlay list.
LEMMA TidyObject ==
  ASSUME NEW v, IsAttrs(v)
  PROVE  Tidy(v) <=> /\ DOMAIN v = {"attrs"}
                     /\ DOMAIN v.attrs \cap Bad = {}
                     /\ FieldsTidy(v)
<1>1. Parts(v) = {v.attrs[k] : k \in DOMAIN v.attrs}
  BY DEF Parts
<1>2. (\A x \in Parts(v) : Tidy(x)) <=> FieldsTidy(v)
  BY <1>1 DEF FieldsTidy
<1>3. Neat(v) => DOMAIN v = {"attrs"}
  BY DEF Neat, Plain, IsAttrs
<1>4. DOMAIN v = {"attrs"} => ~IsList(v) /\ Plain(v)
  BY DEF IsList, Plain, Values, JsonTypes
<1>5. Neat(v) <=> DOMAIN v = {"attrs"} /\ DOMAIN v.attrs \cap Bad = {}
  BY <1>3, <1>4 DEF Neat
<1>6. QED
  BY <1>2, <1>5, TidyParts

\* Null is tidy.
LEMMA NullTidy == Tidy(Null)
<1>1. DOMAIN Null = {"null"}
  BY DEF Null
<1>2. Parts(Null) = {} /\ Neat(Null)
  BY <1>1 DEF Parts, IsAttrs, IsList, Neat, Plain, Values, JsonTypes
<1>3. QED
  BY <1>2, TidyParts

\* Two tidy lists, one after the other.
LEMMA ListsTidy ==
  ASSUME NEW a, NEW b, IsList(a), IsList(b), Tidy(a), Tidy(b)
  PROVE  Tidy(Arr(a.list \o b.list))
<1> DEFINE c == a.list \o b.list
<1>1. /\ a.list \in Seq(ToSet(a.list)) /\ b.list \in Seq(ToSet(b.list))
      /\ ~IsAttrs(a) /\ ~IsAttrs(b)
  <2>1. Neat(a) /\ Neat(b)
    BY TidyParts
  <2>2. ASSUME NEW x, Neat(x), IsList(x) PROVE ~IsAttrs(x) /\ x.list \in Seq(ToSet(x.list))
    <3>1. DOMAIN x = {"list"}
      BY <2>2 DEF Neat, Plain, IsList
    <3>2. QED
      BY <2>2, <3>1 DEF Neat, Plain, IsAttrs
  <2>3. QED
    BY <2>1, <2>2
<1>2. /\ Parts(a) = ToSet(a.list) /\ Parts(b) = ToSet(b.list)
  BY <1>1 DEF Parts
<1>3. c \in Seq(ToSet(a.list) \cup ToSet(b.list))
  <2>1. /\ a.list \in Seq(ToSet(a.list) \cup ToSet(b.list))
        /\ b.list \in Seq(ToSet(a.list) \cup ToSet(b.list))
    BY <1>1
  <2>2. QED
    BY <2>1
<1> HIDE DEF c
<1>4. c \in Seq(ToSet(c)) /\ ToSet(c) \subseteq ToSet(a.list) \cup ToSet(b.list)
  BY <1>3 DEF ToSet
<1>5. DOMAIN Arr(c) = {"list"} /\ Arr(c).list = c
  BY DEF Arr
<1>6. Parts(Arr(c)) = ToSet(c) /\ Neat(Arr(c))
  BY <1>4, <1>5 DEF Parts, IsAttrs, IsList, Neat, Plain, Values, JsonTypes
<1>7. \A x \in Parts(Arr(c)) : Tidy(x)
  BY <1>2, <1>4, <1>6, TidyParts
<1>8. QED
  BY <1>6, <1>7, TidyParts DEF c

\* The merge of two tidy values is refused or tidy, if it is where both are objects.
LEMMA MergedTidy ==
  ASSUME NEW av, NEW bv, NEW below, Tidy(av), Tidy(bv),
         IsAttrs(av) /\ IsAttrs(bv) => RefusedOrTidy(below)
  PROVE  RefusedOrTidy(MergedValue(av, bv, below))
<1>1. RefusedOrTidy(Refused("merge"))
  BY RefusalFacts DEF RefusedOrTidy
<1>2. CASE DOMAIN av = DOMAIN bv /\ bv # Null /\ av # Null
  <2>1. (IsAttrs(av) <=> IsAttrs(bv)) /\ (IsList(av) <=> IsList(bv))
    BY <1>2 DEF IsAttrs, IsList
  <2>2. IsList(av) => MergedValue(av, bv, below) = Arr(av.list \o bv.list)
    BY <1>2 DEF MergedValue
  <2>3. ~IsList(av) => MergedValue(av, bv, below) = IF IsAttrs(av) THEN below ELSE bv
    BY <1>2 DEF MergedValue
  <2>4. QED
    BY <2>1, <2>2, <2>3, ListsTidy DEF RefusedOrTidy
<1>3. CASE ~(DOMAIN av = DOMAIN bv /\ bv # Null /\ av # Null)
  <2>1. MergedValue(av, bv, below) = Refused("merge") \/ MergedValue(av, bv, below) = bv
    BY <1>3 DEF MergedValue
  <2>2. QED
    BY <1>1, <2>1 DEF RefusedOrTidy
<1>4. QED
  BY <1>2, <1>3

\* What is refused or an object with the fields of both, all of them tidy.
MergedOf(m, a, b) ==
  \/ m = Refused("merge")
  \/ DOMAIN m = {"attrs"} /\ DOMAIN m.attrs = DOMAIN a.attrs \cup DOMAIN b.attrs
     /\ FieldsTidy(m)

\* The same of a merge that leaves the fields under ks alone.
MergedBut(m, a, b, ks) ==
  \/ m = Refused("merge")
  \/ DOMAIN m = {"attrs"} /\ DOMAIN m.attrs = DOMAIN a.attrs \cup DOMAIN b.attrs
     /\ TidyBut(m, ks)

\* One level of a merge, the values under it given by a function.
LEMMA LevelTidy ==
  ASSUME NEW a, NEW b, NEW ks, TidyBut(a, ks), FieldsTidy(b), IsAttrs(a), NEW below,
         ks \cap DOMAIN b.attrs = {},
         \A k \in DOMAIN b.attrs :
           IsAttrs(AttrOr(a, k, Null)) /\ IsAttrs(b.attrs[k]) => RefusedOrTidy(below[k]),
         NEW g,
         g = [k \in DOMAIN a.attrs \cup DOMAIN b.attrs |->
                IF k \notin DOMAIN b.attrs THEN a.attrs[k]
                ELSE MergedValue(AttrOr(a, k, Null), b.attrs[k], below[k])]
  PROVE  MergedBut(Forced(Attrs(g)), a, b, ks)
<1>1. \A k : k \notin ks => Tidy(AttrOr(a, k, Null))
  BY NullTidy DEF AttrOr, HasAttr, TidyBut
<1>2. ASSUME NEW k \in DOMAIN g
      PROVE  IF k \in ks THEN Plain(g[k]) ELSE RefusedOrTidy(g[k])
  <2>1. CASE k \notin DOMAIN b.attrs
    BY <1>2, <2>1 DEF TidyBut, RefusedOrTidy
  <2>2. CASE k \in DOMAIN b.attrs
    <3>1. g[k] = MergedValue(AttrOr(a, k, Null), b.attrs[k], below[k])
      BY <1>2, <2>2
    <3>2. Tidy(b.attrs[k])
      BY <2>2 DEF FieldsTidy
    <3>3. RefusedOrTidy(MergedValue(AttrOr(a, k, Null), b.attrs[k], below[k]))
      BY <1>1, <2>2, <3>2, MergedTidy
    <3>4. QED
      BY <2>2, <3>1, <3>3
  <2>3. QED
    BY <2>1, <2>2
<1>3. DOMAIN g = DOMAIN a.attrs \cup DOMAIN b.attrs
  OBVIOUS
<1>4. DOMAIN Attrs(g) = {"attrs"} /\ Attrs(g).attrs = g
  BY RefusalFacts
<1>5. Forced(Attrs(g)) = IF \E k \in DOMAIN g : IsRefused(g[k])
                         THEN Refused("merge") ELSE Attrs(g)
  BY <1>4, Zenon DEF Forced
<1>6. CASE \E k \in DOMAIN g : IsRefused(g[k])
  BY <1>5, <1>6 DEF MergedBut
<1>7. CASE ~ \E k \in DOMAIN g : IsRefused(g[k])
  <2>1. TidyBut(Attrs(g), ks)
    BY <1>2, <1>4, <1>7 DEF TidyBut, RefusedOrTidy
  <2>2. Forced(Attrs(g)) = Attrs(g)
    BY <1>5, <1>7
  <2>3. QED
    BY <1>3, <1>4, <2>1, <2>2 DEF MergedBut
<1>8. QED
  BY <1>6, <1>7

\* The innermost level,
LEMMA LastTidy ==
  ASSUME NEW a, NEW b, FieldsTidy(a), FieldsTidy(b), IsAttrs(a)
  PROVE  MergedOf(MergeLast(a, b), a, b)
<1> DEFINE below == [k \in DOMAIN b.attrs |-> Refused("depth")]
           g == [k \in DOMAIN a.attrs \cup DOMAIN b.attrs |->
                   IF k \notin DOMAIN b.attrs THEN a.attrs[k]
                   ELSE MergedValue(AttrOr(a, k, Null), b.attrs[k], below[k])]
           h == [k \in DOMAIN a.attrs \cup DOMAIN b.attrs |->
                   IF k \notin DOMAIN b.attrs THEN a.attrs[k]
                   ELSE MergedValue(AttrOr(a, k, Null), b.attrs[k], Refused("depth"))]
<1>1. \A k \in DOMAIN b.attrs : below[k] = Refused("depth")
  OBVIOUS
<1>2. MergeLast(a, b) = Forced(Attrs(h))
  BY Zenon DEF MergeLast, MergeAttrs
<1>3. h = g
  BY <1>1
<1>4. \A k \in DOMAIN b.attrs : RefusedOrTidy(below[k])
  BY <1>1, RefusalFacts DEF RefusedOrTidy
<1> HIDE DEF below, h
<1>5. MergedBut(Forced(Attrs(g)), a, b, {})
  BY <1>4, LevelTidy, ButFields
<1>6. QED
  BY <1>2, <1>3, <1>5, ButFields DEF MergedOf, MergedBut

\* Two tidy objects merged are refused or a tidy object.
LEMMA MergedOfTidy ==
  ASSUME NEW m, NEW a, NEW b, MergedOf(m, a, b),
         IsAttrs(a), IsAttrs(b), Tidy(a), Tidy(b)
  PROVE  RefusedOrTidy(m)
<1>1. DOMAIN a.attrs \cap Bad = {} /\ DOMAIN b.attrs \cap Bad = {}
  BY TidyObject
<1>2. CASE m = Refused("merge")
  BY <1>2, RefusalFacts DEF RefusedOrTidy
<1>3. CASE m # Refused("merge")
  <2>1. DOMAIN m = {"attrs"} /\ DOMAIN m.attrs = DOMAIN a.attrs \cup DOMAIN b.attrs
        /\ FieldsTidy(m)
    BY <1>3 DEF MergedOf
  <2>2. Tidy(m)
    BY <1>1, <2>1, TidyObject DEF IsAttrs
  <2>3. QED
    BY <2>2 DEF RefusedOrTidy
<1>4. QED
  BY <1>2, <1>3

\* the one above it,
LEMMA BelowTidy ==
  ASSUME NEW a, NEW b, FieldsTidy(a), FieldsTidy(b), IsAttrs(a)
  PROVE  MergedOf(MergeBelow(a, b), a, b)
<1> DEFINE below == [k \in DOMAIN b.attrs |-> MergeLast(AttrOr(a, k, Null), b.attrs[k])]
           g == [k \in DOMAIN a.attrs \cup DOMAIN b.attrs |->
                   IF k \notin DOMAIN b.attrs THEN a.attrs[k]
                   ELSE MergedValue(AttrOr(a, k, Null), b.attrs[k], below[k])]
           h == [k \in DOMAIN a.attrs \cup DOMAIN b.attrs |->
                   IF k \notin DOMAIN b.attrs THEN a.attrs[k]
                   ELSE LET av == AttrOr(a, k, Null)
                        IN  MergedValue(av, b.attrs[k], MergeLast(av, b.attrs[k]))]
<1>1. \A k \in DOMAIN b.attrs : below[k] = MergeLast(AttrOr(a, k, Null), b.attrs[k])
  OBVIOUS
<1>2. MergeBelow(a, b) = Forced(Attrs(h))
  BY Zenon DEF MergeBelow, MergeAttrs
<1>3. h = g
  BY <1>1
<1> HIDE DEF below, h
<1>4. ASSUME NEW k \in DOMAIN b.attrs, IsAttrs(AttrOr(a, k, Null)), IsAttrs(b.attrs[k])
      PROVE  RefusedOrTidy(below[k])
  <2> DEFINE x == AttrOr(a, k, Null)
             y == b.attrs[k]
  <2>1. Tidy(x) /\ Tidy(y)
    BY NullTidy DEF AttrOr, HasAttr, FieldsTidy
  <2>2. IsAttrs(x) /\ IsAttrs(y) /\ below[k] = MergeLast(x, y)
    BY <1>1, <1>4
  <2> HIDE DEF x, y
  <2>3. FieldsTidy(x) /\ FieldsTidy(y)
    BY <2>1, <2>2, TidyObject
  <2>4. MergedOf(MergeLast(x, y), x, y)
    BY <2>2, <2>3, LastTidy
  <2>5. QED
    BY <2>1, <2>2, <2>4, MergedOfTidy
<1>5. MergedBut(Forced(Attrs(g)), a, b, {})
  BY <1>4, LevelTidy, ButFields
<1>6. QED
  BY <1>2, <1>3, <1>5, ButFields DEF MergedOf, MergedBut

\* and the merge of an overlay.
LEMMA NodeTidy ==
  ASSUME NEW a, NEW b, NEW ks, TidyBut(a, ks), FieldsTidy(b), IsAttrs(a),
         ks \cap DOMAIN b.attrs = {}
  PROVE  MergedBut(mergeNode(a, b), a, b, ks)
<1> DEFINE below == [k \in DOMAIN b.attrs |-> MergeBelow(AttrOr(a, k, Null), b.attrs[k])]
           g == [k \in DOMAIN a.attrs \cup DOMAIN b.attrs |->
                   IF k \notin DOMAIN b.attrs THEN a.attrs[k]
                   ELSE MergedValue(AttrOr(a, k, Null), b.attrs[k], below[k])]
           h == [k \in DOMAIN a.attrs \cup DOMAIN b.attrs |->
                   IF k \notin DOMAIN b.attrs THEN a.attrs[k]
                   ELSE LET av == AttrOr(a, k, Null)
                        IN  MergedValue(av, b.attrs[k], MergeBelow(av, b.attrs[k]))]
<1>1. \A k \in DOMAIN b.attrs : below[k] = MergeBelow(AttrOr(a, k, Null), b.attrs[k])
  OBVIOUS
<1>2. mergeNode(a, b) = Forced(Attrs(h))
  BY Zenon DEF mergeNode, MergeAttrs
<1>3. h = g
  BY <1>1
<1> HIDE DEF below, h
<1>4. ASSUME NEW k \in DOMAIN b.attrs, IsAttrs(AttrOr(a, k, Null)), IsAttrs(b.attrs[k])
      PROVE  RefusedOrTidy(below[k])
  <2> DEFINE x == AttrOr(a, k, Null)
             y == b.attrs[k]
  <2>1. Tidy(x) /\ Tidy(y)
    BY <1>4, NullTidy DEF AttrOr, HasAttr, FieldsTidy, TidyBut
  <2>2. IsAttrs(x) /\ IsAttrs(y) /\ below[k] = MergeBelow(x, y)
    BY <1>1, <1>4
  <2> HIDE DEF x, y
  <2>3. FieldsTidy(x) /\ FieldsTidy(y)
    BY <2>1, <2>2, TidyObject
  <2>4. MergedOf(MergeBelow(x, y), x, y)
    BY <2>2, <2>3, BelowTidy
  <2>5. QED
    BY <2>1, <2>2, <2>4, MergedOfTidy
<1>5. MergedBut(Forced(Attrs(g)), a, b, ks)
  BY <1>4, LevelTidy
<1>6. QED
  BY <1>2, <1>3, <1>5

-----------------------------------------------------------------------------
(* The contents of an answer.                                              *)

\* A tree with a marker or without, and no overlay list anywhere in it but
\* under an empty key.
TidyTree(v) ==
  /\ DOMAIN v = {"attrs"}
  /\ DOMAIN v.attrs \cap Bad \subseteq {"platform"}
  /\ TidyBut(v, {""})

Contents ==
  /\ next \in 1..(IF at = "nix" THEN Len(OverlaysOf("nix", raw)) + 1
                  ELSE IF at \in {"top", "done"} THEN Len(OverlaysOf("top", raw)) + 1
                  ELSE 1)
  /\ \A p \in Parses : ~Accepted(p) =>
       answer[p].refused \in {"call", "selector", "merge", "libraries"}
  /\ Validated /\ Overlaid => \A p \in Parses : Accepted(p) => TidyTree(answer[p])

\* An overlay of a document that the sweep passed is tidy, if it is an object.
LEMMA OverlayTidy ==
  ASSUME NEW doc \in Documents, Misplaced(doc) = {}, NEW level \in {"top", "nix"},
         NEW o \in ToSet(OverlaysOf(level, doc))
  PROVE  Tidy(o)
<1> DEFINE list == Declared(level, doc)
<1>1. IsList(list) /\ o \in ToSet(list.list)
  BY DEF OverlaysOf, ToSet
<1>2. list # Arr(<<>>)
  <2>1. ToSet(<<>>) = {}
    BY DEF ToSet
  <2>2. Arr(<<>>).list = <<>>
    BY DEF Arr
  <2>3. QED
    BY <1>1, <2>1, <2>2
<1>3. Tidy(list)
  <2>1. list = IF HasAttr(NodeAt(level, doc), "platforms")
               THEN NodeAt(level, doc).attrs["platforms"] ELSE Arr(<<>>)
    BY DEF Declared, AttrOr
  <2>2. HasAttr(NodeAt(level, doc), "platforms")
    BY <1>2, <2>1
  <2>3. CASE level = "top"
    <3>1. NodeAt(level, doc) = doc /\ "platforms" \in DOMAIN doc.attrs
      BY <2>2, <2>3 DEF NodeAt, HasAttr
    <3>2. QED
      BY <2>1, <2>2, <3>1, SweptDocument
  <2>4. CASE level = "nix"
    <3>1. ~HasNix(doc) => NodeAt(level, doc) = Attrs(<<>>)
      BY <2>4 DEF NodeAt, HasNix
    <3>2. "platforms" \notin DOMAIN Attrs(<<>>).attrs
      BY DEF Attrs
    <3>3. HasNix(doc)
      BY <2>2, <3>1, <3>2 DEF HasAttr
    <3>4. NodeAt(level, doc) = doc.attrs["nix"]
      BY <2>4, <3>3 DEF NodeAt, HasNix
    <3>5. QED
      BY <2>1, <2>2, <3>3, <3>4, SweptDocument DEF HasAttr
  <2>5. QED
    BY <2>3, <2>4
<1> HIDE DEF list
<1>4. DOMAIN list = {"list"}
  BY <1>1, <1>3, TidyParts DEF Neat, Plain, IsList
<1>5. Parts(list) = ToSet(list.list)
  BY <1>4 DEF Parts, IsAttrs, IsList
<1>6. QED
  BY <1>1, <1>3, <1>5, TidyParts

\* Its body sets tidy fields.
LEMMA BodyTidy ==
  ASSUME NEW o, Tidy(o), IsAttrs(o)
  PROVE  /\ DOMAIN Body(o) = {"attrs"} /\ DOMAIN Body(o).attrs \cap Bad = {}
         /\ FieldsTidy(Body(o))
<1>1. DOMAIN o.attrs \cap Bad = {} /\ FieldsTidy(o)
  BY TidyObject
<1> DEFINE f == [k \in DOMAIN o.attrs \ {"when"} |-> o.attrs[k]]
<1>2. Body(o) = Attrs(f)
  BY DEF Body, RemoveAttrs
<1>3. DOMAIN Attrs(f) = {"attrs"} /\ Attrs(f).attrs = f
  BY RefusalFacts
<1>4. QED
  BY <1>1, <1>2, <1>3 DEF FieldsTidy

\* The base of a document that the sweep passed.
LEMMA BaseTidy ==
  ASSUME NEW doc \in Documents, Misplaced(doc) = {}
  PROVE  TidyTree(Base(doc))
<1> DEFINE f == [k \in DOMAIN doc.attrs \ {"platforms"} |-> doc.attrs[k]]
           top == Attrs(f)
           g == [k \in DOMAIN top.attrs["nix"].attrs \ {"platforms"} |->
                   top.attrs["nix"].attrs[k]]
           nix == Attrs(g)
<1>1. DOMAIN top = {"attrs"} /\ top.attrs = f /\ DOMAIN nix = {"attrs"} /\ nix.attrs = g
  BY RefusalFacts
<1>2. Base(doc) = IF HasNix(top) THEN SetAttr(top, "nix", nix) ELSE top
  BY DEF Base, HasNix, RemoveAttrs
<1>3. /\ DOMAIN f = DOMAIN doc.attrs \ {"platforms"}
      /\ \A k \in DOMAIN f : f[k] = doc.attrs[k]
  OBVIOUS
<1>4. HasNix(top) <=> HasNix(doc)
  BY <1>1, <1>3, SweptDocument DEF HasNix, HasAttr, IsAttrs
<1>5. DOMAIN top.attrs \cap Bad \subseteq {"platform"}
  BY <1>1, <1>3, SweptDocument
<1>6. CASE ~HasNix(top)
  <2>1. TidyBut(top, {""})
    BY <1>1, <1>3, <1>4, <1>6, SweptDocument DEF TidyBut
  <2>2. QED
    BY <1>1, <1>2, <1>5, <1>6, <2>1 DEF TidyTree
<1>7. CASE HasNix(top)
  <2> DEFINE dn == doc.attrs["nix"]
  <2>1. top.attrs["nix"] = dn /\ "nix" \in DOMAIN f
    BY <1>1, <1>3, <1>7 DEF HasNix, HasAttr
  <2>2. DOMAIN g = DOMAIN dn.attrs \ {"platforms"} /\ \A k \in DOMAIN g : g[k] = dn.attrs[k]
    BY <2>1
  <2>3. DOMAIN dn.attrs \cap Bad \subseteq {"platforms"}
        /\ \A k \in DOMAIN dn.attrs : Tidy(dn.attrs[k])
    BY <1>4, <1>7, SweptDocument
  <2>4. DOMAIN nix.attrs \cap Bad = {} /\ FieldsTidy(nix)
    BY <1>1, <2>2, <2>3 DEF FieldsTidy
  <2>5. Tidy(nix)
    BY <1>1, <2>4, TidyObject DEF IsAttrs
  <2> HIDE DEF f, g, nix, top
  <2>6. /\ DOMAIN SetAttr(top, "nix", nix) = {"attrs"}
        /\ DOMAIN SetAttr(top, "nix", nix).attrs = DOMAIN top.attrs \cup {"nix"}
        /\ SetAttr(top, "nix", nix).attrs["nix"] = nix
        /\ \A j \in DOMAIN top.attrs : j # "nix" =>
             SetAttr(top, "nix", nix).attrs[j] = top.attrs[j]
    BY SetFacts
  <2>7. DOMAIN SetAttr(top, "nix", nix).attrs \cap Bad \subseteq {"platform"}
    BY <1>1, <1>5, <2>1, <2>6
  <2>8. TidyBut(SetAttr(top, "nix", nix), {""})
    BY <1>1, <1>3, <2>1, <2>5, <2>6, SweptDocument DEF TidyBut
  <2>9. QED
    BY <1>2, <1>7, <2>6, <2>7, <2>8 DEF TidyTree
<1>8. QED
  BY <1>6, <1>7

\* The names a tree may take a field under.
Settable(k) == k \notin Bad /\ k # ""

\* A tidy field set in a tidy tree.
LEMMA SetTidy ==
  ASSUME NEW v, NEW k, NEW x, TidyTree(v), Tidy(x), Settable(k)
  PROVE  TidyTree(SetAttr(v, k, x))
<1> DEFINE w == SetAttr(v, k, x)
<1>1. /\ DOMAIN w = {"attrs"} /\ DOMAIN w.attrs = DOMAIN v.attrs \cup {k}
      /\ w.attrs[k] = x
      /\ \A j \in DOMAIN v.attrs : j # k => w.attrs[j] = v.attrs[j]
  BY SetFacts
<1> HIDE DEF w
<1>2. TidyBut(w, {""})
  BY <1>1 DEF TidyTree, TidyBut, Settable
<1>3. TidyTree(w)
  BY <1>1, <1>2 DEF TidyTree, Settable
<1>4. QED
  BY <1>3 DEF w

\* Poison is tidy.
LEMMA PoisonTidy ==
  ASSUME NEW v, NEW level, NEW ks, TidyBut(v, ks), touchedKeys(level) \cap Bad = {}
  PROVE  /\ DOMAIN Poison(v, level) = {"attrs"}
         /\ DOMAIN Poison(v, level).attrs \cap Bad = DOMAIN v.attrs \cap Bad
         /\ TidyBut(Poison(v, level), ks)
<1>1. Tidy(poisonField) /\ Plain(poisonField)
  <2>1. DOMAIN poisonField = {"poisoned"}
    BY DEF poisonField
  <2>2. Parts(poisonField) = {} /\ Neat(poisonField)
    BY <2>1 DEF Parts, IsAttrs, IsList, Neat, Plain, Values
  <2>3. QED
    BY <2>2, TidyParts DEF Neat
<1>2. DOMAIN Poison(v, level) = {"attrs"}
  BY RefusalFacts, Zenon DEF Poison
<1>3. /\ DOMAIN Poison(v, level).attrs = DOMAIN v.attrs \cup touchedKeys(level)
      /\ \A k \in touchedKeys(level) : Poison(v, level).attrs[k] = poisonField
      /\ \A k \in DOMAIN v.attrs \ touchedKeys(level) :
           Poison(v, level).attrs[k] = v.attrs[k]
  BY PoisonFacts
<1>4. TidyBut(Poison(v, level), ks)
  BY <1>1, <1>3 DEF TidyBut
<1>5. QED
  BY <1>2, <1>3, <1>4

\* A level may set none of the keys of an overlay list.
LEMMA AllowedKeys ==
  /\ \A level \in {"top", "nix"} : allowed(level) \cap Bad = {} /\ "" \notin allowed(level)
  /\ "nix" \notin Bad
BY DEF allowed, topAllowed, nixAllowed, Bad, platformsNearMisses

\* The tree of a parse with no platform is tidy.
LEMMA PoisonedTidy ==
  ASSUME raw \in Documents, Misplaced(raw) = {},
         \A level \in {"top", "nix"} : touchedKeys(level) \cap Bad = {}
  PROVE  TidyTree(poisoned)
<1> DEFINE base == Base(raw)
           nix == Poison(base.attrs["nix"], "nix")
           b == IF HasNix(base) THEN SetAttr(base, "nix", nix) ELSE base
<1>1. poisoned = Poison(b, "top")
  BY DEF poisoned, HasNix
<1>2. TidyTree(base)
  BY BaseTidy
<1> HIDE DEF base
<1>3. TidyTree(b)
  <2>1. CASE HasNix(base)
    <3>1. Tidy(base.attrs["nix"]) /\ IsAttrs(base.attrs["nix"])
      BY <1>2, <2>1 DEF HasNix, HasAttr, TidyTree, TidyBut
    <3>2. FieldsTidy(base.attrs["nix"]) /\ DOMAIN base.attrs["nix"].attrs \cap Bad = {}
      BY <3>1, TidyObject
    <3>3. DOMAIN nix = {"attrs"} /\ DOMAIN nix.attrs \cap Bad = {} /\ FieldsTidy(nix)
      BY <3>2, PoisonTidy, ButFields
    <3>4. Tidy(nix)
      BY <3>3, TidyObject DEF IsAttrs
    <3>5. QED
      BY <1>2, <2>1, <3>4, SetTidy, AllowedKeys DEF Settable
  <2>2. CASE ~HasNix(base)
    BY <1>2, <2>2
  <2>3. QED
    BY <2>1, <2>2
<1> HIDE DEF b
<1>4. TidyBut(b, {""}) /\ DOMAIN b.attrs \cap Bad \subseteq {"platform"}
  BY <1>3 DEF TidyTree
<1>5. QED
  BY <1>1, <1>4, PoisonTidy DEF TidyTree

\* The body of an overlay that some parse has passed.
LEMMA PassedBody ==
  ASSUME raw \in Documents, Misplaced(raw) = {}, NEW level \in {"top", "nix"}, NEW p,
         ~SelectorError(p), NEW o \in ToSet(OverlaysOf(level, raw))
  PROVE  /\ DOMAIN Body(o) = {"attrs"} /\ DOMAIN Body(o).attrs \cap Bad = {}
         /\ FieldsTidy(Body(o))
<1>1. IsAttrs(o)
  BY DEF SelectorError, LevelRefused, OverlayRefused, HasAttr
<1>2. QED
  BY <1>1, OverlayTidy, BodyTidy

\* No overlay sets such a key at its own level.
LEMMA TouchedKeys ==
  ASSUME NEW p, ~SelectorError(p), NEW level \in {"top", "nix"}
  PROVE  touchedKeys(level) \cap Bad = {}
BY TouchedAllowed, AllowedKeys

\* What the contents of a parse in a fold rest on.
LEMMA MergingTidy ==
  ASSUME PInv, Contents, Validated, Overlaid, NEW p \in Parses, Merging(p),
         NEW level \in {"top", "nix"}, NEW i \in 1..Len(OverlaysOf(level, raw))
  PROVE  LET b == Body(OverlaysOf(level, raw)[i])
         IN  /\ DOMAIN b.attrs \cap Bad = {} /\ DOMAIN b = {"attrs"} /\ FieldsTidy(b)
             /\ "" \notin DOMAIN b.attrs
             /\ TidyTree(answer[p])
<1>1. ~SelectorError(p) /\ Accepted(p)
  BY MergingFacts DEF Merging
<1>2. raw \in Documents /\ Misplaced(raw) = {}
  BY <1>1 DEF PInv, Shape, Guarded, Started, Validated, CallGuards
<1>3. OverlaysOf(level, raw) \in Seq(ToSet(OverlaysOf(level, raw)))
  BY DEF PInv, Shape
<1>4. OverlaysOf(level, raw)[i] \in ToSet(OverlaysOf(level, raw))
  BY <1>3
<1>5. TidyTree(answer[p])
  BY <1>1 DEF Contents
<1>6. "" \notin DOMAIN Body(OverlaysOf(level, raw)[i]).attrs
  <2>1. "" \notin touchedKeys(level)
    BY <1>1, TouchedAllowed, AllowedKeys
  <2>2. QED
    BY <1>4, <2>1 DEF touchedKeys
<1>7. QED
  BY <1>1, <1>2, <1>4, <1>5, <1>6, PassedBody

\* A merge of two tidy trees is refused or tidy.
LEMMA TreesMerge ==
  ASSUME NEW a, NEW b, TidyTree(a), FieldsTidy(b), DOMAIN b.attrs \cap Bad = {},
         "" \notin DOMAIN b.attrs, mergeNode(a, b) # Refused("merge")
  PROVE  TidyTree(mergeNode(a, b))
<1>1. MergedBut(mergeNode(a, b), a, b, {""})
  BY NodeTidy DEF TidyTree, IsAttrs
<1>2. QED
  BY <1>1 DEF MergedBut, TidyTree

\* The call keeps the contents,
LEMMA CallContents == ASSUME PInv, Contents, Call PROVE Contents'
<1>1. /\ answer' = [p \in Parses |-> IF CallGuards(p) THEN raw ELSE Refused("call")]
      /\ at' = IF Overlaid THEN "validate" ELSE "done"
      /\ raw' = raw /\ next' = next /\ at = "call"
  BY DEF Call
<1>2. Overlaid' = Overlaid /\ OverlaysOf("top", raw)' = OverlaysOf("top", raw)
  BY <1>1, RawOnly
<1>3. next = 1 /\ Len(OverlaysOf("top", raw)) \in Nat
  BY <1>1 DEF Contents, PInv, Shape
<1>4. next' \in 1..(IF at' = "nix" THEN Len(OverlaysOf("nix", raw)') + 1
                  ELSE IF at' \in {"top", "done"} THEN Len(OverlaysOf("top", raw)') + 1
                  ELSE 1)
  BY <1>1, <1>2, <1>3
<1>5. ASSUME NEW p \in Parses, ~Accepted(p)' PROVE answer'[p].refused = "call"
  <2>1. IsRefused(answer'[p])
    BY <1>5 DEF Accepted
  <2>2. ~IsRefused(raw)
    BY DEF PInv, Shape, IsRefused
  <2>3. answer'[p] = Refused("call")
    BY <1>1, <2>1, <2>2
  <2>4. QED
    BY <2>3 DEF Refused
<1>6. ~(Validated' /\ Overlaid')
  BY <1>1, <1>2 DEF Validated
<1>7. QED
  BY <1>4, <1>5, <1>6 DEF Contents

\* the validation, too,
LEMMA ValidateContents == ASSUME PInv, Contents, Validate PROVE Contents'
<1>1. /\ answer' = [p \in Parses |->
             IF ~Accepted(p) THEN answer[p]
             ELSE IF SelectorError(p) THEN Refused("selector")
             ELSE IF Agnostic(p) THEN poisoned ELSE Base(raw)]
      /\ at = "validate" /\ at' = "nix" /\ UNCHANGED <<raw, next>>
  BY DEF Validate, SelectorError
<1>2. next = 1 /\ Len(OverlaysOf("nix", raw)) \in Nat
      /\ OverlaysOf("nix", raw)' = OverlaysOf("nix", raw)
  BY <1>1, RawOnly DEF Contents, PInv, Shape
<1>3. next' \in 1..(IF at' = "nix" THEN Len(OverlaysOf("nix", raw)') + 1
                  ELSE IF at' \in {"top", "done"} THEN Len(OverlaysOf("top", raw)') + 1
                  ELSE 1)
  BY <1>1, <1>2
<1>4. DOMAIN Base(raw) = {"attrs"} /\ DOMAIN poisoned = {"attrs"}
  BY BaseFacts, PoisonedIsTree DEF PInv, Shape
<1>5. ASSUME NEW p \in Parses, ~Accepted(p)'
      PROVE  answer'[p].refused \in {"call", "selector", "merge", "libraries"}
  <2>1. IsRefused(answer'[p])
    BY <1>5 DEF Accepted
  <2>2. ~IsRefused(Base(raw)) /\ ~IsRefused(poisoned)
    BY <1>4 DEF IsRefused
  <2>3. (~Accepted(p) /\ answer'[p] = answer[p]) \/ answer'[p] = Refused("selector")
    BY <1>1, <2>1, <2>2
  <2>4. QED
    BY <2>3 DEF Contents, Refused
<1>6. ASSUME NEW p \in Parses, Accepted(p)' PROVE TidyTree(answer'[p])
  <2>1. ~IsRefused(answer'[p])
    BY <1>6 DEF Accepted
  <2>2. IsRefused(Refused("selector"))
    BY RefusalFacts
  <2>3. /\ Accepted(p) /\ ~SelectorError(p)
        /\ answer'[p] = IF Agnostic(p) THEN poisoned ELSE Base(raw)
    BY <1>1, <2>1, <2>2 DEF Accepted
  <2>4. raw \in Documents /\ Misplaced(raw) = {}
    BY <1>1, <2>3 DEF PInv, Shape, Guarded, Started, CallGuards
  <2>5. TidyTree(poisoned)
    BY <2>3, <2>4, PoisonedTidy, TouchedKeys
  <2>6. QED
    BY <2>3, <2>4, <2>5, BaseTidy
<1>7. QED
  BY <1>3, <1>5, <1>6 DEF Contents

\* and every step of a fold that leaves accepted trees tidy.
LEMMA FoldContents ==
  ASSUME PInv, Contents, Folds,
         next' \in 1..(IF at' = "nix" THEN Len(OverlaysOf("nix", raw)) + 1
                       ELSE IF at' \in {"top", "done"} THEN Len(OverlaysOf("top", raw)) + 1
                       ELSE 1),
         \A p \in Parses : answer'[p] # answer[p] /\ Accepted(p)' => TidyTree(answer'[p])
  PROVE  Contents'
<1>1. raw' = raw /\ Overlaid' = Overlaid
      /\ \A level : OverlaysOf(level, raw)' = OverlaysOf(level, raw)
  BY RawOnly DEF Folds
<1>2. ASSUME NEW p \in Parses, ~Accepted(p)'
      PROVE  answer'[p].refused \in {"call", "selector", "merge", "libraries"}
  <2>1. CASE answer'[p] = answer[p]
    BY <1>2, <2>1 DEF Accepted, Contents
  <2>2. CASE answer'[p] # answer[p]
    <3>1. IsRefused(answer'[p])
      BY <1>2 DEF Accepted
    <3>2. answer'[p] \in {Refused("merge"), Refused("libraries")}
      BY <2>2, <3>1 DEF Folds, IsRefused
    <3>3. QED
      BY <3>2 DEF Refused
  <2>3. QED
    BY <2>1, <2>2
<1>3. ASSUME NEW p \in Parses, Accepted(p)', Overlaid PROVE TidyTree(answer'[p])
  <2>1. CASE answer'[p] = answer[p]
    BY <1>3, <2>1 DEF Accepted, Contents, Folds
  <2>2. QED
    BY <1>3, <2>1
<1>4. QED
  BY <1>1, <1>2, <1>3 DEF Contents

\* One overlay of `nix` is tidy over a tidy object.
LEMMA NixContents == ASSUME PInv, Contents, MergeNix PROVE Contents'
<1>1. Folds /\ Overlaid /\ next \in Nat /\ at = "nix" /\ Validated
  BY NixFold DEF MergeNix, Folds
<1>2. \A level \in {"top", "nix"} : Len(OverlaysOf(level, raw)) \in Nat
  BY DEF PInv, Shape
<1>3. next \in 1..(Len(OverlaysOf("nix", raw)) + 1)
  BY <1>1 DEF Contents
<1>4. next' \in 1..(IF at' = "nix" THEN Len(OverlaysOf("nix", raw)) + 1
                  ELSE IF at' \in {"top", "done"} THEN Len(OverlaysOf("top", raw)) + 1
                  ELSE 1)
  <2>1. CASE at' = "nix"
    <3>1. next' = next + 1 /\ next <= Len(OverlaysOf("nix", raw))
      BY <2>1, NixFold
    <3>2. QED
      BY <1>2, <1>3, <2>1, <3>1
  <2>2. CASE at' # "nix"
    <3>1. at' = "libraries" /\ next' = 1
      BY <2>2, NixFold
    <3>2. QED
      BY <3>1
  <2>3. QED
    BY <2>1, <2>2
<1>5. ASSUME NEW p \in Parses, answer'[p] # answer[p], Accepted(p)'
      PROVE  TidyTree(answer'[p])
  <2> DEFINE b == Body(OverlaysOf("nix", raw)[next])
             a == answer[p].attrs["nix"]
             n == mergeNode(a, b)
  <2>1. /\ Merging(p) /\ next \in 1..Len(OverlaysOf("nix", raw))
        /\ answer'[p] = SetAttr(answer[p], "nix", n) /\ n # Refused("merge")
        /\ ~IsRefused(n)
    BY <1>5, NixFold, RefusalFacts DEF Accepted
  <2>2. /\ DOMAIN b = {"attrs"} /\ DOMAIN b.attrs \cap Bad = {} /\ FieldsTidy(b)
        /\ TidyTree(answer[p])
    BY <1>1, <2>1, MergingTidy
  <2>3. HasNix(answer[p])
    <3>1. 1 \in 1..Len(OverlaysOf("nix", raw))
      BY <1>2, <2>1
    <3>2. HasNix(Base(raw))
      BY <3>1, NixOverlays, BaseFacts DEF PInv, Shape
    <3>3. TreeOf(answer[p])
      BY <1>1, <2>1, MergingFacts
    <3>4. QED
      BY <3>2, <3>3 DEF TreeOf
  <2> HIDE DEF b
  <2>4. Tidy(a) /\ IsAttrs(a)
    BY <2>2, <2>3 DEF HasNix, HasAttr, TidyTree, TidyBut
  <2>5. FieldsTidy(a) /\ DOMAIN a.attrs \cap Bad = {}
    BY <2>4, TidyObject
  <2>6. Tidy(b) /\ IsAttrs(b)
    BY <2>2, TidyObject DEF IsAttrs
  <2> HIDE DEF a
  <2>7. MergedOf(n, a, b)
    <3>1. MergedBut(n, a, b, {})
      BY <2>2, <2>4, <2>5, NodeTidy, ButFields DEF n
    <3>2. QED
      BY <3>1, ButFields DEF MergedOf, MergedBut
  <2>8. Tidy(n)
    BY <2>1, <2>4, <2>6, <2>7, MergedOfTidy DEF RefusedOrTidy
  <2>9. TidyTree(SetAttr(answer[p], "nix", n))
    BY <2>2, <2>8, SetTidy, AllowedKeys DEF Settable
  <2>10. QED
    BY <2>1, <2>9
<1>6. QED
  BY <1>1, <1>4, <1>5, FoldContents

\* The check of the libraries refuses, and changes nothing else.
LEMMA LibrariesContents == ASSUME PInv, Contents, CheckLibraries PROVE Contents'
<1>1. Shape /\ at = "libraries" /\ at' = "top" /\ Validated /\ Overlaid
      /\ raw' = raw /\ next' = next
  BY DEF PInv, Shape, CheckLibraries, Validated
<1>2. /\ next \in Nat \ {0} /\ DOMAIN answer = Parses /\ DOMAIN answer' = Parses
      /\ \A p \in Parses : answer'[p] # answer[p] =>
           Merging(p) /\ answer'[p] = Refused("libraries")
  BY <1>1 DEF Shape, CheckLibraries
<1>3. Folds
  BY <1>1, <1>2 DEF Folds
<1>4. \A p \in Parses : answer'[p] # answer[p] => ~Accepted(p)'
  BY <1>2, RefusalFacts DEF Accepted
<1>5. next = 1 /\ Len(OverlaysOf("top", raw)) \in Nat
  BY <1>1 DEF Contents, Shape
<1>6. next' \in 1..(IF at' = "nix" THEN Len(OverlaysOf("nix", raw)) + 1
                  ELSE IF at' \in {"top", "done"} THEN Len(OverlaysOf("top", raw)) + 1
                  ELSE 1)
  BY <1>1, <1>5
<1>7. QED
  BY <1>3, <1>4, <1>6, FoldContents

\* One overlay of the top level is tidy over a tidy tree.
LEMMA TopContents == ASSUME PInv, Contents, MergeTop PROVE Contents'
<1>1. Folds /\ Overlaid /\ next \in Nat /\ at = "top" /\ Validated
  BY TopFold DEF MergeTop, Folds
<1>2. Len(OverlaysOf("top", raw)) \in Nat
  BY DEF PInv, Shape
<1>3. next \in 1..(Len(OverlaysOf("top", raw)) + 1)
  BY <1>1 DEF Contents
<1>4. next' \in 1..(IF at' = "nix" THEN Len(OverlaysOf("nix", raw)) + 1
                  ELSE IF at' \in {"top", "done"} THEN Len(OverlaysOf("top", raw)) + 1
                  ELSE 1)
  <2>1. CASE at' = "top"
    <3>1. next' = next + 1 /\ next <= Len(OverlaysOf("top", raw))
      BY <2>1, TopFold
    <3>2. QED
      BY <1>2, <1>3, <2>1, <3>1
  <2>2. CASE at' # "top"
    <3>1. at' = "done" /\ next' = next
      BY <2>2, TopFold
    <3>2. QED
      BY <1>3, <3>1
  <2>3. QED
    BY <2>1, <2>2
<1>5. ASSUME NEW p \in Parses, answer'[p] # answer[p], Accepted(p)'
      PROVE  TidyTree(answer'[p])
  <2> DEFINE b == Body(OverlaysOf("top", raw)[next])
  <2>1. /\ Merging(p) /\ next \in 1..Len(OverlaysOf("top", raw))
        /\ answer'[p] = mergeNode(answer[p], b) /\ ~IsRefused(mergeNode(answer[p], b))
    BY <1>5, TopFold DEF Accepted
  <2>2. /\ DOMAIN b.attrs \cap Bad = {} /\ FieldsTidy(b) /\ TidyTree(answer[p])
        /\ "" \notin DOMAIN b.attrs
    BY <1>1, <2>1, MergingTidy
  <2> HIDE DEF b
  <2>3. mergeNode(answer[p], b) # Refused("merge")
    BY <2>1, RefusalFacts
  <2>4. QED
    BY <2>1, <2>2, <2>3, TreesMerge
<1>6. QED
  BY <1>1, <1>4, <1>5, FoldContents

\* Before the call every parse holds the document, at the first overlay.
LEMMA InitContents == Init => Contents
<1> SUFFICES ASSUME Init PROVE Contents
  OBVIOUS
<1>1. at = "call" /\ next = 1 /\ raw \in Documents /\ answer = [p \in Parses |-> raw]
  BY DEF Init
<1>2. DOMAIN raw = {"attrs"}
  BY <1>1, DocumentOverlays
<1>3. \A p \in Parses : Accepted(p)
  BY <1>1, <1>2 DEF Accepted, IsRefused
<1>4. QED
  BY <1>1, <1>3 DEF Contents, Validated

\* What the parses hold, together with what they promise one another.
LEMMA ContentsInductive == PInv /\ Contents /\ [Next]_vars => Contents'
<1>1. ASSUME PInv, Contents, UNCHANGED vars PROVE Contents'
  <2>1. raw' = raw /\ at' = at /\ next' = next /\ answer' = answer
    BY <1>1 DEF vars
  <2>2. Overlaid' = Overlaid /\ \A level : OverlaysOf(level, raw)' = OverlaysOf(level, raw)
    BY <2>1, RawOnly
  <2>3. QED
    BY <1>1, <2>1, <2>2 DEF Contents, Validated, Accepted
<1>2. QED
  BY <1>1, CallContents, ValidateContents, NixContents, LibrariesContents, TopContents
     DEF Next

\* Every accepted parse holds JSON values and poison, and nothing inside it has
\* the key of an overlay list.
THEOREM ContentsInvariant == Spec => [](PInv /\ Contents)
<1>1. Init => PInv /\ Contents
  BY InitPInv, InitContents
<1>2. PInv /\ Contents /\ [Next]_vars => PInv' /\ Contents'
  BY PInductive, ContentsInductive
<1>3. QED
  BY <1>1, <1>2, PTL DEF Spec

\* What an accepted parse holds before the folds is the document.
LEMMA EarlyAnswers ==
  ASSUME PInv, NEW p \in Parses, Accepted(p), ~(Validated /\ Overlaid)
  PROVE  answer[p] = raw
<1>1. CASE at = "call"
  BY <1>1 DEF PInv, Guarded, Started
<1>2. CASE at = "validate"
  <2>1. answer[p] # Refused("call")
    BY RefusalFacts DEF Accepted
  <2>2. QED
    BY <1>2, <2>1 DEF PInv, Guarded
<1>3. CASE Validated /\ ~Overlaid
  <2>1. at = "done"
    BY <1>3 DEF PInv, Shape, Validated
  <2>2. QED
    BY <1>3, <2>1 DEF PInv, Trees
<1>4. QED
  BY <1>1, <1>2, <1>3 DEF Validated

\* The types, for every document of JSON values: each answer is an object of
\* values or one of the four refusals, and no fold runs past its overlays.
THEOREM TypeCorrect == Spec => []TypeOK
<1>1. PInv /\ Contents => TypeOK
  <2> SUFFICES ASSUME PInv, Contents PROVE TypeOK
    OBVIOUS
  <2>1. Shape /\ DOMAIN answer = Parses /\ raw \in Documents /\ DOMAIN raw = {"attrs"}
    BY DEF PInv, Shape
  <2>2. \A level \in {"top", "nix"} : Len(OverlaysOf(level, raw)) \in Nat
    BY <2>1 DEF Shape
  <2>3. next \in 1..(Len(OverlaysOf("nix", raw)) + Len(OverlaysOf("top", raw)) + 1)
    BY <2>2 DEF Contents
  <2>4. ASSUME NEW k \in DOMAIN raw.attrs
        PROVE  \E t \in Values : DOMAIN raw.attrs[k] = {t}
    <3>1. raw.attrs[k] \in Parts(raw)
      BY <2>1 DEF Parts, IsAttrs
    <3>2. raw.attrs[k] \in Within(raw)[0 + 1]
      BY <3>1, WithinParts
    <3>3. JsonValue(raw.attrs[k])
      BY <2>1, <3>2, DocumentJson
    <3>4. QED
      BY <3>3 DEF JsonValue, Values
  <2>5. ASSUME NEW p \in Parses, Accepted(p)
        PROVE  /\ IsAttrs(answer[p])
               /\ \A k \in DOMAIN answer[p].attrs :
                    \E t \in Values : DOMAIN answer[p].attrs[k] = {t}
    <3>1. CASE ~(Validated /\ Overlaid)
      <4>1. answer[p] = raw
        BY <2>5, <3>1, EarlyAnswers
      <4>2. QED
        BY <2>1, <2>4, <4>1 DEF IsAttrs
    <3>2. CASE Validated /\ Overlaid
      <4>1. TidyTree(answer[p])
        BY <2>5, <3>2 DEF Contents
      <4>2. \A k \in DOMAIN answer[p].attrs : Plain(answer[p].attrs[k])
        BY <4>1, TidyParts DEF TidyTree, TidyBut, Neat
      <4>3. QED
        BY <4>1, <4>2 DEF TidyTree, IsAttrs, Plain
    <3>3. QED
      BY <3>1, <3>2
  <2>6. \A p \in Parses : ~Accepted(p) =>
          answer[p].refused \in {"call", "selector", "merge", "libraries"}
    BY DEF Contents
  <2>7. at \in {"call", "validate", "nix", "libraries", "top", "done"}
    BY <2>1 DEF Shape
  <2>8. QED
    BY <2>1, <2>3, <2>5, <2>6, <2>7 DEF TypeOK, IsAttrs
<1>2. QED
  BY <1>1, ContentsInvariant, PTL

\* No key of an overlay list is left anywhere inside an accepted tree, its own
\* `platform` marker and what is under an empty root key apart, whether an
\* overlay was merged into it or none is there.
THEOREM NothingDropped == Spec => []NoOverlayDropped
<1>1. PInv /\ Contents => NoOverlayDropped
  <2> SUFFICES ASSUME PInv, Contents, at = "done", NEW p \in Parses, Accepted(p)
               PROVE  KeysInside(RemoveAttrs(answer[p], {"platform", ""})) \cap Bad = {}
    BY DEF NoOverlayDropped, Bad
  <2> DEFINE v == RemoveAttrs(answer[p], {"platform", ""})
             f == [k \in DOMAIN answer[p].attrs \ {"platform", ""} |-> answer[p].attrs[k]]
  <2>1. TidyTree(answer[p])
    <3>1. CASE Overlaid
      BY <3>1 DEF Contents, Validated
    <3>2. CASE ~Overlaid
      <4>1. answer[p] = raw
        BY <3>2, EarlyAnswers
      <4>2. raw \in Documents /\ Misplaced(raw) = {}
        BY DEF PInv, Shape, Guarded, Started, CallGuards
      <4>3. "platforms" \notin DOMAIN raw.attrs
        BY <3>2, <4>2, SweptDocument DEF Overlaid, Declares, NodeAt, HasAttr, IsAttrs
      <4>4. HasNix(raw) => "platforms" \notin DOMAIN raw.attrs["nix"].attrs
        <5> SUFFICES ASSUME HasNix(raw)
                     PROVE  "platforms" \notin DOMAIN raw.attrs["nix"].attrs
          OBVIOUS
        <5>1. NodeAt("nix", raw) = raw.attrs["nix"]
          BY DEF NodeAt, HasNix
        <5>2. QED
          BY <3>2, <5>1 DEF Overlaid, Declares, HasAttr, HasNix
      <4>5. ASSUME HasNix(raw) PROVE Tidy(raw.attrs["nix"])
        <5>1. DOMAIN raw.attrs["nix"].attrs \cap Bad = {} /\ FieldsTidy(raw.attrs["nix"])
          BY <4>2, <4>4, <4>5, SweptDocument DEF FieldsTidy
        <5>2. raw.attrs["nix"] \in Within(raw)[0 + 1]
          BY <4>5, WithinParts DEF Parts, HasNix, HasAttr
        <5>3. JsonValue(raw.attrs["nix"])
          BY <4>2, <5>2, DocumentJson
        <5>4. DOMAIN raw.attrs["nix"] = {"attrs"} /\ IsAttrs(raw.attrs["nix"])
          BY <4>5, <5>3 DEF JsonValue, HasNix, IsAttrs
        <5>5. QED
          BY <5>1, <5>4, TidyObject
      <4>6. DOMAIN raw.attrs \cap Bad \subseteq {"platform"} /\ DOMAIN raw = {"attrs"}
        BY <4>2, <4>3, SweptDocument
      <4>7. TidyBut(raw, {""})
        BY <4>2, <4>5, SweptDocument DEF TidyBut
      <4>8. QED
        BY <4>1, <4>6, <4>7 DEF TidyTree
    <3>3. QED
      BY <3>1, <3>2
  <2>2. v = Attrs(f) /\ DOMAIN Attrs(f) = {"attrs"} /\ Attrs(f).attrs = f
    BY RefusalFacts DEF RemoveAttrs
  <2>3. DOMAIN v.attrs \cap Bad = {} /\ FieldsTidy(v) /\ DOMAIN v = {"attrs"}
    BY <2>1, <2>2 DEF TidyTree, TidyBut, FieldsTidy
  <2> HIDE DEF v
  <2>4. Tidy(v)
    BY <2>3, TidyObject DEF IsAttrs
  <2>5. \A n \in 0..Depth : \A x \in Within(v)[n] : IsAttrs(x) => DOMAIN x.attrs \cap Bad = {}
    <3>1. \A n \in 0..Depth : n \in Nat
      BY DocumentsAssumption DEF DocumentsAssumption
    <3>2. QED
      BY <2>4, <3>1 DEF Tidy, Neat
  <2>6. KeysInside(v) \cap Bad = {}
    BY <2>5 DEF KeysInside
  <2>7. QED
    BY <2>6 DEF v
<1>2. QED
  BY <1>1, ContentsInvariant, PTL
=============================================================================
