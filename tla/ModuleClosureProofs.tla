------------------------ MODULE ModuleClosureProofs ------------------------
(***************************************************************************)
(* Proofs about ModuleClosure, for every set of lock graphs.               *)
(***************************************************************************)
EXTENDS ModuleClosure, SequenceTheorems, SubsequencesProofs

-----------------------------------------------------------------------------
(* What the invariant says.                                                *)

\* What the walk looks up below a flake, and who throws.
requires == [f \in Flakes |-> depInputs(f, tdeps(f).names)]
appInputs == depInputs(App, lock[App].resolved)
unusable == {f \in Flakes : Unusable(f)}
refusing == {f \in Flakes : classifyConcreteDeps(f)}
installable == {f \in Flakes : Installable(f)}
oracle == <<requires, appInputs, unusable, refusing, installable>>

\* Every name below a collected flake has been collected.
ClosedAcc(frame) ==
    \A n \in DOMAIN frame.acc :
        DOMAIN requires[frame.acc[n]] \subseteq DOMAIN frame.acc

\* Every name below a dependency that is folded has been collected.
FoldedIn(frame) ==
    \A n \in DOMAIN frame.direct \ frame.todo :
        DOMAIN requires[frame.direct[n]] \subseteq DOMAIN frame.acc

\* The outermost call looks up what the app requires, an inner one what the
\* dependency its caller is folding requires.
BottomIsApp == stage = "walk" => stack[1].direct = appInputs
FramesChained ==
    \A i \in 1..Len(stack) - 1 :
        stack[i + 1].direct = requires[CurrentOf(stack[i])]

\* What a call has collected so far is closed, and holds what its folded
\* dependencies require.
FramesClosed ==
    \A i \in 1..Len(stack) : ClosedAcc(stack[i]) /\ FoldedIn(stack[i])

NothingInstalled == stage # "built" => installed = {}

Done == stage \in {"evaluate", "assemble", "built"}

\* The closure has the app's own entries, and is closed under requirement.
DirectCollected ==
    Done => \A n \in DOMAIN appInputs :
                n \in DOMAIN closure /\ closure[n] = appInputs[n]
ClosureClosed ==
    Done => \A n \in DOMAIN closure :
                DOMAIN requires[closure[n]] \subseteq DOMAIN closure

\* What is assembled has passed the throws of direct and of the plugin builds.
NoneRefused ==
    stage \in {"assemble", "built"} =>
        /\ App \notin refusing
        /\ \A n \in DOMAIN closure : closure[n] \notin unusable \cup refusing
InstalledIsHeld ==
    stage = "built" =>
        installed = {n \in DOMAIN closure : closure[n] \in installable}

IInv ==
    /\ lock \in Locks /\ TypeOK
    /\ BottomIsApp /\ FramesChained /\ FramesClosed
    /\ DirectCollected /\ ClosureClosed
    /\ NothingInstalled /\ NoneRefused /\ InstalledIsHeld

-----------------------------------------------------------------------------
(* Entries, frames and stacks.                                             *)

\* A set of entries gives a flake for each of some names.
LEMMA EntryFacts ==
    ASSUME NEW e \in Entries
    PROVE  /\ DOMAIN e \subseteq Names
           /\ \A n \in DOMAIN e : e[n] \in Flakes
BY DEF Entries

\* The accumulator a fold starts with.
LEMMA NoEntriesFacts == NoEntries \in Entries /\ DOMAIN NoEntries = {}
<1>1. NoEntries \in [{} -> Flakes]
  BY DEF NoEntries
<1>2. QED
  BY <1>1 DEF Entries, NoEntries

\* Of two sets of entries the right one wins, and no name is lost.
LEMMA UpdateFacts ==
    ASSUME NEW e \in Entries, NEW g \in Entries
    PROVE  /\ Update(e, g) \in Entries
           /\ DOMAIN Update(e, g) = DOMAIN e \cup DOMAIN g
           /\ \A n \in DOMAIN g : Update(e, g)[n] = g[n]
           /\ \A n \in DOMAIN e \ DOMAIN g : Update(e, g)[n] = e[n]
<1>1. Update(e, g) \in [DOMAIN e \cup DOMAIN g -> Flakes]
  BY EntryFacts DEF Update
<1>2. DOMAIN e \cup DOMAIN g \in SUBSET Names
  BY EntryFacts
<1>3. Update(e, g) \in Entries
  BY <1>1, <1>2 DEF Entries
<1>4. QED
  BY <1>3 DEF Update

\* What filterAttrs keeps of the inputs of a flake.
LEMMA DepInputsFacts ==
    ASSUME lock \in Locks, NEW f \in Flakes, NEW S
    PROVE  /\ depInputs(f, S) \in Entries
           /\ DOMAIN depInputs(f, S) = S \cap DOMAIN lock[f].inputs
<1>1. lock[f].inputs \in Entries
  BY LocksAssumption DEF LocksAssumption, FlakeType
<1>2. depInputs(f, S) \in [S \cap DOMAIN lock[f].inputs -> Flakes]
  BY <1>1, EntryFacts DEF depInputs
<1>3. S \cap DOMAIN lock[f].inputs \in SUBSET Names
  BY <1>1, EntryFacts
<1>4. depInputs(f, S) \in Entries
  BY <1>2, <1>3 DEF Entries
<1>5. QED
  BY <1>4 DEF depInputs

\* What the walk looks up below a flake is a set of entries.
LEMMA RequiresFacts ==
    ASSUME lock \in Locks, NEW f \in Flakes
    PROVE  /\ requires[f] = depInputs(f, tdeps(f).names)
           /\ requires[f] \in Entries /\ appInputs \in Entries
BY DepInputsFacts, LocksAssumption DEF requires, appInputs, LocksAssumption

\* The next name of the fold is one of those left.
LEMMA NextNameIn ==
    ASSUME NEW S, S \subseteq Names, S # {}
    PROVE  NextName(S) \in S
<1>1. \E n \in S : \A m \in S : NameRank[n] <= NameRank[m]
  BY RankAssumption DEF RankAssumption
<1>2. QED
  BY <1>1 DEF NextName

\* A call starts with all its names to fold and none collected.
LEMMA FrameFacts ==
    ASSUME NEW e \in Entries
    PROVE  /\ Frame(e) \in FrameType
           /\ Frame(e).direct = e /\ Frame(e).todo = DOMAIN e
           /\ Frame(e).acc = NoEntries
BY NoEntriesFacts, EntryFacts DEF Frame, FrameType

\* The name a frame folds is its own, and stands for a flake.
LEMMA CurrentFacts ==
    ASSUME NEW fr \in FrameType, fr.todo \subseteq DOMAIN fr.direct, fr.todo # {}
    PROVE  /\ Folding(fr) \in fr.todo /\ Folding(fr) \in DOMAIN fr.direct
           /\ CurrentOf(fr) \in Flakes
<1>1. Folding(fr) \in fr.todo
  BY NextNameIn DEF Folding, FrameType
<1>2. QED
  BY <1>1, EntryFacts DEF CurrentOf, FrameType

\* What one step of the fold changes in a frame.
LEMMA FoldedFacts ==
    ASSUME NEW fr \in FrameType, NEW acc \in Entries
    PROVE  /\ Folded(fr) \in FrameType
           /\ Folded(fr).direct = fr.direct /\ Folded(fr).acc = fr.acc
           /\ Folded(fr).todo = fr.todo \ {Folding(fr)}
           /\ [Folded(fr) EXCEPT !.acc = acc] \in FrameType
           /\ [Folded(fr) EXCEPT !.acc = acc].direct = fr.direct
           /\ [Folded(fr) EXCEPT !.acc = acc].todo = fr.todo \ {Folding(fr)}
           /\ [Folded(fr) EXCEPT !.acc = acc].acc = acc
BY DEF Folded, FrameType

\* The stack after a step of the innermost call.
LEMMA SetTopFacts ==
    ASSUME stack \in Seq(FrameType), stack # <<>>, NEW x \in FrameType
    PROVE  /\ SetTop(x) \in Seq(FrameType) /\ Len(SetTop(x)) = Len(stack)
           /\ SetTop(x)[Len(stack)] = x
           /\ \A i \in 1..Len(stack) - 1 : SetTop(x)[i] = stack[i]
BY DEF SetTop

\* The stack after the innermost call has returned into its caller.
LEMMA PopFacts ==
    ASSUME stack \in Seq(FrameType), Len(stack) >= 2, NEW x \in FrameType
    PROVE  LET t == Append(SubSeq(stack, 1, Len(stack) - 2), x) IN
           /\ t \in Seq(FrameType) /\ Len(t) = Len(stack) - 1
           /\ t[Len(stack) - 1] = x
           /\ \A i \in 1..Len(stack) - 2 : t[i] = stack[i]
<1> DEFINE t == Append(SubSeq(stack, 1, Len(stack) - 2), x)
           u == SubSeq(stack, 1, Len(stack) - 2)
<1>1. u \in Seq(FrameType) /\ Len(u) = Len(stack) - 2
  <2> DEFINE m == Len(stack) - 2
  <2>1. /\ m \in Nat /\ m \in Int /\ 1 \in Int
        /\ \A i \in 1..m : stack[i] \in FrameType
    OBVIOUS
  <2> HIDE DEF m
  <2>2. /\ SubSeq(stack, 1, m) \in Seq(FrameType)
        /\ Len(SubSeq(stack, 1, m)) = IF 1 <= m THEN m - 1 + 1 ELSE 0
    BY <2>1, SubSeqProperties
  <2>3. Len(SubSeq(stack, 1, m)) = m
    BY <2>1, <2>2
  <2>4. QED
    BY <2>2, <2>3 DEF m
<1>2. \A i \in 1..Len(stack) - 2 : u[i] = stack[i]
  BY SubSeqProperties
<1> HIDE DEF u
<1>3. t = Append(u, x)
  BY DEF u
<1> HIDE DEF t
<1>4. /\ t \in Seq(FrameType) /\ Len(t) = Len(stack) - 1
      /\ t[Len(stack) - 1] = x
      /\ \A i \in 1..Len(stack) - 2 : t[i] = stack[i]
  BY <1>1, <1>2, <1>3
<1>5. QED
  BY <1>4 DEF t

\* The graph never changes, nor what is read from it.
LEMMA OracleFixed == Next => lock' = lock /\ oracle' = oracle
<1> SUFFICES ASSUME Next PROVE lock' = lock /\ oracle' = oracle
  OBVIOUS
<1>1. lock' = lock /\ system' = system
  BY DEF Next, Fold, Descend, Return, Evaluate, Assemble
<1>2. \A f \in Flakes : outputs(f)' = outputs(f) /\ tdeps(f)' = tdeps(f)
  BY <1>1 DEF outputs, tdeps, config, configFor
<1>3. requires' = requires
  BY <1>1, <1>2 DEF requires, depInputs
<1>4. appInputs' = appInputs
  BY <1>1 DEF appInputs, depInputs
<1>5. unusable' = unusable
  BY <1>1, <1>2 DEF unusable, Unusable, NoBundler
<1>6. refusing' = refusing
  BY <1>1 DEF refusing, classifyConcreteDeps, depIsLidl, outputs
<1>7. installable' = installable
  BY <1>1, <1>2 DEF installable, Installable, Package, Bundled
<1>8. QED
  BY <1>1, <1>3, <1>4, <1>5, <1>6, <1>7 DEF oracle

-----------------------------------------------------------------------------
(* Every step keeps the invariant.                                         *)

\* What the actions of the walk find at the top of the stack.
LEMMA TopFacts ==
    ASSUME TypeOK, stage = "walk"
    PROVE  /\ Len(stack) \in Nat \ {0} /\ top = stack[Len(stack)]
           /\ top \in FrameType /\ top.todo \subseteq DOMAIN top.direct
           /\ top.direct \in Entries /\ top.acc \in Entries
           /\ top.todo # {} =>
                  /\ Folding(top) \in top.todo
                  /\ Folding(top) \in DOMAIN top.direct
                  /\ CurrentOf(top) \in Flakes
<1>1. Len(stack) \in Nat \ {0}
  BY DEF TypeOK
<1>2. /\ top = stack[Len(stack)] /\ top \in FrameType
      /\ top.todo \subseteq DOMAIN top.direct
  BY <1>1 DEF TypeOK, top
<1>3. top.direct \in Entries /\ top.acc \in Entries
  BY <1>2 DEF FrameType
<1>4. QED
  BY <1>1, <1>2, <1>3, CurrentFacts

\* The parts of the invariant about the frames, when the walk goes on.
WalkInv ==
    /\ stack \in Seq(FrameType) /\ stack # <<>>
    /\ \A i \in 1..Len(stack) : stack[i].todo \subseteq DOMAIN stack[i].direct
    /\ \A i \in 1..Len(stack) - 1 : stack[i].todo # {}
    /\ stack[1].direct = appInputs
    /\ FramesChained /\ FramesClosed

\* During the walk the invariant says all this of the stack.
LEMMA WalkOfInv ==
    ASSUME IInv, stage = "walk"
    PROVE  WalkInv
BY DEF IInv, TypeOK, BottomIsApp, WalkInv

\* A step of the walk that keeps this of the stack keeps the invariant.
LEMMA InvOfWalk ==
    ASSUME IInv, stage = "walk", Next, stage' = "walk", WalkInv',
           UNCHANGED <<closure, installed>>
    PROVE  IInv'
<1>1. lock' \in Locks
  BY OracleFixed DEF IInv
<1>2. TypeOK'
  <2>1. DOMAIN stack' = 1..Len(stack')
    BY DEF WalkInv
  <2>2. stage' = "walk" /\ closure' = closure /\ installed' = installed
    OBVIOUS
  <2>3. closure' \in Entries /\ installed' \subseteq DOMAIN closure'
    BY <2>2 DEF IInv, TypeOK
  <2>4. QED
    BY <2>1, <2>2, <2>3 DEF TypeOK, WalkInv
<1>3. BottomIsApp' /\ FramesChained' /\ FramesClosed'
  BY DEF WalkInv, BottomIsApp
<1>4. /\ DirectCollected' /\ ClosureClosed' /\ NoneRefused' /\ InstalledIsHeld'
      /\ NothingInstalled'
  BY DEF IInv, NothingInstalled, DirectCollected, ClosureClosed, NoneRefused,
     InstalledIsHeld, Done
<1>5. QED
  BY <1>1, <1>2, <1>3, <1>4 DEF IInv

\* A dependency that reads no further, or throws.
LEMMA FoldKeeps == ASSUME IInv, Fold PROVE IInv'
<1>1. stage = "walk" /\ top.todo # {} /\ UNCHANGED <<lock, closure, installed>>
  BY DEF Fold
<1>2. Next
  BY DEF Next
<1>3. oracle' = oracle /\ lock' = lock
  BY <1>2, OracleFixed
<1>4. CASE stage' = "refused" /\ UNCHANGED stack
  <2>1. TypeOK' /\ lock' \in Locks
    BY <1>1, <1>4 DEF IInv, TypeOK
  <2>2. BottomIsApp' /\ DirectCollected' /\ ClosureClosed' /\ NoneRefused'
        /\ InstalledIsHeld' /\ NothingInstalled'
    BY <1>1, <1>4 DEF IInv, NothingInstalled, BottomIsApp, DirectCollected,
       ClosureClosed, NoneRefused,
       InstalledIsHeld, Done
  <2>3. FramesChained' /\ FramesClosed'
    BY <1>3, <1>4 DEF IInv, FramesChained, FramesClosed, ClosedAcc, FoldedIn,
       CurrentOf, Folding, oracle
  <2>4. QED
    BY <2>1, <2>2, <2>3 DEF IInv
<1>5. CASE /\ tdeps(Current).names = {} /\ stack' = SetTop(Folded(top))
           /\ UNCHANGED stage
  <2>1. WalkInv /\ TypeOK /\ lock \in Locks
    BY <1>1, WalkOfInv DEF IInv
  <2> DEFINE N == Len(stack)
  <2>2. /\ N \in Nat \ {0} /\ top = stack[N] /\ top \in FrameType
        /\ top.todo \subseteq DOMAIN top.direct /\ top.acc \in Entries
        /\ CurrentOf(top) \in Flakes
    BY <1>1, <2>1, TopFacts
  <2>3. DOMAIN requires[CurrentOf(top)] = {}
    <3>1. requires[CurrentOf(top)] = depInputs(CurrentOf(top), {})
      <4>1. tdeps(CurrentOf(top)).names = {}
        BY <1>5 DEF Current
      <4>2. requires[CurrentOf(top)]
                = depInputs(CurrentOf(top), tdeps(CurrentOf(top)).names)
        BY <2>1, <2>2, RequiresFacts
      <4>3. QED
        BY <4>1, <4>2
    <3>2. QED
      BY <3>1 DEF depInputs
  <2>4. /\ stack' \in Seq(FrameType) /\ Len(stack') = N
        /\ stack'[N] = Folded(top)
        /\ \A i \in 1..N - 1 : stack'[i] = stack[i]
    <3>1. Folded(top) \in FrameType
      BY <2>2, FoldedFacts
    <3>2. stack \in Seq(FrameType) /\ stack # <<>>
      BY <2>1 DEF WalkInv
    <3>3. QED
      BY <1>5, <3>1, <3>2, SetTopFacts
  <2>5. /\ stack'[N].direct = top.direct /\ stack'[N].acc = top.acc
        /\ stack'[N].todo = top.todo \ {Folding(top)}
    BY <2>2, <2>4, FoldedFacts
  <2> HIDE DEF N
  <2>6. /\ \A i \in 1..N : stack'[i].todo \subseteq DOMAIN stack'[i].direct
        /\ \A i \in 1..N - 1 : stack'[i].todo # {}
        /\ \A i \in 1..N : stack'[i].direct = stack[i].direct
        /\ \A i \in 1..N : stack'[i].acc = stack[i].acc
    <3>1. /\ stack[N].todo \subseteq DOMAIN stack[N].direct
          /\ \A i \in 1..N - 1 : /\ stack[i].todo \subseteq DOMAIN stack[i].direct
                                 /\ stack[i].todo # {}
      BY <2>1, <2>2 DEF WalkInv, N
    <3>2. \A i \in 1..N : i = N \/ i \in 1..N - 1
      BY <2>2
    <3>3. QED
      BY <2>2, <2>4, <2>5, <3>1, <3>2
  <2>7. stack'[1].direct = appInputs'
    BY <1>3, <2>1, <2>2, <2>6 DEF WalkInv, oracle
  <2>8. FramesChained'
    BY <1>3, <2>1, <2>2, <2>4, <2>6 DEF WalkInv, FramesChained, CurrentOf,
       Folding, oracle, N
  <2>9. FramesClosed'
    <3> SUFFICES ASSUME NEW i \in 1..N
                 PROVE  (ClosedAcc(stack[i]) /\ FoldedIn(stack[i]))'
      BY <2>4 DEF FramesClosed
    <3>1. ClosedAcc(stack[i]) /\ FoldedIn(stack[i])
      BY <2>1 DEF WalkInv, FramesClosed, N
    <3>2. ClosedAcc(stack[i])'
      BY <1>3, <2>6, <3>1 DEF ClosedAcc, oracle
    <3>3. CASE i = N
      BY <1>3, <2>2, <2>3, <2>5, <2>6, <3>1, <3>2, <3>3
         DEF FoldedIn, CurrentOf, oracle
    <3>4. CASE i # N
      BY <1>3, <2>2, <2>4, <2>6, <3>1, <3>2, <3>4 DEF FoldedIn, oracle
    <3>5. QED
      BY <3>3, <3>4
  <2>10. stack' # <<>>
    BY <2>2, <2>4
  <2>11. WalkInv'
    BY <2>4, <2>6, <2>7, <2>8, <2>9, <2>10 DEF WalkInv
  <2>12. QED
    BY <1>1, <1>2, <1>5, <2>11, InvOfWalk
<1>6. QED
  BY <1>4, <1>5 DEF Fold
\* The recursive call opens a frame on what its flake requires.
LEMMA DescendKeeps == ASSUME IInv, Descend PROVE IInv'
<1>1. /\ stage = "walk" /\ top.todo # {} /\ stage' = "walk"
      /\ UNCHANGED <<closure, installed>>
      /\ stack' = Append(stack, Callee(Current))
  BY DEF Descend
<1>2. Next
  BY DEF Next
<1>3. oracle' = oracle
  BY <1>2, OracleFixed
<1>4. WalkInv /\ TypeOK /\ lock \in Locks
  BY <1>1, WalkOfInv DEF IInv
<1> DEFINE N == Len(stack)
           f == CurrentOf(top)
           x == Frame(requires[f])
<1>5. /\ N \in Nat \ {0} /\ top = stack[N] /\ f \in Flakes
  BY <1>1, <1>4, TopFacts
<1>6. /\ requires[f] = depInputs(f, tdeps(f).names)
      /\ requires[f] \in Entries
  BY <1>4, <1>5, RequiresFacts
<1>7. Callee(Current) = x
  BY <1>6 DEF Callee, Current
<1>8. /\ x \in FrameType /\ x.direct = requires[f]
      /\ x.todo = DOMAIN requires[f] /\ x.acc = NoEntries
  BY <1>6, FrameFacts
<1> HIDE DEF x
<1>9. /\ stack' \in Seq(FrameType) /\ Len(stack') = N + 1
      /\ stack'[N + 1] = x
      /\ \A i \in 1..N : stack'[i] = stack[i]
  BY <1>1, <1>4, <1>7, <1>8 DEF WalkInv
<1>10. \A i \in 1..N + 1 : i = N + 1 \/ i \in 1..N
  BY <1>5
<1>11. \A i \in 1..N : i = N \/ i \in 1..N - 1
  BY <1>5
<1>12. /\ \A i \in 1..N : stack[i].todo \subseteq DOMAIN stack[i].direct
       /\ \A i \in 1..N : stack[i].todo # {}
  BY <1>1, <1>4, <1>5, <1>11 DEF WalkInv
<1>13. stack[1].direct = appInputs /\ FramesChained /\ FramesClosed
  BY <1>4 DEF WalkInv
<1> HIDE DEF N, f
<1>14. \A i \in 1..N + 1 : stack'[i].todo \subseteq DOMAIN stack'[i].direct
  BY <1>8, <1>9, <1>10, <1>12
<1>15. \A i \in 1..N : stack'[i].todo # {}
  BY <1>9, <1>12
<1>16. stack'[1].direct = appInputs'
  BY <1>3, <1>5, <1>9, <1>13 DEF oracle
<1>17. FramesChained'
  <2> SUFFICES ASSUME NEW i \in 1..N
               PROVE  stack'[i + 1].direct = requires'[CurrentOf(stack'[i])]
    BY <1>5, <1>9 DEF FramesChained, CurrentOf, Folding
  <2>1. stack'[i] = stack[i] /\ requires' = requires
    BY <1>3, <1>9 DEF oracle
  <2>2. CASE i = N
    BY <1>5, <1>8, <1>9, <2>1, <2>2 DEF f
  <2>3. CASE i \in 1..N - 1
    <3>1. stack'[i + 1] = stack[i + 1]
      BY <1>5, <1>9, <2>3
    <3>2. QED
      BY <1>13, <2>1, <2>3, <3>1 DEF FramesChained, N
  <2>4. QED
    BY <1>11, <2>2, <2>3
<1>18. FramesClosed'
  <2> SUFFICES ASSUME NEW i \in 1..N + 1
               PROVE  (ClosedAcc(stack[i]) /\ FoldedIn(stack[i]))'
    BY <1>9 DEF FramesClosed
  <2>1. CASE i = N + 1
    BY <1>8, <1>9, <2>1, NoEntriesFacts DEF ClosedAcc, FoldedIn
  <2>2. CASE i \in 1..N
    BY <1>3, <1>9, <1>13, <2>2 DEF FramesClosed, ClosedAcc, FoldedIn, oracle, N
  <2>3. QED
    BY <1>10, <2>1, <2>2
<1>19. WalkInv'
  <2>1. stack' # <<>> /\ Len(stack') - 1 = N
    BY <1>5, <1>9
  <2>2. QED
    BY <1>9, <1>14, <1>15, <1>16, <1>17, <1>18, <2>1 DEF WalkInv
<1>20. QED
  BY <1>1, <1>2, <1>19, InvOfWalk

\* A finished call answers with a closed set of names: direct over transitive.
LEMMA ResultFacts ==
    ASSUME NEW fr \in FrameType, fr.todo = {}, ClosedAcc(fr), FoldedIn(fr)
    PROVE  /\ result(fr) \in Entries
           /\ DOMAIN result(fr) = DOMAIN fr.acc \cup DOMAIN fr.direct
           /\ \A n \in DOMAIN fr.direct : result(fr)[n] = fr.direct[n]
           /\ \A n \in DOMAIN result(fr) :
                  DOMAIN requires[result(fr)[n]] \subseteq DOMAIN result(fr)
<1>1. fr.acc \in Entries /\ fr.direct \in Entries
  BY DEF FrameType
<1>2. /\ result(fr) \in Entries
      /\ DOMAIN result(fr) = DOMAIN fr.acc \cup DOMAIN fr.direct
      /\ \A n \in DOMAIN fr.direct : result(fr)[n] = fr.direct[n]
      /\ \A n \in DOMAIN fr.acc \ DOMAIN fr.direct : result(fr)[n] = fr.acc[n]
  BY <1>1, UpdateFacts DEF result
<1>3. \A n \in DOMAIN result(fr) :
          DOMAIN requires[result(fr)[n]] \subseteq DOMAIN fr.acc
  BY <1>2 DEF ClosedAcc, FoldedIn
<1>4. QED
  BY <1>2, <1>3

\* The outermost call returns: its answer is the closure.
LEMMA LastReturnKeeps == ASSUME IInv, Return, Len(stack) = 1 PROVE IInv'
<1>1. /\ stage = "walk" /\ top.todo = {} /\ stage' = "evaluate"
      /\ stack' = <<>> /\ closure' = result(top)
      /\ UNCHANGED <<lock, installed>>
  BY DEF Return
<1>2. Next
  BY DEF Next
<1>3. oracle' = oracle
  BY <1>2, OracleFixed
<1>4. WalkInv /\ TypeOK /\ lock \in Locks
  BY <1>1, WalkOfInv DEF IInv
<1>5. top = stack[1] /\ top \in FrameType
  BY <1>1, <1>4, TopFacts
<1>6. top.direct = appInputs /\ ClosedAcc(top) /\ FoldedIn(top)
  BY <1>4, <1>5 DEF WalkInv, FramesClosed
<1>7. /\ closure' \in Entries
      /\ \A n \in DOMAIN appInputs :
             n \in DOMAIN closure' /\ closure'[n] = appInputs[n]
      /\ \A n \in DOMAIN closure' :
             DOMAIN requires[closure'[n]] \subseteq DOMAIN closure'
  BY <1>1, <1>5, <1>6, ResultFacts
<1>8. lock' \in Locks
  BY <1>1, <1>4
<1>9. TypeOK'
  <2>1. installed' = {}
    BY <1>1, <1>4 DEF IInv, NothingInstalled
  <2>2. QED
    BY <1>1, <1>7, <2>1 DEF TypeOK
<1>10. BottomIsApp' /\ FramesChained' /\ FramesClosed' /\ NothingInstalled'
  <2>1. 1..Len(stack') = {} /\ 1..Len(stack') - 1 = {}
    BY <1>1
  <2>2. QED
    BY <1>1, <2>1 DEF BottomIsApp, FramesChained, FramesClosed, IInv,
       NothingInstalled
<1>11. DirectCollected' /\ ClosureClosed'
  BY <1>3, <1>7 DEF DirectCollected, ClosureClosed, oracle
<1>12. NoneRefused' /\ InstalledIsHeld'
  BY <1>1 DEF NoneRefused, InstalledIsHeld
<1>13. QED
  BY <1>8, <1>9, <1>10, <1>11, <1>12 DEF IInv
\* An inner call returns: its caller folds the answer in and moves on.
LEMMA InnerReturnKeeps == ASSUME IInv, Return, Len(stack) # 1 PROVE IInv'
<1> DEFINE N == Len(stack)
           caller == stack[N - 1]
           f == CurrentOf(caller)
           acc == Update(caller.acc, result(top))
           x == [Folded(caller) EXCEPT !.acc = acc]
<1>1. /\ stage = "walk" /\ top.todo = {} /\ stage' = "walk"
      /\ UNCHANGED <<closure, installed>>
      /\ stack' = Append(SubSeq(stack, 1, N - 2),
                         [Folded(caller) EXCEPT !.acc = Update(@, result(top))])
  BY DEF Return
<1>2. Next
  BY DEF Next
<1>3. oracle' = oracle
  BY <1>2, OracleFixed
<1>4. WalkInv /\ TypeOK /\ lock \in Locks
  BY <1>1, WalkOfInv DEF IInv
<1>5. N \in Nat /\ N >= 2 /\ top = stack[N] /\ top \in FrameType
  <2>1. N \in Nat \ {0} /\ top = stack[N] /\ top \in FrameType
    BY <1>1, <1>4, TopFacts
  <2>2. N \in Nat /\ N # 0
    BY <2>1
  <2>3. N # 1
    OBVIOUS
  <2> HIDE DEF N
  <2>4. N >= 2
    BY <2>2, <2>3
  <2>5. QED
    BY <2>1, <2>2, <2>4
<1>6. /\ caller \in FrameType /\ caller.todo \subseteq DOMAIN caller.direct
      /\ caller.todo # {} /\ N - 1 \in 1..N - 1 /\ N - 1 \in 1..N
      /\ N \in 1..N
  BY <1>4, <1>5 DEF WalkInv
<1>7. /\ Folding(caller) \in caller.todo /\ f \in Flakes
      /\ f = caller.direct[Folding(caller)]
  BY <1>6, CurrentFacts DEF CurrentOf
<1>8. /\ ClosedAcc(top) /\ FoldedIn(top) /\ ClosedAcc(caller) /\ FoldedIn(caller)
  BY <1>4, <1>5, <1>6 DEF WalkInv, FramesClosed
<1>9. top.direct = requires[f]
  BY <1>4, <1>5, <1>6 DEF WalkInv, FramesChained
<1>10. /\ result(top) \in Entries
       /\ DOMAIN requires[f] \subseteq DOMAIN result(top)
       /\ \A n \in DOMAIN result(top) :
              DOMAIN requires[result(top)[n]] \subseteq DOMAIN result(top)
  BY <1>1, <1>5, <1>8, <1>9, ResultFacts
<1>11. caller.acc \in Entries
  BY <1>6 DEF FrameType
<1>12. /\ acc \in Entries
       /\ DOMAIN acc = DOMAIN caller.acc \cup DOMAIN result(top)
       /\ \A n \in DOMAIN result(top) : acc[n] = result(top)[n]
       /\ \A n \in DOMAIN caller.acc \ DOMAIN result(top) : acc[n] = caller.acc[n]
  BY <1>10, <1>11, UpdateFacts
<1>13. [Folded(caller) EXCEPT !.acc = Update(@, result(top))] = x
  <2>1. Folded(caller).acc = caller.acc
    BY <1>6, <1>11, FoldedFacts
  <2>2. QED
    BY <2>1
<1> HIDE DEF acc
<1>14. /\ x \in FrameType /\ x.direct = caller.direct /\ x.acc = acc
       /\ x.todo = caller.todo \ {Folding(caller)}
  BY <1>6, <1>12, FoldedFacts
<1> HIDE DEF x
<1>15. /\ stack' \in Seq(FrameType) /\ Len(stack') = N - 1
       /\ stack'[N - 1] = x
       /\ \A i \in 1..N - 2 : stack'[i] = stack[i]
  <2>1. stack' = Append(SubSeq(stack, 1, N - 2), x)
    BY <1>1, <1>13
  <2>2. stack \in Seq(FrameType)
    BY <1>4 DEF WalkInv
  <2>3. Len(stack) >= 2
    BY <1>5
  <2> DEFINE t == Append(SubSeq(stack, 1, N - 2), x)
  <2> HIDE DEF t
  <2>4. /\ t \in Seq(FrameType) /\ Len(t) = N - 1
        /\ t[N - 1] = x
        /\ \A i \in 1..N - 2 : t[i] = stack[i]
    <3>1. x \in FrameType
      BY <1>14
    <3>2. t = Append(SubSeq(stack, 1, Len(stack) - 2), x)
      BY DEF t
    <3>3. /\ t \in Seq(FrameType) /\ Len(t) = Len(stack) - 1
          /\ t[Len(stack) - 1] = x
          /\ \A i \in 1..Len(stack) - 2 : t[i] = stack[i]
      BY <2>2, <2>3, <3>1, <3>2, PopFacts
    <3>4. QED
      BY <3>3
  <2>5. stack' = t
    BY <2>1 DEF t
  <2>6. QED
    BY <2>4, <2>5
<1>16. \A i \in 1..N - 1 : i = N - 1 \/ i \in 1..N - 2
  BY <1>5
<1>17. \A i \in 1..N - 1 :
          /\ stack'[i].direct = stack[i].direct
          /\ stack[i].todo \subseteq DOMAIN stack[i].direct
          /\ stack[i].todo # {}
  <2> SUFFICES ASSUME NEW i \in 1..N - 1
               PROVE  /\ stack'[i].direct = stack[i].direct
                      /\ stack[i].todo \subseteq DOMAIN stack[i].direct
                      /\ stack[i].todo # {}
    OBVIOUS
  <2>1. i \in 1..Len(stack) /\ i \in 1..Len(stack) - 1
    BY <1>5
  <2>2. stack[i].todo \subseteq DOMAIN stack[i].direct /\ stack[i].todo # {}
    BY <1>4, <2>1 DEF WalkInv
  <2>3. stack'[i].direct = stack[i].direct
    BY <1>14, <1>15, <1>16
  <2>4. QED
    BY <2>2, <2>3
<1>18. \A i \in 1..N - 1 : stack'[i].todo \subseteq DOMAIN stack'[i].direct
  BY <1>6, <1>14, <1>15, <1>16, <1>17
<1>19. \A i \in 1..N - 2 : stack'[i].todo # {}
  <2>1. \A i \in 1..N - 2 : i \in 1..N - 1
    BY <1>5
  <2>2. QED
    BY <1>15, <1>17, <2>1
<1>20. stack'[1].direct = appInputs'
  BY <1>3, <1>4, <1>5, <1>17 DEF oracle, WalkInv
<1>21. FramesChained'
  <2>1. Len(stack') - 1 = N - 2
    BY <1>5, <1>15
  <2> SUFFICES ASSUME NEW i \in 1..N - 2
               PROVE  stack'[i + 1].direct = requires'[CurrentOf(stack'[i])]
    BY <2>1 DEF FramesChained, CurrentOf, Folding
  <2>2. /\ stack'[i] = stack[i] /\ requires' = requires
        /\ i + 1 \in 1..N - 1 /\ i \in 1..N - 1
    BY <1>3, <1>5, <1>15 DEF oracle
  <2>3. stack[i + 1].direct = requires[CurrentOf(stack[i])]
    BY <1>4, <2>2 DEF WalkInv, FramesChained
  <2>4. QED
    BY <1>17, <2>2, <2>3
<1>22. ClosedAcc(x)
  <2> SUFFICES ASSUME NEW n \in DOMAIN acc
               PROVE  DOMAIN requires[acc[n]] \subseteq DOMAIN acc
    BY <1>14 DEF ClosedAcc
  <2>1. CASE n \in DOMAIN result(top)
    BY <1>10, <1>12, <2>1
  <2>2. CASE n \notin DOMAIN result(top)
    BY <1>8, <1>12, <2>2 DEF ClosedAcc
  <2>3. QED
    BY <2>1, <2>2
<1>23. FoldedIn(x)
  <2> SUFFICES ASSUME NEW n \in DOMAIN caller.direct
                                  \ (caller.todo \ {Folding(caller)})
               PROVE  DOMAIN requires[caller.direct[n]] \subseteq DOMAIN acc
    BY <1>14 DEF FoldedIn
  <2>1. CASE n = Folding(caller)
    BY <1>7, <1>10, <1>12, <2>1
  <2>2. CASE n # Folding(caller)
    BY <1>8, <1>12, <2>2 DEF FoldedIn
  <2>3. QED
    BY <2>1, <2>2
<1>24. FramesClosed'
  <2>1. requires' = requires
    BY <1>3 DEF oracle
  <2> SUFFICES ASSUME NEW i \in 1..N - 1
               PROVE  (ClosedAcc(stack[i]) /\ FoldedIn(stack[i]))'
    BY <1>15 DEF FramesClosed
  <2>2. CASE i = N - 1
    BY <1>15, <1>22, <1>23, <2>1, <2>2 DEF ClosedAcc, FoldedIn
  <2>3. CASE i \in 1..N - 2
    <3>1. stack'[i] = stack[i]
      BY <1>15, <2>3
    <3>2. i \in 1..Len(stack)
      BY <1>5, <2>3
    <3>3. ClosedAcc(stack[i]) /\ FoldedIn(stack[i])
      BY <1>4, <3>2 DEF WalkInv, FramesClosed
    <3>4. QED
      BY <2>1, <3>1, <3>3 DEF ClosedAcc, FoldedIn
  <2>4. QED
    BY <1>16, <2>2, <2>3
<1>25. WalkInv'
  <2>1. stack' # <<>> /\ Len(stack') - 1 = N - 2
    BY <1>5, <1>15
  <2>2. QED
    BY <1>15, <1>18, <1>19, <1>20, <1>21, <1>24, <2>1 DEF WalkInv
<1>26. QED
  BY <1>1, <1>2, <1>25, InvOfWalk

\* Only a closure that nothing in it refuses is assembled.
LEMMA EvaluateKeeps == ASSUME IInv, Evaluate PROVE IInv'
<1>1. /\ stage = "evaluate" /\ UNCHANGED <<lock, stack, closure, installed>>
      /\ stage' \in {"refused", "assemble"}
  BY DEF Evaluate
<1>2. oracle' = oracle
  BY OracleFixed DEF Next
<1>3. stage' = "assemble" => NoneRefused'
  <2> SUFFICES ASSUME stage' = "assemble" PROVE NoneRefused'
    OBVIOUS
  <2>1. /\ ~classifyConcreteDeps(App)
        /\ \A n \in DOMAIN closure :
              ~Unusable(closure[n]) /\ ~classifyConcreteDeps(closure[n])
    BY DEF Evaluate
  <2>2. /\ App \notin refusing
        /\ \A n \in DOMAIN closure : closure[n] \notin unusable \cup refusing
    BY <2>1 DEF refusing, unusable
  <2>3. QED
    BY <1>1, <1>2, <2>2 DEF NoneRefused, oracle
<1>4. TypeOK' /\ lock' \in Locks
  BY <1>1 DEF IInv, TypeOK
<1>5. BottomIsApp' /\ FramesChained' /\ FramesClosed'
  BY <1>1, <1>2 DEF IInv, BottomIsApp, FramesChained, FramesClosed, ClosedAcc,
     FoldedIn, CurrentOf, Folding, oracle
<1>6. DirectCollected' /\ ClosureClosed' /\ NothingInstalled' /\ InstalledIsHeld'
  BY <1>1, <1>2 DEF IInv, DirectCollected, ClosureClosed, NothingInstalled,
     InstalledIsHeld, Done, oracle
<1>7. NoneRefused'
  BY <1>1, <1>3 DEF NoneRefused
<1>8. QED
  BY <1>4, <1>5, <1>6, <1>7 DEF IInv

\* The installation leaves the closure as it is.
LEMMA AssembleKeeps == ASSUME IInv, Assemble PROVE IInv'
<1>1. /\ stage = "assemble" /\ UNCHANGED <<lock, stack, closure>>
      /\ stage' = "built"
      /\ installed' = {n \in DOMAIN closure : Installable(closure[n])}
  BY DEF Assemble
<1>2. oracle' = oracle
  BY OracleFixed DEF Next
<1>3. closure \in Entries
  BY DEF IInv, TypeOK
<1>4. installed' = {n \in DOMAIN closure : closure[n] \in installable}
  BY <1>1, <1>3, EntryFacts DEF installable
<1>5. TypeOK' /\ lock' \in Locks
  BY <1>1 DEF IInv, TypeOK
<1>6. BottomIsApp' /\ FramesChained' /\ FramesClosed'
  BY <1>1, <1>2 DEF IInv, BottomIsApp, FramesChained, FramesClosed, ClosedAcc,
     FoldedIn, CurrentOf, Folding, oracle
<1>7. DirectCollected' /\ ClosureClosed' /\ NothingInstalled' /\ NoneRefused'
  BY <1>1, <1>2 DEF IInv, DirectCollected, ClosureClosed, NothingInstalled,
     NoneRefused, Done, oracle
<1>8. InstalledIsHeld'
  BY <1>1, <1>2, <1>4 DEF InstalledIsHeld, oracle
<1>9. QED
  BY <1>5, <1>6, <1>7, <1>8 DEF IInv

\* The walk starts with the app's own inputs and nothing collected.
LEMMA InitInv == ASSUME Init PROVE IInv
<1> DEFINE x == Frame(appInputs)
<1>1. lock \in Locks /\ stage = "walk" /\ closure = NoEntries /\ installed = {}
      /\ stack = <<x>>
  BY DEF Init, appInputs
<1>2. appInputs \in Entries
  BY <1>1, RequiresFacts, LocksAssumption DEF LocksAssumption
<1>3. /\ x \in FrameType /\ x.direct = appInputs /\ x.todo = DOMAIN appInputs
      /\ x.acc = NoEntries
  BY <1>2, FrameFacts
<1> HIDE DEF x
<1>4. /\ stack \in Seq(FrameType) /\ Len(stack) = 1 /\ stack[1] = x
      /\ DOMAIN stack = {1} /\ 1..Len(stack) - 1 = {} /\ 1..Len(stack) = {1}
  BY <1>1, <1>3
<1>5. TypeOK
  BY <1>1, <1>3, <1>4, NoEntriesFacts DEF TypeOK
<1>6. ClosedAcc(x) /\ FoldedIn(x)
  BY <1>3, NoEntriesFacts DEF ClosedAcc, FoldedIn
<1>7. BottomIsApp /\ FramesChained /\ FramesClosed
  BY <1>3, <1>4, <1>6 DEF BottomIsApp, FramesChained, FramesClosed
<1>8. DirectCollected /\ ClosureClosed /\ NothingInstalled /\ NoneRefused
      /\ InstalledIsHeld
  BY <1>1 DEF DirectCollected, ClosureClosed, NothingInstalled, NoneRefused,
     InstalledIsHeld, Done
<1>9. QED
  BY <1>1, <1>5, <1>7, <1>8 DEF IInv

\* The invariant holds in every reachable state, for every set of lock graphs.
THEOREM InvariantHolds == Spec => []IInv
<1>1. Init => IInv
  BY InitInv
<1>2. ASSUME IInv, [Next]_vars PROVE IInv'
  <2>1. CASE Next
    BY <1>2, <2>1, FoldKeeps, DescendKeeps, LastReturnKeeps, InnerReturnKeeps,
       EvaluateKeeps, AssembleKeeps DEF Next
  <2>2. CASE UNCHANGED vars
    <3>1. oracle' = oracle
      BY <2>2 DEF vars, oracle, requires, appInputs, unusable, refusing,
         installable, depInputs, tdeps, config, configFor, Unusable, NoBundler,
         classifyConcreteDeps, Installable, Package, Bundled, outputs, depIsLidl
    <3>2. QED
      BY <1>2, <2>2, <3>1 DEF vars, IInv, TypeOK, BottomIsApp, FramesChained,
         FramesClosed, ClosedAcc, FoldedIn, CurrentOf, Folding, DirectCollected,
         ClosureClosed, NothingInstalled, NoneRefused, InstalledIsHeld, Done, oracle
  <2>3. QED
    BY <1>2, <2>1, <2>2
<1>3. QED
  BY <1>1, <1>2, PTL DEF Spec
-----------------------------------------------------------------------------
(* The properties.                                                         *)

\* What a flake that is not refused has published its requirements by.
LEMMA UsableRequires ==
    ASSUME IInv, NEW f \in Flakes, lock[f].builder = "current",
           lock[f].kind # "qml_only", ~classifyConcreteDeps(f)
    PROVE  /\ lock[f].resolved \ lock[f].overrides \subseteq DOMAIN lock[f].inputs
           /\ ~Unusable(f) =>
                 DOMAIN requires[f] = lock[f].resolved \cap DOMAIN lock[f].inputs
<1>1. lock[f].resolved \ lock[f].overrides \subseteq DOMAIN lock[f].inputs
  BY DEF classifyConcreteDeps, depIsLidl
<1>2. ASSUME ~Unusable(f)
      PROVE  DOMAIN requires[f] = lock[f].resolved \cap DOMAIN lock[f].inputs
  <2>1. lock[f].target
    BY <1>2 DEF Unusable, outputs
  <2>2. tdeps(f).names = lock[f].resolved
    BY <2>1 DEF tdeps, configFor
  <2>3. requires[f] = depInputs(f, tdeps(f).names)
    BY RequiresFacts DEF IInv
  <2>4. QED
    BY <2>2, <2>3 DEF depInputs
<1>3. QED
  BY <1>1, <1>2

\* Every frame of the walk, and the closure it ends with, has its type.
THEOREM TypeCorrect == Spec => []TypeOK
<1>1. IInv => TypeOK
  BY DEF IInv
<1>2. QED
  BY <1>1, InvariantHolds, PTL

\* Whatever pins the dependencies of an app bring, a dependency the app pins
\* itself is bundled at the app's pin (`transitive // direct`).
THEOREM DirectWins == Spec => []DirectDependencyWins
<1>1. IInv => DirectDependencyWins
  <2> SUFFICES ASSUME IInv, stage \in {"evaluate", "assemble", "built"},
                      NEW pin \in Pins(App)
               PROVE  closure[pin[1]] = pin[2]
    BY DEF DirectDependencyWins
  <2>1. PICK n \in Required(App) \cap DOMAIN lock[App].inputs :
            pin = <<n, lock[App].inputs[n]>>
    BY DEF Pins
  <2>2. n \in lock[App].resolved
    BY <2>1 DEF Required
  <2>3. n \in DOMAIN appInputs /\ appInputs[n] = lock[App].inputs[n]
    BY <2>1, <2>2 DEF appInputs, depInputs
  <2>4. QED
    BY <2>1, <2>3 DEF IInv, DirectCollected, Done
<1>2. QED
  BY <1>1, InvariantHolds, PTL

\* The walk drops a name without an input in silence, and still an app that
\* builds has all that the C++ modules in it require: the classification
\* refuses such a name, and the collected names are closed under requirement.
THEOREM NothingMissing == Spec => []NothingRequiredMissing
<1>1. IInv => NothingRequiredMissing
  <2> SUFFICES ASSUME IInv, stage = "built",
                      NEW f \in {App} \cup {closure[n] : n \in DOMAIN closure},
                      lock[f].builder = "current", lock[f].kind # "qml_only"
               PROVE  Required(f) \ lock[f].overrides \subseteq DOMAIN closure
    BY DEF NothingRequiredMissing
  <2>1. closure \in Entries /\ App \in Flakes
    BY LocksAssumption DEF IInv, TypeOK, LocksAssumption
  <2>2. f \in Flakes
    BY <2>1, EntryFacts
  <2>3. Required(f) = lock[f].resolved
    BY DEF Required
  <2>4. ~classifyConcreteDeps(f)
    BY <2>1, <2>2 DEF IInv, NoneRefused, refusing
  <2>5. lock[f].resolved \ lock[f].overrides \subseteq DOMAIN lock[f].inputs
    BY <2>2, <2>4, UsableRequires
  <2>6. CASE f = App
    <3>1. DOMAIN appInputs = lock[f].resolved \cap DOMAIN lock[f].inputs
      BY <2>6 DEF appInputs, depInputs
    <3>2. DOMAIN appInputs \subseteq DOMAIN closure
      BY DEF IInv, DirectCollected, Done
    <3>3. QED
      BY <2>3, <2>5, <3>1, <3>2
  <2>7. CASE \E n \in DOMAIN closure : f = closure[n]
    <3>1. DOMAIN requires[f] \subseteq DOMAIN closure
      BY <2>7 DEF IInv, ClosureClosed, Done
    <3>2. ~Unusable(f)
      BY <2>2, <2>7 DEF IInv, NoneRefused, unusable
    <3>3. DOMAIN requires[f] = lock[f].resolved \cap DOMAIN lock[f].inputs
      BY <2>2, <2>4, <3>2, UsableRequires
    <3>4. QED
      BY <2>3, <2>5, <3>1, <3>3
  <2>8. QED
    BY <2>6, <2>7
<1>2. QED
  BY <1>1, InvariantHolds, PTL

\* mkStandaloneApp's warnings, which leave a module out of the app and build
\* on, are for a target with a variant reached only by a bare derivation and by
\* a package that a flake of no Logos builder publishes: any other flake has an
\* entry that nix-bundle-lgx made, or has thrown before.
THEOREM NothingOmitted == Spec => []NeverSilentlyOmitted
<1>1. IInv => NeverSilentlyOmitted
  <2> SUFFICES ASSUME IInv, stage = "built", system \in variants,
                      NEW n \in DOMAIN closure \ installed
               PROVE  \/ lock[closure[n]].builder = "bare"
                      \/ /\ lock[closure[n]].builder = "foreign"
                         /\ "lgx" \in lock[closure[n]].outputs
    BY DEF NeverSilentlyOmitted
  <2> DEFINE f == closure[n]
  <2>1. f \in Flakes
    BY EntryFacts DEF IInv, TypeOK
  <2>2. Package(f) # {"file", "variant", "name"}
    BY <2>1 DEF IInv, InstalledIsHeld, installable, Installable
  <2>3. ~Unusable(f)
    BY <2>1 DEF IInv, NoneRefused, unusable
  <2>4. lock[f].builder \in {"current", "older", "foreign", "bare"}
    BY <2>1, LocksAssumption DEF IInv, LocksAssumption, FlakeType
  <2> HIDE DEF f
  <2>5. ~Bundled(f)
    <3>1. ASSUME Bundled(f) PROVE Package(f) = {"file", "name"} \cup {"variant"}
      BY <3>1 DEF Package
    <3>2. {"file", "name"} \cup {"variant"} = {"file", "variant", "name"}
      OBVIOUS
    <3>3. QED
      BY <2>2, <3>1, <3>2
  <2>6. ASSUME lock[f].builder # "bare"
        PROVE  lock[f].builder = "foreign" /\ "lgx" \in outputs(f)
    BY <2>3, <2>4, <2>5, <2>6 DEF Unusable, Bundled
  <2>7. lock[f].builder = "foreign" => outputs(f) = lock[f].outputs
    BY DEF outputs
  <2>8. QED
    BY <2>6, <2>7 DEF f
<1>2. QED
  BY <1>1, InvariantHolds, PTL

-----------------------------------------------------------------------------
(* The walk against the reachable pins.                                    *)

\* The pins of each flake on the target, and the flakes that throw when asked.
pins == [f \in Flakes |-> Pins(f)]
throwing == {f \in Flakes : tdeps(f).throws}

\* Whatever is reachable from f, at any depth, has its name in S: f is in a
\* set of flakes that no pin leaves.
Covered(f, S) ==
    \E P \in SUBSET Flakes :
        /\ f \in P
        /\ \A g \in P : \A pin \in pins[g] : pin[1] \in S /\ pin[2] \in P

\* L[d] has every pin at most d levels below the app.
Climbs(L) ==
    /\ pins[App] \subseteq L[0]
    /\ \A d \in 0..MaxDepth - 1 :
        L[d] \subseteq L[d + 1] /\ \A pin \in L[d] : pins[pin[2]] \subseteq L[d + 1]

\* Every entry is among these pins.
Pinned(e, S) == \A n \in DOMAIN e : <<n, e[n]>> \in S

\* What the calls look up and collect is reachable, a call's own at its depth.
Reached(L) ==
    /\ \A i \in 1..Len(stack) : /\ Pinned(stack[i].direct, L[i - 1])
                                /\ Pinned(stack[i].acc, L[MaxDepth])
    /\ Pinned(closure, L[MaxDepth])
NothingBeyond == \A L : Climbs(L) => Reached(L)

\* A call has collected whatever is reachable from a dependency it has folded.
Covers(frame) ==
    \A n \in DOMAIN frame.direct \ frame.todo :
        Covered(frame.direct[n], DOMAIN frame.acc)
AllCovered == \A i \in 1..Len(stack) : Covers(stack[i])

\* A call is under way only for a dependency that answered.
CallersAnswered ==
    /\ Len(stack) <= MaxDepth
    /\ \A i \in 1..Len(stack) - 1 : CurrentOf(stack[i]) \notin throwing

\* The closure has the name of whatever is reachable from the app.
ClosureCovers ==
    Done => \A pin \in pins[App] :
                pin[1] \in DOMAIN closure /\ Covered(pin[2], DOMAIN closure)

\* What the invariant of the walk adds.
WInv == NothingBeyond /\ AllCovered /\ CallersAnswered /\ ClosureCovers

\* A pin is a name and a flake.
LEMMA PinsFacts ==
    ASSUME lock \in Locks, NEW f \in Flakes
    PROVE  /\ pins[f] = Pins(f)
           /\ \A pin \in pins[f] : pin[2] \in Flakes
<1>1. lock[f].inputs \in Entries
  BY LocksAssumption DEF LocksAssumption, FlakeType
<1>2. pins[f] = Pins(f)
  BY DEF pins
<1>3. \A pin \in Pins(f) : pin[2] \in Flakes
  BY <1>1, EntryFacts DEF Pins
<1>4. QED
  BY <1>2, <1>3

\* A flake that answers is walked by its pins on the target: without an overlay
\* on its dependencies, the agnostic answer of an older builder is the target's.
LEMMA WalkedByPins ==
    ASSUME lock \in Locks, NEW f \in Flakes, f \notin throwing
    PROVE  pins[f] = {<<n, requires[f][n]>> : n \in DOMAIN requires[f]}
<1>1. lock[f] \in FlakeType
  BY LocksAssumption DEF LocksAssumption
<1>2. tdeps(f).names = Required(f)
  <2>1. ~tdeps(f).throws
    BY DEF throwing
  <2>2. lock[f].builder \in {"current", "older"} /\ ~lock[f].keyed =>
            lock[f].base = lock[f].resolved
    BY BuilderAssumption DEF BuilderAssumption
  <2>3. lock[f].builder \in {"current", "older", "foreign", "bare"}
    BY <1>1 DEF FlakeType
  <2>4. CASE lock[f].builder = "current" /\ lock[f].target
    BY <2>4 DEF tdeps, configFor, Required
  <2>5. CASE lock[f].builder \in {"current", "older"}
             /\ ~(lock[f].builder = "current" /\ lock[f].target)
    <3>1. tdeps(f) = config(f)
      BY <2>5 DEF tdeps
    <3>2. ~lock[f].keyed /\ tdeps(f).names = lock[f].base
      BY <2>1, <3>1 DEF config
    <3>3. QED
      BY <2>2, <2>5, <3>2 DEF Required
  <2>6. CASE lock[f].builder \in {"foreign", "bare"}
    BY <2>6 DEF tdeps, Required
  <2>7. QED
    BY <2>3, <2>4, <2>5, <2>6
<1>3. requires[f] = depInputs(f, Required(f))
  BY <1>2, RequiresFacts
<1>4. DOMAIN requires[f] = Required(f) \cap DOMAIN lock[f].inputs
  BY <1>3, DepInputsFacts
<1>5. \A n \in DOMAIN requires[f] : requires[f][n] = lock[f].inputs[n]
  BY <1>3, <1>4 DEF depInputs
<1>6. pins[f] = {<<n, lock[f].inputs[n]>> : n \in Required(f) \cap DOMAIN lock[f].inputs}
  BY DEF pins, Pins
<1>7. QED
  BY <1>4, <1>5, <1>6

\* The outermost call looks up the pins of the app.
LEMMA AppByPins ==
    ASSUME lock \in Locks
    PROVE  pins[App] = {<<n, appInputs[n]>> : n \in DOMAIN appInputs}
<1>1. App \in Flakes /\ lock[App].builder = "current"
  BY LocksAssumption, BuilderAssumption DEF LocksAssumption, BuilderAssumption
<1>2. Required(App) = lock[App].resolved
  BY <1>1 DEF Required
<1>3. pins[App] = {<<n, lock[App].inputs[n]>> : n \in Required(App) \cap DOMAIN lock[App].inputs}
  BY <1>1 DEF pins, Pins
<1>4. /\ DOMAIN appInputs = Required(App) \cap DOMAIN lock[App].inputs
      /\ \A n \in DOMAIN appInputs : appInputs[n] = lock[App].inputs[n]
  BY <1>2 DEF appInputs, depInputs
<1>5. QED
  BY <1>3, <1>4

\* The graph does not change, nor its pins.
LEMMA PinsFixed ==
    ASSUME lock' = lock PROVE pins' = pins /\ throwing' = throwing
<1>1. \A f \in Flakes : tdeps(f)' = tdeps(f) /\ Pins(f)' = Pins(f)
  BY DEF tdeps, config, configFor, Pins, Required
<1>2. QED
  BY <1>1 DEF pins, throwing

\* What covers a flake may grow.
LEMMA CoveredMore ==
    ASSUME NEW f, NEW S, NEW T, S \subseteq T, Covered(f, S)
    PROVE  Covered(f, T)
<1>1. PICK P \in SUBSET Flakes :
          /\ f \in P
          /\ \A g \in P : \A pin \in pins[g] : pin[1] \in S /\ pin[2] \in P
  BY DEF Covered
<1>2. \A g \in P : \A pin \in pins[g] : pin[1] \in T /\ pin[2] \in P
  BY <1>1
<1>3. QED
  BY <1>1, <1>2 DEF Covered

\* What is covered has its pins covered,
LEMMA CoveredPins ==
    ASSUME NEW f, NEW S, Covered(f, S)
    PROVE  f \in Flakes /\ \A pin \in pins[f] : pin[1] \in S /\ Covered(pin[2], S)
BY DEF Covered

\* and a flake is covered when its pins are.
LEMMA CoveredByPins ==
    ASSUME NEW f \in Flakes, NEW S,
           \A pin \in pins[f] : pin[1] \in S /\ Covered(pin[2], S)
    PROVE  Covered(f, S)
<1> DEFINE P == {g \in Flakes : g = f \/ Covered(g, S)}
<1>1. ASSUME NEW g \in P, NEW pin \in pins[g] PROVE pin[1] \in S /\ pin[2] \in P
  <2>1. pin[1] \in S /\ Covered(pin[2], S)
    BY <1>1, CoveredPins
  <2>2. QED
    BY <2>1, CoveredPins
<1>2. P \in SUBSET Flakes /\ f \in P
  OBVIOUS
<1> HIDE DEF P
<1>3. QED
  BY <1>1, <1>2 DEF Covered

\* The levels grow up to the bound on the recursion.
LEMMA LevelsGrow ==
    ASSUME NEW L, Climbs(L)
    PROVE  \A d \in 0..MaxDepth : L[d] \subseteq L[MaxDepth]
<1> DEFINE S == {k \in Nat : k <= MaxDepth => L[MaxDepth - k] \subseteq L[MaxDepth]}
<1>1. MaxDepth \in Nat
  BY LocksAssumption DEF LocksAssumption
<1>2. 0 \in S
  BY <1>1
<1>3. ASSUME NEW k \in Nat, k \in S PROVE k + 1 \in S
  <2> SUFFICES ASSUME k + 1 <= MaxDepth PROVE L[MaxDepth - (k + 1)] \subseteq L[MaxDepth]
    OBVIOUS
  <2> DEFINE d == MaxDepth - (k + 1)
  <2>1. d \in 0..MaxDepth - 1 /\ d + 1 = MaxDepth - k /\ k <= MaxDepth
    BY <1>1
  <2> HIDE DEF d
  <2>2. L[d] \subseteq L[d + 1]
    BY <2>1 DEF Climbs
  <2>3. L[MaxDepth - k] \subseteq L[MaxDepth]
    BY <1>3, <2>1
  <2>4. L[d] \subseteq L[MaxDepth]
    BY <2>1, <2>2, <2>3
  <2>5. QED
    BY <2>4 DEF d
<1>4. Nat \subseteq S
  BY <1>2, <1>3, SetInduction
<1>5. ASSUME NEW d \in 0..MaxDepth PROVE L[d] \subseteq L[MaxDepth]
  <2> DEFINE k == MaxDepth - d
  <2>1. k \in Nat /\ k <= MaxDepth /\ MaxDepth - k = d
    BY <1>1, <1>5
  <2> HIDE DEF k
  <2>2. k \in S
    BY <1>4, <2>1
  <2>3. L[MaxDepth - k] \subseteq L[MaxDepth]
    BY <2>1, <2>2
  <2>4. QED
    BY <2>1, <2>3
<1>6. QED
  BY <1>5

\* A step of the walk leaves all calls alone but the innermost, and that one is
\* all that has to be looked at.
LEMMA WalkStep ==
    ASSUME WInv, lock' = lock, stage' = "walk", closure' = closure,
           Len(stack) \in Nat, NEW M \in Nat \ {0}, M <= MaxDepth, M - 1 <= Len(stack),
           Len(stack') = M,
           \A i \in 1..M - 1 : stack'[i] = stack[i] /\ CurrentOf(stack[i]) \notin throwing,
           NEW x, stack'[M] = x, Covers(x),
           \A L : Climbs(L) => Pinned(x.direct, L[M - 1]) /\ Pinned(x.acc, L[MaxDepth])
    PROVE  WInv'
<1>1. pins' = pins /\ throwing' = throwing
  BY PinsFixed
<1>2. \A i \in 1..M : i = M \/ i \in 1..M - 1
  OBVIOUS
<1>3. \A i \in 1..M - 1 : i \in 1..Len(stack)
  OBVIOUS
<1>4. NothingBeyond'
  <2> SUFFICES ASSUME NEW L, Climbs(L)' PROVE Reached(L)'
    BY DEF NothingBeyond
  <2>1. Climbs(L)
    BY <1>1 DEF Climbs
  <2>2. Reached(L)
    BY <2>1 DEF WInv, NothingBeyond
  <2>3. ASSUME NEW i \in 1..M
        PROVE  Pinned(stack'[i].direct, L[i - 1]) /\ Pinned(stack'[i].acc, L[MaxDepth])
    <3>1. CASE i = M
      BY <2>1, <3>1
    <3>2. CASE i \in 1..M - 1
      BY <1>3, <2>2, <3>2 DEF Reached
    <3>3. QED
      BY <1>2, <3>1, <3>2
  <2>4. Pinned(closure', L[MaxDepth])
    BY <2>2 DEF Reached
  <2>5. QED
    BY <2>3, <2>4 DEF Reached, Pinned
<1>5. AllCovered'
  <2> SUFFICES ASSUME NEW i \in 1..M PROVE Covers(stack[i])'
    BY DEF AllCovered
  <2>1. Covers(stack'[i])
    <3>1. CASE i = M
      BY <3>1
    <3>2. CASE i \in 1..M - 1
      BY <1>3, <3>2 DEF WInv, AllCovered
    <3>3. QED
      BY <1>2, <3>1, <3>2
  <2>2. QED
    BY <1>1, <2>1 DEF Covers, Covered
<1>6. CallersAnswered'
  <2>1. \A i \in 1..M - 1 : CurrentOf(stack[i])' \notin throwing
    BY DEF CurrentOf, Folding
  <2>2. QED
    BY <1>1, <2>1 DEF CallersAnswered
<1>7. ClosureCovers'
  BY DEF ClosureCovers, Done
<1>8. QED
  BY <1>4, <1>5, <1>6, <1>7 DEF WInv

\* A step that leaves the walk alone, or ends it in a refusal.
LEMMA RestStep ==
    ASSUME WInv, UNCHANGED <<lock, stack, closure>>, Done' => Done
    PROVE  WInv'
<1>1. pins' = pins /\ throwing' = throwing
  BY PinsFixed
<1>2. NothingBeyond'
  <2>1. \A L : Climbs(L)' = Climbs(L)
    BY <1>1 DEF Climbs
  <2>2. \A L : Reached(L)' = Reached(L)
    BY DEF Reached, Pinned
  <2>3. QED
    BY <2>1, <2>2 DEF WInv, NothingBeyond
<1>3. AllCovered'
  BY <1>1 DEF WInv, AllCovered, Covers, Covered
<1>4. CallersAnswered'
  BY <1>1 DEF WInv, CallersAnswered, CurrentOf, Folding
<1>5. ClosureCovers'
  BY <1>1 DEF WInv, ClosureCovers, Covered
<1>6. QED
  BY <1>2, <1>3, <1>4, <1>5 DEF WInv

\* A dependency that is folded without a call has no pins.
LEMMA FoldWalked == ASSUME IInv, WInv, Fold PROVE WInv'
<1>1. stage = "walk" /\ top.todo # {} /\ UNCHANGED <<lock, closure, installed>>
  BY DEF Fold
<1>2. CASE stage' = "refused" /\ UNCHANGED stack
  BY <1>1, <1>2, RestStep DEF Done
<1>3. CASE /\ ~tdeps(Current).throws /\ tdeps(Current).names = {}
           /\ stack' = SetTop(Folded(top)) /\ UNCHANGED stage
  <2> DEFINE N == Len(stack)
             f == CurrentOf(top)
             x == Folded(top)
  <2>1. TypeOK /\ lock \in Locks /\ stack \in Seq(FrameType) /\ stack # <<>>
    BY <1>1, WalkOfInv DEF IInv, WalkInv
  <2>2. /\ N \in Nat \ {0} /\ top = stack[N] /\ top \in FrameType
        /\ top.acc \in Entries /\ f \in Flakes /\ f = top.direct[Folding(top)]
    BY <1>1, <2>1, TopFacts DEF CurrentOf
  <2>3. /\ x \in FrameType /\ x.direct = top.direct /\ x.acc = top.acc
        /\ x.todo = top.todo \ {Folding(top)}
    BY <2>2, FoldedFacts
  <2>4. /\ Len(stack') = N /\ stack'[N] = x
        /\ \A i \in 1..N - 1 : stack'[i] = stack[i]
    BY <1>3, <2>1, <2>3, SetTopFacts
  <2>5. pins[f] = {}
    <3>1. f \notin throwing /\ tdeps(f).names = {}
      BY <1>3 DEF throwing, Current
    <3>2. DOMAIN requires[f] = {}
      BY <2>1, <2>2, <3>1, RequiresFacts DEF depInputs
    <3>3. QED
      BY <2>1, <2>2, <3>1, <3>2, WalkedByPins
  <2>6. Covers(x)
    <3>1. Covered(f, DOMAIN top.acc)
      BY <2>2, <2>5, CoveredByPins
    <3>2. Covers(top)
      BY <2>2 DEF WInv, AllCovered
    <3>3. QED
      BY <2>2, <2>3, <3>1, <3>2 DEF Covers
  <2>7. \A i \in 1..N - 1 : CurrentOf(stack[i]) \notin throwing
    BY DEF WInv, CallersAnswered
  <2>8. ASSUME NEW L, Climbs(L)
        PROVE  Pinned(x.direct, L[N - 1]) /\ Pinned(x.acc, L[MaxDepth])
    <3>1. N \in 1..N
      BY <2>2
    <3>2. Pinned(top.direct, L[N - 1]) /\ Pinned(top.acc, L[MaxDepth])
      BY <2>2, <2>8, <3>1 DEF WInv, NothingBeyond, Reached
    <3>3. QED
      BY <2>3, <3>2
  <2>9. N <= MaxDepth /\ N - 1 <= Len(stack)
    BY <2>2 DEF WInv, CallersAnswered
  <2>10. stage' = "walk" /\ lock' = lock /\ closure' = closure
    BY <1>1, <1>3
  <2> HIDE DEF x, f
  <2>11. QED
    BY <2>2, <2>4, <2>6, <2>7, <2>8, <2>9, <2>10, WalkStep
<1>4. QED
  BY <1>2, <1>3 DEF Fold

\* A call starts with nothing folded, one level below its caller.
LEMMA DescendWalked == ASSUME IInv, WInv, Descend PROVE WInv'
<1> DEFINE N == Len(stack)
           f == CurrentOf(top)
           x == Frame(requires[f])
           M == N + 1
<1>1. /\ stage = "walk" /\ top.todo # {} /\ stage' = "walk" /\ N < MaxDepth
      /\ ~tdeps(f).throws
      /\ UNCHANGED <<lock, closure, installed>>
      /\ stack' = Append(stack, Callee(Current))
  BY DEF Descend, Current
<1>2. TypeOK /\ lock \in Locks /\ stack \in Seq(FrameType) /\ stack # <<>>
  BY <1>1, WalkOfInv DEF IInv, WalkInv
<1>3. /\ N \in Nat \ {0} /\ top = stack[N] /\ top \in FrameType
      /\ f \in Flakes /\ f = top.direct[Folding(top)]
      /\ Folding(top) \in DOMAIN top.direct
  BY <1>1, <1>2, TopFacts DEF CurrentOf
<1>4. requires[f] = depInputs(f, tdeps(f).names) /\ requires[f] \in Entries
  BY <1>2, <1>3, RequiresFacts
<1>5. Callee(Current) = x
  BY <1>4 DEF Callee, Current
<1>6. /\ x \in FrameType /\ x.direct = requires[f]
      /\ x.todo = DOMAIN requires[f] /\ x.acc = NoEntries
  BY <1>4, FrameFacts
<1>7. f \notin throwing
  BY <1>1 DEF throwing
<1> HIDE DEF x
<1>8. /\ Len(stack') = M /\ stack'[M] = x
      /\ \A i \in 1..N : stack'[i] = stack[i]
  BY <1>1, <1>2, <1>5, <1>6
<1>9. /\ M \in Nat \ {0} /\ M <= MaxDepth /\ M - 1 <= Len(stack) /\ M - 1 = N
      /\ Len(stack) \in Nat
  BY <1>1, <1>3, LocksAssumption DEF LocksAssumption
<1>10. \A i \in 1..N : i = N \/ i \in 1..N - 1
  BY <1>3
<1>11. \A i \in 1..N : CurrentOf(stack[i]) \notin throwing
  <2>1. \A i \in 1..N - 1 : CurrentOf(stack[i]) \notin throwing
    BY DEF WInv, CallersAnswered
  <2>2. CurrentOf(stack[N]) \notin throwing
    BY <1>3, <1>7
  <2> HIDE DEF N
  <2>3. QED
    BY <1>10, <2>1, <2>2
<1>12. Covers(x)
  BY <1>6 DEF Covers
<1>13. ASSUME NEW L, Climbs(L)
       PROVE  Pinned(x.direct, L[N]) /\ Pinned(x.acc, L[MaxDepth])
  <2>1. N \in 1..N
    BY <1>3
  <2>2. Pinned(top.direct, L[N - 1])
    BY <1>3, <1>13, <2>1 DEF WInv, NothingBeyond, Reached
  <2>3. <<Folding(top), f>> \in L[N - 1]
    BY <1>3, <2>2 DEF Pinned
  <2> DEFINE d == N - 1
  <2>4. d \in 0..MaxDepth - 1 /\ d + 1 = N
    BY <1>1, <1>3, LocksAssumption DEF LocksAssumption
  <2>5. <<Folding(top), f>> \in L[d]
    BY <2>3
  <2> HIDE DEF d, N, f
  <2>6. pins[f] \subseteq L[d + 1]
    <3>1. \A pin \in L[d] : pins[pin[2]] \subseteq L[d + 1]
      BY <1>13, <2>4 DEF Climbs
    <3>2. pins[<<Folding(top), f>>[2]] \subseteq L[d + 1]
      BY <2>5, <3>1
    <3>3. QED
      BY <3>2
  <2>7. pins[f] = {<<n, requires[f][n]>> : n \in DOMAIN requires[f]}
    BY <1>2, <1>3, <1>7, WalkedByPins
  <2>8. Pinned(x.direct, L[N])
    BY <1>6, <2>4, <2>6, <2>7 DEF Pinned
  <2>9. Pinned(x.acc, L[MaxDepth])
    BY <1>6, NoEntriesFacts DEF Pinned
  <2>10. QED
    BY <2>8, <2>9
<1>14. stage' = "walk" /\ lock' = lock /\ closure' = closure
  BY <1>1
<1> HIDE DEF M
<1>15. ASSUME NEW L, Climbs(L)
       PROVE  Pinned(x.direct, L[M - 1]) /\ Pinned(x.acc, L[MaxDepth])
  BY <1>9, <1>13, <1>15
<1>16. \A i \in 1..M - 1 : stack'[i] = stack[i] /\ CurrentOf(stack[i]) \notin throwing
  BY <1>8, <1>9, <1>11
<1> HIDE DEF N
<1>17. QED
  BY <1>8, <1>9, <1>12, <1>14, <1>15, <1>16, WalkStep

\* The answer of a finished call covers what the call looked up.
LEMMA ResultCovers ==
    ASSUME NEW fr \in FrameType, fr.todo = {}, Covers(fr)
    PROVE  \A n \in DOMAIN fr.direct :
               n \in DOMAIN result(fr) /\ Covered(fr.direct[n], DOMAIN result(fr))
<1>1. fr.acc \in Entries /\ fr.direct \in Entries
  BY DEF FrameType
<1>2. DOMAIN result(fr) = DOMAIN fr.acc \cup DOMAIN fr.direct
  BY <1>1, UpdateFacts DEF result
<1>3. \A n \in DOMAIN fr.direct : Covered(fr.direct[n], DOMAIN fr.acc)
  BY DEF Covers
<1>4. DOMAIN fr.acc \subseteq DOMAIN result(fr)
  BY <1>2
<1>5. QED
  BY <1>2, <1>3, <1>4, CoveredMore

\* An update by reachable pins gives reachable pins.
LEMMA UpdatePinned ==
    ASSUME NEW e \in Entries, NEW g \in Entries, NEW S, Pinned(e, S), Pinned(g, S)
    PROVE  Pinned(Update(e, g), S)
<1>1. /\ DOMAIN Update(e, g) = DOMAIN e \cup DOMAIN g
      /\ \A n \in DOMAIN g : Update(e, g)[n] = g[n]
      /\ \A n \in DOMAIN e \ DOMAIN g : Update(e, g)[n] = e[n]
  BY UpdateFacts
<1>2. QED
  BY <1>1 DEF Pinned

\* The answer of the innermost call has reachable pins.
LEMMA TopPinned ==
    ASSUME IInv, WInv, stage = "walk", NEW L, Climbs(L)
    PROVE  Pinned(result(top), L[MaxDepth])
<1> DEFINE N == Len(stack)
           d == N - 1
<1>1. /\ N \in Nat \ {0} /\ top = stack[N]
      /\ top.direct \in Entries /\ top.acc \in Entries
  BY TopFacts DEF IInv
<1>2. N \in 1..N /\ d \in 0..MaxDepth
  BY <1>1, LocksAssumption DEF LocksAssumption, WInv, CallersAnswered
<1>3. Pinned(top.direct, L[d]) /\ Pinned(top.acc, L[MaxDepth])
  BY <1>1, <1>2 DEF WInv, NothingBeyond, Reached
<1> HIDE DEF d
<1>4. L[d] \subseteq L[MaxDepth]
  BY <1>2, LevelsGrow
<1>5. Pinned(top.direct, L[MaxDepth])
  BY <1>3, <1>4 DEF Pinned
<1>6. QED
  BY <1>1, <1>3, <1>5, UpdatePinned DEF result

\* The outermost call has collected whatever is reachable from the app.
LEMMA LastReturnWalked ==
    ASSUME IInv, WInv, Return, Len(stack) = 1 PROVE WInv'
<1>1. /\ stage = "walk" /\ top.todo = {} /\ stage' = "evaluate"
      /\ stack' = <<>> /\ closure' = result(top)
      /\ UNCHANGED <<lock, installed>>
  BY DEF Return
<1>2. pins' = pins /\ throwing' = throwing
  BY <1>1, PinsFixed
<1>3. TypeOK /\ lock \in Locks /\ stack[1].direct = appInputs
  BY <1>1, WalkOfInv DEF IInv, WalkInv
<1>4. top = stack[1] /\ top \in FrameType /\ top.direct = appInputs
  BY <1>1, <1>3, TopFacts
<1>5. Covers(top)
  BY <1>4 DEF WInv, AllCovered
<1>6. \A n \in DOMAIN appInputs :
          n \in DOMAIN closure' /\ Covered(appInputs[n], DOMAIN closure')
  BY <1>1, <1>4, <1>5, ResultCovers
<1>7. 1..Len(stack') = {} /\ 1..Len(stack') - 1 = {}
  BY <1>1
<1>8. NothingBeyond'
  <2> SUFFICES ASSUME NEW L, Climbs(L)' PROVE Reached(L)'
    BY DEF NothingBeyond
  <2>1. Climbs(L)
    BY <1>2 DEF Climbs
  <2>2. Pinned(closure', L[MaxDepth])
    BY <1>1, <2>1, TopPinned
  <2>3. QED
    BY <1>7, <2>2 DEF Reached, Pinned
<1>9. AllCovered'
  BY <1>7 DEF AllCovered
<1>10. CallersAnswered'
  <2>1. Len(stack') <= MaxDepth
    BY <1>1, LocksAssumption DEF LocksAssumption
  <2>2. QED
    BY <1>7, <2>1 DEF CallersAnswered
<1>11. ClosureCovers'
  <2>1. pins[App] = {<<n, appInputs[n]>> : n \in DOMAIN appInputs}
    BY <1>3, AppByPins
  <2>2. \A pin \in pins[App] :
            pin[1] \in DOMAIN closure' /\ Covered(pin[2], DOMAIN closure')
    BY <1>6, <2>1
  <2>3. QED
    BY <1>2, <2>2 DEF ClosureCovers, Covered
<1>12. QED
  BY <1>8, <1>9, <1>10, <1>11 DEF WInv

\* An inner call's answer covers the dependency it was made for.
LEMMA InnerReturnWalked ==
    ASSUME IInv, WInv, Return, Len(stack) # 1 PROVE WInv'
<1> DEFINE N == Len(stack)
           M == N - 1
           caller == stack[M]
           f == CurrentOf(caller)
           acc == Update(caller.acc, result(top))
           x == [Folded(caller) EXCEPT !.acc = acc]
<1>1. /\ stage = "walk" /\ top.todo = {} /\ stage' = "walk"
      /\ UNCHANGED <<lock, closure, installed>>
      /\ stack' = Append(SubSeq(stack, 1, N - 2),
                         [Folded(caller) EXCEPT !.acc = Update(@, result(top))])
  BY DEF Return
<1>2. WalkInv /\ TypeOK /\ lock \in Locks
  BY <1>1, WalkOfInv DEF IInv
<1>3. /\ N \in Nat \ {0} /\ top = stack[N] /\ top \in FrameType
      /\ top.acc \in Entries /\ top.direct \in Entries
  BY <1>1, <1>2, TopFacts
<1>4. N \in Nat /\ N >= 2
  <2>1. N \in Nat \ {0} /\ N # 1
    BY <1>3
  <2> HIDE DEF N
  <2>2. QED
    BY <2>1
<1>5. /\ M \in Nat \ {0} /\ M \in 1..N - 1 /\ M \in 1..N /\ N \in 1..N
      /\ M + 1 = N /\ M - 1 = N - 2
  BY <1>4
<1>6. /\ caller \in FrameType /\ caller.todo \subseteq DOMAIN caller.direct
      /\ caller.todo # {} /\ stack \in Seq(FrameType)
  BY <1>2, <1>5 DEF WalkInv
<1>7. /\ Folding(caller) \in caller.todo /\ f \in Flakes
      /\ f = caller.direct[Folding(caller)] /\ caller.acc \in Entries
  BY <1>6, CurrentFacts DEF CurrentOf, FrameType
<1>8. top.direct = requires[f]
  BY <1>2, <1>3, <1>5 DEF WalkInv, FramesChained
<1>9. f \notin throwing
  BY <1>5 DEF WInv, CallersAnswered
<1>10. Covers(top) /\ Covers(caller)
  BY <1>3, <1>5 DEF WInv, AllCovered
<1>11. result(top) \in Entries
  BY <1>3, UpdateFacts DEF result
<1>12. Covered(f, DOMAIN result(top))
  <2>1. \A n \in DOMAIN requires[f] :
            n \in DOMAIN result(top) /\ Covered(requires[f][n], DOMAIN result(top))
    BY <1>1, <1>3, <1>8, <1>10, ResultCovers
  <2>2. pins[f] = {<<n, requires[f][n]>> : n \in DOMAIN requires[f]}
    BY <1>2, <1>7, <1>9, WalkedByPins
  <2>3. \A pin \in pins[f] :
            pin[1] \in DOMAIN result(top) /\ Covered(pin[2], DOMAIN result(top))
    BY <2>1, <2>2
  <2> HIDE DEF f
  <2>4. QED
    BY <1>7, <2>3, CoveredByPins
<1>13. acc \in Entries /\ DOMAIN acc = DOMAIN caller.acc \cup DOMAIN result(top)
  BY <1>7, <1>11, UpdateFacts
<1>14. [Folded(caller) EXCEPT !.acc = Update(@, result(top))] = x
  <2>1. Folded(caller).acc = caller.acc
    BY <1>6, <1>7, FoldedFacts
  <2>2. QED
    BY <2>1
<1>15. \A L : Climbs(L) => Pinned(acc, L[MaxDepth])
  <2> SUFFICES ASSUME NEW L, Climbs(L) PROVE Pinned(acc, L[MaxDepth])
    OBVIOUS
  <2>1. Pinned(caller.acc, L[MaxDepth])
    BY <1>5 DEF WInv, NothingBeyond, Reached
  <2>2. Pinned(result(top), L[MaxDepth])
    BY <1>1, TopPinned
  <2>3. QED
    BY <1>7, <1>11, <2>1, <2>2, UpdatePinned
<1> HIDE DEF acc
<1>16. /\ x \in FrameType /\ x.direct = caller.direct /\ x.acc = acc
       /\ x.todo = caller.todo \ {Folding(caller)}
  BY <1>6, <1>13, FoldedFacts
<1> HIDE DEF x
<1>17. /\ Len(stack') = M /\ stack'[M] = x
       /\ \A i \in 1..M - 1 : stack'[i] = stack[i]
  <2>1. stack' = Append(SubSeq(stack, 1, Len(stack) - 2), x)
    BY <1>1, <1>14
  <2> DEFINE t == Append(SubSeq(stack, 1, Len(stack) - 2), x)
  <2>2. /\ Len(t) = Len(stack) - 1 /\ t[Len(stack) - 1] = x
        /\ \A i \in 1..Len(stack) - 2 : t[i] = stack[i]
    BY <1>4, <1>6, <1>16, PopFacts
  <2>3. stack' = t
    BY <2>1
  <2> HIDE DEF t
  <2>4. QED
    BY <1>5, <2>2, <2>3
<1>18. Covers(x)
  <2>1. \A n \in DOMAIN caller.direct \ caller.todo :
            Covered(caller.direct[n], DOMAIN acc)
    <3>1. DOMAIN caller.acc \subseteq DOMAIN acc
      BY <1>13
    <3>2. QED
      BY <1>10, <3>1, CoveredMore DEF Covers
  <2>2. Covered(f, DOMAIN acc)
    <3>1. DOMAIN result(top) \subseteq DOMAIN acc
      BY <1>13
    <3>2. QED
      BY <1>12, <3>1, CoveredMore
  <2>3. QED
    BY <1>7, <1>16, <2>1, <2>2 DEF Covers
<1>19. \A i \in 1..M - 1 : CurrentOf(stack[i]) \notin throwing
  <2>1. \A i \in 1..M - 1 : i \in 1..N - 1
    BY <1>4
  <2>2. QED
    BY <2>1 DEF WInv, CallersAnswered
<1>20. M <= MaxDepth /\ M - 1 <= Len(stack) /\ Len(stack) \in Nat
  BY <1>4, LocksAssumption DEF LocksAssumption, WInv, CallersAnswered
<1>21. ASSUME NEW L, Climbs(L)
       PROVE  Pinned(x.direct, L[M - 1]) /\ Pinned(x.acc, L[MaxDepth])
  <2>1. Pinned(caller.direct, L[M - 1])
    BY <1>5, <1>21 DEF WInv, NothingBeyond, Reached
  <2>2. QED
    BY <1>15, <1>16, <1>21, <2>1
<1>22. stage' = "walk" /\ lock' = lock /\ closure' = closure
  BY <1>1
<1> HIDE DEF M, N
<1>23. QED
  BY <1>5, <1>17, <1>18, <1>19, <1>20, <1>21, <1>22, WalkStep

\* The walk starts with the app's pins and nothing collected.
LEMMA InitWalked == ASSUME Init PROVE WInv
<1> DEFINE x == Frame(appInputs)
<1>1. lock \in Locks /\ stage = "walk" /\ closure = NoEntries /\ stack = <<x>>
  BY DEF Init, appInputs
<1>2. appInputs \in Entries
  BY <1>1, RequiresFacts, LocksAssumption DEF LocksAssumption
<1>3. x.direct = appInputs /\ x.todo = DOMAIN appInputs /\ x.acc = NoEntries
  BY <1>2, FrameFacts
<1> HIDE DEF x
<1>4. /\ Len(stack) = 1 /\ stack[1] = x
      /\ 1..Len(stack) - 1 = {} /\ 1..Len(stack) = {1}
  BY <1>1
<1>5. NothingBeyond
  <2> SUFFICES ASSUME NEW L, Climbs(L) PROVE Reached(L)
    BY DEF NothingBeyond
  <2>1. Pinned(appInputs, L[0])
    BY <1>1, AppByPins DEF Climbs, Pinned
  <2>2. Pinned(NoEntries, L[MaxDepth])
    BY NoEntriesFacts DEF Pinned
  <2>3. L[1 - 1] = L[0]
    OBVIOUS
  <2>4. QED
    BY <1>1, <1>3, <1>4, <2>1, <2>2, <2>3 DEF Reached
<1>6. AllCovered
  BY <1>3, <1>4 DEF AllCovered, Covers
<1>7. CallersAnswered
  BY <1>4, LocksAssumption DEF CallersAnswered, LocksAssumption
<1>8. ClosureCovers
  BY <1>1 DEF ClosureCovers, Done
<1>9. QED
  BY <1>5, <1>6, <1>7, <1>8 DEF WInv

\* Half-finished calls hold what is reachable from the dependencies they have
\* folded, and nothing that is not reachable, for every set of lock graphs.
THEOREM WalkInvariant == Spec => [](IInv /\ WInv)
<1>1. Init => IInv /\ WInv
  BY InitInv, InitWalked
<1>2. ASSUME IInv, IInv', WInv, [Next]_vars PROVE WInv'
  <2>1. CASE Fold
    BY <1>2, <2>1, FoldWalked
  <2>2. CASE Descend
    BY <1>2, <2>2, DescendWalked
  <2>3. CASE Return
    BY <1>2, <2>3, LastReturnWalked, InnerReturnWalked
  <2>4. CASE Evaluate \/ Assemble
    <3>1. UNCHANGED <<lock, stack, closure>> /\ Done
      BY <2>4 DEF Evaluate, Assemble, Done
    <3>2. QED
      BY <1>2, <3>1, RestStep
  <2>5. CASE UNCHANGED vars
    <3>1. UNCHANGED <<lock, stack, closure>> /\ Done' = Done
      BY <2>5 DEF vars, Done
    <3>2. QED
      BY <1>2, <3>1, RestStep
  <2>6. QED
    BY <1>2, <2>1, <2>2, <2>3, <2>4, <2>5 DEF Next
<1>3. QED
  BY <1>1, <1>2, InvariantHolds, PTL DEF Spec
-----------------------------------------------------------------------------
(* The reachable pins, level by level.                                     *)

\* The pins one level further from the app.
Further(t, d) ==
    IF d = 0 THEN Pins(App)
    ELSE t[d - 1] \cup UNION {Pins(pin[2]) : pin \in t[d - 1]}

\* t has the levels up to m.
Leveled(t, m) == DOMAIN t = 0..m /\ \A d \in 0..m : t[d] = Further(t, d)

\* There is a function for every number of levels.
LEMMA LeveledExist ==
    ASSUME NEW m \in Nat PROVE \E t : Leveled(t, m)
<1> DEFINE S == {j \in Nat : \E t : Leveled(t, j)}
<1>1. 0 \in S
  <2> DEFINE t == [d \in 0..0 |-> Pins(App)]
  <2>1. \A d \in 0..0 : d = 0 /\ t[d] = Pins(App)
    OBVIOUS
  <2>2. Leveled(t, 0)
    BY <2>1 DEF Leveled, Further
  <2>3. QED
    BY <2>2
<1>2. ASSUME NEW j \in Nat, j \in S PROVE j + 1 \in S
  <2>1. PICK t : Leveled(t, j)
    BY <1>2
  <2> DEFINE q == j + 1
             u == [d \in 0..q |-> IF d = q THEN Further(t, q) ELSE t[d]]
  <2>2. /\ q \in Nat /\ q # 0 /\ q - 1 = j
        /\ \A d \in 0..q : d = q \/ d \in 0..j
        /\ \A d \in 0..j : d # q /\ d \in 0..q /\ (d # 0 => d - 1 \in 0..j)
        /\ q \in 0..q /\ j \in 0..j
    OBVIOUS
  <2>3. DOMAIN u = 0..q /\ u[q] = Further(t, q) /\ \A d \in 0..j : u[d] = t[d]
    BY <2>2
  <2> HIDE DEF u, q
  <2>4. Further(u, q) = Further(t, q)
    BY <2>2, <2>3 DEF Further
  <2>5. \A d \in 0..j : Further(u, d) = Further(t, d)
    BY <2>2, <2>3 DEF Further
  <2>6. \A d \in 0..j : u[d] = Further(u, d)
    BY <2>1, <2>3, <2>5 DEF Leveled
  <2>7. Leveled(u, q)
    BY <2>2, <2>3, <2>4, <2>6 DEF Leveled
  <2>8. QED
    BY <2>2, <2>7 DEF q
<1>3. Nat \subseteq S
  BY <1>1, <1>2, SetInduction
<1>4. QED
  BY <1>3

\* Reach is the last of the levels.
LEMMA ReachLevels ==
    \E t : Leveled(t, MaxDepth) /\ Reach = t[MaxDepth]
<1> DEFINE body(t) == [d \in 0..MaxDepth |->
                          IF d = 0 THEN Pins(App)
                          ELSE t[d - 1] \cup UNION {Pins(pin[2]) : pin \in t[d - 1]}]
           R == CHOOSE t : t = body(t)
<1>1. MaxDepth \in Nat
  BY LocksAssumption DEF LocksAssumption
<1>2. PICK t : Leveled(t, MaxDepth)
  BY <1>1, LeveledExist
<1>3. \E g : g = body(g)
  <2> DEFINE g == [d \in 0..MaxDepth |-> t[d]]
  <2>1. ASSUME NEW d \in 0..MaxDepth PROVE g[d] = body(g)[d]
    <3>1. d # 0 => d - 1 \in 0..MaxDepth
      BY <1>1
    <3>2. t[d] = Further(t, d)
      BY <1>2 DEF Leveled
    <3>3. QED
      BY <3>1, <3>2 DEF Further
  <2>2. g = body(g)
    BY <2>1
  <2>3. QED
    BY <2>2
<1>4. Reach = R[MaxDepth]
  BY Zenon DEF Reach
<1>5. R = body(R)
  <2> HIDE DEF body
  <2>1. QED
    BY <1>3, Zenon
<1> HIDE DEF R
<1>6. Leveled(R, MaxDepth)
  BY <1>5 DEF Leveled, Further
<1>7. QED
  BY <1>4, <1>6

\* The levels climb from the app.
LEMMA LevelsClimb ==
    ASSUME lock \in Locks, NEW t, Leveled(t, MaxDepth)
    PROVE  /\ Climbs(t)
           /\ \A d \in 0..MaxDepth : \A pin \in t[d] : pin[2] \in Flakes
<1>1. MaxDepth \in Nat /\ App \in Flakes
  BY LocksAssumption DEF LocksAssumption
<1>2. t[0] = pins[App]
  <2>1. 0 \in 0..MaxDepth
    BY <1>1
  <2>2. QED
    BY <1>1, <2>1, PinsFacts DEF Leveled, Further
<1>3. ASSUME NEW d \in 0..MaxDepth - 1
      PROVE  t[d + 1] = t[d] \cup UNION {Pins(pin[2]) : pin \in t[d]}
  <2> DEFINE q == d + 1
  <2>1. q \in 0..MaxDepth /\ q # 0 /\ q - 1 = d
    BY <1>1
  <2> HIDE DEF q
  <2>2. t[q] = t[d] \cup UNION {Pins(pin[2]) : pin \in t[d]}
    BY <2>1 DEF Leveled, Further
  <2>3. QED
    BY <2>2 DEF q
<1> DEFINE S == {k \in Nat : k <= MaxDepth => \A pin \in t[k] : pin[2] \in Flakes}
<1>4. 0 \in S
  BY <1>1, <1>2, PinsFacts
<1>5. ASSUME NEW k \in Nat, k \in S PROVE k + 1 \in S
  <2> SUFFICES ASSUME k + 1 <= MaxDepth, NEW pin \in t[k + 1] PROVE pin[2] \in Flakes
    OBVIOUS
  <2>1. k \in 0..MaxDepth - 1 /\ k <= MaxDepth
    BY <1>1
  <2>2. \A p \in t[k] : p[2] \in Flakes
    BY <1>5, <2>1
  <2>3. pin \in t[k] \/ \E p \in t[k] : pin \in Pins(p[2])
    BY <1>3, <2>1
  <2>4. QED
    BY <2>2, <2>3, PinsFacts
<1>6. Nat \subseteq S
  BY <1>4, <1>5, SetInduction
<1>7. \A d \in 0..MaxDepth : \A pin \in t[d] : pin[2] \in Flakes
  BY <1>1, <1>6
<1>8. ASSUME NEW d \in 0..MaxDepth - 1
      PROVE  t[d] \subseteq t[d + 1] /\ \A pin \in t[d] : pins[pin[2]] \subseteq t[d + 1]
  <2>1. d \in 0..MaxDepth
    BY <1>1
  <2>2. \A pin \in t[d] : pins[pin[2]] = Pins(pin[2])
    BY <1>7, <2>1, PinsFacts
  <2>3. t[d + 1] = t[d] \cup UNION {Pins(pin[2]) : pin \in t[d]}
    BY <1>3
  <2>4. QED
    BY <2>2, <2>3
<1>9. QED
  BY <1>2, <1>7, <1>8 DEF Climbs

\* What covers the pins of the app has the name of every reachable pin.
LEMMA LevelsCovered ==
    ASSUME lock \in Locks, NEW t, Leveled(t, MaxDepth), NEW S,
           \A pin \in pins[App] : pin[1] \in S /\ Covered(pin[2], S)
    PROVE  \A pin \in t[MaxDepth] : pin[1] \in S
<1> DEFINE J == {k \in Nat : k <= MaxDepth =>
                     \A pin \in t[k] : pin[1] \in S /\ Covered(pin[2], S)}
<1>1. MaxDepth \in Nat /\ App \in Flakes
  BY LocksAssumption DEF LocksAssumption
<1>2. 0 \in J
  <2>1. 0 \in 0..MaxDepth
    BY <1>1
  <2>2. t[0] = pins[App]
    BY <1>1, <2>1, PinsFacts DEF Leveled, Further
  <2>3. QED
    BY <2>2
<1>3. ASSUME NEW k \in Nat, k \in J PROVE k + 1 \in J
  <2> DEFINE q == k + 1
  <2> SUFFICES ASSUME q <= MaxDepth, NEW pin \in t[q]
               PROVE  pin[1] \in S /\ Covered(pin[2], S)
    OBVIOUS
  <2>1. q \in 0..MaxDepth /\ q # 0 /\ q - 1 = k /\ k <= MaxDepth /\ k \in 0..MaxDepth
    BY <1>1
  <2>2. \A p \in t[k] : p[1] \in S /\ Covered(p[2], S)
    BY <1>3, <2>1
  <2> HIDE DEF q
  <2>3. t[q] = t[k] \cup UNION {Pins(p[2]) : p \in t[k]}
    BY <2>1 DEF Leveled, Further
  <2>4. CASE pin \in t[k]
    BY <2>2, <2>4
  <2>5. ASSUME NEW p \in t[k], pin \in Pins(p[2])
        PROVE  pin[1] \in S /\ Covered(pin[2], S)
    <3>1. p[2] \in Flakes
      BY <2>1, LevelsClimb
    <3>2. pin \in pins[p[2]]
      BY <2>5, <3>1, PinsFacts
    <3>3. Covered(p[2], S)
      BY <2>2
    <3>4. QED
      BY <3>2, <3>3, CoveredPins
  <2>6. QED
    BY <2>3, <2>4, <2>5
<1>4. Nat \subseteq J
  BY <1>2, <1>3, SetInduction
<1>5. QED
  BY <1>1, <1>4

\* The walk, which prunes nothing and forgets how it came to a name, collects
\* the names reachable through the requirements of the target, each at a pin
\* that is reachable, and no other (`transitive // direct`, acc // the answer).
THEOREM WalkIsTheClosure == Spec => []BundleIsTheClosure
<1>1. IInv /\ WInv => BundleIsTheClosure
  <2> SUFFICES ASSUME IInv, WInv, stage \in {"evaluate", "assemble", "built"}
               PROVE  /\ DOMAIN closure = {pin[1] : pin \in Reach}
                      /\ \A n \in DOMAIN closure : <<n, closure[n]>> \in Reach
    BY DEF BundleIsTheClosure
  <2>1. PICK t : Leveled(t, MaxDepth) /\ Reach = t[MaxDepth]
    BY ReachLevels
  <2>2. lock \in Locks
    BY DEF IInv
  <2>3. Reached(t)
    BY <2>1, <2>2, LevelsClimb DEF WInv, NothingBeyond
  <2>4. \A n \in DOMAIN closure : <<n, closure[n]>> \in Reach
    BY <2>1, <2>3 DEF Reached, Pinned
  <2>5. \A pin \in pins[App] :
            pin[1] \in DOMAIN closure /\ Covered(pin[2], DOMAIN closure)
    BY DEF WInv, ClosureCovers, Done
  <2>6. \A pin \in Reach : pin[1] \in DOMAIN closure
    BY <2>1, <2>2, <2>5, LevelsCovered
  <2>7. \A n \in DOMAIN closure : <<n, closure[n]>>[1] = n
    OBVIOUS
  <2>8. QED
    BY <2>4, <2>6, <2>7
<1>2. QED
  BY <1>1, WalkInvariant, PTL
=============================================================================
