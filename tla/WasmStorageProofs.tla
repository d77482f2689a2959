------------------------- MODULE WasmStorageProofs -------------------------
(***************************************************************************)
(* The safety of the durable store, for every set of items and every bound *)
(* on commits and lives.                                                   *)
(*                                                                         *)
(* The invariant says what a write-back in flight stands for.  While no    *)
(* error waits, the newest write-back carries everything this life         *)
(* committed (Carried); successes finish oldest first (Numbered), so when  *)
(* it is the last one, what it copies is everything.  And as long as no    *)
(* populate ever failed, the local tree covers the medium (Covered), so    *)
(* every write-back was created with nothing to delete and the medium only *)
(* grows.                                                                  *)
(***************************************************************************)
EXTENDS WasmStorage, TLAPS

\* Who can be in which state: only IDBFS has a populate or a write-back.
Stages ==
  /\ phase = "boot" => ~dependency /\ inflight = {} /\ committed = {} /\ backend = "unset"
  /\ phase # "boot" => backend # "unset"
  /\ phase # "running" => inflight = {} /\ committed = {} /\ commits = 0
  /\ dependency => phase = "populating" /\ backend = "idbfs"
  /\ backend # "idbfs" => inflight = {}
  /\ backend = "nodefs" => local \subseteq durable

\* Write-backs are numbered by the commit that started them.
Numbered ==
  /\ \A w \in inflight : w.n <= commits
  /\ \A v, w \in inflight : v.n = w.n => v = w

\* Where what was committed is, while no error waits to be reported.
Carried ==
  /\ committed \subseteq local
  /\ ~syncError /\ inflight = {} => committed \subseteq durable
  /\ ~syncError /\ inflight # {} =>
       \E w \in inflight : w.n = commits /\ committed \subseteq w.tree

\* Without a failed populate the mounted tree covers the medium.
Covered ==
  ~populateFailed =>
    /\ phase # "boot" /\ backend \in {"idbfs", "nodefs"} /\ ~dependency
         => durable \subseteq local
    /\ \A w \in inflight : w.gone = {}

IInv == TypeOK /\ Stages /\ Numbered /\ FailureNeverDropped /\ Carried /\ Covered
        /\ AckedSurvives

-----------------------------------------------------------------------------
(* The inductive invariant. *)

\* The invariant holds initially.
LEMMA InitIInv == Init => IInv
<1> SUFFICES ASSUME Init PROVE IInv
  OBVIOUS
<1>1. commits \in 0..MaxCommits /\ result \in {0, 1, 2, 99} /\ lives \in Nat
  BY StorageAssumption DEF StorageAssumption, Init
<1>2. inflight \subseteq WriteBacks /\ unreported \subseteq 1..MaxCommits
  BY DEF Init
<1>3. TypeOK
  BY <1>1, <1>2 DEF Init, TypeOK, Backends
<1> QED
  BY <1>3 DEF Init, IInv, Stages, Numbered, FailureNeverDropped, Carried, Covered,
              AckedSurvives

\* Every step keeps the types; a commit number fits because commits is bounded.
LEMMA TypeStep == IInv /\ [Next]_vars => TypeOK'
<1> SUFFICES ASSUME IInv, [Next]_vars PROVE TypeOK'
  OBVIOUS
<1> USE StorageAssumption DEF StorageAssumption, IInv, TypeOK, Backends
<1>1. CASE FallBack
  BY <1>1 DEF FallBack
<1>2. CASE MountHostDir
  BY <1>2 DEF MountHostDir
<1>3. CASE MountIndexedDB
  BY <1>3 DEF MountIndexedDB
<1>4. CASE PopulateDone
  BY <1>4 DEF PopulateDone
<1>5. CASE RunMain
  BY <1>5 DEF RunMain
<1>6. CASE \E i \in Items : Write(i)
  BY <1>6 DEF Write
<1>7. CASE CommitElsewhere
  BY <1>7 DEF CommitElsewhere, Acknowledge
<1>8. CASE CommitIdbfs
  <2>1. [n |-> commits + 1, tree |-> local, gone |-> durable \ local] \in WriteBacks
    BY <1>8 DEF CommitIdbfs, WriteBacks
  <2>2. commits' \in 0..MaxCommits /\ result' \in {0, 1, 2, 99}
    BY <1>8 DEF CommitIdbfs
  <2>3. inflight' \subseteq WriteBacks
    BY <1>8, <2>1 DEF CommitIdbfs
  <2>4. unreported' \subseteq 1..MaxCommits /\ acked' \subseteq Items /\ committed' \subseteq Items
    BY <1>8 DEF CommitIdbfs, Acknowledge
  <2> QED
    BY <1>8, <2>2, <2>3, <2>4 DEF CommitIdbfs
<1>9. CASE \E w \in inflight : WriteBackDone(w) \/ WriteBackFails(w)
  <2> PICK w \in inflight : WriteBackDone(w) \/ WriteBackFails(w)
    BY <1>9
  <2>1. w.n \in 1..MaxCommits /\ w.tree \subseteq Items /\ w.gone \subseteq Items
    BY DEF WriteBacks
  <2>2. CASE WriteBackDone(w)
    BY <2>1, <2>2 DEF WriteBackDone
  <2>3. CASE WriteBackFails(w)
    BY <2>1, <2>3 DEF WriteBackFails
  <2> QED
    BY <2>2, <2>3
<1>10. CASE Reload
  <2>1. commits' \in 0..MaxCommits /\ result' \in {0, 1, 2, 99} /\ lives' \in Nat
    BY <1>10 DEF Reload
  <2>2. inflight' \subseteq WriteBacks /\ unreported' \subseteq 1..MaxCommits
    BY <1>10 DEF Reload
  <2> QED
    BY <1>10, <2>1, <2>2 DEF Reload
<1>11. CASE UNCHANGED vars
  BY <1>11 DEF vars
<1> QED
  BY <1>1, <1>2, <1>3, <1>4, <1>5, <1>6, <1>7, <1>8, <1>9, <1>10, <1>11 DEF Next, StartUp

\* The start-up steps: nothing is committed yet and nothing is in flight.
LEMMA StartUpStep == IInv /\ StartUp => IInv'
<1> SUFFICES ASSUME IInv, StartUp PROVE IInv'
  OBVIOUS
<1> USE DEF IInv, TypeOK, Stages, Numbered, FailureNeverDropped, Carried, Covered, AckedSurvives
<1>0. TypeOK'
  BY TypeStep DEF Next, IInv
<1>1. CASE FallBack
  BY <1>0, <1>1 DEF FallBack
<1>2. CASE MountHostDir
  BY <1>0, <1>2 DEF MountHostDir
<1>3. CASE MountIndexedDB
  BY <1>0, <1>3 DEF MountIndexedDB
<1>4. CASE PopulateDone
  BY <1>0, <1>4 DEF PopulateDone
<1>5. CASE RunMain
  BY <1>0, <1>5 DEF RunMain
<1> QED
  BY <1>1, <1>2, <1>3, <1>4, <1>5 DEF StartUp

\* The module's writes and a reload.
LEMMA WriteStep == ASSUME NEW i \in Items PROVE IInv /\ Write(i) => IInv'
<1> SUFFICES ASSUME IInv, Write(i) PROVE IInv'
  OBVIOUS
<1>1. TypeOK'
  BY TypeStep DEF Next
<1> QED
  BY <1>1 DEF Write, IInv, TypeOK, Stages, Numbered, FailureNeverDropped, Carried, Covered,
              AckedSurvives

\* A reload loses the local tree and every write-back in flight.
LEMMA ReloadStep == IInv /\ Reload => IInv'
<1> SUFFICES ASSUME IInv, Reload PROVE IInv'
  OBVIOUS
<1>1. TypeOK'
  BY TypeStep DEF Next
<1> QED
  BY <1>1 DEF Reload, IInv, TypeOK, Stages, Numbered, FailureNeverDropped, Carried, Covered,
              AckedSurvives

-----------------------------------------------------------------------------
(* The barrier. *)

\* A commit where there is nothing to write back.
LEMMA CommitElsewhereStep == IInv /\ CommitElsewhere => IInv'
<1> SUFFICES ASSUME IInv, CommitElsewhere PROVE IInv'
  OBVIOUS
<1> USE DEF IInv, CommitElsewhere
<1>1. TypeOK'
  BY TypeStep DEF Next
<1>2. Stages' /\ Numbered' /\ FailureNeverDropped' /\ Covered'
  BY <1>1 DEF TypeOK, Stages, Numbered, FailureNeverDropped, Covered
<1>3. inflight = {}
  BY DEF Stages
<1>4. Carried'
  BY <1>3 DEF Carried, Stages
<1>5. AckedSurvives'
  \* Only the host directory answers 0, and there what was committed is durable.
  <2>1. result' = 0 => committed \subseteq durable
    BY DEF Carried, Stages
  <2> QED
    BY <2>1 DEF AckedSurvives, Acknowledge
<1> QED
  BY <1>1, <1>2, <1>4, <1>5

\* A commit copies a tree that covers the medium.
LEMMA CommitIdbfsStep == IInv /\ CommitIdbfs => IInv'
<1> SUFFICES ASSUME IInv, CommitIdbfs PROVE IInv'
  OBVIOUS
<1> DEFINE new == [n |-> commits + 1, tree |-> local, gone |-> durable \ local]
<1>1. TypeOK'
  BY TypeStep DEF Next
<1>2. Stages' /\ FailureNeverDropped'
  BY DEF IInv, TypeOK, CommitIdbfs, Stages, FailureNeverDropped
<1>3. Numbered'
  <2>1. inflight' = inflight \cup {new} /\ commits' = commits + 1 /\ commits \in Nat
    BY DEF IInv, TypeOK, CommitIdbfs
  <2>2. \A w \in inflight : w.n \in Nat /\ w.n <= commits
    BY DEF IInv, TypeOK, WriteBacks, Numbered
  <2>3. \A v, w \in inflight : v.n = w.n => v = w
    BY DEF IInv, Numbered
  <2>4. new.n = commits + 1
    OBVIOUS
  <2> HIDE DEF new
  <2>5. \A w \in inflight : w.n <= commits + 1 /\ w.n # new.n
    BY <2>1, <2>2, <2>4
  <2>6. \A w \in inflight' : w.n <= commits'
    BY <2>1, <2>4, <2>5
  <2>7. \A v, w \in inflight' : v.n = w.n => v = w
    BY <2>1, <2>3, <2>5
  <2> QED
    BY <2>6, <2>7 DEF Numbered
<1>4. Carried'
  \* The new write-back lists the whole local tree, which covers every commit.
  <2>1. new \in inflight' /\ new.n = commits' /\ committed' = local /\ local' = local
    BY DEF IInv, CommitIdbfs, Carried
  <2>2. committed' \subseteq new.tree
    BY <2>1
  <2> QED
    BY <2>1, <2>2 DEF Carried
<1>5. Covered'
  \* The tree covers the medium, so the new write-back deletes nothing.
  <2>1. ~populateFailed => durable \subseteq local
    BY DEF IInv, CommitIdbfs, Stages, Covered
  <2>2. ~populateFailed => new.gone = {}
    BY <2>1
  <2> QED
    BY <2>1, <2>2 DEF IInv, CommitIdbfs, Covered
<1>6. AckedSurvives'
  \* 0 with nothing in flight: no error waits, so what was committed is durable.
  <2>1. result' = 0 /\ inflight = {} => committed \subseteq durable
    BY DEF IInv, TypeOK, CommitIdbfs, Carried
  <2> QED
    BY <2>1 DEF IInv, CommitIdbfs, AckedSurvives, Acknowledge
<1> QED
  BY <1>1, <1>2, <1>3, <1>4, <1>5, <1>6 DEF IInv

\* A write-back that succeeds is the oldest; if it is the newest too, it is the
\* only one, and it carried everything.
LEMMA WriteBackDoneStep ==
  ASSUME NEW w \in inflight PROVE IInv /\ WriteBackDone(w) => IInv'
<1> SUFFICES ASSUME IInv, WriteBackDone(w) PROVE IInv'
  OBVIOUS
<1>1. TypeOK'
  BY TypeStep DEF Next
<1>2. Stages' /\ Numbered' /\ FailureNeverDropped'
  BY DEF IInv, TypeOK, WriteBackDone, Stages, Numbered, FailureNeverDropped
<1>3. PICK s \in SUBSET local : w.tree \subseteq s /\ durable' = (durable \ w.gone) \cup s
  BY DEF WriteBackDone
<1>4. Carried'
  <2>1. ASSUME ~syncError PROVE
          \/ inflight' = {} /\ committed \subseteq durable'
          \/ \E v \in inflight' : v.n = commits /\ committed \subseteq v.tree
    <3>1. PICK v \in inflight : v.n = commits /\ committed \subseteq v.tree
      BY <2>1 DEF IInv, Carried
    <3>2. CASE v = w
      <4>1. \A u \in inflight : u.n = w.n
        <5> TAKE u \in inflight
        <5>1. u.n \in Nat /\ w.n \in Nat
          BY DEF IInv, TypeOK, WriteBacks
        <5>2. w.n <= u.n /\ u.n <= commits
          BY DEF IInv, Numbered, WriteBackDone
        <5> QED
          BY <3>1, <3>2, <5>1, <5>2 DEF IInv, TypeOK
      <4>2. inflight = {w}
        BY <4>1 DEF IInv, Numbered
      <4> QED
        BY <1>3, <3>1, <3>2, <4>2 DEF WriteBackDone
    <3>3. CASE v # w
      BY <3>1, <3>3 DEF WriteBackDone
    <3> QED
      BY <3>2, <3>3
  <2>2. /\ committed' = committed /\ local' = local /\ commits' = commits
        /\ syncError' = syncError
    BY DEF WriteBackDone
  <2> QED
    BY <2>1, <2>2 DEF IInv, Carried
<1>5. Covered' /\ AckedSurvives'
  <2>1. ~populateFailed => durable' = durable \cup s
    BY <1>3 DEF IInv, Covered
  <2> QED
    BY <1>3, <2>1 DEF IInv, Covered, AckedSurvives, WriteBackDone
<1> QED
  BY <1>1, <1>2, <1>4, <1>5 DEF IInv

\* A failed write-back leaves its error behind.
LEMMA WriteBackFailsStep ==
  ASSUME NEW w \in inflight PROVE IInv /\ WriteBackFails(w) => IInv'
<1> SUFFICES ASSUME IInv, WriteBackFails(w) PROVE IInv'
  OBVIOUS
<1>1. TypeOK'
  BY TypeStep DEF Next
<1> QED
  BY <1>1 DEF WriteBackFails, IInv, TypeOK, Stages, Numbered, FailureNeverDropped, Carried,
              Covered, AckedSurvives

-----------------------------------------------------------------------------
\* A stuttering step changes nothing.
LEMMA StutterStep == IInv /\ UNCHANGED vars => IInv'
BY DEF vars, IInv, TypeOK, Stages, Numbered, FailureNeverDropped, Carried, Covered,
       AckedSurvives, Backends, WriteBacks

\* Every step keeps the invariant.
LEMMA Inductive == IInv /\ [Next]_vars => IInv'
BY StartUpStep, WriteStep, ReloadStep, CommitElsewhereStep, CommitIdbfsStep,
   WriteBackDoneStep, WriteBackFailsStep, StutterStep DEF Next

\* Every reachable state of the store satisfies the inductive invariant.
LEMMA Invariance == Spec => []IInv
BY InitIInv, Inductive, PTL DEF Spec

\* The types of the store's state hold in every reachable state.
THEOREM TypeCorrect == Spec => []TypeOK
<1>1. IInv => TypeOK
  BY DEF IInv
<1> QED
  BY Invariance, <1>1, PTL

\* A failed write-back stays reported until a commit takes it: "late, but never
\* dropped", however many write-backs overlap.
THEOREM NeverDropped == Spec => []FailureNeverDropped
<1>1. IInv => FailureNeverDropped
  BY DEF IInv
<1> QED
  BY Invariance, <1>1, PTL

\* With nothing in flight and no error waiting, what was committed is durable.
THEOREM QuietDurable == Spec => []QuietMeansDurable
<1>1. IInv => QuietMeansDurable
  BY DEF IInv, QuietMeansDurable, Carried, TypeOK
<1> QED
  BY Invariance, <1>1, PTL

\* main() never starts on a tree that lacks something durable, unless a populate
\* failed: the run dependency holds it.
THEOREM MainSeesDurable == Spec => []PopulatedBeforeMain
<1>1. IInv => PopulatedBeforeMain
  BY DEF IInv, PopulatedBeforeMain, Covered, Stages, TypeOK, Backends
<1> QED
  BY Invariance, <1>1, PTL

\* What the module could take to be durable survives every reload, unless a
\* populate failed.
THEOREM AcknowledgedSurvives == Spec => []AckedSurvives
<1>1. IInv => AckedSurvives
  BY DEF IInv
<1> QED
  BY Invariance, <1>1, PTL
=============================================================================
