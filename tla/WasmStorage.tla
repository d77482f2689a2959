----------------------------- MODULE WasmStorage -----------------------------
(***************************************************************************)
(* The durable store behind a `web` variant: the preRun hook that mounts   *)
(* and populates it and the commit barrier                                 *)
(* (src/wasm/logos_wasm_storage.js), across the lives of a page.           *)
(*                                                                         *)
(* The module's writes are abstract items added to its local tree; what a  *)
(* reload finds is what reached the durable medium.  The medium is         *)
(* external: an IDBFS write-back lists the local tree when it starts,      *)
(* copies it, deletes what the list lacks, and is one transaction: a       *)
(* failed one changes nothing.  Several may be in flight; IndexedDB runs   *)
(* transactions on one store in the order they were created, so those that *)
(* succeed finish in order.                                                *)
(***************************************************************************)
EXTENDS Naturals, FiniteSets

CONSTANTS
  Items,        \* what the module may write
  MaxCommits,   \* bound on commits per life of the page
  MaxLives      \* bound on lives of the page

ASSUME StorageAssumption == MaxCommits \in Nat /\ MaxLives \in Nat

VARIABLES
  hostDir,      \* Module.logosStorageHostDir is set
  phase,        \* "boot", "populating", "running"
  backend,      \* Module.logosStorageBackend
  dependency,   \* the run dependency that holds main()
  syncError,    \* Module.logosStorageSyncError is set
  local,        \* the tree under the mount
  durable,      \* what the medium holds
  inflight,     \* write-backs started and not finished
  commits,      \* commits made in this life
  result,       \* what the last commit returned, 99 before the first
  lives,        \* history: lives of the page, this one included
  unreported,   \* history: failed write-backs no commit has reported
  lastFailed,   \* history: the previous commit's write-back has failed
  committed,    \* history: what this life's commits covered
  acked,        \* history: what the module could take to be durable
  populateFailed   \* history: a populate failed, in this or an earlier life

vars == <<hostDir, phase, backend, dependency, syncError, local, durable, inflight,
          commits, result, lives, unreported, lastFailed, committed, acked, populateFailed>>

Backends == {"unset", "nodefs", "idbfs", "memfs"}
WriteBacks == [n : 1..MaxCommits, tree : SUBSET Items, gone : SUBSET Items]

Init ==
  /\ hostDir \in BOOLEAN
  /\ phase = "boot" /\ backend = "unset" /\ dependency = FALSE /\ syncError = FALSE
  /\ local = {} /\ durable = {} /\ inflight = {} /\ commits = 0 /\ result = 99
  /\ lives = 1 /\ unreported = {} /\ lastFailed = FALSE
  /\ committed = {} /\ acked = {} /\ populateFailed = FALSE

-----------------------------------------------------------------------------
(* preRun: one of the outcomes of its try blocks, in the order they stand. *)

FallBack ==     \* mkdirTree or a mount threw, or there is no indexedDB
  /\ phase = "boot"
  /\ phase' = "populating" /\ backend' = "memfs"
  /\ UNCHANGED <<hostDir, dependency, syncError, local, durable, inflight, commits, result,
                 lives, unreported, lastFailed, committed, acked, populateFailed>>

MountHostDir ==
  /\ phase = "boot" /\ hostDir
  /\ phase' = "populating" /\ backend' = "nodefs"
  /\ local' = durable
  /\ UNCHANGED <<hostDir, dependency, syncError, durable, inflight, commits, result,
                 lives, unreported, lastFailed, committed, acked, populateFailed>>

MountIndexedDB_noDependency ==   \* mutant: addRunDependency left out
  /\ phase = "boot" /\ ~hostDir
  /\ phase' = "populating" /\ backend' = "idbfs"
  /\ UNCHANGED <<hostDir, dependency, syncError, local, durable, inflight, commits, result,
                 lives, unreported, lastFailed, committed, acked, populateFailed>>

MountIndexedDB ==
  /\ phase = "boot" /\ ~hostDir
  /\ phase' = "populating" /\ backend' = "idbfs"
  /\ dependency' = TRUE
  /\ UNCHANGED <<hostDir, syncError, local, durable, inflight, commits, result,
                 lives, unreported, lastFailed, committed, acked, populateFailed>>

PopulateDone_earlyReturn ==   \* mutant: a failure returns before removeRunDependency
  /\ backend = "idbfs" /\ phase # "boot" /\ dependency /\ ~syncError
  /\ \/ dependency' = FALSE /\ local' = local \cup durable
        /\ UNCHANGED <<syncError, populateFailed>>
     \/ syncError' = TRUE /\ populateFailed' = TRUE /\ UNCHANGED <<local, dependency>>
  /\ UNCHANGED <<hostDir, phase, backend, durable, inflight, commits, result, lives,
                 unreported, lastFailed, committed, acked>>

\* The callback of syncfs(true): a failure is noted and start-up carries on.
PopulateDone ==
  /\ backend = "idbfs" /\ phase # "boot" /\ dependency
  /\ dependency' = FALSE
  /\ \/ local' = local \cup durable /\ UNCHANGED <<syncError, populateFailed>>
     \/ syncError' = TRUE /\ populateFailed' = TRUE /\ UNCHANGED local
  /\ UNCHANGED <<hostDir, phase, backend, durable, inflight, commits, result, lives,
                 unreported, lastFailed, committed, acked>>

\* run(): main() starts once no run dependency is left.
RunMain ==
  /\ phase = "populating" /\ ~dependency
  /\ phase' = "running"
  /\ UNCHANGED <<hostDir, backend, dependency, syncError, local, durable, inflight, commits,
                 result, lives, unreported, lastFailed, committed, acked, populateFailed>>

-----------------------------------------------------------------------------
(* The module and the barrier. *)

Write(i) ==
  /\ phase = "running" /\ i \notin local
  /\ local' = local \cup {i}
  /\ durable' = IF backend = "nodefs" THEN durable \cup {i} ELSE durable
  /\ UNCHANGED <<hostDir, phase, backend, dependency, syncError, inflight, commits, result,
                 lives, unreported, lastFailed, committed, acked, populateFailed>>

\* A commit the module may rely on: it returned 0 and no write-back was still
\* in flight when it was called, so everything committed before is durable.
Acknowledge(code) ==
  acked' = IF code = 0 /\ inflight = {} THEN acked \cup committed ELSE acked

\* logosStorageCommit where there is nothing to write back.
CommitElsewhere ==
  /\ phase = "running" /\ backend # "idbfs" /\ commits < MaxCommits
  /\ commits' = commits + 1
  /\ committed' = IF backend = "nodefs" THEN committed \cup local ELSE committed
  /\ result' = IF backend = "nodefs" THEN 0 ELSE 2       \* 2 stands for -1
  /\ Acknowledge(result')
  /\ UNCHANGED <<hostDir, phase, backend, dependency, syncError, local, durable, inflight,
                 lives, unreported, lastFailed, populateFailed>>

CommitIdbfs_clearsFirst ==   \* mutant: the error is reset before it is read
  /\ phase = "running" /\ backend = "idbfs" /\ commits < MaxCommits
  /\ commits' = commits + 1
  /\ syncError' = FALSE
  /\ inflight' = inflight \cup {[n |-> commits + 1, tree |-> local, gone |-> durable \ local]}
  /\ result' = 0
  /\ unreported' = {} /\ lastFailed' = FALSE
  /\ Acknowledge(result')
  /\ committed' = committed \cup local
  /\ UNCHANGED <<hostDir, phase, backend, dependency, local, durable, lives, populateFailed>>

CommitIdbfs_counts ==   \* mutant: returns how many write-backs are outstanding
  /\ phase = "running" /\ backend = "idbfs" /\ commits < MaxCommits
  /\ commits' = commits + 1
  /\ syncError' = FALSE
  /\ inflight' = inflight \cup {[n |-> commits + 1, tree |-> local, gone |-> durable \ local]}
  /\ result' = Cardinality(inflight')
  /\ unreported' = IF syncError THEN {} ELSE unreported
  /\ lastFailed' = FALSE
  /\ Acknowledge(result')
  /\ committed' = committed \cup local
  /\ UNCHANGED <<hostDir, phase, backend, dependency, local, durable, lives, populateFailed>>

\* logosStorageCommit on IDBFS: take the previous error, start a write-back,
\* report the error taken.
CommitIdbfs ==
  /\ phase = "running" /\ backend = "idbfs" /\ commits < MaxCommits
  /\ commits' = commits + 1
  /\ syncError' = FALSE
  /\ inflight' = inflight \cup {[n |-> commits + 1, tree |-> local, gone |-> durable \ local]}
  /\ result' = IF syncError THEN 1 ELSE 0
  /\ unreported' = IF syncError THEN {} ELSE unreported
  /\ lastFailed' = FALSE
  /\ Acknowledge(result')
  /\ committed' = committed \cup local
  /\ UNCHANGED <<hostDir, phase, backend, dependency, local, durable, lives, populateFailed>>

WriteBackDone_clears(w) ==   \* mutant: a success resets the error
  /\ w \in inflight /\ \A v \in inflight : w.n <= v.n
  /\ inflight' = inflight \ {w}
  /\ syncError' = FALSE
  /\ \E s \in SUBSET local :
       w.tree \subseteq s /\ durable' = (durable \ w.gone) \cup s
  /\ UNCHANGED <<hostDir, phase, backend, dependency, local, commits, result,
                 lives, unreported, lastFailed, committed, acked, populateFailed>>

WriteBackFails_dropped(w) ==   \* mutant: the callback only logs
  /\ w \in inflight
  /\ inflight' = inflight \ {w}
  /\ UNCHANGED <<hostDir, phase, backend, dependency, syncError, local, durable, commits,
                 result, lives, unreported, lastFailed, committed, acked, populateFailed>>

\* The callback of syncfs(false), without and with an error.
WriteBackDone(w) ==
  /\ w \in inflight /\ \A v \in inflight : w.n <= v.n
  /\ inflight' = inflight \ {w}
  /\ \E s \in SUBSET local :
       w.tree \subseteq s /\ durable' = (durable \ w.gone) \cup s
  /\ UNCHANGED <<hostDir, phase, backend, dependency, syncError, local, commits, result,
                 lives, unreported, lastFailed, committed, acked, populateFailed>>

WriteBackFails(w) ==
  /\ w \in inflight
  /\ inflight' = inflight \ {w}
  /\ syncError' = TRUE
  /\ unreported' = unreported \cup {w.n}
  /\ lastFailed' = (lastFailed \/ w.n = commits)
  /\ UNCHANGED <<hostDir, phase, backend, dependency, local, durable, commits, result,
                 lives, committed, acked, populateFailed>>

\* The page goes away, at any moment: a fresh page boots from the medium.
Reload ==
  /\ phase # "boot" /\ lives < MaxLives
  /\ lives' = lives + 1
  /\ phase' = "boot" /\ backend' = "unset" /\ dependency' = FALSE /\ syncError' = FALSE
  /\ local' = {} /\ inflight' = {} /\ commits' = 0 /\ result' = 99
  /\ unreported' = {} /\ lastFailed' = FALSE /\ committed' = {}
  /\ UNCHANGED <<hostDir, durable, acked, populateFailed>>

StartUp == FallBack \/ MountHostDir \/ MountIndexedDB \/ PopulateDone \/ RunMain

Next ==
  \/ StartUp
  \/ \E i \in Items : Write(i)
  \/ CommitElsewhere \/ CommitIdbfs
  \/ \E w \in inflight : WriteBackDone(w) \/ WriteBackFails(w)
  \/ Reload

\* The runtime runs its start-up steps and the browser answers the populate.
Spec == Init /\ [][Next]_vars /\ WF_vars(StartUp)

-----------------------------------------------------------------------------
(* Properties. *)

TypeOK ==
  /\ hostDir \in BOOLEAN /\ dependency \in BOOLEAN /\ syncError \in BOOLEAN
  /\ phase \in {"boot", "populating", "running"} /\ backend \in Backends
  /\ local \subseteq Items /\ durable \subseteq Items
  /\ inflight \subseteq WriteBacks
  /\ commits \in 0..MaxCommits /\ result \in {0, 1, 2, 99}
  /\ lives \in Nat
  /\ unreported \subseteq 1..MaxCommits /\ lastFailed \in BOOLEAN
  /\ committed \subseteq Items /\ acked \subseteq Items /\ populateFailed \in BOOLEAN

\* A write-back failure is reported late but never dropped: while some failed
\* write-back is unreported the error is still there for the next commit to
\* take, even when another write-back finished in between.
FailureNeverDropped == unreported # {} => syncError

\* With nothing in flight and no error waiting, everything this life committed
\* is on the durable medium.
QuietMeansDurable ==
  phase = "running" /\ inflight = {} /\ ~syncError => committed \subseteq durable

\* main() runs on a populated tree: unless a populate failed, nothing that was
\* durable is missing from what the module reads.
PopulatedBeforeMain ==
  phase = "running" /\ backend # "memfs" /\ ~populateFailed => durable \subseteq local

\* What the module could take to be durable is there after any reload, as long
\* as no populate ever failed.
AckedSurvives == ~populateFailed => acked \subseteq durable

\* A failed mount or populate never keeps the module from starting.
StartsAnyway == \A n \in 1..MaxLives :
  (lives = n) ~> (phase = "running" \/ lives > n)

\* A commit's positive result says that the previous write-back failed, as the
\* comments on both sides of the barrier have it.
PositiveMeansPreviousFailed ==
  [][ (commits' = commits + 1 /\ result' = 1) => lastFailed ]_vars

\* A failed populate is a condition the next load recovers from: what was
\* acknowledged durable stays durable.
AckedSurvivesFailedPopulate == acked \subseteq durable
=============================================================================
