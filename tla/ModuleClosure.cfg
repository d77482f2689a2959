SPECIFICATION Spec
CONSTANTS
    Names <- MCNames
    NameRank <- MCNameRank
    Flakes <- MCFlakes
    App = "app"
    Locks <- MCLocks
    Systems <- MCSystems
    MaxDepth = 6
INVARIANTS
    TypeOK
    BundleIsTheClosure
    DirectDependencyWins
    NothingRequiredMissing
    NeverSilentlyOmitted
PROPERTIES
    ClosureEnds
\* A build ends.
CHECK_DEADLOCK FALSE
