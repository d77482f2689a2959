SPECIFICATION Spec
CONSTANTS
    Names <- MCNames
    NameRank <- MCNameRank
    Flakes <- MCFlakes
    App = "app"
    Locks <- MCQmlLocks
    Systems <- MCSystems
    MaxDepth = 6
INVARIANTS
    AppDeclaresWhatItBundles
\* A build ends.
CHECK_DEADLOCK FALSE
