SPECIFICATION Spec
CONSTANTS
    Documents <- MCDocuments
    Arguments <- MCArguments
    canonTables <- MCcanonTables
    Depth = 6
INVARIANTS
    TypeOK
    AgnosticAnswersAgree
    SelectorsRefusedEverywhere
    NoHandmadePlatform
    NoOverlayDropped
    OverlaysInDeclarationOrder
    OverlayLibraryIsKept
\* A parse ends.
CHECK_DEADLOCK FALSE
