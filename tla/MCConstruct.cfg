SPECIFICATION Spec
CONSTANTS
    Objects <- MCObjects
    Table <- BackendRoutines
    Entries <- BackendEntries
    Within <- BackendWithin
    Releases <- BackendReleases
    Owns <- MCOwns
    NullSafe <- MCNullSafe
    Impls <- BackendImpls
    Faults <- Sound
    Nobody = Nobody
    Gone = Gone
INVARIANTS
    TypeOK
    FailureLeavesNothing
    LaddersFit
    ReleasesInOrder
    ObjectsWhole
    NoMisuse
CHECK_DEADLOCK FALSE
