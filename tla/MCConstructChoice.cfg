SPECIFICATION Spec
CONSTANTS
    Objects <- MCObjects
    Table <- BackendRoutines
    Entries <- BackendEntries
    Within <- BackendWithin
    Releases <- BackendReleases
    Owns <- MCOwns
    NullSafe <- MCNullSafe
    Impls <- BackendImpls
    Faults <- Sound
    Nobody = Nobody
    Gone = Gone
INVARIANT EveryBackEndTried
CHECK_DEADLOCK FALSE
