\* Two CLIs and the service unit start daemons on the leftovers of an earlier
\* session.  Once every command has ended and nobody dies any more nothing is
\* left to do.
CONSTANTS
    Clis = {c1, c2}
    Units = {u1}
    MayFail = {c1}
    Stale = Stale
    None = None
SPECIFICATION FairSpec
INVARIANTS
    TypeOK
    TwoListenersOnlyByTheft
    PreviewsAreItsOwn
    OneRetryIsEnough
PROPERTIES
    ColdStartWorks
CHECK_DEADLOCK FALSE
