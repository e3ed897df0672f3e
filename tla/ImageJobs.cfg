\* Requests, copies and saves of two pins that are transformed and closed
\* meanwhile, with a template of either kind, while other applications copy,
\* too: one handler, two jobs, two seconds.  Once every program has ended and
\* nobody asks for anything nothing is left to do.
CONSTANTS
    Handlers = {h1}
    Offers <- MCOffers
    MaxImages = 2
    MaxPins = 2
    MaxJobs = 2
    MaxSeconds = 1
    Static = Static
    None = None
SPECIFICATION FairSpec
INVARIANTS
    TypeOK
    ClipboardIsPinned
    SuccessIsTrue
    CopiesInOrder
PROPERTIES
    JobsReport
CHECK_DEADLOCK FALSE
