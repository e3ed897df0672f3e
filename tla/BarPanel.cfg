\* A daemon and its successor with two pins each, which change on two threads;
\* or one daemon and an attempt to install the backend, or two attempts.
\* Once the daemons are gone nothing but the user is left.
CONSTANTS
    MaxStarts = 2
    MaxPins = 2
    MaxOthers = 1
    MaxRequests = 1
    MaxInstalls = 2
    MaxTurns = 2
    Columns = 3
SPECIFICATION FairSpec
INVARIANTS
    TypeOK
    CursorOnTheList
    RequestsMeanTheirPins
PROPERTIES
    PanelCatchesUp
    InstallIsNoticed
CHECK_DEADLOCK FALSE
