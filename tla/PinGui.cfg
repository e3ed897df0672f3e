\* Two handlers, two pins, the iced application and the user.
\* Once every pin that may be captured was closed again nothing is left to do.
CONSTANTS
    h1 = h1
    h2 = h2
    Handlers <- MCHandlers
    MaxPins = 2
    MaxBacklog = 1
    Transforms = {"rotate"}
    Reported = {}
    None = None
SPECIFICATION Spec
INVARIANTS
    TypeOK
    MapsAgree
    WindowsShowTheRegistry
    NoForgottenWindow
    ClosedPinsAreForgotten
    LivePinsHaveAWindow
SYMMETRY HandlerSymmetry
CHECK_DEADLOCK FALSE
