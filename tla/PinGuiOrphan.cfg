\* A pin is closed while its window is coming up.
CONSTANTS
    h1 = h1
    h2 = h2
    Handlers <- MCHandlers
    MaxPins = 2
    MaxBacklog = 1
    Transforms = {"rotate"}
    Reported = {1}
    None = None
SPECIFICATION Spec
INVARIANTS
    NoOrphanWindow
SYMMETRY HandlerSymmetry
CHECK_DEADLOCK FALSE
