\* Two publishers overtake each other between list() and send().
CONSTANTS
    h1 = h1
    h2 = h2
    Gui = gui
    Handlers <- MCHandlers
    Sessions = {s1}
    MaxPins = 2
    MaxRevision = 0
    Capacity = 2
    FaultyPins = {}
    None = None
SPECIFICATION Spec
INVARIANTS
    LastShownIsCurrent
