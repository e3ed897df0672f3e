\* Two handlers and the iced thread on three pins that are transformed twice,
\* and whose thumbnails may fail to be written or removed.  Nobody is subscribed.
\* Once every pin that may be captured was closed again nothing is left to do.
CONSTANTS
    h1 = h1
    h2 = h2
    Gui = gui
    Handlers <- MCHandlers
    Sessions = {}
    MaxPins = 3
    MaxRevision = 2
    Capacity = 1
    FaultyPins = {1, 2}
    None = None
SPECIFICATION Spec
INVARIANTS
    PreviewExists
    PreviewCurrent
    NoOrphanPreview
    NoLostTransform
PROPERTIES
    ImplementsPinStore
    IdsNeverReused
SYMMETRY HandlerSymmetry
CHECK_DEADLOCK FALSE
