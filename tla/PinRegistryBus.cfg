\* One handler and the iced thread publish to one subscriber whose inbox holds
\* a single message, so that it lags.
CONSTANTS
    h1 = h1
    h2 = h2
    Gui = gui
    Handlers = {h1}
    Sessions = {s1}
    MaxPins = 2
    MaxRevision = 1
    Capacity = 1
    FaultyPins = {1}
    None = None
SPECIFICATION FairSpec
INVARIANTS
    TypeOK
    AdvertisedPreviewUsable
    QuietImpliesInformed
PROPERTIES
    EventuallyInformed
