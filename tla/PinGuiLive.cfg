\* Progress: one handler, two pins.
CONSTANTS
    h1 = h1
    h2 = h2
    Handlers = {h1}
    MaxPins = 2
    MaxBacklog = 1
    Transforms = {"flip"}
    Reported = {1}
    None = None
SPECIFICATION FairSpec
PROPERTIES
    PinEventuallyShown
CHECK_DEADLOCK FALSE
