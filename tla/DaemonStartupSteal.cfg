\* Two daemons probe a socket before either of them listens.
CONSTANTS
    Clis = {c1, c2}
    Units = {u1}
    MayFail = {}
    Stale = Stale
    None = None
SPECIFICATION Spec
PROPERTIES
    LiveSocketStays
CHECK_DEADLOCK FALSE
