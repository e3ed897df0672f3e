\* Two header bytes of base 4, lines and frames of at most two bytes, a buffer
\* of two.  A connection that has ended stays ended.
CONSTANTS
    Base = 4
    Newline = 1
    Brace = 2
    HeaderBytes = 2
    Cap = 2
    BufSize = 2
    MaxBytes = 6
SPECIFICATION FairSpec
INVARIANTS
    MemoryBounded
    FrameIsSound
PROPERTIES
    ImplementsLineStream
    FrameArrives
CHECK_DEADLOCK FALSE
