\* Three requests of any kind, one change, a socket that takes one line at a time.
CONSTANTS
    MaxRequests = 3
    MaxVersion = 1
    SocketSpace = 1
SPECIFICATION FairSpec
INVARIANTS
    TypeOK
    OneReplyPerRequest
PROPERTIES
    SubscriberHears
    SessionEnds
CHECK_DEADLOCK FALSE
