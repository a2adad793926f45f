\* Any server, keepalives and oversized messages from sofia, breaks, the drop.
\* A bridge whose session is over does nothing more: deadlock is not checked.
CONSTANTS
    ServerFrames <- AnyFrames
    MaxTraffic = 3
    MaxFragments = 2
    Env = {"ping", "huge", "break", "drop"}
SPECIFICATION FairSpec
CHECK_DEADLOCK FALSE
INVARIANTS
    TypeOK
    SofiaInOrder
    Reassembled
    WireRoundTrip
PROPERTIES
    WritersArePipes
    SessionEnds
    Flushed
