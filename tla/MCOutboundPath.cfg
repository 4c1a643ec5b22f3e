SPECIFICATION FairSpec
CONSTANTS
    Nodes = {"dispatcher", "sender", "converter"}
    Packets <- MCPackets
    OutHistory = 1
    OutDepth <- MCDepth
    MaxPackets = 2
INVARIANTS
    TypeOK
    EchoedBeforeSent
    FramesConsistent
PROPERTIES
    ImplementsFeed
    SubscribedIsEchoed
    SubscribedIsAccounted
\* The processes may end, and packets are bounded.
CHECK_DEADLOCK FALSE
