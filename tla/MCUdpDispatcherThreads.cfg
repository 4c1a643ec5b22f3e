SPECIFICATION FairSpec
CONSTANTS
    Unit = Unit
    Foreign = Foreign
    Cam = Cam
    Addresses <- MCAddresses
    originatingIp = Unit
    Contents <- MCContents
    Datagrams <- ThreadsDatagrams
    Offsets <- MCOffsets
    Packets <- MCPackets
    MaxDatagrams = 2
    MaxPackets = 2
INVARIANTS
    RawFollowsIndication
    WireFramesConsistent
    AcceptedIsNotLost
PROPERTIES
    ImplementsFeed
    AcceptedIsPublished
    ShutdownWaitsForSocketOnly
\* The receive thread may be gone, the process may end, and datagrams and
\* packets are bounded.
CHECK_DEADLOCK FALSE
