SPECIFICATION FairSpec
CONSTANTS
    Unit = Unit
    Foreign = Foreign
    Addresses <- MCAddresses
    originatingIp = Unit
    Contents <- MCContents
    Datagrams <- CpmTraffic
    Offsets <- NoOffsets
    Packets <- NoPackets
    MaxDatagrams = 2
    MaxPackets = 0
    UdpDataHistory = 1
    UdpDataDepth = 1
    Services = {"cp", "cp_ts"}
    BtpDataDepth = 2
INVARIANTS
    TypeOK
    OnlyShortBodies
    WholeExactlyIfShort
PROPERTIES
    ImplementsFeed
    SubscribedIsForwarded
    SubscribedIsAccounted
    HandedOverIsPublished
\* The nodes' processes may end, and datagrams are bounded.
CHECK_DEADLOCK FALSE
