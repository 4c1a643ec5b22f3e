SPECIFICATION Spec
CONSTANTS
    Unit = Unit
    Foreign = Foreign
    Addresses <- MCAddresses
    originatingIp = Unit
    Contents <- MCContents
    Datagrams <- Mixed
    Offsets <- NoOffsets
    Packets <- NoPackets
    MaxDatagrams = 2
    MaxPackets = 0
    UdpDataHistory = 2
    UdpDataDepth = 2
    Services = {}
    BtpDataDepth = 1
INVARIANT
    PayloadIsForwardedWhole
\* The nodes' processes may end, and datagrams are bounded.
CHECK_DEADLOCK FALSE
