SPECIFICATION Spec
CONSTANTS
    Unit = Unit
    Foreign = Foreign
    Cam = Cam
    Addresses <- MCAddresses
    originatingIp = Unit
    Contents <- MCContents
    Datagrams <- FewDatagrams
    Offsets <- MCOffsets
    Packets <- NoPackets
    MaxDatagrams = 2
    MaxPackets = 0
INVARIANT
    PayloadIsOwn
\* The receive thread may be gone, the process may end, and datagrams and
\* packets are bounded.
CHECK_DEADLOCK FALSE
