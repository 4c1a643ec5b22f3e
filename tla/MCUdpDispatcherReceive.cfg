SPECIFICATION Spec
CONSTANTS
    Unit = Unit
    Foreign = Foreign
    Cam = Cam
    Addresses <- MCAddresses
    originatingIp = Unit
    Contents <- MCContents
    Datagrams <- MCDatagrams
    Offsets <- MCOffsets
    Packets <- NoPackets
    MaxDatagrams = 3
    MaxPackets = 0
INVARIANTS
    TypeOK
    PayloadProvenance
    RawPacketIsOwn
\* The receive thread may be gone, the process may end, and datagrams and
\* packets are bounded.
CHECK_DEADLOCK FALSE
