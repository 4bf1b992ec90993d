SPECIFICATION LiveSpec
CONSTANTS
    Ptr = {f1, f2, f3}
    NULL = NULL
    Absent = Absent
    HostAddr = host
    PeerAddr = {a}
    HostId = {h1}
    PeerId = {r1}
    HostQpn = {q1}
    PeerQpn = {q3}
    Qpn = {q1, q3}
    HostPackets = {}
    NetPackets = {}
    Callers = {host, a}
    Reusable = {}
    MayFail = {"drop", "restart"}
INVARIANT ClosedWithdrawn
PROPERTY EventuallyWithdrawn
CHECK_DEADLOCK FALSE
