SPECIFICATION SysSpec
CONSTANTS
    Ptr = {f1, f2, f3}
    NULL = NULL
    Absent = Absent
    HostAddr = host
    PeerAddr = {a}
    HostId = {h1}
    PeerId = {r1}
    HostQpn = {q1}
    PeerQpn = {q3}
    Qpn = {q1, q3}
    HostPackets = {}
    NetPackets = {}
    Callers = {a}
    Reusable = {h1, r1}
    MayFail = {}
INVARIANT Answered
CHECK_DEADLOCK FALSE
SYMMETRY PtrSymmetry
