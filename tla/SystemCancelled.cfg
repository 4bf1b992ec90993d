SPECIFICATION SysSpec
CONSTANTS
    Ptr = {f1, f2, f3}
    NULL = NULL
    Absent = Absent
    HostAddr = host
    PeerAddr = {a}
    HostId = {h1}
    PeerId = {r1}
    HostQpn = {q1}
    PeerQpn = {q3, q4}
    Qpn = {q1, q3, q4}
    HostPackets = {}
    NetPackets = {}
    Callers = {a}
    Reusable = {h1, r1}
    MayFail = {"giveup"}
INVARIANT NoAssertFails
CHECK_DEADLOCK FALSE
SYMMETRY PtrSymmetry
