SPECIFICATION SysSpec
CONSTANTS
    Ptr = {f1, f2, f3, f4}
    NULL = NULL
    Absent = Absent
    HostAddr = host
    PeerAddr = {a}
    HostId = {h1, h2}
    PeerId = {r1, r2}
    HostQpn = {q1, q2}
    PeerQpn = {q3}
    Qpn = {q1, q2, q3}
    HostPackets = {}
    NetPackets = {}
    Callers = {host}
    Reusable = {r1}
    MayFail = {"giveup"}
INVARIANT NeverWrong
CHECK_DEADLOCK FALSE
SYMMETRY PtrSymmetry
