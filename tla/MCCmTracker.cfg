SPECIFICATION Spec
CONSTANTS
    Ptr = {f1, f2, f3, f4}
    NULL = NULL
    Absent = Absent
    HostAddr = host
    PeerAddr = {a}
    HostId = {h1, h2}
    PeerId = {r1}
    HostQpn = {q1, q2}
    PeerQpn = {q3, q4}
    Qpn = {q1, q2, q3, q4}
    HostPackets <- MCHostPackets
    NetPackets <- MCNetPackets
SYMMETRY ValueSymmetry
INVARIANTS TypeOK IndexConsistent QpnMapExact RetransmissionHarmless QueryServed
PROPERTIES PhaseNeverRegresses AnswerWithdrawnByEraseOnly MappedFlowFrozen EstablishedIsAnswered ImplementsConnTable
CHECK_DEADLOCK FALSE
