---------------------------- MODULE MCCmTracker ----------------------------
(***************************************************************************)
(* Instances of CmTracker for TLC: what the two sides may put on the wire. *)
(* Fields a handler does not read are fixed, to keep the instances small.  *)
(***************************************************************************)
EXTENDS CmTracker, TLC

CONSTANTS
    HostQpn,        \* QPNs of the host
    PeerQpn         \* QPNs of the peers

\* Packets of one side with the ids the CM protocol puts into them: a REQ has
\* no receiver id yet; a REJ may lack the sender's own id.
Datagrams(src, dst, own, other, qpn) ==
    LET Msg(a, l, r, q) ==
            [attr: a, saddr: src, daddr: dst, local_comm_id: l,
             remote_comm_id: r, local_qpn: q]
    IN  Msg({"REQ"}, own, {0}, qpn)
        \cup Msg({"REP"}, own, other, qpn)
        \cup Msg({"RTU", "DREQ", "DREP", "REJ"}, own, other, {0})
        \cup Msg({"REJ"}, {0}, other, {0})
        \cup Msg({"MRA", "BEYOND"}, own, other, {0})

MCHostPackets == Datagrams({HostAddr}, PeerAddr, HostId, PeerId, HostQpn)
MCNetPackets == Datagrams(PeerAddr, {HostAddr}, PeerId, HostId, PeerQpn)

\* Addresses, host ids and the QPNs of each side are only compared.
ValueSymmetry ==
    Permutations(Ptr) \cup Permutations(HostId)
    \cup Permutations(HostQpn) \cup Permutations(PeerQpn)
=============================================================================
