--------------------------- MODULE CmSystemProofs ---------------------------
(***************************************************************************)
(* The tracker stays sound in the composed system, for any number of       *)
(* peers, ids, QPNs and connections: endpoints send only packets that the  *)
(* handlers are written for, and a replaced context starts out sound.      *)
(***************************************************************************)
EXTENDS CmSystem, CmTrackerProofs

\* Where the far end of x can be.
FarEnd(x) == IF x \in HostEnd THEN PeerAddr \X Id0(PeerId) ELSE {HostAddr} \X Id0(HostId)

\* A used endpoint knows the node of the other side.
EndOK(x, e) == e \in Endpoint /\ (e.state # "IDLE" => e.other \in FarEnd(x))

PacketOK(p) == p \in AnyHostPacket \cup AnyNetPacket

\* Endpoints and network are well formed.
EndsInv ==
    /\ ends \in [Ends -> Endpoint]
    /\ \A x \in Ends : EndOK(x, ends[x])
    /\ \A p \in net : PacketOK(p)
    /\ faults \subseteq {"drop", "restart"}

\* The inductive invariant of the system.
SysInv == IInv /\ EndsInv

\* Tracking a packet the host sends keeps the tracker's invariant.
LEMMA TrackSentSound ==
    ASSUME IInv, NEW p \in AnyHostPacket, TrackSent(p)
    PROVE  IInv'
BY HostPacketSound DEF TrackSent

\* So does tracking a packet that comes in for the host.
LEMMA TrackReceivedSound ==
    ASSUME IInv, NEW p \in AnyNetPacket, TrackReceived(p)
    PROVE  IInv'
BY NetPacketSound DEF TrackReceived

\* The sender tells on which side of the tracker a packet is.
LEMMA Sides ==
    ASSUME NEW p, PacketOK(p)
    PROVE  /\ p.saddr = HostAddr => p \in AnyHostPacket
           /\ p.daddr = HostAddr => p \in AnyNetPacket
           /\ p.daddr # HostAddr => p \in AnyHostPacket
BY SystemAssumption DEF PacketOK, AnyHostPacket, AnyNetPacket, Packet

\* A message from x to its far end is a packet of the right kind.
LEMMA MsgOK ==
    ASSUME NEW x \in Ends, NEW y \in FarEnd(x), NEW attr \in Attr, NEW q \in Id0(Qpn)
    PROVE  /\ PacketOK(Msg(attr, x, y, q))
           /\ Msg(attr, x, y, q).saddr = HostAddr => Msg(attr, x, y, q) \in AnyHostPacket
<1>1. CASE x \in HostEnd
  <2>1. Msg(attr, x, y, q) \in AnyHostPacket
    BY <1>1 DEF Msg, AnyHostPacket, Packet, FarEnd, HostEnd, Id0
  <2>. QED
    BY <2>1 DEF PacketOK
<1>2. CASE x \notin HostEnd
  <2>1. x \in PeerAddr \X PeerId
    BY <1>2 DEF Ends, PeerEnd
  <2>2. Msg(attr, x, y, q) \in AnyNetPacket
    BY <1>2, <2>1 DEF Msg, AnyNetPacket, Packet, FarEnd, Id0
  <2>3. Msg(attr, x, y, q).saddr # HostAddr
    BY <2>1, SystemAssumption DEF Msg
  <2>. QED
    BY <2>2, <2>3 DEF PacketOK
<1>. QED
  BY <1>1, <1>2

\* Sending keeps the invariant when the endpoint goes on well.
LEMMA SendOK ==
    ASSUME SysInv, NEW x \in Ends, NEW e, EndOK(x, e), NEW p, PacketOK(p),
           p.saddr = HostAddr => p \in AnyHostPacket, Send(x, e, p)
    PROVE  SysInv'
<1>1. IInv'
  <2>1. CASE p.saddr = HostAddr
    BY <2>1, TrackSentSound DEF Send, SysInv
  <2>2. CASE p.saddr # HostAddr
    <3>1. IInv /\ UNCHANGED vars
      BY <2>2 DEF Send, SysInv
    <3>. QED
      BY <3>1 DEF IInv, vars, Tracker
  <2>. QED
    BY <2>1, <2>2
<1>2. EndsInv'
  BY DEF Send, SysInv, EndsInv, EndOK, PacketOK
<1>. QED
  BY <1>1, <1>2 DEF SysInv

\* Another state is as good as the old one, once the far end is known.
LEMMA ToOK ==
    ASSUME NEW x \in Ends, ends \in [Ends -> Endpoint], EndOK(x, ends[x]),
           ends[x].state # "IDLE", NEW st \in EndStates
    PROVE  EndOK(x, To(x, st)) /\ ends[x].other \in FarEnd(x)
BY DEF EndOK, To, Endpoint

\* The QPNs an endpoint chooses from.
LEMMA FreeQpnOK == \A x \in Ends : FreeQpn(x[1]) \subseteq Qpn
BY SystemAssumption DEF FreeQpn, QpnsOf

\* A packet leaves the endpoint it is for well formed.
LEMMA AfterOK ==
    ASSUME EndsInv, NEW p, PacketOK(p), NEW x \in Ends, IsFor(p, x)
    PROVE  EndOK(x, After(x, p))
<1>1. EndOK(x, ends[x]) /\ ends[x].state # "IDLE" /\ ends \in [Ends -> Endpoint]
  BY DEF EndsInv, IsFor
<1>2. <<p.saddr, p.local_comm_id>> \in FarEnd(x) /\ p.local_qpn \in Id0(Qpn)
  <2>1. CASE x \in HostEnd
    <3>1. p \in AnyNetPacket
      BY <2>1, Sides DEF IsFor, HostEnd
    <3>. QED
      BY <2>1, <3>1 DEF FarEnd, AnyNetPacket, Packet
  <2>2. CASE x \notin HostEnd
    <3>1. p.daddr # HostAddr
      BY <2>2, SystemAssumption DEF IsFor, Ends, PeerEnd
    <3>2. p \in AnyHostPacket
      BY <3>1, Sides
    <3>. QED
      BY <2>2, <3>2 DEF FarEnd, AnyHostPacket, Packet
  <2>. QED
    BY <2>1, <2>2
<1>3. ASSUME NEW st \in EndStates PROVE EndOK(x, To(x, st))
  BY <1>1, ToOK
<1>4. EndOK(x, [ends[x] EXCEPT !.state = "REP_RCVD", !.oqpn = p.local_qpn,
                               !.other = <<p.saddr, p.local_comm_id>>])
  <2>1. FarEnd(x) \subseteq Id0(Nodes) \X Id0(HostId \cup PeerId)
    BY DEF FarEnd, Nodes, Id0
  <2>. QED
    BY Zenon, <1>1, <1>2, <2>1 DEF EndOK, Endpoint, EndStates
<1>. QED
  BY <1>1, <1>3, <1>4 DEF After, EndStates

\* A packet, whatever it is, leaves all endpoints well formed.
LEMMA HandleOK ==
    ASSUME EndsInv, NEW p, PacketOK(p), Handle(p)
    PROVE  ends' \in [Ends -> Endpoint] /\ \A x \in Ends : EndOK(x, ends'[x])
<1>1. ASSUME NEW x \in Ends, NEW e, EndOK(x, e), ends' = [ends EXCEPT ![x] = e]
      PROVE  ends' \in [Ends -> Endpoint] /\ \A y \in Ends : EndOK(y, ends'[y])
  BY <1>1 DEF EndsInv, EndOK
<1>2. ASSUME NEW x \in At(p.daddr)
      PROVE  EndOK(x, [state |-> "REQ_RCVD", other |-> <<p.saddr, p.local_comm_id>>,
                       qpn |-> 0, oqpn |-> p.local_qpn])
  <2>1. x \in Ends /\ x[1] = p.daddr
    BY DEF At
  <2>2. <<p.saddr, p.local_comm_id>> \in FarEnd(x) /\ p.local_qpn \in Id0(Qpn)
    <3>1. CASE x \in HostEnd
      <4>1. p \in AnyNetPacket
        BY <2>1, <3>1, Sides DEF HostEnd
      <4>. QED
        BY <3>1, <4>1 DEF FarEnd, AnyNetPacket, Packet
    <3>2. CASE x \notin HostEnd
      <4>1. p \in AnyHostPacket
        BY <2>1, <3>2, Sides, SystemAssumption DEF Ends, PeerEnd
      <4>. QED
        BY <3>2, <4>1 DEF FarEnd, AnyHostPacket, Packet
    <3>. QED
      BY <3>1, <3>2
  <2>3. FarEnd(x) \subseteq Id0(Nodes) \X Id0(HostId \cup PeerId)
    BY DEF FarEnd, Nodes, Id0
  <2>. QED
    BY <2>2, <2>3 DEF EndOK, Endpoint, EndStates, Id0
<1>3. CASE \E x \in At(p.daddr) : ends' = [ends EXCEPT ![x] =
                [state |-> "REQ_RCVD", other |-> <<p.saddr, p.local_comm_id>>,
                 qpn |-> 0, oqpn |-> p.local_qpn]]
  BY Zenon, <1>1, <1>2, <1>3 DEF At
<1>4. CASE \E x \in Ends : IsFor(p, x) /\ ends' = [ends EXCEPT ![x] = After(x, p)]
  BY Zenon, <1>1, <1>4, AfterOK
<1>5. CASE UNCHANGED ends
  BY <1>5 DEF EndsInv, EndOK
<1>. QED
  BY <1>3, <1>4, <1>5 DEF Handle

-----------------------------------------------------------------------------
(* Steps *)

\* What an endpoint sends of its own accord, or in answer.
LEMMA EndpointStep ==
    ASSUME SysInv, NEW x \in Ends,
           \/ Connect(x) \/ Accept(x) \/ Confirm(x) \/ Reject(x)
           \/ Disconnect(x) \/ AnswerDreq(x) \/ GiveUp(x)
    PROVE  SysInv'
<1>1. ends \in [Ends -> Endpoint] /\ EndOK(x, ends[x])
  BY DEF SysInv, EndsInv
<1>2. ASSUME NEW st \in EndStates, NEW attr \in Attr, ends[x].state # "IDLE",
             Send(x, To(x, st), Msg(attr, x, ends[x].other, 0))
      PROVE  SysInv'
  <2>1. EndOK(x, To(x, st)) /\ ends[x].other \in FarEnd(x)
    BY <1>1, <1>2, ToOK
  <2>. DEFINE m == Msg(attr, x, ends[x].other, 0)
  <2>2. PacketOK(m) /\ (m.saddr = HostAddr => m \in AnyHostPacket)
    BY <2>1, MsgOK DEF Id0
  <2>. HIDE DEF m
  <2>3. Send(x, To(x, st), m)
    BY <1>2 DEF m
  <2>. QED
    BY <2>1, <2>2, <2>3, SendOK
<1>3. CASE Connect(x)
  <2>1. PICK n \in IF x \in HostEnd THEN PeerAddr ELSE {HostAddr}, q \in FreeQpn(x[1]) :
          Send(x, [state |-> "REQ_SENT", other |-> <<n, 0>>, qpn |-> q, oqpn |-> 0],
               Msg("REQ", x, <<n, 0>>, q))
    BY <1>3 DEF Connect
  <2>. DEFINE e == [state |-> "REQ_SENT", other |-> <<n, 0>>, qpn |-> q, oqpn |-> 0]
              m == Msg("REQ", x, <<n, 0>>, q)
  <2>2. <<n, 0>> \in FarEnd(x) /\ q \in Id0(Qpn)
    BY FreeQpnOK DEF FarEnd, Id0
  <2>3. FarEnd(x) \subseteq Id0(Nodes) \X Id0(HostId \cup PeerId)
    BY DEF FarEnd, Nodes, Id0
  <2>4. EndOK(x, e)
    BY <2>2, <2>3 DEF EndOK, Endpoint, EndStates, Id0
  <2>5. PacketOK(m) /\ (m.saddr = HostAddr => m \in AnyHostPacket)
    BY <2>2, MsgOK DEF Attr, Handled
  <2>. HIDE DEF e, m
  <2>6. Send(x, e, m)
    BY <2>1 DEF e, m
  <2>. QED
    BY <2>4, <2>5, <2>6, SendOK
<1>4. CASE Accept(x)
  <2>1. PICK q \in FreeQpn(x[1]) :
          Send(x, [To(x, "REP_SENT") EXCEPT !.qpn = q], Msg("REP", x, ends[x].other, q))
    BY <1>4 DEF Accept
  <2>. DEFINE e == [To(x, "REP_SENT") EXCEPT !.qpn = q]
              m == Msg("REP", x, ends[x].other, q)
  <2>2. EndOK(x, To(x, "REP_SENT")) /\ ends[x].other \in FarEnd(x) /\ q \in Id0(Qpn)
    BY <1>1, <1>4, ToOK, FreeQpnOK DEF Accept, EndStates, Id0
  <2>3. EndOK(x, e)
    BY <2>2 DEF EndOK, Endpoint
  <2>4. PacketOK(m) /\ (m.saddr = HostAddr => m \in AnyHostPacket)
    BY <2>2, MsgOK DEF Attr, Handled
  <2>. HIDE DEF e, m
  <2>5. Send(x, e, m)
    BY <2>1 DEF e, m
  <2>. QED
    BY <2>3, <2>4, <2>5, SendOK
<1>5. CASE Confirm(x)
  BY Zenon, <1>2, <1>5 DEF Confirm, EndStates, Attr, Handled
<1>6. CASE Reject(x)
  BY <1>2, <1>6 DEF Reject, EndStates, Attr, Handled
<1>7. CASE Disconnect(x)
  BY <1>2, <1>7 DEF Disconnect, EndStates, Attr, Handled
<1>8. CASE AnswerDreq(x)
  BY <1>2, <1>8 DEF AnswerDreq, EndStates, Attr, Handled
<1>9. CASE GiveUp(x)
  <2>1. CASE /\ ends[x].state \in {"REQ_SENT", "REP_SENT"}
             /\ Send(x, To(x, "CLOSED"), Msg("REJ", x, ends[x].other, 0))
    BY <1>2, <2>1 DEF EndStates, Attr, Handled
  <2>2. CASE /\ ends[x].state = "DREQ_SENT"
             /\ ends' = [ends EXCEPT ![x] = To(x, "ABANDONED")]
             /\ UNCHANGED <<flow, local_map, remote_map, qpn_map, abort, net, faults>>
    <3>1. EndOK(x, To(x, "ABANDONED"))
      BY <1>1, <2>2, ToOK DEF EndStates
    <3>2. EndsInv'
      BY <2>2, <3>1 DEF SysInv, EndsInv, EndOK, PacketOK
    <3>3. IInv'
      BY <2>2 DEF SysInv, IInv, Tracker
    <3>. QED
      BY <3>2, <3>3 DEF SysInv
  <2>. QED
    BY Zenon, <1>9, <2>1, <2>2 DEF GiveUp
<1>. QED
  BY <1>3, <1>4, <1>5, <1>6, <1>7, <1>8, <1>9

\* What the network does with a packet, and what the host sends again.
LEMMA NetworkStep ==
    ASSUME SysInv, Deliver \/ Retransmit
    PROVE  SysInv'
<1>1. ASSUME NEW p \in net, ToHost(p) PROVE SysInv'
  <2>1. PacketOK(p) /\ p \in AnyNetPacket
    BY <1>1, Sides DEF SysInv, EndsInv, ToHost
  <2>2. IInv'
    BY <1>1, <2>1, TrackReceivedSound DEF SysInv, ToHost
  <2>3. ends' \in [Ends -> Endpoint] /\ \A x \in Ends : EndOK(x, ends'[x])
    BY <1>1, <2>1, HandleOK DEF SysInv, ToHost
  <2>4. net' = net /\ faults' = faults
    BY <1>1 DEF ToHost
  <2>. QED
    BY <2>2, <2>3, <2>4 DEF SysInv, EndsInv, EndOK, PacketOK
<1>2. ASSUME NEW p \in net, DropAtHost(p) PROVE SysInv'
  <2>1. p \in AnyNetPacket
    BY <1>2, Sides DEF SysInv, EndsInv, DropAtHost
  <2>2. IInv'
    BY <1>2, <2>1, TrackReceivedSound DEF SysInv, DropAtHost
  <2>3. ends' = ends /\ net' = net /\ faults' = faults \cup {"drop"}
    BY <1>2 DEF DropAtHost
  <2>. QED
    BY <2>2, <2>3 DEF SysInv, EndsInv, EndOK, PacketOK
<1>3. ASSUME NEW p \in net, ToPeer(p) PROVE SysInv'
  <2>1. PacketOK(p)
    BY <1>3 DEF SysInv, EndsInv
  <2>2. IInv'
    BY <1>3 DEF SysInv, IInv, Tracker, ToPeer
  <2>3. ends' \in [Ends -> Endpoint] /\ \A x \in Ends : EndOK(x, ends'[x])
    BY <1>3, <2>1, HandleOK DEF SysInv, ToPeer
  <2>4. net' = net /\ faults' = faults
    BY <1>3 DEF ToPeer
  <2>. QED
    BY <2>2, <2>3, <2>4 DEF SysInv, EndsInv, EndOK, PacketOK
<1>4. CASE Retransmit
  <2>1. PICK p \in net : p.saddr = HostAddr /\ TrackSent(p) /\ UNCHANGED <<ends, net, faults>>
    BY <1>4 DEF Retransmit
  <2>2. p \in AnyHostPacket
    BY <2>1, Sides DEF SysInv, EndsInv
  <2>3. IInv'
    BY <2>1, <2>2, TrackSentSound DEF SysInv
  <2>. QED
    BY <2>1, <2>3 DEF SysInv, EndsInv, EndOK, PacketOK
<1>. QED
  BY <1>1, <1>2, <1>3, <1>4 DEF Deliver

\* A new use of an endpoint, and a new context.
LEMMA RenewStep ==
    ASSUME SysInv, Restart \/ \E x \in Ends : Recycle(x)
    PROVE  SysInv'
<1>1. ASSUME NEW x \in Ends, Recycle(x) PROVE SysInv'
  <2>1. EndOK(x, Unused)
    BY DEF EndOK, Unused, Endpoint, EndStates, Id0
  <2>2. IInv'
    BY <1>1 DEF SysInv, IInv, Tracker, Recycle
  <2>3. ends' = [ends EXCEPT ![x] = Unused] /\ net' \subseteq net /\ faults' = faults
    BY <1>1 DEF Recycle
  <2>4. EndsInv'
    BY <2>1, <2>3 DEF SysInv, EndsInv, EndOK, PacketOK
  <2>. QED
    BY <2>2, <2>4 DEF SysInv
<1>2. CASE Restart
  <2>1. IInv'
    <3>1. Tracker' = [flow |-> [f \in Ptr |-> NewFlowState],
                      local_map |-> [l \in Id0(HostId) |-> NULL],
                      remote_map |-> [k \in CmFlowKey |-> NULL],
                      qpn_map |-> [k \in FlowKey |-> Absent]]
      BY <1>2 DEF Restart, Tracker
    <3>2. Sound(Tracker')
      BY <3>1, EmptySound
    <3>3. abort' = abort
      BY <1>2 DEF Restart
    <3>. QED
      BY <3>2, <3>3 DEF SysInv, IInv
  <2>2. EndsInv'
    BY <1>2 DEF Restart, SysInv, EndsInv, EndOK, PacketOK
  <2>. QED
    BY <2>1, <2>2 DEF SysInv
<1>. QED
  BY <1>1, <1>2

\* The inductive invariant holds in every reachable state of the system.
THEOREM SystemInvariant == SysSpec => []SysInv
<1>1. SysInit => SysInv
  <2>. SUFFICES ASSUME SysInit PROVE SysInv
    OBVIOUS
  <2>1. IInv
    BY InitSound DEF SysInit
  <2>2. Unused \in Endpoint /\ Unused.state = "IDLE"
    BY DEF Unused, Endpoint, EndStates, Id0
  <2>3. EndsInv
    BY <2>2 DEF SysInit, EndsInv, EndOK
  <2>. QED
    BY <2>1, <2>3 DEF SysInv
<1>2. SysInv /\ [SysNext]_sysVars => SysInv'
  <2>. SUFFICES ASSUME SysInv, [SysNext]_sysVars PROVE SysInv'
    OBVIOUS
  <2>1. CASE UNCHANGED sysVars
    <3>1. IInv'
      BY <2>1 DEF sysVars, SysInv, IInv, Tracker
    <3>. QED
      BY <2>1, <3>1 DEF sysVars, SysInv, EndsInv, EndOK, PacketOK
  <2>2. CASE SysNext
    BY <2>2, EndpointStep, NetworkStep, RenewStep DEF SysNext, Endpoints
  <2>. QED
    BY <2>1, <2>2
<1>. QED
  BY <1>1, <1>2, PTL DEF SysSpec

\* The system is well typed; above all, whatever endpoints have sent is a packet
\* the handlers are written for.
THEOREM SystemTypeCorrect == SysSpec => []SysTypeOK
<1>1. SysInv => SysTypeOK
  BY DEF SysInv, IInv, Sound, EndsInv, PacketOK, TypeOK, SysTypeOK
<1>. QED
  BY <1>1, SystemInvariant, PTL

\* With endpoints that follow the protocol, any number of them, and with the
\* context replaced at any time, the query table is exactly the connections of
\* the mapped flows, each of them alive and unique.
THEOREM SystemTableExact == SysSpec => [](QpnMapExact /\ IndexConsistent)
<1>1. SysInv => QpnMapExact /\ IndexConsistent
  BY DEF SysInv, IInv, Sound, QpnMapExact, IndexConsistent
<1>. QED
  BY <1>1, SystemInvariant, PTL

-----------------------------------------------------------------------------
(* Endpoints that belong together, and flows that know them *)

\* The two ends of a packet.
From(p) == <<p.saddr, p.local_comm_id>>

Dest(p) == <<p.daddr, p.remote_comm_id>>

\* The endpoints whose REQ is on the network.
Requesters(N) == {From(p) : p \in {q \in N : q.attr = "REQ"}}

\* The id of the far end is known.
Full(y) == y[2] # 0

\* States in which both ends have heard of each other.
Mutual == {"REP_RCVD", "ESTABLISHED", "DREQ_SENT", "DREQ_RCVD", "TIMEWAIT", "ABANDONED"}

\* What the endpoint z knows; R are the endpoints that have sent a REQ.
EndFits(E, R, z) ==
    LET e == E[z]
        y == e.other
    IN  /\ e.state = "IDLE" => e = Unused
        /\ e.state = "REQ_SENT" => z \in R /\ ~Full(y)
        /\ e.state = "REQ_RCVD" => e.qpn = 0
        /\ e.state \notin {"IDLE", "REQ_RCVD", "CLOSED"} => e.qpn # 0
        /\ e.state \notin {"IDLE", "REQ_SENT", "CLOSED"} => Full(y)
        /\ z \in R => e.qpn # 0
        /\ z \in R /\ Full(y) =>
              /\ y \in Ends /\ y \notin R /\ E[y].other = z
              /\ e.oqpn = E[y].qpn /\ e.oqpn # 0
        /\ z \notin R /\ e.state # "IDLE" =>
              y \in Ends /\ y \in R /\ E[y].other[1] = z[1] /\ e.oqpn = E[y].qpn
        /\ e.state \in Mutual => y \in Ends /\ E[y].other = z

\* A node has no two endpoints with the same QPN, and takes a request once.
Unique(E, R) ==
    \A z, w \in Ends : z[1] = w[1] =>
       /\ E[z].qpn = E[w].qpn /\ E[z].qpn # 0 => z = w
       /\ /\ E[z].state # "IDLE" /\ E[w].state # "IDLE"
          /\ z \notin R /\ w \notin R /\ E[z].other = E[w].other
          => z = w

Pairing(E, R) ==
    /\ E \in [Ends -> Endpoint]
    /\ \A z \in Ends : EndFits(E, R, z)
    /\ Unique(E, R)

\* What the packet p says still holds of its sender.
PacketFits(E, R, p) ==
    LET z == From(p)
    IN  /\ z \in Ends /\ E[z].state # "IDLE"
        /\ p.attr \in {"REQ", "REP"} => p.local_qpn = E[z].qpn /\ p.local_qpn # 0
        /\ p.attr = "REQ" => z \in R /\ p.remote_comm_id = 0 /\ E[z].other[1] = p.daddr
        /\ p.attr # "REQ" => E[z].state # "REQ_SENT" /\ E[z].other = Dest(p)
        /\ p.attr \notin {"REQ", "REJ"} => p.remote_comm_id # 0
        /\ p.attr = "REP" => z \notin R

\* One of the two has heard from the other.
Paired(E, x, y) == E[x].other = y \/ E[y].other = x

\* An endpoint is a pair, and its id is not 0.
LEMMA EndsArePairs ==
    \A x \in Ends : x = <<x[1], x[2]>> /\ Full(x) /\ x # <<0, 0>>
BY MarkersAssumption DEF Ends, HostEnd, PeerEnd, Full

\* If y has heard from x, and x from anybody, it is from y.
LEMMA PartnerKnows ==
    ASSUME NEW E, NEW R, Pairing(E, R), NEW x \in Ends, NEW y \in Ends,
           E[y].other = x, Full(E[x].other)
    PROVE  E[x].other = y
<1>1. E[y].state # "IDLE"
  BY EndsArePairs DEF Pairing, EndFits, Unused
<1>2. CASE y \in R
  BY Zenon, <1>2, EndsArePairs DEF Pairing, EndFits
<1>3. CASE y \notin R
  <2>. DEFINE k == E[x].other
  <2>1. x \in R /\ k[1] = y[1]
    BY Zenon, <1>1, <1>3 DEF Pairing, EndFits
  <2>2. k \in Ends /\ k \notin R /\ E[k].other = x
    BY Zenon, <2>1 DEF Pairing, EndFits
  <2>3. E[k].state # "IDLE"
    BY <2>2, EndsArePairs DEF Pairing, EndFits, Unused
  <2>. QED
    BY Zenon, <1>1, <1>3, <2>1, <2>2, <2>3 DEF Pairing, Unique
<1>. QED
  BY Zenon, <1>2, <1>3

\* Two endpoints of a node do not have the same far end.
LEMMA PartnerUnique ==
    ASSUME NEW E, NEW R, Pairing(E, R), NEW x \in Ends, NEW w \in Ends, NEW y \in Ends,
           x[1] = w[1], Paired(E, x, y), E[w].other = y
    PROVE  w = x
<1>1. E[w].state # "IDLE" /\ Full(y)
  BY EndsArePairs DEF Pairing, EndFits, Unused
<1>2. CASE E[y].other = x
  <2>1. E[y].state # "IDLE"
    BY <1>2, EndsArePairs DEF Pairing, EndFits, Unused
  <2>2. CASE w \in R
    BY <1>1, <1>2, <2>2 DEF Pairing, EndFits
  <2>3. CASE w \notin R
    <3>1. y \in R
      BY Zenon, <1>1, <2>3 DEF Pairing, EndFits
    <3>2. E[x].other = y /\ x \notin R
      BY ZenonT(30), <1>2, <3>1, <2>1, EndsArePairs DEF Pairing, EndFits
    <3>3. E[x].state # "IDLE"
      BY <3>2, EndsArePairs DEF Pairing, EndFits, Unused
    <3>. QED
      BY Zenon, <1>1, <2>3, <3>2, <3>3 DEF Pairing, Unique
  <2>. QED
    BY Zenon, <2>2, <2>3
<1>3. CASE E[x].other = y /\ E[y].other # x
  <2>1. E[x].state # "IDLE"
    BY <1>3, EndsArePairs DEF Pairing, EndFits, Unused
  <2>2. x \notin R
    BY Zenon, <1>1, <1>3 DEF Pairing, EndFits
  <2>3. y \in R
    BY Zenon, <1>3, <2>1, <2>2 DEF Pairing, EndFits
  <2>4. w \notin R
    BY <1>1, <2>3 DEF Pairing, EndFits
  <2>. QED
    BY Zenon, <1>1, <1>3, <2>1, <2>2, <2>4 DEF Pairing, Unique
<1>. QED
  BY <1>2, <1>3 DEF Paired

\* Nobody has heard of an endpoint that is not in use.
LEMMA IdleUnheard ==
    ASSUME NEW E, NEW R, Pairing(E, R), NEW x \in Ends, E[x].state = "IDLE", NEW z \in Ends
    PROVE  E[z].other # x /\ x \notin R
<1>1. E[x] = Unused /\ x \notin R
  BY DEF Pairing, EndFits, Unused
<1>2. SUFFICES ASSUME E[z].other = x PROVE FALSE
  BY Zenon, <1>1
<1>3. E[z].state # "IDLE" /\ Full(x)
  BY <1>2, EndsArePairs DEF Pairing, EndFits, Unused
<1>4. CASE z \in R
  BY <1>1, <1>2, <1>3, <1>4, EndsArePairs DEF Pairing, EndFits, Unused
<1>5. CASE z \notin R
  BY <1>1, <1>2, <1>3, <1>5 DEF Pairing, EndFits
<1>. QED
  BY Zenon, <1>4, <1>5

\* The QPNs of a flow are those of the endpoints it is filed under, and these
\* two endpoints belong together.
FlowTrue(s, E) ==
    LET x == <<HostAddr, s.local_id>>
        y == s.remote_id
    IN  /\ s.local_qpn # 0 => s.local_id # 0 /\ s.local_qpn = E[x].qpn
        /\ s.remote_qpn # 0 => IsKey(y) /\ s.remote_qpn = E[y].qpn
        /\ s.local_id # 0 /\ IsKey(y) => Paired(E, x, y)

Truthful(t, E) == \A f \in Ptr : FlowTrue(t.flow[f], E)

\* Ids and QPNs that are not 0 name endpoints.
LEMMA IdsNameEnds ==
    ASSUME NEW l \in Id0(HostId), NEW k \in CmFlowKey
    PROVE  /\ l # 0 => <<HostAddr, l>> \in Ends
           /\ IsKey(k) => k \in Ends
           /\ k \in Ends /\ k[1] # HostAddr => IsKey(k)
BY Zenon, MarkersAssumption DEF Id0, CmFlowKey, IsKey, Ends, HostEnd, PeerEnd

\* The same for a packet from the network.
LEMMA NetPacketSays ==
    ASSUME NEW E, NEW R, NEW p \in AnyNetPacket, PacketFits(E, R, p)
    PROVE  /\ From(p) \in CmFlowKey /\ IsKey(From(p)) /\ From(p) \in Ends
           /\ p.remote_comm_id \in Id0(HostId) /\ Dest(p) = <<HostAddr, p.remote_comm_id>>
           /\ p.attr # "REQ" => Paired(E, <<HostAddr, p.remote_comm_id>>, From(p))
           /\ p.attr \in {"REQ", "REP"} => p.local_qpn = E[From(p)].qpn
<1>1. p.saddr \in PeerAddr /\ p.daddr = HostAddr /\ p.remote_comm_id \in Id0(HostId)
  BY DEF AnyNetPacket, Packet
<1>2. From(p) \in CmFlowKey /\ From(p)[1] = p.saddr /\ Dest(p) = <<HostAddr, p.remote_comm_id>>
  BY Zenon, <1>1 DEF From, Dest, AnyNetPacket, Packet, CmFlowKey, Id0
<1>3. From(p) \in Ends /\ From(p)[1] # HostAddr
  BY <1>1, <1>2, SystemAssumption DEF PacketFits
<1>4. IsKey(From(p))
  BY Zenon, <1>2, <1>3, IdsNameEnds, MarkersAssumption DEF Id0
<1>. QED
  BY <1>1, <1>2, <1>3, <1>4 DEF PacketFits, Paired

-----------------------------------------------------------------------------
(* The flows of the endpoints.  The flow under the id of a host endpoint     *)
(* follows the endpoint; E are the endpoints, R those that have sent a REQ   *)
(* and t is the tracker.  Every handler is an edit of one flow and of its    *)
(* entries (Edit), made while one endpoint goes on.                          *)

\* States in which the flow of an endpoint is under both of its ids.
Linked == {"REP_RCVD", "REP_SENT", "ESTABLISHED", "DREQ_SENT", "DREQ_RCVD"}

\* What may be under the id of the host endpoint x when the connection is over:
\* nothing; a flow that a late packet has added; a request that a late REJ has
\* put there; the flow of a disconnect that was not answered; or the flow of a
\* REP to a peer that had lost patience.
Leftover(t, E, x) ==
    LET e == E[x]
        s == t.flow[t.local_map[x[2]]]
    IN  \/ t.local_map[x[2]] = NULL
        \/ s.state = "IDLE" /\ ~IsKey(s.remote_id)
        \/ s.state = "REQ_RCVD"
        \/ /\ e.state = "ABANDONED" /\ s.state \in {"DREQ_SENT", "DREQ_RCVD"}
           /\ t.remote_map[e.other] = t.local_map[x[2]]
        \/ /\ e.state = "CLOSED" /\ s.state = "REP_SENT" /\ IsKey(e.other)
           /\ E[e.other].state = "CLOSED" /\ ~Full(E[e.other].other)

\* The flows of the host endpoint x and of its far end are where x is.
Follows(t, E, x) ==
    LET e == E[x]
        f == t.local_map[x[2]]
        g == t.remote_map[e.other]
    IN  /\ e.state = "IDLE" => f = NULL
        /\ e.state = "REQ_SENT" =>
              /\ f # NULL /\ t.flow[f].state = "REQ_SENT"
              /\ t.flow[f].local_qpn # 0 /\ ~IsKey(t.flow[f].remote_id)
        /\ e.state = "REQ_RCVD" => f = NULL /\ g # NULL /\ t.flow[g].local_id = 0
        /\ e.state \in Linked =>
              /\ f # NULL /\ f = g /\ t.flow[f].state = e.state
              /\ t.flow[f].local_qpn # 0 /\ t.flow[f].remote_qpn # 0
              /\ e.state = "ESTABLISHED" => t.flow[f].in_qpn_map
        /\ e.state \in Over => Leftover(t, E, x)

\* The flow of a host endpoint has no other far end than the endpoint.
LocalFiled(t, E, x) ==
    LET f == t.local_map[x[2]]
    IN  f # NULL /\ IsKey(t.flow[f].remote_id) => t.flow[f].remote_id = E[x].other

\* The flow under the key of a peer's endpoint is a request of that endpoint, or
\* the flow of a host endpoint.
RemoteFiled(t, R, k) ==
    LET f == t.remote_map[k]
    IN  f # NULL => IF t.flow[f].local_id = 0
                    THEN t.flow[f].state = "REQ_RCVD" /\ k \in R
                    ELSE t.local_map[t.flow[f].local_id] = f

\* A flow that says it is a request has the requester's key and QPN.
RequestFiled(s) == s.state = "REQ_RCVD" => IsKey(s.remote_id) /\ s.remote_qpn # 0

Sync(t, E, R) ==
    /\ \A x \in HostEnd : Follows(t, E, x) /\ LocalFiled(t, E, x)
    /\ \A k \in CmFlowKey : RemoteFiled(t, R, k)
    /\ \A f \in Ptr : RequestFiled(t.flow[f])

-----------------------------------------------------------------------------
(* Edits of the tracker *)

\* u is t with a under the local id l, b under the key r and s at the address f.
Edit(t, u, l, a, r, b, f, s) ==
    /\ u \in TrackerType
    /\ \A h \in Id0(HostId) : u.local_map[h] = IF h = l THEN a ELSE t.local_map[h]
    /\ \A k \in CmFlowKey : u.remote_map[k] = IF k = r THEN b ELSE t.remote_map[k]
    /\ \A g \in Ptr : u.flow[g] = IF g = f THEN s ELSE t.flow[g]

\* The far ends of host endpoints are keys of remote_map.
Facing(E) ==
    \A x \in HostEnd : E[x].other \in CmFlowKey /\ (Full(E[x].other) => IsKey(E[x].other))

\* An edit of the flow of x, with the far end of x or none, while x goes on from
\* E[x] to E2[x].
EditStep(t, E, R, u, E2, R2, x, r, a, b, f, s) ==
    /\ t \in TrackerType /\ Sync(t, E, R) /\ Indexed(u)
    /\ x \in HostEnd /\ r \in CmFlowKey /\ f \in Ptr
    /\ a \in {NULL, f} /\ b \in {NULL, a}
    /\ Edit(t, u, x[2], a, r, b, f, s)
    /\ s.local_id = x[2] /\ (IsKey(s.remote_id) => s.remote_id = r)
    /\ Pairing(E2, R2) /\ Facing(E2) /\ R \subseteq R2
    /\ \A z \in Ends : z # x => E2[z] = E[z]
    /\ Full(E[x].other) => E2[x].other = E[x].other
    /\ IsKey(r) => Paired(E2, x, r)
    /\ t.local_map[x[2]] # NULL /\ IsKey(t.flow[t.local_map[x[2]]].remote_id) => IsKey(r)

\* A key of remote_map names an endpoint of a peer.
LEMMA KeysAreEnds ==
    ASSUME NEW k \in CmFlowKey
    PROVE  /\ IsKey(k) => k \in PeerEnd /\ k \in Ends /\ k \notin HostEnd
           /\ k[1] # 0 => (IsKey(k) <=> Full(k))
           /\ ~IsKey(NoKey) /\ NoKey \in CmFlowKey
BY MarkersAssumption, SystemAssumption
   DEF CmFlowKey, IsKey, PeerEnd, Ends, HostEnd, Id0, NoKey, Full

\* The endpoints of the host are those with its address.
LEMMA HostEnds ==
    /\ \A x \in HostEnd : /\ x \in Ends /\ x[1] = HostAddr /\ x[2] \in HostId
                          /\ x[2] \in Id0(HostId) /\ x[2] # 0 /\ x = <<HostAddr, x[2]>>
    /\ \A l \in HostId : <<HostAddr, l>> \in HostEnd /\ l \in Id0(HostId) /\ l # 0
BY MarkersAssumption DEF HostEnd, Ends, Id0

\* An edit of the flow of x, with x's far end or none, leaves the flows of the
\* other host endpoints alone.
LEMMA EditOthers ==
    ASSUME NEW t, NEW E, NEW R, NEW u, NEW E2, NEW R2, NEW x, NEW r, NEW a, NEW b, NEW f, NEW s,
           EditStep(t, E, R, u, E2, R2, x, r, a, b, f, s), NEW w \in HostEnd, w # x
    PROVE  Follows(u, E2, w) /\ LocalFiled(u, E2, w)
<1>. USE DEF EditStep
<1>. DEFINE h == w[2]
            e == E[w]
            lf == t.local_map[h]
<1>1. /\ h \in Id0(HostId) /\ h # 0 /\ h # x[2] /\ w \in Ends /\ x \in Ends
      /\ x[1] = w[1]
  BY HostEnds
<1>2. u.local_map[h] = lf /\ E2[w] = e /\ lf \in Ptr \cup {NULL} /\ e.other \in CmFlowKey
  BY Zenon, <1>1 DEF Edit, TrackerType, Facing
<1>3. lf # NULL => lf \in Ptr /\ lf # f /\ u.flow[lf] = t.flow[lf]
  <2>1. lf # NULL => u.flow[lf].local_id = h
    BY Zenon, <1>1, <1>2 DEF Indexed
  <2>. QED
    BY Zenon, <1>1, <1>2, <2>1 DEF Edit
<1>4. IsKey(e.other) => u.remote_map[e.other] = t.remote_map[e.other]
  <2>1. ASSUME IsKey(e.other), e.other = r PROVE FALSE
    <3>1. r \in Ends /\ Paired(E2, x, r) /\ E2[w].other = r
      BY Zenon, <1>2, <2>1, KeysAreEnds
    <3>. QED
      BY <1>1, <3>1, PartnerUnique
  <2>. QED
    BY Zenon, <1>2, <2>1 DEF Edit
<1>5. e.state \in Linked \cup {"REQ_RCVD", "ABANDONED"} => IsKey(e.other)
  <2>1. e.state \in Linked \cup {"REQ_RCVD", "ABANDONED"} => Full(e.other)
    BY Zenon, <1>1, <1>2 DEF Pairing, EndFits, Linked
  <2>. QED
    BY Zenon, <1>2, <2>1 DEF Facing
<1>. DEFINE g == t.remote_map[e.other]
<1>6. ASSUME e.state = "REQ_RCVD", g # NULL, t.flow[g].local_id = 0
      PROVE  u.flow[g].local_id = 0
  <2>1. u.remote_map[e.other] = g /\ IsKey(e.other) /\ g \in Ptr
    BY Zenon, <1>2, <1>4, <1>5, <1>6 DEF TrackerType
  <2>2. u.flow[g].remote_id = e.other
    BY Zenon, <1>2, <1>6, <2>1 DEF Indexed
  <2>3. e.other # r
    <3>1. ASSUME e.other = r PROVE FALSE
      <4>1. r \in Ends /\ Paired(E2, x, r) /\ E2[w].other = r
        BY Zenon, <1>2, <2>1, <3>1, KeysAreEnds
      <4>. QED
        BY <1>1, <4>1, PartnerUnique
    <3>. QED
      BY Zenon, <3>1
  <2>4. g # f
    BY Zenon, <2>1, <2>2, <2>3 DEF Edit
  <2>. QED
    BY Zenon, <1>6, <2>1, <2>4 DEF Edit
<1>7. IsKey(e.other) => E2[e.other] = E[e.other]
  BY Zenon, <1>2, KeysAreEnds
<1>8. Follows(t, E, w) /\ LocalFiled(t, E, w)
  BY Zenon DEF Sync
<1>9. LocalFiled(u, E2, w)
  BY Zenon, <1>2, <1>3, <1>8 DEF LocalFiled
<1>10. Leftover(t, E, w) => Leftover(u, E2, w)
  BY ZenonT(30), <1>2, <1>3, <1>4, <1>5, <1>7 DEF Leftover
<1>11. Follows(u, E2, w)
  <2>1. CASE e.state \in Linked
    BY ZenonT(30), <1>2, <1>3, <1>4, <1>5, <1>8, <2>1 DEF Follows, Linked, Over
  <2>2. CASE e.state = "REQ_RCVD"
    BY Zenon, <1>2, <1>4, <1>5, <1>6, <1>8, <2>2 DEF Follows, Linked, Over
  <2>3. CASE e.state \notin Linked \cup {"REQ_RCVD"}
    BY Zenon, <1>2, <1>3, <1>8, <1>10, <2>3 DEF Follows
  <2>. QED
    BY <2>1, <2>2, <2>3
<1>. QED
  BY ZenonT(30), <1>9, <1>11

\* The same for the flows of the other peers' endpoints.
LEMMA EditKeys ==
    ASSUME NEW t, NEW E, NEW R, NEW u, NEW E2, NEW R2, NEW x, NEW r, NEW a, NEW b, NEW f, NEW s,
           EditStep(t, E, R, u, E2, R2, x, r, a, b, f, s), NEW k \in CmFlowKey
    PROVE  RemoteFiled(u, R2, k)
<1>. USE DEF EditStep
<1>. DEFINE g == u.remote_map[k]
            i == u.flow[g].local_id
<1>. SUFFICES ASSUME g # NULL
              PROVE  IF i = 0 THEN u.flow[g].state = "REQ_RCVD" /\ k \in R2
                     ELSE u.local_map[i] = g
  BY Zenon DEF RemoteFiled
<1>0. x[2] \in Id0(HostId) /\ x[2] # 0 /\ x \in Ends
  BY ZenonT(30), HostEnds
<1>1. g \in Ptr /\ IsKey(k) /\ u.flow[g].remote_id = k /\ k \in Ends
  <2>1. u \in TrackerType /\ Indexed(u)
    BY Zenon DEF Edit
  <2>. HIDE DEF EditStep
  <2>. QED
    BY ZenonT(30), <2>1, KeysAreEnds DEF TrackerType, Indexed
<1>2. CASE k = r
  <2>1. g = f /\ a = f /\ u.flow[g] = s
    <3>1. Edit(t, u, x[2], a, r, b, f, s) /\ a \in {NULL, f} /\ b \in {NULL, a} /\ f \in Ptr
      BY Zenon
    <3>2. g = b
      BY Zenon, <1>2, <3>1 DEF Edit
    <3>3. g = f /\ a = f
      BY Zenon, <3>1, <3>2
    <3>. QED
      BY Zenon, <3>1, <3>3 DEF Edit
  <2>. QED
    BY Zenon, <1>0, <2>1 DEF Edit
<1>3. CASE k # r
  <2>1. g = t.remote_map[k] /\ g # f /\ u.flow[g] = t.flow[g]
    <3>1. Edit(t, u, x[2], a, r, b, f, s) /\ f \in Ptr /\ (IsKey(s.remote_id) => s.remote_id = r)
      BY Zenon
    <3>. HIDE DEF EditStep
    <3>. QED
      BY SMTT(30), <1>1, <1>3, <3>1 DEF Edit
  <2>2. RemoteFiled(t, R, k) /\ LocalFiled(t, E, x)
    BY Zenon DEF Sync
  <2>3. CASE i = 0
    BY Zenon, <2>1, <2>2, <2>3 DEF RemoteFiled
  <2>4. CASE i # 0 /\ i # x[2]
    <3>1. t.local_map[i] = g
      BY Zenon, <2>1, <2>2, <2>4 DEF RemoteFiled
    <3>2. i \in Id0(HostId)
      BY Zenon, <1>1 DEF Edit, TrackerType, FlowState
    <3>. QED
      BY Zenon, <2>4, <3>1, <3>2 DEF Edit
  <2>5. CASE i # 0 /\ i = x[2]
    <3>1. t.local_map[x[2]] = g
      BY Zenon, <2>1, <2>2, <2>5 DEF RemoteFiled
    <3>2. E[x].other = k /\ IsKey(r)
      BY Zenon, <1>1, <2>1, <2>2, <3>1 DEF LocalFiled
    <3>3. E2[x].other = k /\ r \in Ends /\ Paired(E2, x, r)
      BY Zenon, <1>1, <3>2, KeysAreEnds, EndsArePairs
    <3>4. E2[x].other = r
      BY <1>0, <1>1, <3>3, PartnerKnows, EndsArePairs DEF Paired
    <3>. QED
      BY Zenon, <1>3, <3>3, <3>4
  <2>. QED
    BY Zenon, <2>3, <2>4, <2>5
<1>. QED
  BY Zenon, <1>2, <1>3

\* A handler that only edits the flow of x keeps the tracker in step, if the
\* flow then is where x is.
LEMMA EditSync ==
    ASSUME NEW t, NEW E, NEW R, NEW u, NEW E2, NEW R2, NEW x, NEW r, NEW a, NEW b, NEW f, NEW s,
           EditStep(t, E, R, u, E2, R2, x, r, a, b, f, s),
           Follows(u, E2, x), LocalFiled(u, E2, x), RequestFiled(s)
    PROVE  Sync(u, E2, R2)
<1>1. \A w \in HostEnd : Follows(u, E2, w) /\ LocalFiled(u, E2, w)
  BY EditOthers
<1>2. \A k \in CmFlowKey : RemoteFiled(u, R2, k)
  BY EditKeys
<1>3. \A g \in Ptr : RequestFiled(u.flow[g])
  BY Zenon DEF EditStep, Edit, Sync
<1>. QED
  BY <1>1, <1>2, <1>3 DEF Sync

-----------------------------------------------------------------------------
(* The steps of handlers as edits *)

\* What an edit leaves.
LEMMA EditRead ==
    ASSUME NEW t, NEW u, NEW l, NEW a, NEW r, NEW b, NEW f \in Ptr, NEW s,
           Edit(t, u, l, a, r, b, f, s)
    PROVE  /\ u \in TrackerType /\ u.flow[f] = s /\ s \in FlowState /\ f # NULL
           /\ l \in Id0(HostId) => u.local_map[l] = a
           /\ r \in CmFlowKey => u.remote_map[r] = b
<1>1. u \in TrackerType /\ u.flow[f] = s
  BY DEF Edit
<1>2. u.flow[f] \in FlowState
  BY <1>1 DEF TrackerType
<1>. QED
  BY Zenon, <1>1, <1>2, MarkersAssumption DEF Edit

\* Changing nothing is an edit.
LEMMA EditSelf ==
    ASSUME NEW t \in TrackerType, NEW l, NEW r, NEW f
    PROVE  Edit(t, t, l, t.local_map[l], r, t.remote_map[r], f, t.flow[f])
BY DEF Edit

\* Assignments to fields of the edited flow.
LEMMA EditFields ==
    ASSUME NEW t, NEW g, NEW l, NEW a, NEW r, NEW b, NEW f \in Ptr, NEW s,
           Edit(t, g, l, a, r, b, f, s), NEW st \in FLOW_STATES, NEW q \in Id0(Qpn)
    PROVE  /\ Edit(t, SetState(g, f, st), l, a, r, b, f, [s EXCEPT !.state = st])
           /\ Edit(t, SetLocalQpn(g, f, q), l, a, r, b, f, [s EXCEPT !.local_qpn = q])
           /\ Edit(t, SetRemoteQpn(g, f, q), l, a, r, b, f, [s EXCEPT !.remote_qpn = q])
<1>1. g \in TrackerType /\ g.flow[f] = s /\ s \in FlowState
  BY DEF Edit, TrackerType
<1>2. /\ [s EXCEPT !.state = st] \in FlowState /\ [s EXCEPT !.local_qpn = q] \in FlowState
      /\ [s EXCEPT !.remote_qpn = q] \in FlowState
  BY <1>1 DEF FlowState
<1>3. ASSUME NEW v \in FlowState
      PROVE  Edit(t, [g EXCEPT !.flow[f] = v], l, a, r, b, f, v)
  BY Zenon, <1>1 DEF Edit, TrackerType
<1>4. /\ SetState(g, f, st) = [g EXCEPT !.flow[f] = [s EXCEPT !.state = st]]
      /\ SetLocalQpn(g, f, q) = [g EXCEPT !.flow[f] = [s EXCEPT !.local_qpn = q]]
      /\ SetRemoteQpn(g, f, q) = [g EXCEPT !.flow[f] = [s EXCEPT !.remote_qpn = q]]
  BY Zenon, <1>1 DEF SetState, SetLocalQpn, SetRemoteQpn, TrackerType
<1>. QED
  BY Zenon, <1>2, <1>3, <1>4

\* get_flow finds the flow of the local id.
Gets(t, l, r, new, f) ==
    /\ get_flow(t, l, r, new) = t /\ lookup(t, l, r) = f /\ get_flow_abort(t, l, r) = "none"
    /\ f \in Ptr /\ t.flow[f].local_id = l

\* get_flow finds a flow under its local id.
LEMMA GetOld ==
    ASSUME NEW t, Sound(t), NEW l \in HostId, t.local_map[l] # NULL, NEW r, NEW new
    PROVE  Gets(t, l, r, new, t.local_map[l])
<1>1. l # 0 /\ l \in Id0(HostId)
  BY Zenon, HostEnds
<1>. QED
  BY <1>1 DEF Gets, Sound, TrackerType, Indexed, get_flow, lookup, get_flow_abort

\* get_flow adds a flow for the local id.
LEMMA GetNew ==
    ASSUME NEW t, Sound(t), NEW l \in HostId, t.local_map[l] = NULL, NEW new \in Free(t),
           NEW r \in CmFlowKey, t.remote_map[r] = NULL
    PROVE  LET g == get_flow(t, l, r, new)
               s == [NewFlowState EXCEPT !.local_id = l, !.remote_id = IF IsKey(r) THEN r ELSE @]
           IN  /\ Edit(t, g, l, new, r, IF IsKey(r) THEN new ELSE NULL, new, s)
               /\ lookup(g, l, r) = new /\ lookup(g, l, NoKey) = new
               /\ get_flow_abort(t, l, r) = "none" /\ new \in Ptr
<1>1. l # 0 /\ l \in Id0(HostId) /\ new \in Ptr /\ t \in TrackerType
  BY Zenon, HostEnds DEF Free, Sound
<1>2. /\ get_flow(t, l, r, new) = add_new_flow(t, l, r, new)
      /\ get_flow_abort(t, l, r) = "none" /\ target(t, l, r, new) = new
  BY Zenon, <1>1 DEF get_flow, get_flow_abort, lookup, add_new_flow_ok, target
<1>. DEFINE g == add_new_flow(t, l, r, new)
            s == [NewFlowState EXCEPT !.local_id = l, !.remote_id = IF IsKey(r) THEN r ELSE @]
<1>3. g = [t EXCEPT !.flow[new] = s, !.local_map[l] = new,
                    !.remote_map[r] = IF IsKey(r) THEN new ELSE NULL]
  BY <1>1, <1>2 DEF add_new_flow, TrackerType
<1>4. g \in TrackerType
  BY Zenon, <1>1, AddNewFlowFields DEF AddNewFlowEffect
<1>. HIDE DEF s
<1>5. Edit(t, g, l, new, r, IF IsKey(r) THEN new ELSE NULL, new, s)
  <2>. SUFFICES ASSUME g = [t EXCEPT !.flow[new] = s, !.local_map[l] = new,
                            !.remote_map[r] = IF IsKey(r) THEN new ELSE NULL],
                       g \in TrackerType
                PROVE  Edit(t, g, l, new, r, IF IsKey(r) THEN new ELSE NULL, new, s)
    BY Zenon, <1>3, <1>4
  <2>. HIDE DEF g
  <2>. QED
    BY <1>1 DEF Edit, TrackerType
<1>6. g.local_map[l] = new
  BY Zenon, <1>1, <1>5 DEF Edit
<1>. QED
  BY <1>1, <1>2, <1>5, <1>6 DEF lookup, s

\* get_flow puts the local id to the flow of a request.
LEMMA GetLink ==
    ASSUME NEW t, Sound(t), NEW l \in HostId, t.local_map[l] = NULL, NEW new \in Free(t),
           NEW r \in CmFlowKey, t.remote_map[r] # NULL, t.flow[t.remote_map[r]].local_id = 0
    PROVE  LET g == get_flow(t, l, r, new)
               f == t.remote_map[r]
           IN  /\ Edit(t, g, l, f, r, f, f, [t.flow[f] EXCEPT !.local_id = l])
               /\ lookup(g, l, r) = f /\ get_flow_abort(t, l, r) = "none" /\ f \in Ptr
<1>. DEFINE f == t.remote_map[r]
            g == add_new_flow(t, l, r, new)
            s == [t.flow[f] EXCEPT !.local_id = l]
<1>1. l # 0 /\ l \in Id0(HostId) /\ new \in Ptr /\ t \in TrackerType /\ f \in Ptr
  BY Zenon, HostEnds DEF Free, Sound, TrackerType
<1>2. /\ get_flow(t, l, r, new) = g
      /\ get_flow_abort(t, l, r) = "none" /\ target(t, l, r, new) = f
  BY Zenon, <1>1 DEF get_flow, get_flow_abort, lookup, add_new_flow_ok, target
<1>3. g = [t EXCEPT !.flow[f] = s, !.local_map[l] = f, !.remote_map[r] = f]
  BY ZenonT(30), <1>1, <1>2 DEF add_new_flow, TrackerType, FlowState
<1>4. g \in TrackerType
  BY Zenon, <1>1, AddNewFlowFields DEF AddNewFlowEffect
<1>5. Edit(t, g, l, f, r, f, f, s)
  <2>. SUFFICES ASSUME g = [t EXCEPT !.flow[f] = s, !.local_map[l] = f, !.remote_map[r] = f],
                       g \in TrackerType
                PROVE  Edit(t, g, l, f, r, f, f, s)
    BY Zenon, <1>3, <1>4
  <2>. HIDE DEF g, s, f
  <2>. QED
    BY <1>1 DEF Edit, TrackerType
<1>6. g.local_map[l] = f
  BY Zenon, <1>1, <1>5 DEF Edit
<1>. QED
  BY Zenon, <1>1, <1>2, <1>5, <1>6 DEF lookup

\* erase_flow takes the ids of the packet out of the maps.
LEMMA EraseEdit ==
    ASSUME NEW t, NEW g, Sound(g), NEW l \in Id0(HostId), NEW a, NEW r \in CmFlowKey, NEW b,
           NEW f \in Ptr, NEW s, Edit(t, g, l, a, r, b, f, s), lookup(g, l, r) = f
    PROVE  Edit(t, erase_flow(g, l, r), l, NULL, r, NULL, f, [s EXCEPT !.in_qpn_map = FALSE])
<1>. DEFINE d == IF g.flow[f].in_qpn_map THEN on_disconnected(g, f) ELSE g
            s2 == [s EXCEPT !.in_qpn_map = FALSE]
<1>1. g \in TrackerType /\ g.flow[f] = s /\ s \in FlowState /\ f # NULL
  BY Zenon, EditRead
<1>2. /\ d \in TrackerType /\ d.local_map = g.local_map /\ d.remote_map = g.remote_map
      /\ d.flow = [g.flow EXCEPT ![f] = s2]
  <2>1. CASE s.in_qpn_map
    <3>. DEFINE k == get_flow_key(s)
    <3>1. Answers(g, f, k)
      BY Zenon, <1>1, <2>1 DEF Sound, Exact
    <3>2. s.local_qpn # 0 /\ s.remote_qpn # 0 /\ g.qpn_map[k] # Absent
      BY <1>1, <3>1, MarkersAssumption DEF Answers, FlowState
    <3>3. d = [g EXCEPT !.qpn_map[k] = Absent, !.flow[f].in_qpn_map = FALSE]
      BY <1>1, <2>1, <3>2 DEF on_disconnected
    <3>4. d \in TrackerType
      BY <1>1, <2>1, OnDisconnectedSound DEF Sound
    <3>. QED
      BY Zenon, <1>1, <3>3, <3>4 DEF TrackerType, FlowState
  <2>2. CASE ~s.in_qpn_map
    <3>1. s2 = s
      BY <1>1, <2>2 DEF FlowState
    <3>2. g.flow = [g.flow EXCEPT ![f] = s2]
      BY <1>1, <3>1 DEF TrackerType
    <3>. QED
      BY <1>1, <2>2, <3>2
  <2>. QED
    BY Zenon, <2>1, <2>2
<1>3. erase_flow(g, l, r) = [d EXCEPT !.local_map[l] = NULL, !.remote_map[r] = NULL]
  BY <1>1 DEF erase_flow
<1>. HIDE DEF d, s2
<1>4. Edit(t, [d EXCEPT !.local_map[l] = NULL, !.remote_map[r] = NULL],
           l, NULL, r, NULL, f, s2)
  BY Zenon, <1>1, <1>2 DEF Edit, TrackerType
<1>. QED
  BY <1>3, <1>4 DEF s2

\* on_established enters the flow into the query table when the key is free.
LEMMA EstablishEdit ==
    ASSUME NEW t, NEW g, NEW l, NEW a, NEW r, NEW b, NEW f \in Ptr, NEW s,
           Edit(t, g, l, a, r, b, f, s), s.local_qpn # 0, s.remote_qpn # 0,
           g.qpn_map[get_flow_key(s)] = Absent
    PROVE  Edit(t, on_established(g, f), l, a, r, b, f, [s EXCEPT !.in_qpn_map = TRUE])
<1>. DEFINE k == get_flow_key(s)
            s2 == [s EXCEPT !.in_qpn_map = TRUE]
<1>0. g \in TrackerType /\ g.flow[f] = s /\ s \in FlowState
  BY Zenon, EditRead
<1>1. g \in TrackerType /\ g.flow[f] = s /\ s \in FlowState /\ s2 \in FlowState
  BY Zenon, <1>0 DEF FlowState
<1>2. on_established(g, f) = [g EXCEPT !.qpn_map[k] = s.local_qpn, !.flow[f].in_qpn_map = TRUE]
  BY <1>1 DEF on_established
<1>3. @ = [g EXCEPT !.qpn_map[k] = s.local_qpn, !.flow[f] = s2]
  BY Zenon, <1>1
<1>4. k \in FlowKey /\ s.local_qpn \in Id0(Qpn)
  BY <1>1 DEF get_flow_key, FlowKey, FlowState, CmFlowKey
<1>. HIDE DEF k, s2
<1>5. Edit(t, [g EXCEPT !.qpn_map[k] = s.local_qpn, !.flow[f] = s2], l, a, r, b, f, s2)
  BY Zenon, <1>1, <1>4 DEF Edit, TrackerType
<1>. QED
  BY <1>2, <1>3, <1>5 DEF s2

\* add_new_flow has nothing to do for a flow under both of its ids.
LEMMA AddAgain ==
    ASSUME NEW t, NEW g, NEW l \in HostId, NEW r \in CmFlowKey, NEW f \in Ptr, NEW s,
           Edit(t, g, l, f, r, f, f, s), NEW new
    PROVE  /\ add_new_flow(g, l, r, new) = g
           /\ s.local_id = l /\ s.remote_id = r => add_new_flow_ok(g, l, r)
<1>. l \in Id0(HostId)
  BY Zenon, HostEnds
<1>1. /\ g \in TrackerType /\ g.local_map[l] = f /\ g.remote_map[r] = f
      /\ f # NULL /\ g.flow[f] = s /\ s \in FlowState
  BY Zenon, EditRead
<1>2. add_new_flow(g, l, r, new) =
        [g EXCEPT !.flow[f] = [g.flow[f] EXCEPT !.local_id = s.local_id, !.remote_id = s.remote_id],
                  !.local_map[l] = g.local_map[l], !.remote_map[r] = g.remote_map[r]]
  BY Zenon, <1>1 DEF add_new_flow, target
<1>3. [g.flow[f] EXCEPT !.local_id = s.local_id, !.remote_id = s.remote_id] = g.flow[f]
  BY Zenon, <1>1 DEF FlowState
<1>4. [g EXCEPT !.flow[f] = g.flow[f], !.local_map[l] = g.local_map[l],
                !.remote_map[r] = g.remote_map[r]] = g
  BY Zenon, <1>1 DEF TrackerType
<1>5. s.local_id = l /\ s.remote_id = r => add_new_flow_ok(g, l, r)
  BY Zenon, <1>1 DEF add_new_flow_ok
<1>. QED
  BY Zenon, <1>2, <1>3, <1>4, <1>5

\* add_new_flow puts the key to the flow of the local id.
LEMMA AddRemote ==
    ASSUME NEW t, NEW g, NEW l \in HostId, NEW r \in CmFlowKey, IsKey(r), NEW f \in Ptr, NEW s,
           Edit(t, g, l, f, r, NULL, f, s), ~IsKey(s.remote_id), NEW new
    PROVE  /\ Edit(t, add_new_flow(g, l, r, new), l, f, r, f, f, [s EXCEPT !.remote_id = r])
           /\ add_new_flow_ok(g, l, r)
<1>. DEFINE s2 == [s EXCEPT !.remote_id = r]
<1>. l \in Id0(HostId)
  BY Zenon, HostEnds
<1>0. /\ g \in TrackerType /\ g.local_map[l] = f /\ g.remote_map[r] = NULL
      /\ f # NULL /\ g.flow[f] = s /\ s \in FlowState
  BY Zenon, EditRead
<1>1. /\ l \in Id0(HostId) /\ g \in TrackerType /\ g.local_map[l] = f /\ g.remote_map[r] = NULL
      /\ f # NULL /\ g.flow[f] = s /\ s \in FlowState /\ s2 \in FlowState
  BY <1>0 DEF FlowState
<1>2. add_new_flow(g, l, r, new) =
        [g EXCEPT !.flow[f] = [g.flow[f] EXCEPT !.local_id = s.local_id, !.remote_id = r],
                  !.local_map[l] = g.local_map[l], !.remote_map[r] = f]
  BY Zenon, <1>1 DEF add_new_flow, target
<1>3. [g.flow[f] EXCEPT !.local_id = s.local_id, !.remote_id = r] = s2
  BY Zenon, <1>1 DEF FlowState
<1>. HIDE DEF s2
<1>4. Edit(t, [g EXCEPT !.flow[f] = s2, !.local_map[l] = g.local_map[l], !.remote_map[r] = f],
           l, f, r, f, f, s2)
  BY Zenon, <1>1 DEF Edit, TrackerType
<1>5. add_new_flow_ok(g, l, r)
  BY Zenon, <1>1 DEF add_new_flow_ok
<1>. QED
  BY Zenon, <1>2, <1>3, <1>4, <1>5 DEF s2

-----------------------------------------------------------------------------
(* One step of the host endpoint x, from E[x] to E2[x] *)

Moves(t, E, R, E2, R2, x) ==
    /\ Sound(t) /\ Truthful(t, E) /\ Sync(t, E, R)
    /\ Pairing(E, R) /\ Pairing(E2, R2) /\ Facing(E) /\ Facing(E2) /\ R \subseteq R2
    /\ x \in HostEnd
    /\ \A z \in Ends : z # x => E2[z] = E[z]
    /\ Full(E[x].other) => E2[x].other = E[x].other

\* The handler ends with the flow of x under both ids, in the state of x.
LEMMA LinkedSync ==
    ASSUME NEW t, NEW E, NEW R, NEW E2, NEW R2, NEW x, Moves(t, E, R, E2, R2, x),
           NEW u, Indexed(u), NEW f \in Ptr, NEW s,
           Edit(t, u, x[2], f, E2[x].other, f, f, s),
           s.local_id = x[2], s.remote_id = E2[x].other, IsKey(E2[x].other),
           s.state = E2[x].state, s.state \in Linked,
           s.local_qpn # 0, s.remote_qpn # 0, s.state = "ESTABLISHED" => s.in_qpn_map
    PROVE  Sync(u, E2, R2)
<1>. DEFINE r == E2[x].other
<1>1. r \in CmFlowKey /\ x[2] \in Id0(HostId)
  BY Zenon, HostEnds DEF Moves, Facing
<1>2. u.local_map[x[2]] = f /\ u.remote_map[r] = f /\ u.flow[f] = s /\ f # NULL
  BY ZenonT(30), <1>1, MarkersAssumption DEF Edit, TrackerType
<1>3. EditStep(t, E, R, u, E2, R2, x, r, f, f, f, s)
  BY Zenon, <1>1 DEF EditStep, Moves, Sound, Paired
<1>4. Follows(u, E2, x)
  BY Zenon, <1>2 DEF Follows, Linked, Over
<1>5. LocalFiled(u, E2, x) /\ RequestFiled(s)
  BY <1>2 DEF LocalFiled, RequestFiled, Linked
<1>. QED
  BY Zenon, <1>3, <1>4, <1>5, EditSync

\* The handler erases the flow of x when x is done.
LEMMA EraseSync ==
    ASSUME NEW t, NEW E, NEW R, NEW E2, NEW R2, NEW x, Moves(t, E, R, E2, R2, x),
           NEW g, Sound(g), NEW r \in CmFlowKey, NEW b, NEW f \in Ptr, NEW s,
           Edit(t, g, x[2], f, r, b, f, s), s.local_id = x[2],
           IsKey(s.remote_id) => s.remote_id = r,
           IsKey(r) => Paired(E2, x, r),
           t.local_map[x[2]] # NULL /\ IsKey(t.flow[t.local_map[x[2]]].remote_id) => IsKey(r),
           E2[x].state \in Over, RequestFiled(s)
    PROVE  Sync(erase_flow(g, x[2], r), E2, R2)
<1>. DEFINE u == erase_flow(g, x[2], r)
            s2 == [s EXCEPT !.in_qpn_map = FALSE]
<1>1. x[2] \in Id0(HostId) /\ x[2] \in HostId /\ x[2] # 0
  BY Zenon, HostEnds DEF Moves
<1>3. lookup(g, x[2], r) = f /\ s \in FlowState
  <2>1. g.local_map[x[2]] = f /\ g.flow[f] = s /\ g \in TrackerType
    BY Zenon, <1>1 DEF Edit
  <2>2. g.flow[f] \in FlowState
    BY Zenon, <2>1 DEF TrackerType
  <2>. QED
    BY Zenon, <1>1, <2>1, <2>2 DEF lookup
<1>2. Edit(t, u, x[2], NULL, r, NULL, f, s2)
  BY Zenon, <1>1, <1>3, EraseEdit
<1>4. Indexed(u)
  BY Zenon, <1>1, <1>3, EraseFlowSound DEF Sound
<1>5. /\ s2.local_id = s.local_id /\ s2.remote_id = s.remote_id /\ s2.state = s.state
      /\ s2.remote_qpn = s.remote_qpn
  BY Zenon, <1>3 DEF FlowState
<1>. HIDE DEF u, s2
<1>6. u.local_map[x[2]] = NULL
  BY Zenon, <1>1, <1>2 DEF Edit
<1>7. EditStep(t, E, R, u, E2, R2, x, r, NULL, NULL, f, s2)
  BY Zenon, <1>2, <1>4, <1>5 DEF EditStep, Moves, Sound
<1>8. Follows(u, E2, x)
  BY Zenon, <1>6 DEF Follows, Over, Linked, Leftover
<1>9. LocalFiled(u, E2, x) /\ RequestFiled(s2)
  BY Zenon, <1>5, <1>6 DEF LocalFiled, RequestFiled
<1>. QED
  BY Zenon, <1>7, <1>8, <1>9, EditSync DEF u

\* A late packet adds a flow for x when x is done.
LEMMA AddIdleSync ==
    ASSUME NEW t, NEW E, NEW R, NEW E2, NEW R2, NEW x, Moves(t, E, R, E2, R2, x),
           t.local_map[x[2]] = NULL, NEW new \in Free(t), E2[x].state \in Over
    PROVE  LET g == get_flow(t, x[2], NoKey, new)
           IN  /\ Sync(g, E2, R2) /\ get_flow_abort(t, x[2], NoKey) = "none"
               /\ g.flow[lookup(g, x[2], NoKey)].state = "IDLE"
<1>. DEFINE g == get_flow(t, x[2], NoKey, new)
            s == [NewFlowState EXCEPT !.local_id = x[2],
                                      !.remote_id = IF IsKey(NoKey) THEN NoKey ELSE @]
<1>1. /\ x[2] \in Id0(HostId) /\ x[2] \in HostId /\ Sound(t)
      /\ NoKey \in CmFlowKey /\ ~IsKey(NoKey)
  BY Zenon, HostEnds, KeysAreEnds DEF Moves, CmFlowKey, NoKey, Id0, IsKey
<1>2. t.remote_map[NoKey] = NULL
  BY <1>1 DEF Sound, Indexed
<1>3. /\ Edit(t, g, x[2], new, NoKey, IF IsKey(NoKey) THEN new ELSE NULL, new, s)
      /\ lookup(g, x[2], NoKey) = new
      /\ get_flow_abort(t, x[2], NoKey) = "none" /\ new \in Ptr
  BY <1>1, <1>2, GetNew, Zenon
<1>4. Indexed(g)
  BY <1>1, <1>3, GetFlowSound DEF Sound
<1>5. s.state = "IDLE" /\ s.local_id = x[2] /\ s.remote_id = NoKey
  BY Zenon, <1>1 DEF NewFlowState
<1>. HIDE DEF g, s
<1>6. Edit(t, g, x[2], new, NoKey, NULL, new, s)
  BY Zenon, <1>1, <1>3
<1>7. g.local_map[x[2]] = new /\ g.flow[new] = s /\ new # NULL
  BY Zenon, <1>1, <1>3, <1>6, MarkersAssumption DEF Edit
<1>8. EditStep(t, E, R, g, E2, R2, x, NoKey, new, NULL, new, s)
  BY Zenon, <1>1, <1>3, <1>4, <1>5, <1>6 DEF EditStep, Moves, Sound
<1>9. Follows(g, E2, x)
  BY Zenon, <1>1, <1>5, <1>7 DEF Follows, Over, Linked, Leftover
<1>10. LocalFiled(g, E2, x) /\ RequestFiled(s)
  BY Zenon, <1>1, <1>5, <1>7 DEF LocalFiled, RequestFiled
<1>11. Sync(g, E2, R2)
  BY Zenon, <1>8, <1>9, <1>10, EditSync
<1>. QED
  BY Zenon, <1>3, <1>5, <1>7, <1>11 DEF g

\* The tracker is in step with endpoints that stay where they are.
LEMMA StaySync ==
    ASSUME NEW t, NEW E, NEW R, Sync(t, E, R), NEW R2, R \subseteq R2,
           Facing(E), NEW E2, \A z \in Ends : E2[z] = E[z]
    PROVE  Sync(t, E2, R2)
<1>1. ASSUME NEW x \in HostEnd PROVE Follows(t, E2, x) /\ LocalFiled(t, E2, x)
  <2>1. E2[x] = E[x] /\ (IsKey(E[x].other) => E2[E[x].other] = E[E[x].other])
    BY Zenon, HostEnds, KeysAreEnds DEF Facing
  <2>2. Follows(t, E, x) /\ LocalFiled(t, E, x)
    BY DEF Sync
  <2>3. Leftover(t, E, x) => Leftover(t, E2, x)
    BY Zenon, <2>1 DEF Leftover
  <2>. QED
    BY Zenon, <2>1, <2>2, <2>3 DEF Follows, LocalFiled
<1>. QED
  BY Zenon, <1>1 DEF Sync, RemoteFiled

\* The key of a flow that is about to be established is free: a flow in the
\* query table with the same key would be the flow of the same endpoint.
LEMMA KeyFree ==
    ASSUME NEW t, Sound(t), NEW E, NEW R, Truthful(t, E), Sync(t, E, R), Pairing(E, R),
           NEW x \in HostEnd, NEW f \in Ptr, t.local_map[x[2]] = f,
           ~t.flow[f].in_qpn_map, t.flow[f].local_qpn # 0, t.flow[f].remote_qpn # 0
    PROVE  t.qpn_map[get_flow_key(t.flow[f])] = Absent
<1>. DEFINE k == get_flow_key(t.flow[f])
            y == t.flow[f].remote_id
<1>. SUFFICES ASSUME t.qpn_map[k] # Absent PROVE FALSE
  BY Zenon
<1>1. /\ x[2] \in Id0(HostId) /\ x \in Ends /\ x[1] = HostAddr /\ t \in TrackerType
      /\ t.flow[f] \in FlowState /\ f # NULL /\ x = <<HostAddr, x[2]>> /\ x[2] # 0
  BY HostEnds, MarkersAssumption DEF Sound, TrackerType
<1>2. k \in FlowKey /\ k = <<y[1], t.flow[f].remote_qpn>> /\ y \in CmFlowKey
  BY Zenon, <1>1 DEF get_flow_key, FlowKey, FlowState, CmFlowKey
<1>3. PICK g \in Ptr : Answers(t, g, k)
  BY Zenon, <1>2 DEF Sound, Exact
<1>. DEFINE z == t.flow[g].remote_id
            i == t.flow[g].local_id
            w == <<HostAddr, i>>
<1>4. t.flow[g] \in FlowState /\ z \in CmFlowKey /\ i \in Id0(HostId)
  BY <1>1 DEF TrackerType, FlowState
<1>5. /\ k = <<z[1], t.flow[g].remote_qpn>> /\ t.flow[g].local_qpn # 0
      /\ t.flow[g].remote_qpn # 0 /\ t.flow[g].in_qpn_map /\ t.local_map[i] = g
  BY Zenon, <1>3 DEF Answers, get_flow_key
<1>6. FlowTrue(t.flow[f], E) /\ FlowTrue(t.flow[g], E)
  BY DEF Truthful
<1>7. /\ IsKey(y) /\ t.flow[f].remote_qpn = E[y].qpn
      /\ IsKey(z) /\ t.flow[g].remote_qpn = E[z].qpn /\ i # 0
  BY Zenon, <1>5, <1>6 DEF FlowTrue
<1>8. y \in Ends /\ z \in Ends /\ y[1] = z[1] /\ E[y].qpn = E[z].qpn /\ E[y].qpn # 0
  <2>1. y \in Ends /\ z \in Ends
    BY Zenon, <1>2, <1>4, <1>7, KeysAreEnds
  <2>2. y[1] = z[1] /\ t.flow[f].remote_qpn = t.flow[g].remote_qpn
    <3>1. <<y[1], t.flow[f].remote_qpn>> = <<z[1], t.flow[g].remote_qpn>>
      BY Zenon, <1>2, <1>5
    <3>. HIDE DEF k, y, z
    <3>. QED
      BY <3>1
  <2>. QED
    BY Zenon, <1>7, <2>1, <2>2
<1>9. y = z
  BY Zenon, <1>8 DEF Pairing, Unique
<1>10. w \in HostEnd /\ w \in Ends /\ w[1] = x[1] /\ w[2] = i
  BY Zenon, <1>1, <1>4, <1>7, HostEnds DEF Id0
<1>11. E[x].other = y
  BY <1>1, <1>7 DEF Sync, LocalFiled
<1>12. E[w].other = y
  <2>1. LocalFiled(t, E, w) /\ g # NULL
    BY Zenon, <1>10, MarkersAssumption DEF Sync
  <2>. QED
    BY Zenon, <1>5, <1>7, <1>9, <1>10, <2>1 DEF LocalFiled
<1>13. w = x
  <2>1. Paired(E, x, y)
    BY Zenon, <1>11 DEF Paired
  <2>. QED
    BY Zenon, <1>1, <1>8, <1>10, <1>12, <2>1, PartnerUnique
<1>. QED
  BY Zenon, <1>1, <1>5, <1>10, <1>13

\* The flow of x is established together with x.
LEMMA EstablishSync ==
    ASSUME NEW t, NEW E, NEW R, NEW E2, NEW R2, NEW x, Moves(t, E, R, E2, R2, x),
           E[x].state \in {"REP_SENT", "REP_RCVD"}, E2[x].state = "ESTABLISHED"
    PROVE  LET f == t.local_map[x[2]]
           IN  Sync(on_established(SetState(t, f, "ESTABLISHED"), f), E2, R2)
<1>. DEFINE f == t.local_map[x[2]]
            r == E[x].other
            s == t.flow[f]
            g == SetState(t, f, "ESTABLISHED")
            u == on_established(g, f)
            s1 == [s EXCEPT !.state = "ESTABLISHED"]
            s2 == [s1 EXCEPT !.in_qpn_map = TRUE]
<1>1. /\ x \in HostEnd /\ x \in Ends /\ x[2] \in Id0(HostId) /\ x[2] # 0 /\ t \in TrackerType
      /\ Sound(t)
  BY Zenon, HostEnds DEF Moves, Sound
<1>2. /\ f # NULL /\ t.remote_map[r] = f /\ s.state = E[x].state
      /\ s.local_qpn # 0 /\ s.remote_qpn # 0
  BY Zenon, <1>1 DEF Moves, Sync, Follows, Linked
<1>3. f \in Ptr /\ s \in FlowState
  BY <1>1, <1>2 DEF TrackerType
<1>4. Full(r) /\ r \in CmFlowKey /\ IsKey(r) /\ E2[x].other = r
  BY Zenon, <1>1 DEF Moves, Pairing, EndFits, Facing
<1>5. s.local_id = x[2] /\ s.remote_id = r
  BY Zenon, <1>1, <1>2, <1>4 DEF Sound, Indexed
<1>6. ~s.in_qpn_map
  BY Zenon, <1>1, <1>2, <1>3, NotConnectedNotMapped
<1>7. t.qpn_map[get_flow_key(s)] = Absent
  BY Zenon, <1>1, <1>2, <1>3, <1>6, KeyFree DEF Moves
<1>8. Edit(t, t, x[2], f, r, f, f, s)
  BY Zenon, <1>1, <1>2, EditSelf
<1>9. Edit(t, g, x[2], f, r, f, f, s1)
  BY ZenonT(30), <1>3, <1>8, EditFields DEF FLOW_STATES, Id0
<1>10. g.qpn_map = t.qpn_map /\ get_flow_key(s1) = get_flow_key(s)
  BY <1>1, <1>3 DEF SetState, get_flow_key, TrackerType, FlowState
<1>11. s1.local_qpn # 0 /\ s1.remote_qpn # 0
  BY <1>2, <1>3 DEF FlowState
<1>. HIDE DEF g
<1>12. Edit(t, u, x[2], f, r, f, f, s2)
  BY Zenon, <1>3, <1>7, <1>9, <1>10, <1>11, EstablishEdit
<1>13. /\ s2.local_id = x[2] /\ s2.remote_id = r /\ s2.state = "ESTABLISHED" /\ s2.in_qpn_map
       /\ s2.local_qpn # 0 /\ s2.remote_qpn # 0
  BY Zenon, <1>2, <1>3, <1>5 DEF FlowState
<1>14. Indexed(u)
  <2>1. t.local_map[s.local_id] = f /\ s.state \notin {"ESTABLISHED", "DREQ_SENT", "DREQ_RCVD"}
    BY <1>2, <1>5
  <2>. QED
    BY Zenon, <1>1, <1>3, <2>1, EstablishSound DEF Sound, g
<1>. HIDE DEF u, s2
<1>15. Sync(u, E2, R2)
  BY Zenon, <1>3, <1>4, <1>12, <1>13, <1>14, LinkedSync DEF Linked
<1>. QED
  BY Zenon, <1>15 DEF u, g

\* The flow of x changes its state together with x.
LEMMA StateSync ==
    ASSUME NEW t, NEW E, NEW R, NEW E2, NEW R2, NEW x, Moves(t, E, R, E2, R2, x),
           E[x].state \in Linked, NEW st, E2[x].state = st,
           st \in {"DREQ_SENT", "DREQ_RCVD"}
    PROVE  Sync(SetState(t, t.local_map[x[2]], st), E2, R2)
<1>. DEFINE f == t.local_map[x[2]]
            r == E[x].other
            s == t.flow[f]
            u == SetState(t, f, st)
            s1 == [s EXCEPT !.state = st]
<1>1. /\ x \in HostEnd /\ x \in Ends /\ x[2] \in Id0(HostId) /\ x[2] # 0 /\ t \in TrackerType
      /\ Sound(t)
  BY HostEnds DEF Moves, Sound
<1>2. f # NULL /\ t.remote_map[r] = f /\ s.local_qpn # 0 /\ s.remote_qpn # 0
  BY Zenon, <1>1 DEF Moves, Sync, Follows
<1>3. f \in Ptr /\ s \in FlowState
  BY <1>1, <1>2 DEF TrackerType
<1>4. Full(r) /\ r \in CmFlowKey /\ IsKey(r) /\ E2[x].other = r
  BY Zenon, <1>1 DEF Moves, Pairing, EndFits, Facing, Linked
<1>5. s.local_id = x[2] /\ s.remote_id = r
  BY Zenon, <1>1, <1>2, <1>4 DEF Sound, Indexed
<1>6. Edit(t, t, x[2], f, r, f, f, s)
  BY Zenon, <1>1, <1>2, EditSelf
<1>7. Edit(t, u, x[2], f, r, f, f, s1)
  BY ZenonT(30), <1>3, <1>6, EditFields DEF FLOW_STATES, Id0
<1>8. /\ s1.local_id = x[2] /\ s1.remote_id = r /\ s1.state = st
      /\ s1.local_qpn # 0 /\ s1.remote_qpn # 0
  BY Zenon, <1>2, <1>3, <1>5 DEF FlowState
<1>9. Indexed(u)
  <2>1. st \in FLOW_STATES
    BY DEF FLOW_STATES
  <2>2. Sound(u)
    BY <1>1, <1>3, <2>1, SetStateSound, Zenon
  <2>. QED
    BY Zenon, <2>2 DEF Sound
<1>. HIDE DEF u, s1
<1>10. Sync(u, E2, R2)
  BY Zenon, <1>3, <1>4, <1>7, <1>8, <1>9, LinkedSync DEF Linked
<1>. QED
  BY Zenon, <1>10 DEF u

\* The endpoint waits or is linked.
HasFlow(e) == e.state \in Linked \cup {"REQ_SENT"}

\* get_flow finds f, with the contents s, under the local id of x.
Found(t, E, x, r, new, f, s) ==
    /\ f \in Ptr /\ f # NULL /\ s \in FlowState /\ s.local_id = x[2] /\ s.state = E[x].state
    /\ get_flow(t, x[2], r, new) = t /\ lookup(t, x[2], r) = f
    /\ get_flow_abort(t, x[2], r) = "none"
    /\ Edit(t, t, x[2], f, r, t.remote_map[r], f, s)

\* The flow of an endpoint that waits or is linked.
LEMMA FlowOf ==
    ASSUME NEW t, NEW E, NEW R, NEW E2, NEW R2, NEW x, Moves(t, E, R, E2, R2, x),
           HasFlow(E[x]), NEW r, NEW new
    PROVE  Found(t, E, x, r, new, t.local_map[x[2]], t.flow[t.local_map[x[2]]])
<1>1. x \in HostEnd /\ x[2] \in HostId /\ Sound(t) /\ t \in TrackerType
  BY Zenon, HostEnds DEF Moves, Sound
<1>2. t.local_map[x[2]] # NULL /\ t.flow[t.local_map[x[2]]].state = E[x].state
  BY Zenon, <1>1 DEF Moves, Sync, Follows, HasFlow
<1>3. /\ get_flow(t, x[2], r, new) = t /\ lookup(t, x[2], r) = t.local_map[x[2]]
      /\ get_flow_abort(t, x[2], r) = "none"
      /\ t.local_map[x[2]] \in Ptr /\ t.flow[t.local_map[x[2]]].local_id = x[2]
  <2>1. Gets(t, x[2], r, new, t.local_map[x[2]])
    BY Zenon, <1>1, <1>2, GetOld
  <2>. QED
    BY Zenon, <2>1 DEF Gets
<1>4. t.flow[t.local_map[x[2]]] \in FlowState
  BY Zenon, <1>1, <1>3 DEF TrackerType
<1>5. Edit(t, t, x[2], t.local_map[x[2]], r, t.remote_map[r], t.local_map[x[2]],
           t.flow[t.local_map[x[2]]])
  BY Zenon, <1>1, EditSelf
<1>. QED
  BY Zenon, <1>2, <1>3, <1>4, <1>5 DEF Found

\* What erase_flow needs of the flow of an endpoint with the far end r.
LEMMA FlowKeyOf ==
    ASSUME NEW t, NEW E, NEW R, NEW E2, NEW R2, NEW x, Moves(t, E, R, E2, R2, x),
           t.local_map[x[2]] # NULL
    PROVE  LET s == t.flow[t.local_map[x[2]]]
           IN  /\ IsKey(s.remote_id) => s.remote_id = E[x].other
               /\ RequestFiled(s)
<1>1. x \in HostEnd /\ x[2] \in Id0(HostId) /\ t \in TrackerType
  BY HostEnds DEF Moves, Sound
<1>2. t.local_map[x[2]] \in Ptr
  BY <1>1 DEF TrackerType
<1>. QED
  BY Zenon, <1>1, <1>2 DEF Moves, Sync, LocalFiled

\* erase_flow on a linked flow, with the far end of x.
LEMMA EraseLinked ==
    ASSUME NEW t, NEW E, NEW R, NEW E2, NEW R2, NEW x, Moves(t, E, R, E2, R2, x),
           E[x].state \in Linked, E2[x].state \in Over
    PROVE  Sync(erase_flow(t, x[2], E[x].other), E2, R2)
<1>. DEFINE f == t.local_map[x[2]]
            r == E[x].other
            s == t.flow[f]
<1>1. /\ f \in Ptr /\ f # NULL /\ s \in FlowState
      /\ s.local_id = x[2] /\ s.state = E[x].state
      /\ Edit(t, t, x[2], f, r, t.remote_map[r], f, s)
  <2>1. Found(t, E, x, r, NULL, f, s)
    <3>1. HasFlow(E[x])
      BY DEF HasFlow
    <3>. QED
      BY <3>1, FlowOf, Zenon
  <2>. QED
    BY Zenon, <2>1 DEF Found
<1>2. (IsKey(s.remote_id) => s.remote_id = r) /\ RequestFiled(s)
  BY <1>1, FlowKeyOf, Zenon
<1>3. x \in HostEnd /\ x \in Ends /\ Sound(t) /\ r \in CmFlowKey
  BY Zenon, HostEnds DEF Moves, Facing
<1>4. Full(r) /\ IsKey(r)
  BY Zenon, <1>3 DEF Moves, Pairing, EndFits, Facing, Linked
<1>5. Paired(E2, x, r)
  BY Zenon, <1>4 DEF Moves, Paired
<1>. HIDE DEF s
<1>. QED
  BY Zenon, <1>1, <1>2, <1>3, <1>4, <1>5, EraseSync
=============================================================================
