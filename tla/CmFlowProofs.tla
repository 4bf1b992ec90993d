---------------------------- MODULE CmFlowProofs ----------------------------
(***************************************************************************)
(* The packets that peers send to the host: the tracker, which sees each   *)
(* before the host does, goes on as the host endpoint will, for any number *)
(* of peers, ids, QPNs and connections, as long as no endpoint uses an id  *)
(* twice.                                                                  *)
(***************************************************************************)
EXTENDS CmSystemProofs

-----------------------------------------------------------------------------
(* Packets for the host *)

\* p reaches x, and its sender has heard of x.
Reaches(E, R, p, x) ==
    /\ p \in AnyNetPacket /\ PacketFits(E, R, p)
    /\ p.attr # "REQ" /\ p.remote_comm_id = x[2]

\* What is known of x then: y has heard of it, and a flow that is found when x is
\* done is not in the query table, or that of a disconnect without an answer.
HeardBy(t, E, E2, x, y) ==
    LET s == t.flow[t.local_map[x[2]]]
    IN  /\ y \in CmFlowKey /\ IsKey(y) /\ y \in Ends /\ E[y].other = x
        /\ E2[y].other = x /\ Paired(E, x, y) /\ Paired(E2, x, y)
        /\ HasFlow(E[x]) \/ E[x].state \in Over
        /\ Full(E[x].other) => E[x].other = y
        /\ E[x].state \in Over /\ t.local_map[x[2]] # NULL =>
              \/ s.state = "IDLE" /\ ~IsKey(s.remote_id)
              \/ s.state = "REQ_RCVD"
              \/ /\ E[x].state = "ABANDONED" /\ s.state \in {"DREQ_SENT", "DREQ_RCVD"}
                 /\ E[x].other = y /\ t.remote_map[y] = t.local_map[x[2]]

\* A packet that reaches x comes from the endpoint that x may be connected to.
LEMMA Heard ==
    ASSUME NEW t, NEW E, NEW R, NEW E2, NEW R2, NEW x, Moves(t, E, R, E2, R2, x),
           NEW p, Reaches(E, R, p, x)
    PROVE  HeardBy(t, E, E2, x, From(p)) /\ from_src(p, p.local_comm_id) = From(p)
<1>. DEFINE y == From(p)
            f == t.local_map[x[2]]
<1>1. x \in HostEnd /\ x \in Ends /\ x[2] # 0 /\ x = <<HostAddr, x[2]>>
  BY HostEnds DEF Moves
<1>2. y \in CmFlowKey /\ IsKey(y) /\ y \in Ends /\ Dest(p) = <<HostAddr, p.remote_comm_id>>
  BY Zenon, NetPacketSays DEF Reaches
<1>3. E[y].other = x
  BY Zenon, <1>1, <1>2 DEF Reaches, PacketFits
<1>4. E2[y].other = x /\ Paired(E, x, y) /\ Paired(E2, x, y) /\ y # x
  <2>1. y # x
    BY <1>1, <1>2, KeysAreEnds
  <2>. QED
    BY <1>2, <1>3, <2>1 DEF Moves, Paired
<1>5. Full(E[x].other) => E[x].other = y
  BY <1>1, <1>2, <1>3, PartnerKnows DEF Moves
<1>6. E[x].state \in {"REQ_SENT"} \cup Linked \cup Over
  <2>1. E[x].state # "IDLE"
    BY Zenon, <1>1, <1>2, <1>3, IdleUnheard DEF Moves
  <2>2. ASSUME E[x].state = "REQ_RCVD" PROVE FALSE
    <3>1. EndFits(E, R, x) /\ EndFits(E, R, y)
      BY Zenon, <1>1, <1>2 DEF Moves, Pairing
    <3>2. Full(E[x].other) /\ E[x].qpn = 0
      BY Zenon, <2>2, <3>1 DEF EndFits
    <3>3. E[x].other = y /\ (x \notin R => y \in R)
      BY Zenon, <1>5, <2>2, <3>1, <3>2 DEF EndFits
    <3>4. x \notin R
      BY <3>1, <3>2 DEF EndFits
    <3>5. Full(E[y].other)
      BY <1>1, <1>3, EndsArePairs
    <3>. QED
      BY <1>3, <3>1, <3>2, <3>3, <3>4, <3>5 DEF EndFits
  <2>3. E[x].state \in EndStates
    BY <1>1 DEF Moves, Pairing, Endpoint
  <2>. QED
    BY <2>1, <2>2, <2>3 DEF EndStates, Linked, Over
<1>7. ASSUME E[x].state \in Over, f # NULL
      PROVE  \/ t.flow[f].state = "IDLE" /\ ~IsKey(t.flow[f].remote_id)
             \/ t.flow[f].state = "REQ_RCVD"
             \/ /\ E[x].state = "ABANDONED" /\ t.flow[f].state \in {"DREQ_SENT", "DREQ_RCVD"}
                /\ E[x].other = y /\ t.remote_map[y] = f
  <2>1. Leftover(t, E, x)
    BY Zenon, <1>1, <1>7 DEF Moves, Sync, Follows
  <2>2. ~(IsKey(E[x].other) /\ ~Full(E[E[x].other].other))
    <3>1. IsKey(E[x].other) => Full(E[x].other)
      BY Zenon DEF IsKey, Full
    <3>. QED
      BY <1>1, <1>3, <1>5, <3>1, EndsArePairs
  <2>3. E[x].state = "ABANDONED" => E[x].other = y
    BY <1>1, <1>5 DEF Moves, Pairing, EndFits
  <2>. QED
    BY Zenon, <1>7, <2>1, <2>2, <2>3 DEF Leftover
<1>8. from_src(p, p.local_comm_id) = y
  BY DEF from_src, From
<1>. HIDE DEF y
<1>. QED
  BY Zenon, <1>2, <1>3, <1>4, <1>5, <1>6, <1>7, <1>8 DEF HeardBy, y, HasFlow

\* x is where it was.
LEMMA SameSync ==
    ASSUME NEW t, NEW E, NEW R, NEW E2, NEW R2, NEW x, Moves(t, E, R, E2, R2, x),
           E2[x] = E[x]
    PROVE  Sync(t, E2, R2)
BY Zenon, StaySync DEF Moves

\* A key that no endpoint of the host but x may have is free, or the flow of a
\* request, as long as x has no flow with it.
LEMMA KeyOf ==
    ASSUME NEW t, NEW E, NEW R, NEW E2, NEW R2, NEW x, Moves(t, E, R, E2, R2, x),
           NEW y \in CmFlowKey, IsKey(y), Paired(E, x, y), t.remote_map[y] # NULL,
           t.local_map[x[2]] # t.remote_map[y]
    PROVE  LET g == t.remote_map[y]
           IN  g \in Ptr /\ t.flow[g].local_id = 0 /\ t.flow[g].state = "REQ_RCVD" /\ y \in R
<1>. DEFINE g == t.remote_map[y]
            i == t.flow[g].local_id
            w == <<HostAddr, i>>
<1>1. /\ x \in HostEnd /\ x \in Ends /\ x[1] = HostAddr /\ Sound(t) /\ t \in TrackerType
      /\ y \in Ends
  BY Zenon, HostEnds, KeysAreEnds DEF Moves, Sound
<1>2. g \in Ptr /\ t.flow[g].remote_id = y
  BY ZenonT(30), <1>1 DEF TrackerType, Sound, Indexed
<1>3. RemoteFiled(t, R, y) /\ i \in Id0(HostId)
  BY Zenon, <1>1, <1>2 DEF Moves, Sync, TrackerType, FlowState
<1>4. CASE i = 0
  BY Zenon, <1>2, <1>3, <1>4 DEF RemoteFiled
<1>5. CASE i # 0
  <2>1. t.local_map[i] = g /\ g # NULL
    BY Zenon, <1>3, <1>5 DEF RemoteFiled
  <2>2. w \in HostEnd /\ w \in Ends /\ w[1] = HostAddr /\ w[2] = i
    BY Zenon, <1>3, <1>5, HostEnds DEF Id0
  <2>3. LocalFiled(t, E, w)
    BY <2>2 DEF Moves, Sync
  <2>4. E[w].other = y
    BY Zenon, <1>2, <2>1, <2>2, <2>3 DEF LocalFiled
  <2>5. w = x
    BY Zenon, <1>1, <2>2, <2>4, PartnerUnique DEF Moves
  <2>. QED
    BY <2>1, <2>2, <2>5
<1>. QED
  BY Zenon, <1>4, <1>5

\* rep_received keeps up with a host endpoint that receives a REP.
LEMMA RepReceivedSync ==
    ASSUME NEW t, NEW E, NEW R, NEW E2, NEW R2, NEW x, Moves(t, E, R, E2, R2, x),
           NEW p, Reaches(E, R, p, x), p.attr = "REP", NEW new \in Free(t),
           IF E[x].state = "REQ_SENT" THEN E2[x].state = "REP_RCVD" /\ E2[x].other = From(p)
                                      ELSE E2[x] = E[x]
    PROVE  net_abort(t, p, new) = "none" /\ Sync(net_handlers(t, p, new), E2, R2)
<1>. DEFINE l == x[2]
            y == From(p)
            f == t.local_map[l]
            s == t.flow[f]
            g == get_flow(t, l, NoKey, new)
<1>1. /\ x \in HostEnd /\ l \in HostId /\ l \in Id0(HostId) /\ Sound(t) /\ p.remote_comm_id = l
      /\ NoKey \in CmFlowKey
  BY Zenon, HostEnds DEF Moves, Reaches, NoKey, CmFlowKey, Id0
<1>0. HeardBy(t, E, E2, x, y) /\ from_src(p, p.local_comm_id) = y
  BY Zenon, Heard
<1>2. /\ y \in CmFlowKey /\ IsKey(y) /\ y \in Ends /\ from_src(p, p.local_comm_id) = y
      /\ Paired(E, x, y) /\ E[x].state \in {"REQ_SENT"} \cup Linked \cup Over
  BY Zenon, <1>0 DEF HeardBy, HasFlow
<1>3. CASE E[x].state = "REQ_SENT"
  <2>. DEFINE q == p.local_qpn
              v == SetState(t, f, "REP_RCVD")
              u == SetRemoteQpn(v, f, q)
              a == add_new_flow(u, l, y, new)
              s1 == [s EXCEPT !.state = "REP_RCVD"]
              s2 == [s1 EXCEPT !.remote_qpn = q]
              s3 == [s2 EXCEPT !.remote_id = y]
  <2>0. HasFlow(E[x])
    BY <1>3 DEF HasFlow
  <2>1. Found(t, E, x, y, new, f, s) /\ Found(t, E, x, NoKey, new, f, s)
    BY <2>0, FlowOf, Zenon
  <2>2. s.local_qpn # 0 /\ ~IsKey(s.remote_id)
    BY Zenon, <1>1, <1>3 DEF Moves, Sync, Follows
  <2>3. t.remote_map[y] = NULL
    <3>1. ASSUME t.remote_map[y] # NULL PROVE FALSE
      <4>1. t.flow[t.remote_map[y]].remote_id = y
        BY <1>1, <1>2, <3>1 DEF Sound, Indexed
      <4>2. y \in R
        BY Zenon, <1>2, <2>2, <3>1, <4>1, KeyOf
      <4>3. y \notin R
        BY DEF Reaches, PacketFits
      <4>. QED
        BY Zenon, <4>2, <4>3
    <3>. QED
      BY <3>1
  <2>4. /\ Edit(t, t, l, f, y, NULL, f, s) /\ f \in Ptr /\ s \in FlowState /\ s.local_id = l
        /\ g = t /\ lookup(t, l, NoKey) = f /\ get_flow_abort(t, l, NoKey) = "none"
    BY Zenon, <2>1, <2>3 DEF Found
  <2>5. q \in Id0(Qpn) /\ q # 0
    BY DEF Reaches, PacketFits, AnyNetPacket, Packet
  <2>6. Edit(t, v, l, f, y, NULL, f, s1)
    BY Zenon, <2>4, <2>5, EditFields DEF FLOW_STATES
  <2>7. Edit(t, u, l, f, y, NULL, f, s2)
    <3>1. "REP_RCVD" \in FLOW_STATES
      BY DEF FLOW_STATES
    <3>. HIDE DEF v, s1
    <3>. QED
      BY Zenon, <2>4, <2>5, <2>6, <3>1, EditFields
  <2>8. ~IsKey(s2.remote_id) /\ s2 \in FlowState
    BY Zenon, <2>2, <2>4, <2>5 DEF FlowState, FLOW_STATES
  <2>9. Edit(t, a, l, f, y, f, f, s3)
    BY Zenon, <1>1, <1>2, <2>4, <2>7, <2>8, AddRemote
  <2>10. add_new_flow_ok(t, l, y)
    BY Zenon, <1>1, <1>2, <2>2, <2>4, AddRemote
  <2>11. /\ s3.local_id = l /\ s3.remote_id = y /\ s3.state = "REP_RCVD"
         /\ s3.local_qpn # 0 /\ s3.remote_qpn # 0
    BY Zenon, <2>2, <2>4, <2>5 DEF FlowState
  <2>12. net_handlers(t, p, new) = a /\ net_abort(t, p, new) = "none"
    <3>1. s.state = "REQ_SENT"
      BY Zenon, <1>3, <2>1 DEF Found
    <3>. QED
      BY Zenon, <1>1, <1>2, <2>4, <2>10, <3>1
         DEF net_handlers, net_abort, rep_received, rep_received_abort
  <2>13. Indexed(a)
    BY <1>1, <2>12, NetHandlersSound DEF Sound, Reaches
  <2>. HIDE DEF a, s3
  <2>14. Sync(a, E2, R2)
    BY Zenon, <1>2, <1>3, <2>4, <2>9, <2>11, <2>13, LinkedSync DEF Linked
  <2>. QED
    BY <2>12, <2>14
<1>4. CASE E[x].state \in Linked
  <2>0. HasFlow(E[x])
    BY <1>4 DEF HasFlow
  <2>1. Found(t, E, x, NoKey, new, f, s)
    BY <2>0, FlowOf, Zenon
  <2>2. net_handlers(t, p, new) = t /\ net_abort(t, p, new) = "none"
    BY Zenon, <1>1, <1>4, <2>1
       DEF net_handlers, net_abort, rep_received, rep_received_abort, Found, Linked
  <2>3. E[x].state # "REQ_SENT"
    BY Zenon, <1>4 DEF Linked
  <2>. QED
    BY Zenon, <2>2, <2>3, SameSync
<1>5. CASE E[x].state \in Over
  <2>0. E[x].state # "REQ_SENT" /\ E2[x] = E[x]
    BY Zenon, <1>5 DEF Over
  <2>1. CASE f = NULL
    <3>1. /\ Sync(g, E2, R2) /\ get_flow_abort(t, l, NoKey) = "none"
          /\ g.flow[lookup(g, l, NoKey)].state = "IDLE"
      BY ZenonT(30), <1>5, <2>0, <2>1, AddIdleSync
    <3>2. net_handlers(t, p, new) = g /\ net_abort(t, p, new) = "none"
      BY Zenon, <1>1, <3>1 DEF net_handlers, net_abort, rep_received, rep_received_abort
    <3>. QED
      BY Zenon, <3>1, <3>2
  <2>2. CASE f # NULL
    <3>1. g = t /\ lookup(t, l, NoKey) = f /\ get_flow_abort(t, l, NoKey) = "none"
      <4>1. Gets(t, l, NoKey, new, f)
        BY Zenon, <1>1, <2>2, GetOld
      <4>. QED
        BY Zenon, <4>1 DEF Gets
    <3>2. s.state \in {"IDLE", "REQ_RCVD", "DREQ_SENT", "DREQ_RCVD"}
      BY Zenon, <1>0, <1>5, <2>2 DEF HeardBy
    <3>3. net_handlers(t, p, new) = t /\ net_abort(t, p, new) = "none"
      BY Zenon, <1>1, <3>1, <3>2 DEF net_handlers, net_abort, rep_received, rep_received_abort
    <3>. QED
      BY Zenon, <2>0, <3>3, SameSync
  <2>. QED
    BY Zenon, <2>1, <2>2
<1>. QED
  BY Zenon, <1>2, <1>3, <1>4, <1>5

\* rtu_received keeps up with a host endpoint that receives an RTU.
LEMMA RtuReceivedSync ==
    ASSUME NEW t, NEW E, NEW R, NEW E2, NEW R2, NEW x, Moves(t, E, R, E2, R2, x),
           NEW p, Reaches(E, R, p, x), p.attr = "RTU", NEW new \in Free(t),
           IF E[x].state = "REP_SENT" THEN E2[x].state = "ESTABLISHED" ELSE E2[x] = E[x]
    PROVE  net_abort(t, p, new) = "none" /\ Sync(net_handlers(t, p, new), E2, R2)
<1>. DEFINE l == x[2]
            f == t.local_map[l]
            s == t.flow[f]
            g == get_flow(t, l, NoKey, new)
<1>1. x \in HostEnd /\ l \in HostId /\ Sound(t) /\ p.remote_comm_id = l
  BY Zenon, HostEnds DEF Moves, Reaches
<1>0. HeardBy(t, E, E2, x, From(p))
  BY Heard
<1>2. HasFlow(E[x]) \/ E[x].state \in Over
  BY Zenon, <1>0 DEF HeardBy
<1>3. CASE HasFlow(E[x])
  <2>1. Found(t, E, x, NoKey, new, f, s)
    BY <1>3, FlowOf, Zenon
  <2>2. CASE E[x].state = "REP_SENT"
    <3>1. /\ net_handlers(t, p, new) = on_established(SetState(t, f, "ESTABLISHED"), f)
          /\ net_abort(t, p, new) = "none"
      BY <1>1, <2>1, <2>2 DEF net_handlers, net_abort, rtu_received, Found
    <3>2. Sync(on_established(SetState(t, f, "ESTABLISHED"), f), E2, R2)
      BY <2>2, EstablishSync, Zenon
    <3>. QED
      BY ZenonT(30), <3>1, <3>2
  <2>3. CASE E[x].state # "REP_SENT"
    <3>1. net_handlers(t, p, new) = t /\ net_abort(t, p, new) = "none"
      BY Zenon, <1>1, <1>3, <2>1, <2>3
         DEF net_handlers, net_abort, rtu_received, Found, HasFlow, Linked
    <3>. QED
      BY Zenon, <2>3, <3>1, SameSync
  <2>. QED
    BY <2>2, <2>3
<1>4. CASE E[x].state \in Over
  <2>0. E[x].state # "REP_SENT" /\ E2[x] = E[x]
    BY Zenon, <1>4 DEF Over
  <2>1. CASE f = NULL
    <3>1. /\ Sync(g, E2, R2) /\ get_flow_abort(t, l, NoKey) = "none"
          /\ g.flow[lookup(g, l, NoKey)].state = "IDLE"
      BY ZenonT(30), <1>4, <2>0, <2>1, AddIdleSync
    <3>2. net_handlers(t, p, new) = g /\ net_abort(t, p, new) = "none"
      BY Zenon, <1>1, <3>1 DEF net_handlers, net_abort, rtu_received
    <3>. QED
      BY <3>1, <3>2
  <2>2. CASE f # NULL
    <3>1. g = t /\ lookup(t, l, NoKey) = f /\ get_flow_abort(t, l, NoKey) = "none"
      <4>1. Gets(t, l, NoKey, new, f)
        BY Zenon, <1>1, <2>2, GetOld
      <4>. QED
        BY Zenon, <4>1 DEF Gets
    <3>2. s.state \in {"IDLE", "REQ_RCVD", "DREQ_SENT", "DREQ_RCVD"}
      BY Zenon, <1>0, <1>4, <2>2 DEF HeardBy
    <3>3. net_handlers(t, p, new) = t /\ net_abort(t, p, new) = "none"
      BY Zenon, <1>1, <3>1, <3>2 DEF net_handlers, net_abort, rtu_received
    <3>. QED
      BY Zenon, <2>0, <3>3, SameSync
  <2>. QED
    BY Zenon, <2>1, <2>2
<1>. QED
  BY Zenon, <1>2, <1>3, <1>4

\* dreq_received keeps up with a host endpoint that receives a DREQ.
LEMMA DreqReceivedSync ==
    ASSUME NEW t, NEW E, NEW R, NEW E2, NEW R2, NEW x, Moves(t, E, R, E2, R2, x),
           NEW p, Reaches(E, R, p, x), p.attr = "DREQ", NEW new \in Free(t),
           IF E[x].state \in {"REP_SENT", "ESTABLISHED", "DREQ_SENT"}
           THEN E2[x].state = "DREQ_RCVD" ELSE E2[x] = E[x]
    PROVE  net_abort(t, p, new) = "none" /\ Sync(net_handlers(t, p, new), E2, R2)
<1>. DEFINE l == x[2]
            y == From(p)
            f == t.local_map[l]
            s == t.flow[f]
            g == get_flow(t, l, NoKey, new)
            u == SetState(t, f, "DREQ_RCVD")
<1>1. /\ x \in HostEnd /\ l \in HostId /\ l \in Id0(HostId) /\ Sound(t) /\ t \in TrackerType
      /\ p.remote_comm_id = l
  BY Zenon, HostEnds DEF Moves, Reaches, Sound
<1>0. HeardBy(t, E, E2, x, y)
  BY Heard
<1>2. HasFlow(E[x]) \/ E[x].state \in Over
  BY Zenon, <1>0 DEF HeardBy
<1>3. CASE HasFlow(E[x])
  <2>1. Found(t, E, x, NoKey, new, f, s)
    BY <1>3, FlowOf, Zenon
  <2>2. CASE E[x].state \in {"REP_SENT", "ESTABLISHED", "DREQ_SENT", "DREQ_RCVD"}
    <3>1. net_handlers(t, p, new) = u /\ net_abort(t, p, new) = "none"
      BY Zenon, <1>1, <2>1, <2>2 DEF net_handlers, net_abort, dreq_received, Found
    <3>2. E[x].state \in Linked /\ E2[x].state = "DREQ_RCVD"
      BY Zenon, <2>2 DEF Linked
    <3>3. Sync(u, E2, R2)
      BY Zenon, <3>2, StateSync
    <3>. QED
      BY Zenon, <3>1, <3>3
  <2>3. CASE E[x].state \notin {"REP_SENT", "ESTABLISHED", "DREQ_SENT", "DREQ_RCVD"}
    <3>1. net_handlers(t, p, new) = t /\ net_abort(t, p, new) = "none"
      BY Zenon, <1>1, <1>3, <2>1, <2>3
         DEF net_handlers, net_abort, dreq_received, Found, HasFlow, Linked
    <3>. QED
      BY Zenon, <2>3, <3>1, SameSync
  <2>. QED
    BY <2>2, <2>3
<1>4. CASE E[x].state \in Over
  <2>0. E2[x] = E[x]
    BY Zenon, <1>4 DEF Over
  <2>1. CASE f = NULL
    <3>1. /\ Sync(g, E2, R2) /\ get_flow_abort(t, l, NoKey) = "none"
          /\ g.flow[lookup(g, l, NoKey)].state = "IDLE"
      BY SMTT(30), <1>4, <2>0, <2>1, AddIdleSync
    <3>2. net_handlers(t, p, new) = g /\ net_abort(t, p, new) = "none"
      BY Zenon, <1>1, <3>1 DEF net_handlers, net_abort, dreq_received
    <3>. QED
      BY Zenon, <3>1, <3>2
  <2>2. CASE f # NULL
    <3>1. /\ g = t /\ lookup(t, l, NoKey) = f /\ get_flow_abort(t, l, NoKey) = "none"
          /\ f \in Ptr /\ s.local_id = l
      <4>1. Gets(t, l, NoKey, new, f)
        BY Zenon, <1>1, <2>2, GetOld
      <4>. QED
        BY Zenon, <4>1 DEF Gets
    <3>2. CASE s.state \in {"IDLE", "REQ_RCVD"}
      <4>1. net_handlers(t, p, new) = t /\ net_abort(t, p, new) = "none"
        BY Zenon, <1>1, <3>1, <3>2 DEF net_handlers, net_abort, dreq_received
      <4>. QED
        BY Zenon, <2>0, <4>1, SameSync
    <3>3. CASE s.state \in {"DREQ_SENT", "DREQ_RCVD"}
      <4>. DEFINE s1 == [s EXCEPT !.state = "DREQ_RCVD"]
      <4>1. net_handlers(t, p, new) = u /\ net_abort(t, p, new) = "none"
        BY <1>1, <3>1, <3>3 DEF net_handlers, net_abort, dreq_received
      <4>2. /\ E[x].state = "ABANDONED" /\ t.remote_map[y] = f /\ E[x].other = y
            /\ y \in CmFlowKey /\ IsKey(y) /\ Paired(E2, x, y)
        BY Zenon, <1>0, <1>4, <2>2, <3>3 DEF HeardBy
      <4>3. s.remote_id = y
        BY Zenon, <1>1, <2>2, <4>2 DEF Sound, Indexed
      <4>4. Edit(t, t, l, f, y, f, f, s)
        BY Zenon, <1>1, <4>2, EditSelf
      <4>5. Edit(t, u, l, f, y, f, f, s1)
        BY Zenon, <3>1, <4>4, EditFields DEF FLOW_STATES, Id0
      <4>6. s \in FlowState
        BY Zenon, <1>1, <3>1 DEF TrackerType
      <4>7. s1.local_id = l /\ s1.remote_id = y /\ s1.state = "DREQ_RCVD"
        BY Zenon, <3>1, <4>3, <4>6 DEF FlowState
      <4>8. Indexed(u)
        BY <1>1, <4>1, NetHandlersSound DEF Sound, Reaches
      <4>. HIDE DEF u, s1
      <4>9. u.local_map[l] = f /\ u.remote_map[y] = f /\ u.flow[f] = s1
        BY Zenon, <1>1, <3>1, <4>2, <4>5, MarkersAssumption DEF Edit, TrackerType
      <4>10. EditStep(t, E, R, u, E2, R2, x, y, f, f, f, s1)
        BY Zenon, <1>1, <3>1, <4>2, <4>5, <4>7, <4>8 DEF EditStep, Moves
      <4>11. Follows(u, E2, x)
        BY Zenon, <2>0, <4>2, <4>7, <4>9 DEF Follows, Over, Linked, Leftover
      <4>12. LocalFiled(u, E2, x) /\ RequestFiled(s1)
        BY Zenon, <2>0, <4>2, <4>7, <4>9 DEF LocalFiled, RequestFiled
      <4>. QED
        BY Zenon, <4>1, <4>10, <4>11, <4>12, EditSync
    <3>. QED
      BY Zenon, <1>0, <1>4, <2>2, <3>2, <3>3 DEF HeardBy
  <2>. QED
    BY Zenon, <2>1, <2>2
<1>. QED
  BY Zenon, <1>2, <1>3, <1>4

\* drep_received keeps up with a host endpoint that receives a DREP.
LEMMA DrepReceivedSync ==
    ASSUME NEW t, NEW E, NEW R, NEW E2, NEW R2, NEW x, Moves(t, E, R, E2, R2, x),
           NEW p, Reaches(E, R, p, x), p.attr = "DREP", NEW new \in Free(t),
           IF E[x].state \in {"DREQ_SENT", "DREQ_RCVD"}
           THEN E2[x].state = "TIMEWAIT" ELSE E2[x] = E[x]
    PROVE  net_abort(t, p, new) = "none" /\ Sync(net_handlers(t, p, new), E2, R2)
<1>. DEFINE l == x[2]
            y == From(p)
            f == t.local_map[l]
            s == t.flow[f]
            g == get_flow(t, l, NoKey, new)
            u == erase_flow(t, l, y)
<1>1. /\ x \in HostEnd /\ x \in Ends /\ l \in HostId /\ Sound(t) /\ t \in TrackerType
      /\ p.remote_comm_id = l
  BY Zenon, HostEnds DEF Moves, Reaches, Sound
<1>0. HeardBy(t, E, E2, x, y) /\ from_src(p, p.local_comm_id) = y
  BY Heard
<1>2. HasFlow(E[x]) \/ E[x].state \in Over
  BY Zenon, <1>0 DEF HeardBy
<1>3. CASE HasFlow(E[x])
  <2>1. Found(t, E, x, NoKey, new, f, s)
    BY <1>3, FlowOf, Zenon
  <2>2. CASE E[x].state \in {"DREQ_SENT", "DREQ_RCVD"}
    <3>1. net_handlers(t, p, new) = u /\ net_abort(t, p, new) = "none"
      BY Zenon, <1>0, <1>1, <2>1, <2>2 DEF net_handlers, net_abort, drep_received, Found
    <3>2. E[x].state \in Linked /\ E2[x].state \in Over
      BY <2>2 DEF Linked, Over
    <3>3. E[x].other = y
      BY Zenon, <1>0, <1>1, <2>2 DEF HeardBy, Moves, Pairing, EndFits
    <3>4. Sync(u, E2, R2)
      BY Zenon, <3>2, <3>3, EraseLinked
    <3>. QED
      BY Zenon, <3>1, <3>4
  <2>3. CASE E[x].state \notin {"DREQ_SENT", "DREQ_RCVD"}
    <3>1. net_handlers(t, p, new) = t /\ net_abort(t, p, new) = "none"
      BY Zenon, <1>1, <2>1, <2>3 DEF net_handlers, net_abort, drep_received, Found
    <3>. QED
      BY Zenon, <2>3, <3>1, SameSync
  <2>. QED
    BY <2>2, <2>3
<1>4. CASE E[x].state \in Over
  <2>0. E2[x] = E[x]
    BY Zenon, <1>4 DEF Over
  <2>1. CASE f = NULL
    <3>1. /\ Sync(g, E2, R2) /\ get_flow_abort(t, l, NoKey) = "none"
          /\ g.flow[lookup(g, l, NoKey)].state = "IDLE"
      BY <1>4, <2>0, <2>1, AddIdleSync
    <3>2. net_handlers(t, p, new) = g /\ net_abort(t, p, new) = "none"
      BY <1>1, <3>1 DEF net_handlers, net_abort, drep_received
    <3>. QED
      BY Zenon, <3>1, <3>2
  <2>2. CASE f # NULL
    <3>1. /\ g = t /\ lookup(t, l, NoKey) = f /\ get_flow_abort(t, l, NoKey) = "none"
          /\ f \in Ptr /\ s.local_id = l
      <4>1. Gets(t, l, NoKey, new, f)
        BY Zenon, <1>1, <2>2, GetOld
      <4>. QED
        BY Zenon, <4>1 DEF Gets
    <3>2. CASE s.state \in {"IDLE", "REQ_RCVD"}
      <4>1. net_handlers(t, p, new) = t /\ net_abort(t, p, new) = "none"
        BY Zenon, <1>1, <3>1, <3>2 DEF net_handlers, net_abort, drep_received
      <4>. QED
        BY Zenon, <2>0, <4>1, SameSync
    <3>3. CASE s.state \in {"DREQ_SENT", "DREQ_RCVD"}
      <4>1. net_handlers(t, p, new) = u /\ net_abort(t, p, new) = "none"
        BY Zenon, <1>0, <1>1, <3>1, <3>3 DEF net_handlers, net_abort, drep_received
      <4>2. y \in CmFlowKey /\ IsKey(y) /\ Paired(E2, x, y) /\ E[x].other = y
        BY Zenon, <1>0, <1>4, <2>2, <3>3 DEF HeardBy
      <4>3. Edit(t, t, l, f, y, t.remote_map[y], f, s)
        BY Zenon, <1>1, EditSelf
      <4>4. (IsKey(s.remote_id) => s.remote_id = y) /\ RequestFiled(s)
        <5>1. (IsKey(s.remote_id) => s.remote_id = E[x].other) /\ RequestFiled(s)
          BY Zenon, <2>2, FlowKeyOf
        <5>. QED
          BY Zenon, <4>2, <5>1
      <4>. HIDE DEF s
      <4>5. Sync(u, E2, R2)
        BY Zenon, <1>1, <1>4, <2>0, <3>1, <4>2, <4>3, <4>4, EraseSync
      <4>. QED
        BY Zenon, <4>1, <4>5
    <3>. QED
      BY Zenon, <1>0, <1>4, <2>2, <3>2, <3>3 DEF HeardBy
  <2>. QED
    BY Zenon, <2>1, <2>2
<1>. QED
  BY Zenon, <1>2, <1>3, <1>4

\* get_flow finds, or adds, a flow in the state st, and u is in step afterwards.
Looked(t, u, E2, R2, x, y, new, st) ==
    LET g == get_flow(t, x[2], y, new)
    IN  /\ Sync(u, E2, R2) /\ get_flow_abort(t, x[2], y) = "none"
        /\ g.flow[lookup(g, x[2], y)].state = st

\* A REJ that finds nothing under the ids of x and its far end adds a flow and
\* erases it.
LEMMA RejNothingSync ==
    ASSUME NEW t, NEW E, NEW R, NEW E2, NEW R2, NEW x, Moves(t, E, R, E2, R2, x),
           E2[x].state \in Over, NEW new \in Free(t), NEW y \in CmFlowKey, IsKey(y),
           Paired(E2, x, y), t.local_map[x[2]] = NULL, t.remote_map[y] = NULL
    PROVE  Looked(t, erase_flow(get_flow(t, x[2], y, new), x[2], y), E2, R2, x, y, new, "IDLE")
<1>. DEFINE g == get_flow(t, x[2], y, new)
            s == [NewFlowState EXCEPT !.local_id = x[2], !.remote_id = IF IsKey(y) THEN y ELSE @]
<1>1. x \in HostEnd /\ x[2] \in HostId /\ x[2] \in Id0(HostId) /\ Sound(t)
  BY HostEnds DEF Moves
<1>2. /\ Edit(t, g, x[2], new, y, IF IsKey(y) THEN new ELSE NULL, new, s)
      /\ lookup(g, x[2], y) = new /\ lookup(g, x[2], NoKey) = new
      /\ get_flow_abort(t, x[2], y) = "none" /\ new \in Ptr
  BY <1>1, GetNew, Zenon
<1>3. Sound(g)
  BY <1>1, <1>2, GetFlowSound, Zenon
<1>4. s.state = "IDLE" /\ s.local_id = x[2] /\ s.remote_id = y
  BY Zenon DEF NewFlowState
<1>. HIDE DEF g, s
<1>5. Edit(t, g, x[2], new, y, new, new, s) /\ RequestFiled(s)
  BY Zenon, <1>2, <1>4 DEF RequestFiled
<1>6. Sync(erase_flow(g, x[2], y), E2, R2)
  BY Zenon, <1>1, <1>2, <1>3, <1>4, <1>5, EraseSync
<1>7. g.flow[new] = s
  BY Zenon, <1>2, <1>5, MarkersAssumption DEF Edit, TrackerType
<1>. QED
  BY Zenon, <1>2, <1>4, <1>6, <1>7 DEF g, Looked

\* A REJ for an endpoint that is done finds the request of the sender, and puts
\* the id of the endpoint to it.
LEMMA RejRequestSync ==
    ASSUME NEW t, NEW E, NEW R, NEW E2, NEW R2, NEW x, Moves(t, E, R, E2, R2, x),
           E[x].state \in Over, E2[x] = E[x], NEW new \in Free(t), NEW y,
           HeardBy(t, E, E2, x, y), t.local_map[x[2]] = NULL, t.remote_map[y] # NULL
    PROVE  Looked(t, get_flow(t, x[2], y, new), E2, R2, x, y, new, "REQ_RCVD")
<1>. DEFINE f == t.remote_map[y]
            g == get_flow(t, x[2], y, new)
            s == [t.flow[f] EXCEPT !.local_id = x[2]]
<1>1. /\ x \in HostEnd /\ x \in Ends /\ x[2] \in HostId /\ x[2] \in Id0(HostId) /\ Sound(t)
      /\ t \in TrackerType
  BY Zenon, HostEnds DEF Moves, Sound
<1>2. y \in CmFlowKey /\ IsKey(y) /\ y \in Ends /\ E[y].other = x /\ Paired(E, x, y)
      /\ Paired(E2, x, y)
  BY Zenon DEF HeardBy
<1>3. f \in Ptr /\ t.flow[f].local_id = 0 /\ t.flow[f].state = "REQ_RCVD" /\ y \in R
  BY <1>2, KeyOf
<1>4. E[x].other = y
  BY Zenon, <1>1, <1>2, <1>3, EndsArePairs DEF Moves, Pairing, EndFits
<1>5. /\ Edit(t, g, x[2], f, y, f, f, s)
      /\ lookup(g, x[2], y) = f /\ get_flow_abort(t, x[2], y) = "none" /\ f \in Ptr
  BY <1>1, <1>2, <1>3, GetLink, ZenonT(30)
<1>6. Indexed(g)
  <2>1. Sound(g)
    BY <1>1, <1>2, <1>5, GetFlowSound, Zenon
  <2>. QED
    BY Zenon, <2>1 DEF Sound
<1>7. t.flow[f] \in FlowState /\ t.flow[f].remote_id = y /\ RequestFiled(t.flow[f])
  BY Zenon, <1>1, <1>2, <1>3 DEF TrackerType, Sound, Indexed, Moves, Sync
<1>8. /\ s.state = "REQ_RCVD" /\ s.local_id = x[2] /\ s.remote_id = y /\ RequestFiled(s)
  BY <1>3, <1>7 DEF FlowState, RequestFiled
<1>. HIDE DEF g, s
<1>9. g.local_map[x[2]] = f /\ g.flow[f] = s
  BY Zenon, <1>1, <1>5, MarkersAssumption DEF Edit, TrackerType
<1>10. EditStep(t, E, R, g, E2, R2, x, y, f, f, f, s)
  BY Zenon, <1>1, <1>2, <1>5, <1>6, <1>8 DEF EditStep, Moves
<1>11. Follows(g, E2, x)
  BY Zenon, <1>8, <1>9 DEF Follows, Over, Linked, Leftover
<1>12. LocalFiled(g, E2, x)
  BY <1>4, <1>8, <1>9 DEF LocalFiled
<1>13. Sync(g, E2, R2)
  BY Zenon, <1>8, <1>10, <1>11, <1>12, EditSync
<1>. QED
  BY Zenon, <1>5, <1>8, <1>9, <1>13 DEF g, Looked

\* rej_received keeps up with a host endpoint that receives a REJ.
LEMMA RejReceivedSync ==
    ASSUME NEW t, NEW E, NEW R, NEW E2, NEW R2, NEW x, Moves(t, E, R, E2, R2, x),
           NEW p, Reaches(E, R, p, x), p.attr = "REJ", NEW new \in Free(t),
           IF E[x].state \in {"REQ_SENT", "REP_SENT", "REP_RCVD", "ESTABLISHED", "DREQ_SENT"}
           THEN E2[x].state \in Over ELSE E2[x] = E[x]
    PROVE  net_abort(t, p, new) = "none" /\ Sync(net_handlers(t, p, new), E2, R2)
<1>. DEFINE l == x[2]
            y == From(p)
            f == t.local_map[l]
            s == t.flow[f]
            g == get_flow(t, l, y, new)
            u == erase_flow(t, l, y)
<1>1. /\ x \in HostEnd /\ x \in Ends /\ l \in HostId /\ Sound(t) /\ t \in TrackerType
      /\ p.remote_comm_id = l
  BY Zenon, HostEnds DEF Moves, Reaches, Sound
<1>0. HeardBy(t, E, E2, x, y) /\ from_src(p, p.local_comm_id) = y
  BY Heard
<1>2. /\ HasFlow(E[x]) \/ E[x].state \in Over
      /\ y \in CmFlowKey /\ IsKey(y) /\ Paired(E, x, y) /\ Paired(E2, x, y)
  BY Zenon, <1>0 DEF HeardBy
<1>3. CASE HasFlow(E[x])
  <2>1. Found(t, E, x, y, new, f, s)
    BY <1>3, FlowOf, Zenon
  <2>2. CASE E[x].state # "DREQ_RCVD"
    <3>1. net_handlers(t, p, new) = u /\ net_abort(t, p, new) = "none"
      BY Zenon, <1>0, <1>1, <1>3, <2>1, <2>2
         DEF net_handlers, net_abort, rej_received, rej_received_abort, Found, HasFlow, Linked
    <3>2. E2[x].state \in Over
      BY <1>3, <2>2 DEF HasFlow, Linked
    <3>3. CASE E[x].state \in Linked
      <4>1. E[x].other = y
        BY Zenon, <1>0, <1>1, <3>3 DEF HeardBy, Moves, Pairing, EndFits, Linked
      <4>. QED
        BY Zenon, <3>1, <3>2, <3>3, <4>1, EraseLinked
    <3>4. CASE E[x].state = "REQ_SENT"
      <4>1. Edit(t, t, l, f, y, t.remote_map[y], f, s) /\ f \in Ptr /\ s.local_id = l
        BY Zenon, <2>1 DEF Found
      <4>2. ~IsKey(s.remote_id) /\ s.state = "REQ_SENT"
        BY Zenon, <1>1, <3>4 DEF Moves, Sync, Follows
      <4>3. RequestFiled(s)
        BY <4>2 DEF RequestFiled
      <4>. HIDE DEF s
      <4>4. Sync(u, E2, R2)
        BY Zenon, <1>1, <1>2, <3>2, <4>1, <4>2, <4>3, EraseSync
      <4>. QED
        BY Zenon, <3>1, <4>4
    <3>. QED
      BY <1>3, <3>3, <3>4 DEF HasFlow
  <2>3. CASE E[x].state = "DREQ_RCVD"
    <3>1. net_handlers(t, p, new) = t /\ net_abort(t, p, new) = "none"
      BY Zenon, <1>0, <1>1, <2>1, <2>3
         DEF net_handlers, net_abort, rej_received, rej_received_abort, Found
    <3>. QED
      BY Zenon, <2>3, <3>1, SameSync
  <2>. QED
    BY Zenon, <2>2, <2>3
<1>4. CASE E[x].state \in Over
  <2>0. E2[x] = E[x] /\ E2[x].state \in Over
    BY <1>4 DEF Over
  <2>1. CASE f = NULL /\ t.remote_map[y] = NULL
    <3>1. /\ Sync(erase_flow(g, l, y), E2, R2) /\ get_flow_abort(t, l, y) = "none"
          /\ g.flow[lookup(g, l, y)].state = "IDLE"
      <4>1. Looked(t, erase_flow(g, l, y), E2, R2, x, y, new, "IDLE")
        BY <1>2, <2>0, <2>1, RejNothingSync, Zenon
      <4>. QED
        BY Zenon, <4>1 DEF Looked
    <3>2. net_handlers(t, p, new) = erase_flow(g, l, y) /\ net_abort(t, p, new) = "none"
      BY Zenon, <1>0, <1>1, <3>1 DEF net_handlers, net_abort, rej_received, rej_received_abort
    <3>. QED
      BY Zenon, <3>1, <3>2
  <2>2. CASE f = NULL /\ t.remote_map[y] # NULL
    <3>1. /\ Sync(g, E2, R2) /\ get_flow_abort(t, l, y) = "none"
          /\ g.flow[lookup(g, l, y)].state = "REQ_RCVD"
      <4>1. Looked(t, g, E2, R2, x, y, new, "REQ_RCVD")
        BY <1>0, <1>4, <2>0, <2>2, RejRequestSync, Zenon
      <4>. QED
        BY Zenon, <4>1 DEF Looked
    <3>2. net_handlers(t, p, new) = g /\ net_abort(t, p, new) = "none"
      BY <1>0, <1>1, <3>1 DEF net_handlers, net_abort, rej_received, rej_received_abort
    <3>. QED
      BY Zenon, <3>1, <3>2
  <2>3. CASE f # NULL
    <3>1. /\ g = t /\ lookup(t, l, y) = f /\ get_flow_abort(t, l, y) = "none"
          /\ f \in Ptr /\ s.local_id = l
      <4>1. Gets(t, l, y, new, f)
        BY Zenon, <1>1, <2>3, GetOld
      <4>. QED
        BY Zenon, <4>1 DEF Gets
    <3>2. CASE s.state \in {"REQ_RCVD", "DREQ_RCVD"}
      <4>1. net_handlers(t, p, new) = t /\ net_abort(t, p, new) = "none"
        BY Zenon, <1>0, <1>1, <3>1, <3>2
           DEF net_handlers, net_abort, rej_received, rej_received_abort
      <4>. QED
        BY Zenon, <2>0, <4>1, SameSync
    <3>3. CASE s.state \in {"IDLE", "DREQ_SENT"}
      <4>1. net_handlers(t, p, new) = u /\ net_abort(t, p, new) = "none"
        BY Zenon, <1>0, <1>1, <3>1, <3>3
           DEF net_handlers, net_abort, rej_received, rej_received_abort
      <4>2. Edit(t, t, l, f, y, t.remote_map[y], f, s)
        BY Zenon, <1>1, EditSelf
      <4>3. IsKey(s.remote_id) => s.remote_id = y
        <5>1. (IsKey(s.remote_id) => s.remote_id = E[x].other) /\ RequestFiled(s)
          BY <2>3, FlowKeyOf, Zenon
        <5>. QED
          BY Zenon, <1>0, <1>4, <2>3, <3>3, <5>1 DEF HeardBy
      <4>4. RequestFiled(s)
        BY Zenon, <3>3 DEF RequestFiled
      <4>. HIDE DEF s
      <4>5. Sync(u, E2, R2)
        BY Zenon, <1>1, <1>2, <2>0, <3>1, <4>2, <4>3, <4>4, EraseSync
      <4>. QED
        BY Zenon, <4>1, <4>5
    <3>. QED
      BY Zenon, <1>0, <1>4, <2>3, <3>2, <3>3 DEF HeardBy
  <2>. QED
    BY Zenon, <2>1, <2>2, <2>3
<1>. QED
  BY Zenon, <1>2, <1>3, <1>4

-----------------------------------------------------------------------------
(* Packets that name no endpoint of the host: the flow is found by the key *)

\* What is in no map does not count.
LEMMA AgreeSync ==
    ASSUME NEW t \in TrackerType, NEW u, NEW E, NEW R, Sync(t, E, R), Facing(E),
           u.local_map = t.local_map, u.remote_map = t.remote_map,
           \A f \in Live(t) : u.flow[f] = t.flow[f],
           \A f \in Ptr : RequestFiled(u.flow[f])
    PROVE  Sync(u, E, R)
<1>0. \A f \in Ptr : NULL # f
  BY Zenon, MarkersAssumption
<1>1. ASSUME NEW l \in Id0(HostId), t.local_map[l] # NULL
      PROVE  u.flow[t.local_map[l]] = t.flow[t.local_map[l]]
  BY Zenon, <1>1 DEF Live, TrackerType
<1>2. ASSUME NEW k \in CmFlowKey, t.remote_map[k] # NULL
      PROVE  u.flow[t.remote_map[k]] = t.flow[t.remote_map[k]]
  BY <1>2 DEF Live, TrackerType
<1>3. ASSUME NEW x \in HostEnd PROVE Follows(u, E, x) /\ LocalFiled(u, E, x)
  <2>. DEFINE f == t.local_map[x[2]]
              g == t.remote_map[E[x].other]
  <2>1. Follows(t, E, x) /\ LocalFiled(t, E, x)
    BY Zenon DEF Sync
  <2>2. /\ f # NULL => u.flow[f] = t.flow[f]
        /\ g # NULL => u.flow[g] = t.flow[g]
        /\ u.local_map[x[2]] = f /\ u.remote_map[E[x].other] = g
    BY ZenonT(30), <1>1, <1>2, HostEnds DEF Facing
  <2>. HIDE DEF f, g
  <2>3. LocalFiled(u, E, x)
    BY <2>1, <2>2 DEF LocalFiled, f
  <2>4. Leftover(t, E, x) => Leftover(u, E, x)
    BY Zenon, <2>2 DEF Leftover, f, g
  <2>5. Follows(u, E, x)
    BY Zenon, <2>1, <2>2, <2>4 DEF Follows, f, g
  <2>. QED
    BY <2>3, <2>5
<1>4. ASSUME NEW k \in CmFlowKey PROVE RemoteFiled(u, R, k)
  <2>1. RemoteFiled(t, R, k)
    BY Zenon DEF Sync
  <2>. QED
    BY Zenon, <1>2, <2>1 DEF RemoteFiled
<1>. QED
  BY <1>3, <1>4 DEF Sync

\* A packet of y reaches the host without the id of an endpoint.
Hears(t, E, R, E2, y) ==
    /\ Sound(t) /\ Truthful(t, E) /\ Sync(t, E, R)
    /\ Pairing(E, R) /\ Pairing(E2, R) /\ Facing(E) /\ Facing(E2)
    /\ y \in CmFlowKey /\ IsKey(y)
    /\ \A z \in PeerEnd : E2[z] = E[z]

\* u is t but for the flow f, which is new or under the key y.
KeyEdit(t, u, y, b, f, s) ==
    /\ Indexed(u) /\ f \in Ptr /\ (f \in Free(t) \/ f = t.remote_map[y])
    /\ Edit(t, u, 0, NULL, y, b, f, s)

\* The other flows stay what they are.
KeepsOthers(t, u, E, E2, R, y) ==
    /\ \A l \in Id0(HostId) : u.local_map[l] = t.local_map[l]
    /\ \A w \in HostEnd : E[w].other # y /\ E2[w] = E[w] =>
          Follows(u, E2, w) /\ LocalFiled(u, E2, w)
    /\ \A k \in CmFlowKey : k # y => RemoteFiled(u, R, k)
    /\ \A g \in Ptr : RequestFiled(u.flow[g])

\* A change to what is filed under the key y leaves everything else as it was.
LEMMA KeyEditOthers ==
    ASSUME NEW t, NEW E, NEW R, NEW E2, NEW y, Hears(t, E, R, E2, y),
           NEW u, NEW b, NEW f, NEW s, KeyEdit(t, u, y, b, f, s), RequestFiled(s)
    PROVE  KeepsOthers(t, u, E, E2, R, y)
<1>. USE DEF Hears, KeyEdit
<1>1. t \in TrackerType /\ Indexed(t) /\ 0 \in Id0(HostId) /\ u \in TrackerType
  BY Zenon DEF Sound, Id0, Edit
<1>2. \A l \in Id0(HostId) : u.local_map[l] = t.local_map[l]
  BY <1>1 DEF Edit, Indexed
<1>3. \A g \in Ptr : RequestFiled(u.flow[g])
  BY Zenon DEF Edit, Sync
<1>4. ASSUME NEW k \in CmFlowKey, k # y, t.remote_map[k] # NULL
      PROVE  t.remote_map[k] \in Ptr /\ t.remote_map[k] # f
  <2>1. t.remote_map[k] \in Ptr /\ t.flow[t.remote_map[k]].remote_id = k
    BY SMTT(30), <1>1, <1>4 DEF TrackerType, Indexed
  <2>2. f \in Ptr /\ f = t.remote_map[y] => t.flow[f].remote_id = y
    BY SMTT(30), <1>1, MarkersAssumption DEF Indexed
  <2>3. t.remote_map[k] \in Live(t)
    BY <2>1 DEF Live
  <2>. QED
    BY Zenon, <1>4, <2>1, <2>2, <2>3 DEF Free
<1>5. ASSUME NEW k \in CmFlowKey, k # y PROVE RemoteFiled(u, R, k)
  <2>1. u.remote_map[k] = t.remote_map[k] /\ RemoteFiled(t, R, k)
    BY <1>5 DEF Edit, Sync
  <2>2. CASE t.remote_map[k] # NULL
    <3>1. u.flow[t.remote_map[k]] = t.flow[t.remote_map[k]]
      BY Zenon, <1>4, <1>5, <2>2 DEF Edit
    <3>2. t.flow[t.remote_map[k]].local_id \in Id0(HostId)
      BY Zenon, <1>1, <1>4, <1>5, <2>2 DEF TrackerType, FlowState
    <3>. QED
      BY Zenon, <1>2, <2>1, <3>1, <3>2 DEF RemoteFiled
  <2>. QED
    BY Zenon, <2>1, <2>2 DEF RemoteFiled
<1>6. ASSUME NEW w \in HostEnd, E[w].other # y, E2[w] = E[w]
      PROVE  Follows(u, E2, w) /\ LocalFiled(u, E2, w)
  <2>. DEFINE lf == t.local_map[w[2]]
              o == E[w].other
              g == t.remote_map[o]
  <2>1. /\ w[2] \in Id0(HostId) /\ o \in CmFlowKey /\ Follows(t, E, w) /\ LocalFiled(t, E, w)
        /\ u.local_map[w[2]] = lf /\ u.remote_map[o] = g
    BY Zenon, <1>2, <1>6, HostEnds DEF Sync, Facing, Edit
  <2>2. lf # NULL => u.flow[lf] = t.flow[lf]
    <3>1. ASSUME lf # NULL PROVE lf \in Ptr /\ lf # f
      <4>1. lf \in Ptr /\ lf \in Live(t)
        BY Zenon, <1>1, <2>1, <3>1 DEF TrackerType, Live
      <4>2. ASSUME lf = t.remote_map[y] PROVE FALSE
        <5>1. t.flow[lf].remote_id = y
          BY Zenon, <1>1, <3>1, <4>2 DEF Indexed
        <5>. QED
          BY Zenon, <1>6, <2>1, <3>1, <5>1 DEF LocalFiled
      <4>. QED
        BY Zenon, <4>1, <4>2 DEF Free
    <3>. QED
      BY Zenon, <3>1 DEF Edit
  <2>3. g # NULL => u.flow[g] = t.flow[g]
    BY <1>4, <1>6, <2>1 DEF Edit
  <2>4. IsKey(o) => E2[o] = E[o]
    BY Zenon, <2>1, KeysAreEnds
  <2>. HIDE DEF lf, g, o
  <2>5. Leftover(t, E, w) => Leftover(u, E2, w)
    BY Zenon, <1>6, <2>1, <2>2, <2>4 DEF Leftover, lf, g, o
  <2>6. LocalFiled(u, E2, w)
    BY Zenon, <1>6, <2>1, <2>2 DEF LocalFiled, lf
  <2>7. Follows(u, E2, w)
    BY ZenonT(30), <1>6, <2>1, <2>2, <2>3, <2>5 DEF Follows, lf, g, o
  <2>. QED
    BY Zenon, <2>6, <2>7
<1>. QED
  BY Zenon, <1>2, <1>3, <1>5, <1>6 DEF KeepsOthers

\* get_flow adds a flow for the key.
LEMMA GetKeyNew ==
    ASSUME NEW t, Sound(t), NEW y \in CmFlowKey, IsKey(y), t.remote_map[y] = NULL,
           NEW new \in Free(t)
    PROVE  LET g == get_flow(t, 0, y, new)
           IN  /\ Edit(t, g, 0, NULL, y, new, new, [NewFlowState EXCEPT !.remote_id = y])
               /\ lookup(g, 0, y) = new /\ get_flow_abort(t, 0, y) = "none"
               /\ new \in Ptr /\ Sound(g)
<1>. DEFINE g == get_flow(t, 0, y, new)
            s == [NewFlowState EXCEPT !.remote_id = y]
<1>1. new \in Ptr /\ t \in TrackerType /\ 0 \in Id0(HostId) /\ t.local_map[0] = NULL
  BY Zenon DEF Free, Sound, Id0, Indexed
<1>2. /\ g = add_new_flow(t, 0, y, new) /\ target(t, 0, y, new) = new
      /\ get_flow_abort(t, 0, y) = "none"
  BY <1>1 DEF get_flow, get_flow_abort, lookup, add_new_flow_ok, target
<1>3. Sound(g)
  BY <1>1, <1>2, GetFlowSound, Zenon
<1>4. [NewFlowState EXCEPT !.local_id = NewFlowState.local_id, !.remote_id = y] = s
  <2>1. NewFlowState \in FlowState
    BY Zenon DEF NewFlowState, FlowState, FLOW_STATES, Id0, CmFlowKey, NoKey
  <2>. QED
    BY Zenon, <2>1 DEF FlowState
<1>5. g = [t EXCEPT !.flow[new] = s, !.local_map[0] = NULL, !.remote_map[y] = new]
  BY Zenon, <1>1, <1>2, <1>4 DEF add_new_flow, TrackerType
<1>6. g \in TrackerType
  BY <1>3 DEF Sound
<1>7. lookup(g, 0, y) = new
  BY ZenonT(30), <1>1, <1>5 DEF lookup, TrackerType
<1>. HIDE DEF s
<1>8. Edit(t, g, 0, NULL, y, new, new, s)
  <2>. HIDE DEF g
  <2>. QED
    BY ZenonT(30), <1>1, <1>5, <1>6 DEF Edit, TrackerType
<1>. QED
  BY <1>1, <1>2, <1>3, <1>7, <1>8 DEF s

\* x takes the request of y, or it is no endpoint of the host.
Takes(E, E2, y, x) ==
    /\ \A w \in HostEnd : w # x => E2[w] = E[w]
    /\ x \in HostEnd => E[x].state = "IDLE" /\ E2[x].state = "REQ_RCVD" /\ E2[x].other = y

\* A flow under the key y that is not a request is that of a host endpoint.
Owned(t, E, y) ==
    \E w \in HostEnd : /\ t.local_map[w[2]] = t.remote_map[y] /\ E[w].other = y
                       /\ E[w].state \in Linked \cup Over
                       /\ t.flow[t.remote_map[y]].state # "IDLE"

\* A flow under the key y that has a local id belongs to a host endpoint.
LEMMA KeyOwner ==
    ASSUME NEW t, NEW E, NEW R, NEW E2, NEW y, Hears(t, E, R, E2, y),
           t.remote_map[y] # NULL, t.flow[t.remote_map[y]].local_id # 0
    PROVE  Owned(t, E, y)
<1>. USE DEF Hears
<1>. DEFINE f == t.remote_map[y]
            i == t.flow[f].local_id
            w == <<HostAddr, i>>
<1>1. t \in TrackerType /\ f \in Ptr /\ t.flow[f].remote_id = y
  BY SMTT(30) DEF Sound, TrackerType, Indexed
<1>2. i \in Id0(HostId) /\ t.local_map[i] = f
  BY <1>1 DEF TrackerType, FlowState, Sync, RemoteFiled
<1>3. w \in HostEnd /\ w \in Ends /\ w[2] = i
  BY Zenon, <1>2, HostEnds DEF Id0
<1>4. Follows(t, E, w) /\ LocalFiled(t, E, w) /\ E[w].state \in EndStates
  BY Zenon, <1>3 DEF Sync, Pairing, Endpoint
<1>. HIDE DEF w, i
<1>5. E[w].other = y
  BY <1>1, <1>2, <1>3, <1>4 DEF LocalFiled
<1>6. E[w].state \in Linked \cup Over
  BY Zenon, <1>1, <1>2, <1>3, <1>4 DEF Follows, EndStates, Linked, Over
<1>7. t.flow[f].state # "IDLE"
  <2>1. CASE E[w].state \in Linked
    BY Zenon, <1>2, <1>3, <1>4, <2>1 DEF Follows, Linked
  <2>2. CASE E[w].state \in Over
    BY Zenon, <1>1, <1>2, <1>3, <1>4, <2>2 DEF Follows, Leftover
  <2>. QED
    BY <1>6, <2>1, <2>2
<1>. QED
  BY Zenon, <1>2, <1>3, <1>5, <1>6, <1>7 DEF Owned

\* The endpoints other than x are in step with a new request under the key y.
LEMMA NewRequestOthers ==
    ASSUME NEW t, NEW E, NEW R, NEW E2, NEW y, Hears(t, E, R, E2, y), t.remote_map[y] = NULL,
           NEW u, NEW f, NEW s, KeyEdit(t, u, y, f, f, s), f \in Free(t), RequestFiled(s),
           NEW w \in HostEnd, E2[w] = E[w]
    PROVE  Follows(u, E2, w) /\ LocalFiled(u, E2, w)
<1>0. KeepsOthers(t, u, E, E2, R, y)
  BY Zenon, KeyEditOthers
<1>1. CASE E[w].other # y
  BY Zenon, <1>0, <1>1 DEF KeepsOthers
<1>2. CASE E[w].other = y
  <2>. USE DEF Hears
  <2>. DEFINE lf == t.local_map[w[2]]
  <2>1. /\ w \in Ends /\ w[2] \in Id0(HostId) /\ Follows(t, E, w) /\ LocalFiled(t, E, w)
        /\ t \in TrackerType /\ E[w].state \in EndStates /\ EndFits(E, R, w)
    BY HostEnds DEF Sync, Sound, Pairing, Endpoint
  <2>2. u.local_map[w[2]] = lf
    BY Zenon, <1>0, <2>1 DEF KeepsOthers
  <2>3. lf # NULL => u.flow[lf] = t.flow[lf]
    <3>1. lf # NULL => lf \in Live(t) /\ lf \in Ptr
      BY Zenon, <2>1 DEF Live, TrackerType
    <3>. QED
      BY Zenon, <3>1 DEF Free, KeyEdit, Edit
  <2>4. E[w].state \in Over
    <3>1. Full(y) /\ y # <<0, 0>>
      BY KeysAreEnds, EndsArePairs
    <3>2. E[w].state \notin {"IDLE", "REQ_SENT"}
      <4>1. (E[w].state = "IDLE" => E[w] = Unused) /\ (E[w].state = "REQ_SENT" => ~Full(y))
        BY Zenon, <1>2, <2>1 DEF EndFits
      <4>2. Unused.other = <<0, 0>>
        BY DEF Unused
      <4>. QED
        BY Zenon, <1>2, <3>1, <4>1, <4>2
    <3>3. E[w].state \notin Linked \cup {"REQ_RCVD"}
      BY Zenon, <1>2, <2>1 DEF Follows, Linked
    <3>. QED
      BY Zenon, <2>1, <3>2, <3>3 DEF EndStates, Linked, Over
  <2>5. E2[y] = E[y]
    BY KeysAreEnds
  <2>6. Leftover(t, E, w)
    BY Zenon, <2>1, <2>4 DEF Follows
  <2>. HIDE DEF lf
  <2>7. Leftover(u, E2, w)
    BY Zenon, <1>2, <2>2, <2>3, <2>5, <2>6 DEF Leftover, lf
  <2>8. LocalFiled(u, E2, w)
    BY Zenon, <2>1, <2>2, <2>3 DEF LocalFiled, lf
  <2>9. Follows(u, E2, w)
    BY Zenon, <2>4, <2>7 DEF Follows, Over, Linked
  <2>. QED
    BY Zenon, <2>8, <2>9
<1>. QED
  BY Zenon, <1>1, <1>2

\* A host endpoint that stays is in step whatever the peers do.
LEMMA HostSame ==
    ASSUME NEW t, NEW E, NEW R, Sync(t, E, R), Facing(E), NEW E2, NEW w \in HostEnd, E2[w] = E[w],
           \A z \in PeerEnd : E[z].state = "CLOSED" => E2[z] = E[z]
    PROVE  Follows(t, E2, w) /\ LocalFiled(t, E2, w)
<1>1. Follows(t, E, w) /\ LocalFiled(t, E, w) /\ E[w].other \in CmFlowKey
  BY Zenon DEF Sync, Facing
<1>2. IsKey(E[w].other) /\ E[E[w].other].state = "CLOSED" => E2[E[w].other] = E[E[w].other]
  BY <1>1, KeysAreEnds
<1>3. Leftover(t, E, w) => Leftover(t, E2, w)
  BY Zenon, <1>2 DEF Leftover
<1>. QED
  BY Zenon, <1>1, <1>3 DEF Follows, LocalFiled

\* A repeated request, or one whose flow is still there.
LEMMA OldRequestSync ==
    ASSUME NEW t, NEW E, NEW R, NEW E2, NEW y, Hears(t, E, R, E2, y), t.remote_map[y] # NULL,
           NEW x, Takes(E, E2, y, x)
    PROVE  Sync(t, E2, R)
<1>1. ASSUME NEW w \in HostEnd, w # x PROVE Follows(t, E2, w) /\ LocalFiled(t, E2, w)
  BY <1>1, HostSame DEF Takes, Hears
<1>2. ASSUME x \in HostEnd PROVE Follows(t, E2, x) /\ LocalFiled(t, E2, x)
  <2>1. E[x].state = "IDLE" /\ E2[x].state = "REQ_RCVD" /\ E2[x].other = y /\ x \in Ends
    BY <1>2, HostEnds DEF Takes
  <2>2. t.local_map[x[2]] = NULL
    BY Zenon, <1>2, <2>1 DEF Hears, Sync, Follows
  <2>3. ASSUME t.flow[t.remote_map[y]].local_id # 0 PROVE FALSE
    <3>1. PICK w \in HostEnd : t.local_map[w[2]] = t.remote_map[y] /\ E[w].other = y
      <4>1. Owned(t, E, y)
        BY Zenon, <2>3, KeyOwner
      <4>. QED
        BY Zenon, <4>1 DEF Owned
    <3>2. w # x /\ w \in Ends /\ w[1] = x[1] /\ y \in Ends
      BY Zenon, <1>2, <2>2, <3>1, HostEnds, KeysAreEnds DEF Hears
    <3>3. E2[w].other = y /\ Paired(E2, x, y)
      BY Zenon, <2>1, <3>1, <3>2 DEF Takes, Paired
    <3>. QED
      BY Zenon, <2>1, <3>2, <3>3, PartnerUnique DEF Hears
  <2>4. Follows(t, E2, x)
    BY Zenon, <2>1, <2>2, <2>3 DEF Follows, Linked, Over
  <2>5. LocalFiled(t, E2, x)
    BY <2>2 DEF LocalFiled
  <2>. QED
    BY Zenon, <2>4, <2>5
<1>3. \A w \in HostEnd : Follows(t, E2, w) /\ LocalFiled(t, E2, w)
  BY Zenon, <1>1, <1>2
<1>. QED
  BY Zenon, <1>3 DEF Hears, Sync

\* req_received keeps up with the host, which may accept the REQ or not.
LEMMA ReqReceivedSync ==
    ASSUME NEW t, NEW E, NEW R, NEW E2, NEW p \in AnyNetPacket, p.attr = "REQ",
           PacketFits(E, R, p), Hears(t, E, R, E2, From(p)),
           NEW x, Takes(E, E2, From(p), x), NEW new \in Free(t)
    PROVE  net_abort(t, p, new) = "none" /\ Sync(net_handlers(t, p, new), E2, R)
<1>. DEFINE y == From(p)
            q == p.local_qpn
            g == get_flow(t, 0, y, new)
            f == t.remote_map[y]
<1>1. /\ Sound(t) /\ t \in TrackerType /\ y \in CmFlowKey /\ IsKey(y) /\ y \in R
      /\ q \in Id0(Qpn) /\ q # 0 /\ q = E[y].qpn /\ from_src(p, p.local_comm_id) = y
  BY Zenon DEF Hears, Sound, PacketFits, AnyNetPacket, Packet, from_src, From
<1>2. CASE f = NULL
  <2>. DEFINE s == [NewFlowState EXCEPT !.remote_id = y]
              v == SetState(g, new, "REQ_RCVD")
              u == SetRemoteQpn(v, new, q)
              s1 == [s EXCEPT !.state = "REQ_RCVD"]
              s2 == [s1 EXCEPT !.remote_qpn = q]
  <2>1. /\ Edit(t, g, 0, NULL, y, new, new, s) /\ lookup(g, 0, y) = new
        /\ get_flow_abort(t, 0, y) = "none" /\ new \in Ptr
    BY <1>1, <1>2, GetKeyNew, Zenon
  <2>2. g.flow[new] = s /\ s \in FlowState /\ new # NULL
    BY <2>1, EditRead
  <2>3. s.state = "IDLE" /\ s.local_id = 0 /\ s.remote_id = y
    BY Zenon DEF NewFlowState
  <2>. HIDE DEF s, g
  <2>4. net_handlers(t, p, new) = u /\ net_abort(t, p, new) = "none"
    BY Zenon, <1>1, <2>1, <2>2, <2>3 DEF net_handlers, net_abort, req_received, req_received_abort, g
  <2>5. Edit(t, v, 0, NULL, y, new, new, s1)
    BY Zenon, <1>1, <2>1, EditFields DEF FLOW_STATES
  <2>6. Edit(t, u, 0, NULL, y, new, new, s2)
    BY Zenon, <1>1, <2>1, <2>5, EditFields DEF FLOW_STATES
  <2>7. s2.state = "REQ_RCVD" /\ s2.local_id = 0 /\ s2.remote_id = y /\ s2.remote_qpn = q
    BY <2>2, <2>3 DEF FlowState
  <2>8. RequestFiled(s2)
    BY Zenon, <1>1, <2>7 DEF RequestFiled
  <2>9. Indexed(u)
    BY Zenon, <1>1, <2>4, NetHandlersSound DEF Sound
  <2>. HIDE DEF u, s2
  <2>10. KeyEdit(t, u, y, new, new, s2)
    BY <2>1, <2>6, <2>9 DEF KeyEdit
  <2>0. KeepsOthers(t, u, E, E2, R, y)
    BY Zenon, <2>8, <2>10, KeyEditOthers
  <2>11. u.remote_map[y] = new /\ u.flow[new] = s2
    BY Zenon, <1>1, <2>1, <2>6, MarkersAssumption DEF Edit, TrackerType
  <2>12. ASSUME NEW w \in HostEnd PROVE Follows(u, E2, w) /\ LocalFiled(u, E2, w)
    <3>1. CASE w # x
      <4>1. E2[w] = E[w]
        BY Zenon, <3>1 DEF Takes
      <4>. QED
        BY Zenon, <1>2, <2>8, <2>10, <4>1, NewRequestOthers
    <3>2. CASE w = x
      <4>1. E[x].state = "IDLE" /\ E2[x].state = "REQ_RCVD" /\ E2[x].other = y
        BY <3>2 DEF Takes
      <4>2. t.local_map[x[2]] = NULL
        BY Zenon, <3>2, <4>1 DEF Hears, Sync, Follows
      <4>3. u.local_map[x[2]] = NULL
        BY Zenon, <2>0, <3>2, <4>2, HostEnds DEF KeepsOthers
      <4>4. Follows(u, E2, x)
        BY Zenon, <2>2, <2>7, <2>11, <4>1, <4>3 DEF Follows, Linked, Over
      <4>5. LocalFiled(u, E2, x)
        BY <4>3 DEF LocalFiled
      <4>. QED
        BY Zenon, <3>2, <4>4, <4>5
    <3>. QED
      BY Zenon, <3>1, <3>2
  <2>13. ASSUME NEW k \in CmFlowKey PROVE RemoteFiled(u, R, k)
    <3>1. CASE k = y
      BY Zenon, <1>1, <2>7, <2>11, <3>1 DEF RemoteFiled
    <3>2. CASE k # y
      BY Zenon, <2>0, <3>2 DEF KeepsOthers
    <3>. QED
      BY <3>1, <3>2
  <2>14. \A h \in Ptr : RequestFiled(u.flow[h])
    BY Zenon, <2>0 DEF KeepsOthers
  <2>. QED
    BY Zenon, <2>4, <2>12, <2>13, <2>14 DEF Sync
<1>3. CASE f # NULL
  <2>. DEFINE s == t.flow[f]
  <2>1. /\ g = t /\ lookup(t, 0, y) = f /\ get_flow_abort(t, 0, y) = "none"
    BY <1>1, <1>3 DEF get_flow, lookup, get_flow_abort
  <2>2. f \in Ptr /\ s \in FlowState /\ s.remote_id = y
    BY ZenonT(30), <1>1, <1>3 DEF Sound, TrackerType, Indexed
  <2>3. s.state # "IDLE"
    <3>1. CASE s.local_id = 0
      BY Zenon, <1>1, <1>3, <3>1 DEF Hears, Sync, RemoteFiled
    <3>2. CASE s.local_id # 0
      <4>1. Owned(t, E, y)
        BY Zenon, <1>3, <3>2, KeyOwner
      <4>. QED
        BY Zenon, <4>1 DEF Owned
    <3>. QED
      BY Zenon, <3>1, <3>2
  <2>4. s.state = "REQ_RCVD" => s.remote_qpn = q
    BY ZenonT(30), <1>1, <2>2 DEF Hears, Sync, RequestFiled, Truthful, FlowTrue
  <2>5. s.state = "REQ_RCVD" => SetRemoteQpn(SetState(t, f, "REQ_RCVD"), f, q) = t
    <3>. SUFFICES ASSUME s.state = "REQ_RCVD"
                  PROVE  SetRemoteQpn(SetState(t, f, "REQ_RCVD"), f, q) = t
      BY Zenon
    <3>1. [s EXCEPT !.state = "REQ_RCVD"] = s /\ [s EXCEPT !.remote_qpn = q] = s
      BY Zenon, <2>2, <2>4 DEF FlowState
    <3>2. [t EXCEPT !.flow[f] = s] = t
      BY <1>1, <2>2 DEF TrackerType
    <3>3. /\ SetState(t, f, "REQ_RCVD") = [t EXCEPT !.flow[f] = [s EXCEPT !.state = "REQ_RCVD"]]
          /\ SetRemoteQpn(t, f, q) = [t EXCEPT !.flow[f] = [s EXCEPT !.remote_qpn = q]]
      BY Zenon DEF SetState, SetRemoteQpn
    <3>. QED
      BY Zenon, <3>1, <3>2, <3>3
  <2>. HIDE DEF g
  <2>6. net_handlers(t, p, new) = t /\ net_abort(t, p, new) = "none"
    BY Zenon, <1>1, <2>1, <2>3, <2>4, <2>5
       DEF net_handlers, net_abort, req_received, req_received_abort, g
  <2>7. Sync(t, E2, R)
    BY Zenon, <1>3, OldRequestSync
  <2>. QED
    BY Zenon, <2>6, <2>7
<1>. QED
  BY Zenon, <1>2, <1>3

\* The endpoints that wait for y are told that it has given up.
Refused(E, E2, y) ==
    \A w \in HostEnd : IF E[w].other = y /\ E[w].state \in {"REQ_RCVD", "REP_SENT"}
                       THEN E2[w].state = "CLOSED" /\ E2[w].other = y
                       ELSE E2[w] = E[w]

\* y has given up without having heard of an endpoint of the host.
Unheard(E, y) == E[y].state = "CLOSED" /\ ~Full(E[y].other)

\* The flow that add_new_flow makes for such a packet is erased at once.
LEMMA RefuseNothing ==
    ASSUME NEW t, NEW E, NEW R, NEW E2, NEW y, Hears(t, E, R, E2, y), Refused(E, E2, y),
           t.remote_map[y] = NULL, NEW new \in Free(t)
    PROVE  Sync(erase_flow(get_flow(t, 0, y, new), 0, y), E2, R)
<1>. DEFINE g == get_flow(t, 0, y, new)
            u == erase_flow(g, 0, y)
            s == [NewFlowState EXCEPT !.remote_id = y]
            s2 == [s EXCEPT !.in_qpn_map = FALSE]
<1>1. /\ Sound(t) /\ t \in TrackerType /\ Indexed(t) /\ y \in CmFlowKey /\ IsKey(y)
      /\ 0 \in Id0(HostId)
  BY DEF Hears, Sound, Id0
<1>2. /\ Edit(t, g, 0, NULL, y, new, new, s) /\ lookup(g, 0, y) = new
      /\ new \in Ptr /\ Sound(g)
  BY <1>1, GetKeyNew, Zenon
<1>3. s.state = "IDLE" /\ s2.state = s.state
  BY DEF NewFlowState
<1>. HIDE DEF s, g, s2
<1>4. Edit(t, u, 0, NULL, y, NULL, new, s2)
  BY Zenon, <1>1, <1>2, EraseEdit DEF s2
<1>. HIDE DEF u
<1>5. u.local_map = t.local_map /\ u.remote_map = t.remote_map
  <2>1. /\ \A l \in Id0(HostId) : u.local_map[l] = t.local_map[l]
        /\ \A k \in CmFlowKey : u.remote_map[k] = t.remote_map[k]
    BY Zenon, <1>1, <1>4 DEF Edit, Indexed
  <2>. QED
    BY SMTT(30), <1>1, <1>4, <2>1 DEF Edit, TrackerType
<1>6. \A f \in Live(t) : u.flow[f] = t.flow[f]
  BY Zenon, <1>4 DEF Edit, Live, Free
<1>7. \A f \in Ptr : RequestFiled(u.flow[f])
  BY Zenon, <1>3, <1>4 DEF Edit, Hears, Sync, RequestFiled
<1>8. Sync(u, E, R)
  BY Zenon, <1>1, <1>5, <1>6, <1>7, AgreeSync DEF Hears
<1>9. ASSUME NEW w \in HostEnd PROVE E2[w] = E[w]
  <2>1. Follows(t, E, w)
    BY DEF Hears, Sync
  <2>2. E[w].other = y => E[w].state \notin {"REQ_RCVD", "REP_SENT"}
    BY Zenon, <2>1 DEF Follows, Linked
  <2>. QED
    BY Zenon, <2>2 DEF Refused
<1>10. \A z \in Ends : E2[z] = E[z]
  BY Zenon, <1>9 DEF Hears, Ends
<1>. QED
  BY Zenon, <1>8, <1>10, StaySync DEF Hears, u, g

\* A request of y stays where it is.
LEMMA RefuseRequest ==
    ASSUME NEW t, NEW E, NEW R, NEW E2, NEW y, Hears(t, E, R, E2, y), Refused(E, E2, y),
           t.remote_map[y] # NULL, t.flow[t.remote_map[y]].state = "REQ_RCVD"
    PROVE  Sync(t, E2, R)
<1>1. ASSUME NEW w \in HostEnd PROVE Follows(t, E2, w) /\ LocalFiled(t, E2, w)
  <2>1. Follows(t, E, w)
    BY DEF Hears, Sync
  <2>2. CASE E[w].other = y /\ E[w].state \in {"REQ_RCVD", "REP_SENT"}
    <3>1. E[w].state = "REQ_RCVD"
      BY Zenon, <2>1, <2>2 DEF Follows, Linked
    <3>2. t.local_map[w[2]] = NULL /\ E2[w].state = "CLOSED"
      BY Zenon, <2>1, <2>2, <3>1 DEF Follows, Refused
    <3>. QED
      BY Zenon, <3>2 DEF Follows, LocalFiled, Leftover, Linked, Over
  <2>3. CASE ~(E[w].other = y /\ E[w].state \in {"REQ_RCVD", "REP_SENT"})
    BY Zenon, <2>3, HostSame DEF Refused, Hears
  <2>. QED
    BY Zenon, <2>2, <2>3
<1>. QED
  BY Zenon, <1>1 DEF Hears, Sync

\* The flow of an endpoint that has sent its REP to y loses its key.
LEMMA RefuseReply ==
    ASSUME NEW t, NEW E, NEW R, NEW E2, NEW y, Hears(t, E, R, E2, y), Refused(E, E2, y),
           Unheard(E, y), t.remote_map[y] # NULL,
           t.flow[t.remote_map[y]].state = "REP_SENT",
           NEW w \in HostEnd, t.local_map[w[2]] = t.remote_map[y], E[w].other = y,
           E[w].state \in {"REP_SENT", "CLOSED"}
    PROVE  Sync(erase_flow(t, 0, y), E2, R)
<1>. DEFINE f == t.remote_map[y]
            s == t.flow[f]
            u == erase_flow(t, 0, y)
            s2 == [s EXCEPT !.in_qpn_map = FALSE]
<1>1. /\ Sound(t) /\ t \in TrackerType /\ Indexed(t) /\ y \in CmFlowKey /\ IsKey(y)
      /\ 0 \in Id0(HostId) /\ y \in Ends /\ E2[y] = E[y]
  BY KeysAreEnds DEF Hears, Sound, Id0
<1>2. f \in Ptr /\ s \in FlowState /\ s.remote_id = y /\ lookup(t, 0, y) = f
  BY ZenonT(30), <1>1 DEF TrackerType, Indexed, lookup
<1>3. s2.state = "REP_SENT" /\ s2.remote_id = y
  BY Zenon, <1>2 DEF FlowState
<1>4. Edit(t, t, 0, NULL, y, f, f, s)
  <2>1. t.local_map[0] = NULL
    BY <1>1 DEF Indexed
  <2>. QED
    BY Zenon, <1>1, <2>1, EditSelf
<1>. HIDE DEF s
<1>5. Edit(t, u, 0, NULL, y, NULL, f, s2)
  BY Zenon, <1>1, <1>2, <1>4, EraseEdit
<1>6. Indexed(u)
  BY <1>1, <1>2, EraseFlowSound DEF Sound
<1>. HIDE DEF u, s2
<1>7. KeepsOthers(t, u, E, E2, R, y)
  <2>1. KeyEdit(t, u, y, NULL, f, s2) /\ RequestFiled(s2)
    BY Zenon, <1>2, <1>3, <1>5, <1>6 DEF KeyEdit, RequestFiled
  <2>. QED
    BY Zenon, <2>1, KeyEditOthers
<1>8. u.remote_map[y] = NULL /\ u.flow[f] = s2 /\ f # NULL
  BY Zenon, <1>1, <1>2, <1>5, MarkersAssumption DEF Edit, TrackerType
<1>9. Follows(u, E2, w) /\ LocalFiled(u, E2, w)
  <2>1. E2[w].state = "CLOSED" /\ E2[w].other = y
    BY DEF Refused
  <2>2. u.local_map[w[2]] = f
    BY Zenon, <1>7, HostEnds DEF KeepsOthers
  <2>3. Leftover(u, E2, w)
    BY Zenon, <1>1, <1>3, <1>8, <2>1, <2>2 DEF Leftover, Unheard
  <2>. QED
    BY ZenonT(30), <1>3, <1>8, <2>1, <2>2, <2>3 DEF Follows, LocalFiled, Linked, Over
<1>10. ASSUME NEW v \in HostEnd, v # w PROVE Follows(u, E2, v) /\ LocalFiled(u, E2, v)
  <2>1. E[v].other # y
    <3>1. v \in Ends /\ w \in Ends /\ w[1] = v[1] /\ Paired(E, w, y)
      BY Zenon, HostEnds DEF Paired
    <3>. QED
      BY Zenon, <1>1, <1>10, <3>1, PartnerUnique DEF Hears
  <2>2. E2[v] = E[v]
    BY Zenon, <2>1 DEF Refused
  <2>. QED
    BY Zenon, <1>7, <2>1, <2>2 DEF KeepsOthers
<1>11. ASSUME NEW k \in CmFlowKey PROVE RemoteFiled(u, R, k)
  <2>1. CASE k = y
    BY <1>8, <2>1 DEF RemoteFiled
  <2>2. CASE k # y
    BY Zenon, <1>7, <2>2 DEF KeepsOthers
  <2>. QED
    BY ZenonT(30), <2>1, <2>2
<1>12. \A h \in Ptr : RequestFiled(u.flow[h])
  BY Zenon, <1>7 DEF KeepsOthers
<1>13. \A v \in HostEnd : Follows(u, E2, v) /\ LocalFiled(u, E2, v)
  BY Zenon, <1>9, <1>10
<1>. QED
  BY Zenon, <1>11, <1>12, <1>13 DEF Sync, u

\* A REJ of a peer that has given up without having heard of an endpoint.
LEMMA RejUnknownSync ==
    ASSUME NEW t, NEW E, NEW R, NEW E2, NEW p \in AnyNetPacket, p.attr = "REJ",
           p.remote_comm_id = 0, PacketFits(E, R, p), Hears(t, E, R, E2, From(p)),
           Refused(E, E2, From(p)), NEW new \in Free(t)
    PROVE  net_abort(t, p, new) = "none" /\ Sync(net_handlers(t, p, new), E2, R)
<1>. DEFINE y == From(p)
            g == get_flow(t, 0, y, new)
            f == t.remote_map[y]
<1>1. /\ Sound(t) /\ t \in TrackerType /\ y \in CmFlowKey /\ IsKey(y) /\ y \in Ends
      /\ from_src(p, p.local_comm_id) = y
  BY Zenon DEF Hears, Sound, PacketFits, from_src, From
<1>2. Unheard(E, y)
  <2>1. E[y].state \notin {"IDLE", "REQ_SENT"} /\ E[y].other = Dest(p)
    BY Zenon DEF PacketFits
  <2>2. ~Full(E[y].other)
    BY SMTT(30), <2>1 DEF Full, Dest
  <2>. QED
    BY Zenon, <1>1, <2>1, <2>2 DEF Hears, Pairing, EndFits, Unheard
<1>3. CASE f = NULL
  <2>1. /\ Edit(t, g, 0, NULL, y, new, new, [NewFlowState EXCEPT !.remote_id = y])
        /\ lookup(g, 0, y) = new
        /\ get_flow_abort(t, 0, y) = "none" /\ new \in Ptr
    BY <1>1, <1>3, GetKeyNew, Zenon
  <2>2. g.flow[new].state = "IDLE"
    BY Zenon, <2>1, MarkersAssumption DEF Edit, TrackerType, NewFlowState
  <2>3. Sync(erase_flow(g, 0, y), E2, R)
    BY Zenon, <1>3, RefuseNothing
  <2>. HIDE DEF g
  <2>4. net_handlers(t, p, new) = erase_flow(g, 0, y) /\ net_abort(t, p, new) = "none"
    BY Zenon, <1>1, <2>1, <2>2 DEF net_handlers, net_abort, rej_received, rej_received_abort, g
  <2>. QED
    BY <2>3, <2>4
<1>4. CASE f # NULL
  <2>. DEFINE s == t.flow[f]
  <2>1. /\ g = t /\ lookup(t, 0, y) = f /\ get_flow_abort(t, 0, y) = "none"
    BY Zenon, <1>1, <1>4 DEF get_flow, lookup, get_flow_abort
  <2>. HIDE DEF g
  <2>2. CASE s.state = "REQ_RCVD"
    <3>1. net_handlers(t, p, new) = t /\ net_abort(t, p, new) = "none"
      BY Zenon, <1>1, <2>1, <2>2 DEF net_handlers, net_abort, rej_received, rej_received_abort, g
    <3>. QED
      BY Zenon, <1>4, <2>2, <3>1, RefuseRequest
  <2>3. CASE s.state # "REQ_RCVD"
    <3>1. s.local_id # 0
      BY Zenon, <1>1, <1>4, <2>3 DEF Hears, Sync, RemoteFiled
    <3>2. PICK w \in HostEnd : /\ t.local_map[w[2]] = f /\ E[w].other = y
                               /\ E[w].state \in Linked \cup Over /\ s.state # "IDLE"
      <4>1. Owned(t, E, y)
        BY Zenon, <1>4, <3>1, KeyOwner
      <4>. QED
        BY Zenon, <4>1 DEF Owned
    <3>3. w \in Ends /\ Follows(t, E, w) /\ EndFits(E, R, w)
      BY Zenon, HostEnds DEF Hears, Sync, Pairing
    <3>4. E[w].state \in {"REP_SENT", "CLOSED"}
      <4>1. E[y].other # w
        BY Zenon, <1>2, <3>3, EndsArePairs DEF Unheard
      <4>. QED
        BY Zenon, <3>2, <3>3, <4>1 DEF EndFits, Mutual, Linked, Over
    <3>5. s.state = "REP_SENT"
      <4>1. CASE E[w].state = "REP_SENT"
        BY Zenon, <3>2, <3>3, <4>1 DEF Follows, Linked
      <4>2. CASE E[w].state = "CLOSED"
        BY Zenon, <1>4, <2>3, <3>2, <3>3, <4>2 DEF Follows, Leftover, Over
      <4>. QED
        BY <3>4, <4>1, <4>2
    <3>6. net_handlers(t, p, new) = erase_flow(t, 0, y) /\ net_abort(t, p, new) = "none"
      BY <1>1, <2>1, <3>5 DEF net_handlers, net_abort, rej_received, rej_received_abort, g
    <3>7. Sync(erase_flow(t, 0, y), E2, R)
      BY Zenon, <1>2, <1>4, <3>2, <3>4, <3>5, RefuseReply
    <3>. QED
      BY <3>6, <3>7
  <2>. QED
    BY Zenon, <2>2, <2>3
<1>. QED
  BY Zenon, <1>3, <1>4

-----------------------------------------------------------------------------
(* Steps that the tracker does not see *)

\* What peers do among themselves does not concern the tracker.
LEMMA PeerSync ==
    ASSUME NEW t, NEW E, NEW R, Sync(t, E, R), Facing(E), NEW E2, NEW R2, R \subseteq R2,
           \A w \in HostEnd : E2[w] = E[w],
           \A z \in PeerEnd : E[z].state = "CLOSED" => E2[z] = E[z]
    PROVE  Sync(t, E2, R2)
<1>1. \A w \in HostEnd : Follows(t, E2, w) /\ LocalFiled(t, E2, w)
  BY HostSame
<1>. QED
  BY Zenon, <1>1 DEF Sync, RemoteFiled

\* The host gives up a disconnect; its flow stays.
LEMMA AbandonSync ==
    ASSUME NEW t, NEW E, NEW R, NEW E2, NEW R2, NEW x, Moves(t, E, R, E2, R2, x),
           E[x].state = "DREQ_SENT", E2[x].state = "ABANDONED"
    PROVE  Sync(t, E2, R2)
<1>1. ASSUME NEW w \in HostEnd, w # x PROVE Follows(t, E2, w) /\ LocalFiled(t, E2, w)
  <2>1. E2[w] = E[w] /\ \A z \in PeerEnd : E2[z] = E[z]
    BY Zenon, <1>1, HostEnds, SystemAssumption DEF Moves, Ends, HostEnd, PeerEnd
  <2>. QED
    BY Zenon, <2>1, HostSame DEF Moves
<1>2. x \in HostEnd /\ x \in Ends /\ Follows(t, E, x) /\ LocalFiled(t, E, x)
  BY HostEnds DEF Moves, Sync
<1>3. E2[x].other = E[x].other
  BY Zenon, <1>2 DEF Moves, Pairing, EndFits
<1>4. Leftover(t, E2, x)
  BY Zenon, <1>2, <1>3 DEF Follows, Leftover, Linked
<1>5. Follows(t, E2, x) /\ LocalFiled(t, E2, x)
  BY Zenon, <1>2, <1>3, <1>4 DEF Follows, LocalFiled, Linked, Over
<1>6. \A w \in HostEnd : Follows(t, E2, w) /\ LocalFiled(t, E2, w)
  BY Zenon, <1>1, <1>5
<1>. QED
  BY Zenon, <1>6 DEF Moves, Sync, RemoteFiled
=============================================================================
