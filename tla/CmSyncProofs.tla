---------------------------- MODULE CmSyncProofs ----------------------------
(***************************************************************************)
(* The tracker keeps up with the host, for any number of peers, ids, QPNs  *)
(* and connections, as long as no endpoint uses an id twice                *)
(* (Reusable = {}), the tracker is not replaced and the host receives what *)
(* the tracker has seen (InStep).  So no assert fails, every open          *)
(* connection is answered, and a closed one is not.                        *)
(***************************************************************************)
EXTENDS CmAnswerProofs, CmFlowProofs

-----------------------------------------------------------------------------
(* Packets of the host *)

\* req_sent keeps up with a host endpoint that connects.
LEMMA ReqSentSync ==
    ASSUME NEW t, NEW E, NEW R, NEW E2, NEW R2, NEW x, Moves(t, E, R, E2, R2, x),
           E[x].state = "IDLE", E2[x].state = "REQ_SENT", NEW new \in Free(t),
           NEW p \in AnyHostPacket, p.attr = "REQ", p.local_comm_id = x[2], p.local_qpn # 0
    PROVE  host_abort(t, p, new) = "none" /\ Sync(host_handlers(t, p, new), E2, R2)
<1>. DEFINE l == x[2]
            q == p.local_qpn
            g == get_flow(t, l, NoKey, new)
            u == SetLocalQpn(SetState(g, new, "REQ_SENT"), new, q)
            s == [NewFlowState EXCEPT !.local_id = l,
                                      !.remote_id = IF IsKey(NoKey) THEN NoKey ELSE @]
            s1 == [s EXCEPT !.state = "REQ_SENT"]
            s2 == [s1 EXCEPT !.local_qpn = q]
<1>1. /\ x \in HostEnd /\ l \in Id0(HostId) /\ l \in HostId /\ Sound(t)
      /\ NoKey \in CmFlowKey /\ ~IsKey(NoKey) /\ t.local_map[l] = NULL
  BY Zenon, HostEnds DEF Moves, Sync, Follows, CmFlowKey, NoKey, Id0, IsKey
<1>2. t.remote_map[NoKey] = NULL
  BY <1>1 DEF Sound, Indexed
<1>3. /\ Edit(t, g, l, new, NoKey, IF IsKey(NoKey) THEN new ELSE NULL, new, s)
      /\ lookup(g, l, NoKey) = new
      /\ get_flow_abort(t, l, NoKey) = "none" /\ new \in Ptr
  BY <1>1, <1>2, GetNew, Zenon
<1>4. Edit(t, g, l, new, NoKey, NULL, new, s)
  BY Zenon, <1>1, <1>3
<1>5. q \in Id0(Qpn)
  BY DEF AnyHostPacket, Packet
<1>. HIDE DEF s
<1>6. Edit(t, SetState(g, new, "REQ_SENT"), l, new, NoKey, NULL, new, s1)
  BY Zenon, <1>3, <1>4, <1>5, EditFields DEF FLOW_STATES
<1>7. Edit(t, u, l, new, NoKey, NULL, new, s2)
  BY Zenon, <1>3, <1>5, <1>6, EditFields DEF FLOW_STATES
<1>8. s.state = "IDLE" /\ s2.state = "REQ_SENT" /\ s2.local_id = l /\ s2.remote_id = NoKey
      /\ s2.local_qpn = q
  BY <1>1 DEF NewFlowState, s
<1>9. g.flow[new] = s
  BY Zenon, <1>3, <1>4, MarkersAssumption DEF Edit, TrackerType
<1>10. host_handlers(t, p, new) = u /\ host_abort(t, p, new) = "none"
  BY ZenonT(30), <1>3, <1>8, <1>9 DEF host_handlers, host_abort, req_sent
<1>11. Indexed(u)
  BY Zenon, <1>1, <1>10, HostHandlersSound DEF Sound
<1>. HIDE DEF u, s2
<1>12. u.local_map[l] = new /\ u.flow[new] = s2 /\ new # NULL
  BY Zenon, <1>1, <1>3, <1>7, MarkersAssumption DEF Edit, TrackerType
<1>13. EditStep(t, E, R, u, E2, R2, x, NoKey, new, NULL, new, s2)
  BY Zenon, <1>1, <1>3, <1>7, <1>8, <1>11 DEF EditStep, Moves, Sound
<1>14. Follows(u, E2, x)
  BY Zenon, <1>1, <1>8, <1>12 DEF Follows, Over, Linked
<1>15. LocalFiled(u, E2, x) /\ RequestFiled(s2)
  BY Zenon, <1>1, <1>8, <1>12 DEF LocalFiled, RequestFiled
<1>. QED
  BY Zenon, <1>10, <1>13, <1>14, <1>15, EditSync

\* g is t with the local id of x put to f, the flow s of a request from r.
Taken(t, x, r, g, f, s) ==
    /\ r \in CmFlowKey /\ IsKey(r) /\ f \in Ptr /\ t.local_map[x[2]] = NULL
    /\ Edit(t, g, x[2], f, r, f, f, s) /\ Sound(g)
    /\ s \in FlowState /\ s.local_id = x[2] /\ s.remote_id = r
    /\ s.state = "REQ_RCVD" /\ s.remote_qpn # 0
    /\ lookup(g, x[2], r) = f /\ get_flow_abort(t, x[2], r) = "none"

\* The flow of the request that x has received.
LEMMA RequestOf ==
    ASSUME NEW t, NEW E, NEW R, NEW E2, NEW R2, NEW x, Moves(t, E, R, E2, R2, x),
           E[x].state = "REQ_RCVD", NEW new \in Free(t)
    PROVE  LET r == E[x].other
               f == t.remote_map[r]
               s == [t.flow[f] EXCEPT !.local_id = x[2]]
               g == get_flow(t, x[2], r, new)
           IN  Taken(t, x, r, g, f, s)
<1>. DEFINE r == E[x].other
            f == t.remote_map[r]
            s == [t.flow[f] EXCEPT !.local_id = x[2]]
            g == get_flow(t, x[2], r, new)
<1>1. x \in HostEnd /\ x \in Ends /\ x[2] \in HostId /\ x[2] \in Id0(HostId) /\ Sound(t)
  BY Zenon, HostEnds DEF Moves
<1>2. r \in CmFlowKey /\ IsKey(r)
  BY Zenon, <1>1 DEF Moves, Facing, Pairing, EndFits
<1>3. t.local_map[x[2]] = NULL /\ f # NULL /\ t.flow[f].local_id = 0
  BY Zenon, <1>1 DEF Moves, Sync, Follows
<1>4. /\ Edit(t, g, x[2], f, r, f, f, s)
      /\ lookup(g, x[2], r) = f /\ get_flow_abort(t, x[2], r) = "none" /\ f \in Ptr
  BY <1>1, <1>2, <1>3, GetLink, Zenon
<1>5. Sound(g)
  BY <1>1, <1>2, <1>4, GetFlowSound, Zenon
<1>6. t.flow[f].state = "REQ_RCVD"
  BY Zenon, <1>2, <1>3 DEF Moves, Sync, RemoteFiled
<1>7. t.flow[f].remote_qpn # 0 /\ t.flow[f].remote_id = r /\ t.flow[f] \in FlowState
  BY Zenon, <1>1, <1>2, <1>3, <1>4, <1>6
     DEF Moves, Sync, RequestFiled, Sound, Indexed, TrackerType
<1>8. /\ s \in FlowState /\ s.local_id = x[2] /\ s.remote_id = r
      /\ s.state = "REQ_RCVD" /\ s.remote_qpn # 0
  BY Zenon, <1>1, <1>6, <1>7 DEF FlowState
<1>. HIDE DEF s, g
<1>. QED
  BY Zenon, <1>2, <1>3, <1>4, <1>5, <1>8 DEF Taken, s, g

\* rep_sent keeps up with a host endpoint that accepts.
LEMMA RepSentSync ==
    ASSUME NEW t, NEW E, NEW R, NEW E2, NEW R2, NEW x, Moves(t, E, R, E2, R2, x),
           E[x].state = "REQ_RCVD", E2[x].state = "REP_SENT", NEW new \in Free(t),
           NEW p \in AnyHostPacket, p.attr = "REP", p.local_comm_id = x[2], p.local_qpn # 0,
           Dest(p) = E[x].other
    PROVE  host_abort(t, p, new) = "none" /\ Sync(host_handlers(t, p, new), E2, R2)
<1>. DEFINE l == x[2]
            q == p.local_qpn
            r == E[x].other
            f == t.remote_map[r]
            g == get_flow(t, l, r, new)
            v == SetState(g, f, "REP_SENT")
            u == SetLocalQpn(v, f, q)
            s == [t.flow[f] EXCEPT !.local_id = l]
            s1 == [s EXCEPT !.state = "REP_SENT"]
            s2 == [s1 EXCEPT !.local_qpn = q]
<1>1. /\ l \in HostId /\ Sound(t) /\ from_dest(p, p.remote_comm_id) = r
  BY HostEnds DEF Moves, Dest, from_dest
<1>. HIDE DEF s, g
<1>0. Taken(t, x, r, g, f, s)
  BY RequestOf, Zenon DEF s, g
<1>2. /\ r \in CmFlowKey /\ IsKey(r) /\ f \in Ptr /\ t.local_map[l] = NULL
      /\ Edit(t, g, l, f, r, f, f, s) /\ Sound(g)
      /\ s \in FlowState /\ s.local_id = l /\ s.remote_id = r
      /\ s.state = "REQ_RCVD" /\ s.remote_qpn # 0
      /\ lookup(g, l, r) = f /\ get_flow_abort(t, l, r) = "none"
  BY Zenon, <1>0 DEF Taken
<1>3. q \in Id0(Qpn)
  BY DEF AnyHostPacket, Packet
<1>4. Edit(t, v, l, f, r, f, f, s1)
  BY Zenon, <1>2, <1>3, EditFields DEF FLOW_STATES
<1>5. Edit(t, u, l, f, r, f, f, s2)
  BY Zenon, <1>2, <1>3, <1>4, EditFields DEF FLOW_STATES
<1>6. add_new_flow_ok(g, l, r)
  BY ZenonT(30), <1>1, <1>2, AddAgain
<1>7. add_new_flow(v, l, r, new) = v
  <2>. HIDE DEF l, r, f, v, s1
  <2>. QED
    BY <1>1, <1>2, <1>4, AddAgain
<1>8. g.flow[f].state = "REQ_RCVD"
  BY Zenon, <1>2, MarkersAssumption DEF Edit, TrackerType
<1>9. host_handlers(t, p, new) = u /\ host_abort(t, p, new) = "none"
  BY Zenon, <1>1, <1>2, <1>6, <1>7, <1>8
     DEF host_handlers, host_abort, rep_sent, rep_sent_abort, g
<1>10. Indexed(u)
  BY Zenon, <1>1, <1>9, HostHandlersSound DEF Sound
<1>11. /\ s2.state = "REP_SENT" /\ s2.local_id = l /\ s2.remote_id = r
       /\ s2.local_qpn # 0 /\ s2.remote_qpn # 0
  BY Zenon, <1>2 DEF FlowState
<1>12. E2[x].other = r
  BY Zenon, <1>2, KeysAreEnds, EndsArePairs DEF Moves
<1>. HIDE DEF u, s2
<1>13. Sync(u, E2, R2)
  BY Zenon, <1>2, <1>5, <1>10, <1>11, <1>12, LinkedSync DEF Linked
<1>. QED
  BY Zenon, <1>9, <1>13

\* rej_sent keeps up with a host endpoint that rejects or gives up.
LEMMA RejSentSync ==
    ASSUME NEW t, NEW E, NEW R, NEW E2, NEW R2, NEW x, Moves(t, E, R, E2, R2, x),
           E[x].state \in {"REQ_RCVD", "REP_RCVD", "REQ_SENT", "REP_SENT"},
           E2[x].state = "CLOSED", E2[x].other = E[x].other, NEW new \in Free(t),
           NEW p \in AnyHostPacket, p.attr = "REJ", p.local_comm_id = x[2],
           Dest(p) = E[x].other
    PROVE  host_abort(t, p, new) = "none" /\ Sync(host_handlers(t, p, new), E2, R2)
<1>. DEFINE l == x[2]
            r == E[x].other
            g == get_flow(t, l, r, new)
            u == erase_flow(g, l, r)
<1>1. /\ x \in HostEnd /\ l \in HostId /\ Sound(t) /\ from_dest(p, p.remote_comm_id) = r
      /\ r \in CmFlowKey /\ Paired(E2, x, r)
  BY Zenon, HostEnds DEF Moves, Dest, from_dest, Facing, Paired
<1>2. CASE E[x].state = "REQ_RCVD"
  <2>. DEFINE f == t.remote_map[r]
              s == [t.flow[f] EXCEPT !.local_id = l]
  <2>. HIDE DEF s, g
  <2>1. Taken(t, x, r, g, f, s)
    BY <1>2, RequestOf, Zenon DEF s, g
  <2>2. g.flow[lookup(g, l, r)].state = "REQ_RCVD" /\ get_flow_abort(t, l, r) = "none"
    BY Zenon, <2>1, MarkersAssumption DEF Edit, TrackerType, Taken
  <2>3. host_handlers(t, p, new) = u /\ host_abort(t, p, new) = "none"
    BY Zenon, <1>1, <2>2 DEF host_handlers, host_abort, rej_sent, rej_sent_abort, g
  <2>4. Sync(u, E2, R2)
    BY Zenon, <1>1, <2>1, EraseSync DEF Taken, RequestFiled, Over
  <2>. QED
    BY Zenon, <2>3, <2>4
<1>3. CASE E[x].state # "REQ_RCVD"
  <2>. DEFINE f == t.local_map[l]
              s == t.flow[f]
  <2>0. HasFlow(E[x])
    BY <1>3 DEF HasFlow, Linked
  <2>1. /\ f \in Ptr /\ f # NULL /\ s \in FlowState
        /\ s.local_id = l /\ s.state = E[x].state
        /\ g = t /\ lookup(t, l, r) = f
        /\ get_flow_abort(t, l, r) = "none"
        /\ Edit(t, t, l, f, r, t.remote_map[r], f, s)
    <3>1. Found(t, E, x, r, new, f, s)
      BY <2>0, FlowOf, Zenon
    <3>. QED
      BY Zenon, <3>1 DEF Found
  <2>2. (IsKey(s.remote_id) => s.remote_id = r) /\ RequestFiled(s)
    BY <2>1, FlowKeyOf, Zenon
  <2>. HIDE DEF g
  <2>3. host_handlers(t, p, new) = u /\ host_abort(t, p, new) = "none"
    BY Zenon, <1>1, <1>3, <2>1 DEF host_handlers, host_abort, rej_sent, rej_sent_abort, g
  <2>. HIDE DEF s
  <2>4. Sync(u, E2, R2)
    <3>1. Sync(erase_flow(t, l, r), E2, R2)
      <4>1. t.local_map[x[2]] # NULL /\ IsKey(t.flow[t.local_map[x[2]]].remote_id) => IsKey(r)
        BY Zenon, <2>2 DEF s
      <4>. QED
        BY Zenon, <1>1, <2>1, <2>2, <4>1, EraseSync DEF Over
    <3>. QED
      BY Zenon, <2>1, <3>1
  <2>. QED
    BY <2>3, <2>4
<1>. QED
  BY Zenon, <1>2, <1>3

\* rtu_sent keeps up with a host endpoint that confirms.
LEMMA RtuSentSync ==
    ASSUME NEW t, NEW E, NEW R, NEW E2, NEW R2, NEW x, Moves(t, E, R, E2, R2, x),
           E[x].state = "REP_RCVD", E2[x].state = "ESTABLISHED", NEW new \in Free(t),
           NEW p \in AnyHostPacket, p.attr = "RTU", p.local_comm_id = x[2]
    PROVE  host_abort(t, p, new) = "none" /\ Sync(host_handlers(t, p, new), E2, R2)
<1>. DEFINE f == t.local_map[x[2]]
<1>1. /\ t.flow[f].state = E[x].state
      /\ get_flow(t, x[2], NoKey, new) = t /\ lookup(t, x[2], NoKey) = f
      /\ get_flow_abort(t, x[2], NoKey) = "none"
  <2>1. HasFlow(E[x])
    BY DEF HasFlow, Linked
  <2>2. Found(t, E, x, NoKey, new, f, t.flow[f])
    BY <2>1, FlowOf, Zenon
  <2>. QED
    BY Zenon, <2>2 DEF Found
<1>2. /\ host_handlers(t, p, new) = on_established(SetState(t, f, "ESTABLISHED"), f)
      /\ host_abort(t, p, new) = "none"
  BY <1>1 DEF host_handlers, host_abort, rtu_sent
<1>3. Sync(on_established(SetState(t, f, "ESTABLISHED"), f), E2, R2)
  BY EstablishSync, Zenon
<1>. QED
  BY Zenon, <1>2, <1>3

\* dreq_sent keeps up with a host endpoint that disconnects.
LEMMA DreqSentSync ==
    ASSUME NEW t, NEW E, NEW R, NEW E2, NEW R2, NEW x, Moves(t, E, R, E2, R2, x),
           E[x].state = "ESTABLISHED", E2[x].state = "DREQ_SENT", NEW new \in Free(t),
           NEW p \in AnyHostPacket, p.attr = "DREQ", p.local_comm_id = x[2]
    PROVE  host_abort(t, p, new) = "none" /\ Sync(host_handlers(t, p, new), E2, R2)
<1>. DEFINE f == t.local_map[x[2]]
<1>1. /\ t.flow[f].state = E[x].state
      /\ get_flow(t, x[2], NoKey, new) = t /\ lookup(t, x[2], NoKey) = f
      /\ get_flow_abort(t, x[2], NoKey) = "none"
  <2>1. HasFlow(E[x])
    BY DEF HasFlow, Linked
  <2>2. Found(t, E, x, NoKey, new, f, t.flow[f])
    BY <2>1, FlowOf, Zenon
  <2>. QED
    BY Zenon, <2>2 DEF Found
<1>2. /\ host_handlers(t, p, new) = SetState(t, f, "DREQ_SENT")
      /\ host_abort(t, p, new) = "none"
  BY Zenon, <1>1 DEF host_handlers, host_abort, dreq_sent
<1>3. Sync(SetState(t, f, "DREQ_SENT"), E2, R2)
  BY StateSync DEF Linked
<1>. QED
  BY Zenon, <1>2, <1>3

\* drep_sent keeps up with a host endpoint that answers a DREQ.
LEMMA DrepSentSync ==
    ASSUME NEW t, NEW E, NEW R, NEW E2, NEW R2, NEW x, Moves(t, E, R, E2, R2, x),
           E[x].state = "DREQ_RCVD", E2[x].state = "TIMEWAIT", NEW new \in Free(t),
           NEW p \in AnyHostPacket, p.attr = "DREP", p.local_comm_id = x[2],
           Dest(p) = E[x].other
    PROVE  host_abort(t, p, new) = "none" /\ Sync(host_handlers(t, p, new), E2, R2)
<1>. DEFINE f == t.local_map[x[2]]
<1>1. /\ t.flow[f].state = E[x].state
      /\ get_flow(t, x[2], NoKey, new) = t /\ lookup(t, x[2], NoKey) = f
      /\ get_flow_abort(t, x[2], NoKey) = "none"
  <2>1. HasFlow(E[x])
    BY DEF HasFlow, Linked
  <2>2. Found(t, E, x, NoKey, new, f, t.flow[f])
    BY <2>1, FlowOf, Zenon
  <2>. QED
    BY Zenon, <2>2 DEF Found
<1>2. /\ host_handlers(t, p, new) = erase_flow(t, x[2], E[x].other)
      /\ host_abort(t, p, new) = "none"
  BY Zenon, <1>1 DEF host_handlers, host_abort, drep_sent, from_dest, Dest
<1>3. Sync(erase_flow(t, x[2], E[x].other), E2, R2)
  BY Zenon, EraseLinked DEF Linked, Over
<1>. QED
  BY Zenon, <1>2, <1>3

\* The host repeats its last packet.
LEMMA RepeatSync ==
    ASSUME NEW t, NEW E, NEW R, NEW x, Moves(t, E, R, E, R, x), NEW new \in Free(t),
           NEW p \in AnyHostPacket, p.local_comm_id = x[2],
           p.attr = "REQ" => p.local_qpn # 0,
           <<E[x].state, p.attr>> \in
              {<<"REQ_SENT", "REQ">>, <<"REP_SENT", "REP">>, <<"ESTABLISHED", "RTU">>,
               <<"DREQ_SENT", "DREQ">>, <<"TIMEWAIT", "DREP">>}
    PROVE  host_abort(t, p, new) = "none" /\ Sync(host_handlers(t, p, new), E, R)
<1>. DEFINE l == x[2]
            f == t.local_map[l]
            s == t.flow[f]
            d == from_dest(p, p.remote_comm_id)
<1>1. x \in HostEnd /\ l \in HostId /\ l \in Id0(HostId) /\ Sound(t) /\ Sync(t, E, R)
  BY HostEnds DEF Moves
<1>2. ASSUME E[x].state # "TIMEWAIT", NEW r
      PROVE  Found(t, E, x, r, new, f, s)
  <2>1. HasFlow(E[x])
    BY Zenon, <1>2 DEF HasFlow, Linked
  <2>. QED
    BY <2>1, FlowOf, Zenon
<1>3. CASE p.attr = "REQ"
  <2>. DEFINE q == p.local_qpn
              u == SetLocalQpn(SetState(t, f, "REQ_SENT"), f, q)
              s1 == [s EXCEPT !.state = "REQ_SENT"]
              s2 == [s1 EXCEPT !.local_qpn = q]
  <2>1. E[x].state = "REQ_SENT" /\ ~IsKey(NoKey) /\ NoKey \in CmFlowKey /\ q \in Id0(Qpn)
    BY <1>3 DEF NoKey, IsKey, CmFlowKey, Id0, AnyHostPacket, Packet
  <2>2. Found(t, E, x, NoKey, new, f, s) /\ s.state = "REQ_SENT"
    BY Zenon, <1>2, <2>1 DEF Found
  <2>3. ~IsKey(s.remote_id) /\ t.remote_map[NoKey] = NULL
    BY Zenon, <1>1, <2>1 DEF Sync, Follows, Sound, Indexed
  <2>4. Edit(t, t, l, f, NoKey, NULL, f, s) /\ f \in Ptr /\ s \in FlowState /\ s.local_id = l
    BY Zenon, <2>2, <2>3 DEF Found
  <2>5. Edit(t, SetState(t, f, "REQ_SENT"), l, f, NoKey, NULL, f, s1)
    BY Zenon, <2>1, <2>4, EditFields DEF FLOW_STATES
  <2>6. Edit(t, u, l, f, NoKey, NULL, f, s2)
    BY ZenonT(30), <2>1, <2>4, <2>5, EditFields DEF FLOW_STATES
  <2>7. s2.state = "REQ_SENT" /\ s2.local_id = l /\ ~IsKey(s2.remote_id) /\ s2.local_qpn = q
    BY Zenon, <2>3, <2>4 DEF FlowState
  <2>8. host_handlers(t, p, new) = u /\ host_abort(t, p, new) = "none"
    BY Zenon, <1>3, <2>2 DEF host_handlers, host_abort, req_sent, Found
  <2>9. Indexed(u)
    BY Zenon, <1>1, <2>8, HostHandlersSound DEF Sound
  <2>. HIDE DEF u, s2
  <2>10. u.local_map[l] = f /\ u.flow[f] = s2 /\ f # NULL
    BY Zenon, <1>1, <2>4, <2>6, MarkersAssumption DEF Edit, TrackerType
  <2>11. EditStep(t, E, R, u, E, R, x, NoKey, f, NULL, f, s2)
    BY Zenon, <1>1, <2>1, <2>3, <2>4, <2>6, <2>7, <2>9 DEF EditStep, Moves, Sound
  <2>12. Follows(u, E, x)
    BY Zenon, <1>3, <2>1, <2>7, <2>10 DEF Follows, Over, Linked
  <2>13. LocalFiled(u, E, x) /\ RequestFiled(s2)
    BY Zenon, <2>7, <2>10 DEF LocalFiled, RequestFiled
  <2>. QED
    BY Zenon, <2>8, <2>11, <2>12, <2>13, EditSync
<1>4. CASE p.attr = "REP"
  <2>1. Found(t, E, x, d, new, f, s) /\ s.state = "REP_SENT"
    BY Zenon, <1>2, <1>4 DEF Found
  <2>2. host_handlers(t, p, new) = t /\ host_abort(t, p, new) = "none"
    BY Zenon, <1>4, <2>1 DEF host_handlers, host_abort, rep_sent, rep_sent_abort, Found
  <2>. QED
    BY Zenon, <1>1, <2>2
<1>5. CASE p.attr = "RTU"
  <2>1. Found(t, E, x, NoKey, new, f, s) /\ s.state = "ESTABLISHED"
    BY Zenon, <1>2, <1>5 DEF Found
  <2>2. host_handlers(t, p, new) = t /\ host_abort(t, p, new) = "none"
    BY Zenon, <1>5, <2>1 DEF host_handlers, host_abort, rtu_sent, Found
  <2>. QED
    BY <1>1, <2>2
<1>6. CASE p.attr = "DREQ"
  <2>1. Found(t, E, x, NoKey, new, f, s) /\ s.state = "DREQ_SENT"
    BY Zenon, <1>2, <1>6 DEF Found
  <2>2. /\ host_handlers(t, p, new) = SetState(t, f, "DREQ_SENT")
        /\ host_abort(t, p, new) = "none"
    BY Zenon, <1>6, <2>1 DEF host_handlers, host_abort, dreq_sent, Found
  <2>3. E[x].state = "DREQ_SENT" /\ E[x].state \in Linked
    BY Zenon, <1>6 DEF Linked
  <2>4. Sync(SetState(t, f, "DREQ_SENT"), E, R)
    BY Zenon, <2>3, StateSync
  <2>. QED
    BY Zenon, <2>2, <2>4
<1>7. CASE p.attr = "DREP"
  <2>. DEFINE g == get_flow(t, l, NoKey, new)
  <2>1. E[x].state = "TIMEWAIT" /\ E[x].state \in Over /\ Leftover(t, E, x)
    BY Zenon, <1>1, <1>7 DEF Over, Sync, Follows
  <2>2. CASE f = NULL
    <3>1. /\ Sync(g, E, R) /\ get_flow_abort(t, l, NoKey) = "none"
          /\ g.flow[lookup(g, l, NoKey)].state = "IDLE"
      BY <2>1, <2>2, AddIdleSync, Zenon
    <3>2. host_handlers(t, p, new) = g /\ host_abort(t, p, new) = "none"
      BY Zenon, <1>7, <3>1 DEF host_handlers, host_abort, drep_sent
    <3>. QED
      BY Zenon, <3>1, <3>2
  <2>3. CASE f # NULL
    <3>1. /\ g = t /\ lookup(t, l, NoKey) = f /\ get_flow_abort(t, l, NoKey) = "none"
      <4>1. Gets(t, l, NoKey, new, f)
        BY Zenon, <1>1, <2>3, GetOld
      <4>. QED
        BY Zenon, <4>1 DEF Gets
    <3>2. s.state \in {"IDLE", "REQ_RCVD"}
      BY Zenon, <2>1, <2>3 DEF Leftover
    <3>3. host_handlers(t, p, new) = t /\ host_abort(t, p, new) = "none"
      BY Zenon, <1>7, <3>1, <3>2 DEF host_handlers, host_abort, drep_sent
    <3>. QED
      BY <1>1, <3>3
  <2>. QED
    BY Zenon, <2>2, <2>3
<1>. QED
  BY Zenon, <1>3, <1>4, <1>5, <1>6, <1>7

-----------------------------------------------------------------------------

InStep == abort = "none" /\ Sync(Tracker, ends, Requesters(net))

\* As long as nothing has gone wrong around the tracker, it keeps up.
SyncInv == TruthInv /\ (faults = {} => InStep)

-----------------------------------------------------------------------------
(* The system *)

\* A handler returns.
LEMMA FinishSync ==
    ASSUME NEW a, NEW u, Finish(a, u), a = "none", u \in TrackerType,
           NEW E, NEW R, Sync(u, E, R), Facing(E)
    PROVE  abort' = "none" /\ Sync(Tracker', E, R)
<1>1. /\ Tracker'.local_map = u.local_map /\ Tracker'.remote_map = u.remote_map
      /\ Tracker'.flow = Release(u).flow
  BY Zenon DEF Finish, Tracker
<1>2. \A f \in Ptr : Release(u).flow[f] = IF f \in Live(u) THEN u.flow[f] ELSE NewFlowState
  BY Zenon DEF Release, TrackerType
<1>3. \A f \in Ptr : RequestFiled(Tracker'.flow[f])
  BY <1>1, <1>2 DEF Sync, RequestFiled, NewFlowState
<1>4. \A f \in Live(u) : Tracker'.flow[f] = u.flow[f]
  BY Zenon, <1>1, <1>2 DEF Live
<1>5. abort' = "none"
  BY DEF Finish
<1>. QED
  BY Zenon, <1>1, <1>3, <1>4, <1>5, AgreeSync

\* The far end of a used endpoint of the host is at a peer.
LEMMA FacingOf ==
    ASSUME NEW E, NEW R, Pairing(E, R), \A x \in Ends : EndOK(x, E[x])
    PROVE  Facing(E)
<1>. SUFFICES ASSUME NEW x \in HostEnd
              PROVE  E[x].other \in CmFlowKey /\ (Full(E[x].other) => IsKey(E[x].other))
  BY DEF Facing
<1>1. x \in Ends /\ EndFits(E, R, x) /\ EndOK(x, E[x])
  BY Zenon, HostEnds DEF Pairing
<1>2. CASE E[x].state = "IDLE"
  <2>1. E[x].other = <<0, 0>>
    BY <1>1, <1>2 DEF EndFits, Unused
  <2>. QED
    BY <2>1 DEF Full, CmFlowKey, Id0
<1>3. CASE E[x].state # "IDLE"
  <2>1. E[x].other \in PeerAddr \X Id0(PeerId)
    BY Zenon, <1>1, <1>3 DEF EndOK, FarEnd
  <2>. QED
    BY Zenon, <2>1, MarkersAssumption DEF Full, CmFlowKey, Id0, IsKey
<1>. QED
  BY <1>2, <1>3

\* What the invariants say of the tracker and the endpoints.
LEMMA InStepFacts ==
    ASSUME SyncInv
    PROVE  /\ Sound(Tracker) /\ Truthful(Tracker, ends) /\ Tracker \in TrackerType
           /\ Pairing(ends, Requesters(net)) /\ Facing(ends)
           /\ ends \in [Ends -> Endpoint]
           /\ faults = {} => Sync(Tracker, ends, Requesters(net))
<1>1. Pairing(ends, Requesters(net)) /\ \A x \in Ends : EndOK(x, ends[x])
  BY DEF SyncInv, TruthInv, PairInv, SysInv, EndsInv
<1>2. Facing(ends)
  BY Zenon, <1>1, FacingOf
<1>. QED
  BY Zenon, <1>1, <1>2 DEF SyncInv, InStep, TruthInv, SysInv, IInv, Sound, Pairing

\* What is known of the endpoints holds after the step, too.
LEMMA NextFacts ==
    ASSUME TruthInv'
    PROVE  Pairing(ends', Requesters(net')) /\ Facing(ends')
<1>1. Pairing(ends', Requesters(net')) /\ \A x \in Ends : EndOK(x, ends'[x])
  BY DEF TruthInv, PairInv, SysInv, EndsInv, EndOK
<1>. QED
  BY Zenon, <1>1, FacingOf

\* The host endpoint x goes on.
LEMMA SystemMoves ==
    ASSUME SyncInv, faults = {}, TruthInv', Grows(ends, ends'), net \subseteq net',
           NEW x \in HostEnd, \A z \in Ends : z # x => ends'[z] = ends[z]
    PROVE  Moves(Tracker, ends, Requesters(net), ends', Requesters(net'), x)
<1>1. Requesters(net) \subseteq Requesters(net')
  BY Zenon DEF Requesters
<1>2. Full(ends[x].other) => ends'[x].other = ends[x].other
  BY HostEnds DEF Grows
<1>. QED
  BY Zenon, <1>1, <1>2, InStepFacts, NextFacts DEF Moves

\* The tracker is in step after a packet of the host, if the handler is.
LEMMA SentSync ==
    ASSUME SyncInv, TruthInv', NEW p \in AnyHostPacket, TrackSent(p),
           \A new \in Free(Tracker) :
              /\ host_abort(Tracker, p, new) = "none"
              /\ Sync(host_handlers(Tracker, p, new), ends', Requesters(net'))
    PROVE  InStep'
<1>1. PICK new \in Free(Tracker) :
        Finish(host_abort(Tracker, p, new), host_handlers(Tracker, p, new))
  BY DEF TrackSent
<1>2. host_handlers(Tracker, p, new) \in TrackerType
  BY Zenon, InStepFacts, HostHandlersSound DEF Sound
<1>3. abort' = "none" /\ Sync(Tracker', ends', Requesters(net'))
  BY Zenon, <1>1, <1>2, NextFacts, FinishSync
<1>. QED
  BY Zenon, <1>3 DEF InStep

\* A received packet that its handler keeps up with leaves the tracker in step.
LEMMA ReceivedSync ==
    ASSUME SyncInv, TruthInv', NEW p \in AnyNetPacket, TrackReceived(p),
           \A new \in Free(Tracker) :
              /\ net_abort(Tracker, p, new) = "none"
              /\ Sync(net_handlers(Tracker, p, new), ends', Requesters(net'))
    PROVE  InStep'
<1>1. PICK new \in Free(Tracker) :
        Finish(net_abort(Tracker, p, new), net_handlers(Tracker, p, new))
  BY DEF TrackReceived
<1>2. net_handlers(Tracker, p, new) \in TrackerType
  BY InStepFacts, NetHandlersSound DEF Sound
<1>3. abort' = "none" /\ Sync(Tracker', ends', Requesters(net'))
  BY <1>1, <1>2, NextFacts, FinishSync
<1>. QED
  BY <1>3 DEF InStep

\* The host endpoint x sends m, which the tracker sees, and goes on as e.
Sends(x, e, m) ==
    /\ Moves(Tracker, ends, Requesters(net), ends', Requesters(net'), x)
    /\ ends'[x] = e /\ TrackSent(m)
    /\ m \in AnyHostPacket /\ m.local_comm_id = x[2]

\* A packet that a host endpoint sends passes the tracker.
LEMMA HostSends ==
    ASSUME SyncInv, faults = {}, TruthInv', Grows(ends, ends'), NEW x \in HostEnd,
           NEW e, NEW attr, NEW y, NEW q, Send(x, e, Msg(attr, x, y, q))
    PROVE  Sends(x, e, Msg(attr, x, y, q))
<1>. DEFINE m == Msg(attr, x, y, q)
<1>1. x \in Ends /\ x[1] = HostAddr /\ ends \in [Ends -> Endpoint]
  BY Zenon, HostEnds, InStepFacts
<1>2. m.saddr = HostAddr /\ m.local_comm_id = x[2]
  BY Zenon, <1>1 DEF Msg
<1>. HIDE DEF m
<1>3. ends' = [ends EXCEPT ![x] = e] /\ net' = net \cup {m} /\ TrackSent(m)
  BY Zenon, <1>2 DEF Send, m
<1>4. PacketOK(m)
  BY Zenon, <1>3 DEF TruthInv, SysInv, EndsInv, PacketOK
<1>5. m \in AnyHostPacket
  BY Zenon, <1>2, <1>4, Sides
<1>6. ends'[x] = e /\ \A z \in Ends : z # x => ends'[z] = ends[z]
  BY Zenon, <1>1, <1>3
<1>7. Moves(Tracker, ends, Requesters(net), ends', Requesters(net'), x)
  BY Zenon, <1>3, <1>6, SystemMoves
<1>. QED
  BY Zenon, <1>2, <1>3, <1>5, <1>6, <1>7 DEF Sends, m

\* A message of the host.
LEMMA HostMsg ==
    ASSUME NEW x, NEW y, y = <<y[1], y[2]>>, NEW attr, NEW q
    PROVE  LET m == Msg(attr, x, y, q)
           IN  m.attr = attr /\ m.local_qpn = q /\ Dest(m) = y
BY Zenon DEF Msg, Dest

\* Whatever an endpoint of the host sends, the tracker keeps up.
LEMMA HostEndpointSync ==
    ASSUME SyncInv, faults = {}, TruthInv', Grows(ends, ends'), NEW x \in HostEnd,
           \/ Connect(x) \/ Accept(x) \/ Confirm(x) \/ Reject(x)
           \/ Disconnect(x) \/ AnswerDreq(x) \/ GiveUp(x)
    PROVE  InStep'
<1>. DEFINE t == Tracker
            R == Requesters(net)
            R2 == Requesters(net')
            o == ends[x].other
<1>1. x \in Ends /\ ends \in [Ends -> Endpoint] /\ ends[x] \in Endpoint /\ o = <<o[1], o[2]>>
  <2>1. x \in Ends /\ ends \in [Ends -> Endpoint]
    BY HostEnds, InStepFacts
  <2>. QED
    BY <2>1 DEF Endpoint
<1>2. \A st : To(x, st).state = st /\ To(x, st).other = o
  BY Zenon, <1>1 DEF To, Endpoint
<1>3. FreeQpn(x[1]) \subseteq Qpn /\ 0 \notin Qpn
  BY Zenon, <1>1, FreeQpnOK, MarkersAssumption
<1>. HIDE DEF t, R, R2, o
<1>4. ASSUME NEW e, NEW m, Sends(x, e, m),
             \A new \in Free(t) : /\ host_abort(t, m, new) = "none"
                                  /\ Sync(host_handlers(t, m, new), ends', R2)
      PROVE  InStep'
  BY Zenon, <1>4, SentSync DEF Sends, t, R2
<1>5. CASE Connect(x)
  <2>1. PICK n \in PeerAddr, q \in FreeQpn(x[1]) :
          Send(x, [state |-> "REQ_SENT", other |-> <<n, 0>>, qpn |-> q, oqpn |-> 0],
               Msg("REQ", x, <<n, 0>>, q))
    BY Zenon, <1>5 DEF Connect
  <2>. DEFINE e == [state |-> "REQ_SENT", other |-> <<n, 0>>, qpn |-> q, oqpn |-> 0]
              m == Msg("REQ", x, <<n, 0>>, q)
  <2>2. ends[x].state = "IDLE" /\ e.state = "REQ_SENT" /\ m.attr = "REQ" /\ m.local_qpn # 0
    BY Zenon, <1>3, <1>5, <2>1 DEF Connect, Msg
  <2>3. Sends(x, e, m)
    BY <2>1, HostSends
  <2>. HIDE DEF e, m
  <2>4. \A new \in Free(t) : /\ host_abort(t, m, new) = "none"
                             /\ Sync(host_handlers(t, m, new), ends', R2)
    BY Zenon, <2>2, <2>3, ReqSentSync DEF Sends, t, R, R2
  <2>. QED
    BY Zenon, <1>4, <2>3, <2>4
<1>6. CASE Accept(x)
  <2>1. PICK q \in FreeQpn(x[1]) :
          Send(x, [To(x, "REP_SENT") EXCEPT !.qpn = q], Msg("REP", x, o, q))
    BY <1>6 DEF Accept, o
  <2>. DEFINE e == [To(x, "REP_SENT") EXCEPT !.qpn = q]
              m == Msg("REP", x, o, q)
  <2>2. ends[x].state = "REQ_RCVD" /\ m.attr = "REP" /\ m.local_qpn # 0 /\ Dest(m) = o
    BY <1>1, <1>3, <1>6, <2>1, HostMsg DEF Accept
  <2>3. e.state = "REP_SENT"
    BY <1>1 DEF To, Endpoint
  <2>4. Sends(x, e, m)
    BY Zenon, <2>1, HostSends
  <2>. HIDE DEF e, m
  <2>5. \A new \in Free(t) : /\ host_abort(t, m, new) = "none"
                             /\ Sync(host_handlers(t, m, new), ends', R2)
    BY Zenon, <2>2, <2>3, <2>4, RepSentSync DEF Sends, t, R, R2, o
  <2>. QED
    BY Zenon, <1>4, <2>4, <2>5
<1>7. CASE Confirm(x)
  <2>. DEFINE m == Msg("RTU", x, o, 0)
  <2>1. ends[x].state = "REP_RCVD" /\ m.attr = "RTU"
    BY <1>1, <1>7, HostMsg DEF Confirm
  <2>2. Sends(x, To(x, "ESTABLISHED"), m)
    BY Zenon, <1>7, HostSends DEF Confirm, o
  <2>. HIDE DEF m
  <2>3. \A new \in Free(t) : /\ host_abort(t, m, new) = "none"
                             /\ Sync(host_handlers(t, m, new), ends', R2)
    BY <1>2, <2>1, <2>2, RtuSentSync DEF Sends, t, R, R2
  <2>. QED
    BY Zenon, <1>4, <2>2, <2>3
<1>8. ASSUME ends[x].state \in {"REQ_RCVD", "REP_RCVD", "REQ_SENT", "REP_SENT"},
             Send(x, To(x, "CLOSED"), Msg("REJ", x, ends[x].other, 0))
      PROVE  InStep'
  <2>. DEFINE m == Msg("REJ", x, o, 0)
  <2>1. m.attr = "REJ" /\ Dest(m) = o
    BY <1>1, HostMsg
  <2>2. Sends(x, To(x, "CLOSED"), m)
    BY Zenon, <1>8, HostSends DEF o
  <2>. HIDE DEF m
  <2>3. \A new \in Free(t) : /\ host_abort(t, m, new) = "none"
                             /\ Sync(host_handlers(t, m, new), ends', R2)
    BY <1>2, <1>8, <2>1, <2>2, RejSentSync DEF Sends, t, R, R2, o
  <2>. QED
    BY Zenon, <1>4, <2>2, <2>3
<1>9. CASE Reject(x)
  BY Zenon, <1>8, <1>9 DEF Reject
<1>10. CASE Disconnect(x)
  <2>. DEFINE m == Msg("DREQ", x, o, 0)
  <2>1. ends[x].state = "ESTABLISHED" /\ m.attr = "DREQ"
    BY <1>1, <1>10, HostMsg DEF Disconnect
  <2>2. Sends(x, To(x, "DREQ_SENT"), m)
    BY Zenon, <1>10, HostSends DEF Disconnect, o
  <2>. HIDE DEF m
  <2>3. \A new \in Free(t) : /\ host_abort(t, m, new) = "none"
                             /\ Sync(host_handlers(t, m, new), ends', R2)
    BY <1>2, <2>1, <2>2, DreqSentSync DEF Sends, t, R, R2
  <2>. QED
    BY Zenon, <1>4, <2>2, <2>3
<1>11. CASE AnswerDreq(x)
  <2>. DEFINE m == Msg("DREP", x, o, 0)
  <2>1. ends[x].state = "DREQ_RCVD" /\ m.attr = "DREP" /\ Dest(m) = o
    BY <1>1, <1>11, HostMsg DEF AnswerDreq
  <2>2. Sends(x, To(x, "TIMEWAIT"), m)
    BY Zenon, <1>11, HostSends DEF AnswerDreq, o
  <2>. HIDE DEF m
  <2>3. \A new \in Free(t) : /\ host_abort(t, m, new) = "none"
                             /\ Sync(host_handlers(t, m, new), ends', R2)
    BY <1>2, <2>1, <2>2, DrepSentSync DEF Sends, t, R, R2, o
  <2>. QED
    BY Zenon, <1>4, <2>2, <2>3
<1>12. ASSUME ends[x].state = "DREQ_SENT",
              ends' = [ends EXCEPT ![x] = To(x, "ABANDONED")],
              UNCHANGED <<flow, local_map, remote_map, qpn_map, abort, net, faults>>
       PROVE  InStep'
  <2>1. ends'[x].state = "ABANDONED" /\ \A z \in Ends : z # x => ends'[z] = ends[z]
    BY Zenon, <1>1, <1>2, <1>12
  <2>2. Moves(t, ends, R, ends', R2, x)
    BY Zenon, <1>12, <2>1, SystemMoves DEF t, R, R2
  <2>3. Sync(t, ends', R2)
    BY Zenon, <1>12, <2>1, <2>2, AbandonSync
  <2>4. Tracker' = t /\ abort' = "none"
    BY Zenon, <1>12 DEF Tracker, t, SyncInv, InStep
  <2>. QED
    BY Zenon, <2>3, <2>4 DEF InStep, R2
<1>13. CASE GiveUp(x)
  BY Zenon, <1>8, <1>12, <1>13 DEF GiveUp
<1>. QED
  BY Zenon, <1>5, <1>6, <1>7, <1>9, <1>10, <1>11, <1>13

\* What a peer sends, the tracker does not see yet.
LEMMA PeerEndpointSync ==
    ASSUME SyncInv, faults = {}, NEW x \in PeerEnd,
           \/ Connect(x) \/ Accept(x) \/ Confirm(x) \/ Reject(x)
           \/ Disconnect(x) \/ AnswerDreq(x) \/ GiveUp(x)
    PROVE  InStep'
<1>1. x \in Ends /\ x[1] # HostAddr /\ x \notin HostEnd /\ ends \in [Ends -> Endpoint]
  BY Zenon, InStepFacts, SystemAssumption DEF Ends, PeerEnd, HostEnd
<1>2. ASSUME ends[x].state # "CLOSED", NEW e, ends' = [ends EXCEPT ![x] = e], net \subseteq net',
             UNCHANGED vars
      PROVE  InStep'
  <2>1. /\ \A w \in HostEnd : ends'[w] = ends[w]
        /\ \A z \in PeerEnd : ends[z].state = "CLOSED" => ends'[z] = ends[z]
    BY Zenon, <1>1, <1>2 DEF Ends
  <2>2. Requesters(net) \subseteq Requesters(net')
    BY Zenon, <1>2 DEF Requesters
  <2>3. Sync(Tracker, ends', Requesters(net'))
    BY Zenon, <2>1, <2>2, InStepFacts, PeerSync
  <2>4. Tracker' = Tracker /\ abort' = "none"
    BY Zenon, <1>2 DEF Tracker, vars, SyncInv, InStep
  <2>. QED
    BY Zenon, <2>3, <2>4 DEF InStep
<1>3. ASSUME ends[x].state # "CLOSED", NEW e, NEW attr, NEW y, NEW q,
             Send(x, e, Msg(attr, x, y, q))
      PROVE  InStep'
  <2>1. Msg(attr, x, y, q).saddr # HostAddr
    BY Zenon, <1>1 DEF Msg
  <2>. QED
    BY Zenon, <1>2, <1>3, <2>1 DEF Send
<1>. QED
  BY Zenon, <1>2, <1>3 DEF Connect, Accept, Confirm, Reject, Disconnect, AnswerDreq, GiveUp, vars

\* What a packet for the host does to the endpoint it names.
LEMMA NamedSync ==
    ASSUME NEW x \in HostEnd, NEW R, NEW R2, NEW p, Reaches(ends, R, p, x),
           ends \in [Ends -> Endpoint], Moves(Tracker, ends, R, ends', R2, x),
           ends'[x] = After(x, p), NEW new \in Free(Tracker)
    PROVE  net_abort(Tracker, p, new) = "none" /\ Sync(net_handlers(Tracker, p, new), ends', R2)
<1>. DEFINE e == ends[x]
            st == e.state
<1>1. /\ x \in Ends /\ e \in Endpoint /\ (\A s : To(x, s).state = s /\ To(x, s).other = e.other)
      /\ p.attr # "REQ"
  BY Zenon, HostEnds DEF To, Endpoint, Reaches
<1>2. st # "REQ_RCVD"
  <2>1. HeardBy(Tracker, ends, ends', x, From(p))
    BY Zenon, Heard
  <2>. QED
    BY Zenon, <2>1 DEF HeardBy, HasFlow, Linked, Over
<1>3. CASE p.attr = "REP"
  <2>1. IF st = "REQ_SENT" THEN ends'[x].state = "REP_RCVD" /\ ends'[x].other = From(p)
                           ELSE ends'[x] = e
    BY Zenon, <1>1, <1>3 DEF After, From, Endpoint
  <2>. QED
    BY Zenon, <1>3, <2>1, RepReceivedSync
<1>4. CASE p.attr = "RTU"
  <2>1. IF st = "REP_SENT" THEN ends'[x].state = "ESTABLISHED" ELSE ends'[x] = e
    BY Zenon, <1>1, <1>4 DEF After
  <2>. QED
    BY Zenon, <1>4, <2>1, RtuReceivedSync
<1>5. CASE p.attr = "DREQ"
  <2>1. IF st \in {"REP_SENT", "ESTABLISHED", "DREQ_SENT"}
        THEN ends'[x].state = "DREQ_RCVD" ELSE ends'[x] = e
    BY Zenon, <1>1, <1>5 DEF After
  <2>. QED
    BY Zenon, <1>5, <2>1, DreqReceivedSync
<1>6. CASE p.attr = "DREP"
  <2>1. IF st \in {"DREQ_SENT", "DREQ_RCVD"} THEN ends'[x].state = "TIMEWAIT" ELSE ends'[x] = e
    BY Zenon, <1>1, <1>6 DEF After
  <2>. QED
    BY ZenonT(30), <1>6, <2>1, DrepReceivedSync
<1>7. CASE p.attr = "REJ"
  <2>1. IF st \in {"REQ_SENT", "REP_SENT", "REP_RCVD", "ESTABLISHED", "DREQ_SENT"}
        THEN ends'[x].state \in Over ELSE ends'[x] = e
    BY Zenon, <1>1, <1>2, <1>7 DEF After, Over
  <2>. QED
    BY <1>7, <2>1, RejReceivedSync
<1>8. CASE p.attr \notin {"REP", "RTU", "DREQ", "DREP", "REJ"}
  <2>1. net_handlers(Tracker, p, new) = Tracker /\ net_abort(Tracker, p, new) = "none"
    BY Zenon, <1>1, <1>8 DEF net_handlers, net_abort
  <2>2. ends'[x] = e
    BY Zenon, <1>1, <1>8 DEF After
  <2>. QED
    BY Zenon, <2>1, <2>2, SameSync
<1>. QED
  BY Zenon, <1>3, <1>4, <1>5, <1>6, <1>7, <1>8

\* A REJ that names no endpoint reaches the one that waits for its sender.
LEMMA UnnamedRefused ==
    ASSUME SyncInv, NEW p \in AnyNetPacket, PacketFits(ends, Requesters(net), p), p.attr = "REJ",
           p.remote_comm_id = 0, p.daddr = HostAddr, Handle(p)
    PROVE  Refused(ends, ends', From(p))
<1>. DEFINE y == From(p)
            R == Requesters(net)
<1>1. Pairing(ends, R) /\ ends \in [Ends -> Endpoint] /\ y \in Ends /\ Full(y)
  BY Zenon, InStepFacts, EndsArePairs DEF PacketFits
<1>2. \A w \in HostEnd : w \in Ends /\ w[1] = HostAddr /\ w[2] # 0 /\ EndFits(ends, R, w)
  BY Zenon, <1>1, HostEnds DEF Pairing
<1>3. \A w \in HostEnd : ends[y].other # w
  BY <1>2 DEF PacketFits, Dest
<1>4. \A w \in Ends : IsFor(p, w) => w \in HostEnd /\ ends[w].other = y /\ ends[w].state # "IDLE"
  <2>1. \A w \in Ends : w[1] = HostAddr => w \in HostEnd
    BY Zenon, SystemAssumption DEF Ends, PeerEnd
  <2>. QED
    BY Zenon, <1>2, <2>1 DEF IsFor, From
<1>. HIDE DEF R, y
<1>5. CASE \E x \in Ends : IsFor(p, x) /\ ends' = [ends EXCEPT ![x] = After(x, p)]
  <2>1. PICK x \in Ends : IsFor(p, x) /\ ends' = [ends EXCEPT ![x] = After(x, p)]
    BY Zenon, <1>5
  <2>2. /\ x \in HostEnd /\ ends[x].other = y /\ ends[x].state # "IDLE"
        /\ ends'[x] = After(x, p) /\ \A w \in Ends : w # x => ends'[w] = ends[w]
    BY Zenon, <1>1, <1>4, <2>1
  <2>3. ASSUME NEW w \in HostEnd, w # x PROVE ends'[w] = ends[w] /\ ends[w].other # y
    <3>1. Paired(ends, x, y) /\ w[1] = x[1]
      BY Zenon, <1>2, <2>2 DEF Paired
    <3>. QED
      BY Zenon, <1>1, <1>2, <2>2, <2>3, <3>1, PartnerUnique
  <2>4. ends[x].state \notin Mutual /\ ends[x].state # "REQ_SENT"
    BY Zenon, <1>1, <1>2, <1>3, <2>2 DEF EndFits
  <2>5. IF ends[x].state \in {"REQ_RCVD", "REP_SENT"}
        THEN ends'[x].state = "CLOSED" /\ ends'[x].other = y ELSE ends'[x] = ends[x]
    <3>1. To(x, "CLOSED").state = "CLOSED" /\ To(x, "CLOSED").other = y
      BY Zenon, <1>1, <2>2 DEF To, Endpoint
    <3>. QED
      BY Zenon, <2>2, <2>4, <3>1 DEF After, Mutual
  <2>. QED
    BY Zenon, <2>2, <2>3, <2>5 DEF Refused, y
<1>6. CASE (\A x \in Ends : ~IsFor(p, x)) /\ UNCHANGED ends
  <2>1. \A w \in HostEnd : ends[w].other = y => ends[w].state = "IDLE"
    BY Zenon, <1>2, <1>6 DEF IsFor, From, y
  <2>. QED
    BY Zenon, <1>6, <2>1 DEF Refused, y
<1>. QED
  BY Zenon, <1>5, <1>6 DEF Handle

\* A packet that arrives at the host.
LEMMA ToHostSync ==
    ASSUME SyncInv, faults = {}, TruthInv', NEW p \in net, ToHost(p)
    PROVE  InStep'
<1>. DEFINE R == Requesters(net)
            y == From(p)
<1>1. /\ p \in AnyNetPacket /\ p.daddr = HostAddr /\ PacketFits(ends, R, p) /\ net' = net
      /\ TrackReceived(p) /\ Handle(p)
  <2>1. PacketOK(p) /\ PacketFits(ends, R, p)
    BY Zenon DEF SyncInv, TruthInv, SysInv, EndsInv, PairInv
  <2>. QED
    BY Zenon, <2>1, Sides DEF ToHost
<1>2. Grows(ends, ends') /\ Pairing(ends, R) /\ ends \in [Ends -> Endpoint]
  BY Zenon, <1>1, HandlePairs, InStepFacts DEF SyncInv, TruthInv
<1>3. y \in CmFlowKey /\ IsKey(y) /\ y \in Ends /\ y \notin HostEnd
  BY Zenon, <1>1, NetPacketSays, KeysAreEnds
<1>4. \A w \in Ends : (w[1] = HostAddr <=> w \in HostEnd) /\ (w \in PeerEnd => w[1] # HostAddr)
  BY Zenon, HostEnds, SystemAssumption DEF Ends, PeerEnd
<1>5. Hears(Tracker, ends, R, ends', y)
  <2>1. \A z \in PeerEnd : ends'[z] = ends[z]
    BY Zenon, <1>1, <1>2, <1>4 DEF Handle, At, IsFor, Ends
  <2>2. Sync(Tracker, ends, R) /\ Pairing(ends', R)
    BY Zenon, <1>1, InStepFacts, NextFacts
  <2>. QED
    BY Zenon, <1>3, <2>1, <2>2, InStepFacts, NextFacts DEF Hears
<1>. HIDE DEF R, y
<1>6. ASSUME \A new \in Free(Tracker) : /\ net_abort(Tracker, p, new) = "none"
                                        /\ Sync(net_handlers(Tracker, p, new), ends', R)
      PROVE  InStep'
  BY Zenon, <1>1, <1>6, ReceivedSync DEF R
<1>7. CASE p.attr = "REQ"
  <2>1. CASE UNCHANGED ends
    <3>1. Takes(ends, ends', y, y)
      BY Zenon, <1>3, <2>1 DEF Takes
    <3>. QED
      BY Zenon, <1>1, <1>5, <1>6, <1>7, <3>1, ReqReceivedSync DEF y
  <2>2. CASE \E x \in At(p.daddr) :
            /\ ends[x].state = "IDLE"
            /\ ends' = [ends EXCEPT ![x] =
                  [state |-> "REQ_RCVD", other |-> <<p.saddr, p.local_comm_id>>,
                   qpn |-> 0, oqpn |-> p.local_qpn]]
    <3>1. PICK x \in At(p.daddr) :
            /\ ends[x].state = "IDLE"
            /\ ends' = [ends EXCEPT ![x] =
                  [state |-> "REQ_RCVD", other |-> <<p.saddr, p.local_comm_id>>,
                   qpn |-> 0, oqpn |-> p.local_qpn]]
      BY Zenon, <2>2
    <3>2. x \in Ends
      BY Zenon DEF At
    <3>3. Takes(ends, ends', y, x)
      BY Zenon, <1>2, <1>4, <3>1, <3>2, HostEnds DEF Takes, y, From
    <3>. QED
      BY Zenon, <1>1, <1>5, <1>6, <1>7, <3>3, ReqReceivedSync DEF y
  <2>. QED
    BY Zenon, <1>1, <1>7, <2>1, <2>2 DEF Handle
<1>8. CASE p.attr # "REQ" /\ p.remote_comm_id # 0
  <2>. DEFINE x == <<HostAddr, p.remote_comm_id>>
  <2>1. x \in HostEnd /\ x \in Ends /\ x[1] = HostAddr /\ x[2] = p.remote_comm_id /\ x = Dest(p)
    BY Zenon, <1>1, <1>8, HostEnds DEF AnyNetPacket, Packet, Id0, Dest
  <2>2. ends[x].state # "IDLE"
    BY ZenonT(30), <1>1, <1>2, <1>3, <1>8, <2>1, IdleUnheard DEF PacketFits, y
  <2>3. \A z \in Ends : IsFor(p, z) <=> z = x
    BY Zenon, <1>1, <1>8, <2>1, <2>2, EndsArePairs DEF IsFor
  <2>4. ends' = [ends EXCEPT ![x] = After(x, p)]
    BY Zenon, <1>1, <1>8, <2>1, <2>3 DEF Handle
  <2>5. Reaches(ends, R, p, x)
    BY Zenon, <1>1, <1>8, <2>1 DEF Reaches
  <2>. HIDE DEF x
  <2>6. ends'[x] = After(x, p) /\ \A z \in Ends : z # x => ends'[z] = ends[z]
    BY Zenon, <1>2, <2>1, <2>4
  <2>7. Moves(Tracker, ends, R, ends', R, x)
    BY Zenon, <1>1, <1>2, <2>1, <2>6, SystemMoves DEF R
  <2>. QED
    BY Zenon, <1>2, <1>6, <2>1, <2>5, <2>6, <2>7, NamedSync
<1>9. CASE p.attr # "REQ" /\ p.remote_comm_id = 0
  <2>1. p.attr = "REJ"
    BY Zenon, <1>1, <1>9 DEF PacketFits
  <2>2. Refused(ends, ends', y)
    BY Zenon, <1>1, <1>9, <2>1, UnnamedRefused DEF y, R
  <2>. QED
    BY Zenon, <1>1, <1>5, <1>6, <1>9, <2>1, <2>2, RejUnknownSync DEF y
<1>. QED
  BY Zenon, <1>7, <1>8, <1>9

\* A packet that arrives at a peer.
LEMMA ToPeerSync ==
    ASSUME SyncInv, faults = {}, NEW p \in net, ToPeer(p)
    PROVE  InStep'
<1>1. /\ p.daddr # HostAddr /\ Handle(p) /\ net' = net /\ Tracker' = Tracker /\ abort' = "none"
      /\ ends \in [Ends -> Endpoint]
  BY Zenon, InStepFacts, SystemAssumption DEF ToPeer, Tracker, SyncInv, InStep
<1>2. \A w \in HostEnd : ends'[w] = ends[w]
  BY Zenon, <1>1, HostEnds DEF Handle, At, IsFor
<1>3. ASSUME NEW z \in PeerEnd, ends[z].state = "CLOSED" PROVE ends'[z] = ends[z]
  <2>1. z \in Ends /\ After(z, p) = ends[z]
    BY Zenon, <1>3 DEF Ends, After
  <2>. QED
    BY Zenon, <1>1, <1>3, <2>1 DEF Handle, At
<1>4. Sync(Tracker, ends', Requesters(net))
  BY Zenon, <1>2, <1>3, InStepFacts, PeerSync
<1>. QED
  BY Zenon, <1>1, <1>4 DEF InStep

\* The host repeats a packet.
LEMMA RetransmitSync ==
    ASSUME SyncInv, faults = {}, TruthInv', Retransmit
    PROVE  InStep'
<1>1. PICK p \in net, h \in HostId :
        LET x == <<HostAddr, h>>
        IN  /\ p.saddr = HostAddr /\ p.local_comm_id = h
            /\ <<ends[x].state, p.attr>> \in
                 {<<"REQ_SENT", "REQ">>, <<"REP_SENT", "REP">>, <<"ESTABLISHED", "RTU">>,
                  <<"DREQ_SENT", "DREQ">>, <<"TIMEWAIT", "DREP">>}
            /\ TrackSent(p)
            /\ UNCHANGED <<ends, net, faults>>
  BY Zenon DEF Retransmit
<1>. DEFINE x == <<HostAddr, h>>
            R == Requesters(net)
<1>2. x \in HostEnd /\ x[2] = h
  BY Zenon, HostEnds
<1>3. p \in AnyHostPacket /\ PacketFits(ends, R, p)
  <2>1. PacketOK(p) /\ PacketFits(ends, R, p)
    BY Zenon DEF SyncInv, TruthInv, SysInv, EndsInv, PairInv
  <2>. QED
    BY Zenon, <1>1, <2>1, Sides
<1>4. Moves(Tracker, ends, R, ends, R, x)
  <2>1. Full(ends[x].other) => ends[x].other = ends[x].other
    OBVIOUS
  <2>. QED
    BY Zenon, <1>2, InStepFacts DEF Moves
<1>. HIDE DEF x, R
<1>5. \A new \in Free(Tracker) : /\ host_abort(Tracker, p, new) = "none"
                                 /\ Sync(host_handlers(Tracker, p, new), ends, R)
  <2>1. p.attr = "REQ" => p.local_qpn # 0
    BY Zenon, <1>3 DEF PacketFits
  <2>2. <<ends[x].state, p.attr>> \in
          {<<"REQ_SENT", "REQ">>, <<"REP_SENT", "REP">>, <<"ESTABLISHED", "RTU">>,
           <<"DREQ_SENT", "DREQ">>, <<"TIMEWAIT", "DREP">>}
    BY Zenon, <1>1 DEF x
  <2>. QED
    BY Zenon, <1>1, <1>2, <1>3, <1>4, <2>1, <2>2, RepeatSync
<1>6. ends' = ends /\ Requesters(net') = R /\ TrackSent(p)
  BY <1>1 DEF R
<1>. QED
  BY Zenon, <1>3, <1>5, <1>6, SentSync

\* The tracker keeps up in every reachable state, until it is replaced or has
\* seen a packet that the host has not.
THEOREM SyncInvariant ==
    ASSUME Reusable = {}
    PROVE  SysSpec => []SyncInv
<1>1. SysInit => InStep
  <2>. SUFFICES ASSUME SysInit PROVE InStep
    BY Zenon
  <2>1. /\ \A f \in Ptr : Tracker.flow[f] = NewFlowState
        /\ \A l \in Id0(HostId) : Tracker.local_map[l] = NULL
        /\ \A k \in CmFlowKey : Tracker.remote_map[k] = NULL
        /\ abort = "none"
    BY Zenon DEF SysInit, Init, Tracker
  <2>2. \A x \in HostEnd : ends[x].state = "IDLE" /\ x[2] \in Id0(HostId)
    BY HostEnds DEF SysInit, Unused
  <2>3. \A x \in HostEnd : Follows(Tracker, ends, x) /\ LocalFiled(Tracker, ends, x)
    BY Zenon, <2>1, <2>2 DEF Follows, LocalFiled, Linked, Over
  <2>4. \A k \in CmFlowKey : RemoteFiled(Tracker, Requesters(net), k)
    BY Zenon, <2>1 DEF RemoteFiled
  <2>5. \A f \in Ptr : RequestFiled(Tracker.flow[f])
    BY <2>1 DEF RequestFiled, NewFlowState
  <2>. QED
    BY Zenon, <2>1, <2>3, <2>4, <2>5 DEF InStep, Sync
<1>2. SyncInv /\ TruthInv' /\ [SysNext]_sysVars => (faults = {} => InStep)'
  <2>. SUFFICES ASSUME SyncInv, TruthInv', [SysNext]_sysVars, faults' = {} PROVE InStep'
    BY Zenon
  <2>1. CASE UNCHANGED sysVars
    <3>1. /\ Tracker' = Tracker /\ ends' = ends /\ net' = net /\ abort' = abort
          /\ faults' = faults
      BY Zenon, <2>1 DEF sysVars, Tracker
    <3>. QED
      BY Zenon, <3>1 DEF SyncInv, InStep
  <2>2. ASSUME NEW x \in Ends,
               \/ Connect(x) \/ Accept(x) \/ Confirm(x) \/ Reject(x)
               \/ Disconnect(x) \/ AnswerDreq(x) \/ GiveUp(x)
        PROVE  InStep'
    <3>1. faults = {}
      BY Zenon, <2>2 DEF Connect, Accept, Confirm, Reject, Disconnect, AnswerDreq, GiveUp, Send
    <3>2. Grows(ends, ends')
      BY Zenon, <2>2, EndpointPairs DEF SyncInv, TruthInv
    <3>. QED
      BY Zenon, <2>2, <3>1, <3>2, HostEndpointSync, PeerEndpointSync DEF Ends
  <2>3. CASE Deliver
    <3>1. ASSUME NEW p \in net, ToHost(p) PROVE InStep'
      BY Zenon, <3>1, ToHostSync DEF ToHost
    <3>2. ASSUME NEW p \in net, ToPeer(p) PROVE InStep'
      BY Zenon, <3>2, ToPeerSync DEF ToPeer
    <3>3. ASSUME NEW p \in net PROVE ~DropAtHost(p)
      BY Zenon DEF DropAtHost
    <3>. QED
      BY Zenon, <2>3, <3>1, <3>2, <3>3 DEF Deliver
  <2>4. CASE Retransmit
    BY Zenon, <2>4, RetransmitSync DEF Retransmit
  <2>5. ~Restart
    BY Zenon DEF Restart
  <2>6. ASSUME NEW x \in Ends PROVE ~Recycle(x)
    BY DEF Recycle
  <2>. QED
    BY Zenon, <2>1, <2>2, <2>3, <2>4, <2>5, <2>6 DEF SysNext, Endpoints
<1>. QED
  BY <1>1, <1>2, TruthInvariant, PTL DEF SysSpec, SyncInv

\* With ids that are not used twice, for any number of peers, ids, QPNs and
\* connections: ctcm_query_ipv4 answers every open connection with its QPN.  No
\* order, repetition or loss of packets makes a handler miss the step to
\* ESTABLISHED, lose the flow or find the key taken.
THEOREM EveryOpenAnswered ==
    ASSUME Reusable = {}
    PROVE  SysSpec => []Answered
<1>1. SyncInv => Answered
  <2>. SUFFICES ASSUME SyncInv, NEW x \in HostEnd, faults = {}, Open(x)
                PROVE  Answer(x) = ends[x].qpn
    BY Zenon DEF Answered
  <2>. DEFINE t == Tracker
              y == ends[x].other
              f == t.local_map[x[2]]
              s == t.flow[f]
  <2>1. /\ ends[x].state = "ESTABLISHED" /\ y \in Ends /\ ends[y].other = x /\ x \in Ends
        /\ x[2] \in Id0(HostId) /\ x = <<HostAddr, x[2]>>
    BY Zenon, HostEnds DEF Open
  <2>2. /\ Sound(t) /\ Truthful(t, ends) /\ Pairing(ends, Requesters(net)) /\ Facing(ends)
        /\ Follows(t, ends, x) /\ LocalFiled(t, ends, x)
    BY Zenon, InStepFacts DEF Sync
  <2>3. /\ f \in Ptr /\ f # NULL /\ s.in_qpn_map /\ s.local_qpn # 0 /\ s.remote_qpn # 0
        /\ s.local_id = x[2]
    BY ZenonT(30), <2>1, <2>2 DEF Follows, Linked, Sound, TrackerType, Indexed
  <2>4. s.local_qpn = ends[x].qpn /\ IsKey(s.remote_id) /\ s.remote_qpn = ends[s.remote_id].qpn
    BY ZenonT(30), <2>1, <2>2, <2>3 DEF Truthful, FlowTrue
  <2>5. s.remote_id = y
    BY Zenon, <2>2, <2>3, <2>4 DEF LocalFiled
  <2>6. ends[x].oqpn = ends[y].qpn
    BY Zenon, <2>1, <2>2, EndsArePairs DEF Pairing, EndFits
  <2>7. Answers(t, f, <<y[1], ends[x].oqpn>>)
    <3>1. Answers(t, f, get_flow_key(s))
      BY Zenon, <2>2, <2>3 DEF Sound, Exact
    <3>. QED
      BY Zenon, <2>4, <2>5, <2>6, <3>1 DEF get_flow_key
  <2>8. t.qpn_map[<<y[1], ends[x].oqpn>>] = ends[x].qpn /\ ends[x].qpn # Absent
    <3>1. ends[x].qpn \in Id0(Qpn)
      BY Zenon, <2>1, <2>2 DEF Pairing, Endpoint
    <3>. QED
      BY Zenon, <2>4, <2>7, <3>1, MarkersAssumption DEF Answers, Id0
  <2>. QED
    BY Zenon, <2>8 DEF Answer, get_source_qpn
<1>. QED
  BY <1>1, SyncInvariant, PTL

\* Until the tracker is replaced or sees a packet that the host does not: no
\* assert of get_flow, add_new_flow or req_received fails, and the answer of a
\* connection is gone when the host has closed it.
THEOREM FaultlessSafe ==
    ASSUME Reusable = {}
    PROVE  SysSpec => [](faults = {} => NoAssertFails /\ ClosedWithdrawn)
<1>1. SyncInv /\ faults = {} => NoAssertFails
  BY Zenon DEF SyncInv, InStep, NoAssertFails
<1>2. SyncInv /\ faults = {} => ClosedWithdrawn
  <2>. SUFFICES ASSUME SyncInv, faults = {}, NEW x \in HostEnd, ends[x].state = "TIMEWAIT",
                       Answer(x) = ends[x].qpn
                PROVE  FALSE
    BY Zenon DEF ClosedWithdrawn
  <2>. DEFINE t == Tracker
              y == ends[x].other
              k == <<y[1], ends[x].oqpn>>
  <2>1. /\ Sound(t) /\ Truthful(t, ends) /\ Pairing(ends, Requesters(net)) /\ Facing(ends)
        /\ Follows(t, ends, x) /\ x \in Ends /\ x[2] \in Id0(HostId) /\ x = <<HostAddr, x[2]>>
    BY Zenon, InStepFacts, HostEnds DEF Sync
  <2>2. ends[x].qpn # 0 /\ Full(y) /\ EndFits(ends, Requesters(net), x)
    BY Zenon, <2>1 DEF Pairing, EndFits
  <2>3. IsKey(y) /\ y \in CmFlowKey /\ ends[x].oqpn \in Id0(Qpn)
    BY Zenon, <2>1, <2>2 DEF Facing, Pairing, Endpoint
  <2>4. k \in FlowKey
    BY Zenon, <2>3, KeysAreEnds DEF FlowKey, PeerEnd, Id0
  <2>5. t.qpn_map[k] # Absent /\ t.qpn_map[k] = ends[x].qpn
    BY Zenon, <2>2 DEF Answer, get_source_qpn
  <2>6. PICK f \in Ptr : Answers(t, f, k)
    BY Zenon, <2>1, <2>4, <2>5 DEF Sound, Exact
  <2>. DEFINE s == t.flow[f]
              w == <<HostAddr, s.local_id>>
  <2>7. /\ s.local_qpn = ends[x].qpn /\ s.local_qpn # 0 /\ s.local_id \in Id0(HostId)
        /\ s.state \in {"ESTABLISHED", "DREQ_SENT", "DREQ_RCVD"} /\ t.local_map[s.local_id] = f
    BY Zenon, <2>1, <2>5, <2>6 DEF Answers, Sound, TrackerType, FlowState
  <2>8. s.local_id # 0 /\ s.local_qpn = ends[w].qpn
    BY Zenon, <2>1, <2>7 DEF Truthful, FlowTrue
  <2>9. w \in Ends /\ w[1] = x[1]
    BY Zenon, <2>1, <2>7, <2>8, HostEnds DEF Id0
  <2>10. w = x
    BY Zenon, <2>1, <2>2, <2>7, <2>8, <2>9 DEF Pairing, Unique
  <2>11. t.local_map[x[2]] = f /\ f # NULL
    BY Zenon, <2>1, <2>7, <2>10, MarkersAssumption
  <2>12. Leftover(t, ends, x)
    BY Zenon, <2>1 DEF Follows, Over
  <2>. QED
    BY Zenon, <2>7, <2>11, <2>12 DEF Leftover
<1>. QED
  BY <1>1, <1>2, SyncInvariant, PTL

\* So it is for good when the host receives what the tracker has seen and the
\* context is not replaced, even if endpoints lose patience with each other.
THEOREM AssertsAndWithdrawal ==
    ASSUME Reusable = {}, MayFail \subseteq {"giveup"}
    PROVE  SysSpec => [](NoAssertFails /\ ClosedWithdrawn)
<1>1. SysInit => faults = {}
  BY Zenon DEF SysInit
<1>2. faults = {} /\ [SysNext]_sysVars => (faults = {})'
  <2>. SUFFICES ASSUME faults = {}, [SysNext]_sysVars PROVE faults' = {}
    BY Zenon
  <2>1. ~Restart /\ \A p : ~DropAtHost(p)
    BY Zenon DEF Restart, DropAtHost
  <2>2. CASE Deliver
    BY Zenon, <2>1, <2>2 DEF Deliver, ToHost, ToPeer
  <2>3. CASE Endpoints
    BY Zenon, <2>3
       DEF Endpoints, Connect, Accept, Confirm, Reject, Disconnect, AnswerDreq, Retransmit, Send
  <2>4. ASSUME NEW x \in Ends, GiveUp(x) \/ Recycle(x) PROVE faults' = {}
    BY <2>4 DEF GiveUp, Recycle, Send
  <2>. QED
    BY Zenon, <2>1, <2>2, <2>3, <2>4 DEF SysNext, sysVars
<1>. QED
  BY <1>1, <1>2, FaultlessSafe, PTL DEF SysSpec
=============================================================================
