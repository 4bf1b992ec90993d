---------------------------- MODULE CmStepProofs ----------------------------
(***************************************************************************)
(* What one packet does to the states of flows and to the query table, for *)
(* every set of ids, addresses, QPNs and packets.                          *)
(*                                                                         *)
(* States: a handler gets a flow, which leaves the states of the tracked   *)
(* flows as they are, then moves one flow forward (Moves); everything      *)
(* after that leaves the states alone (StatesKept).                        *)
(*                                                                         *)
(* The table: a handler does nothing to the flows in it, or one enters, or *)
(* one leaves (TableStep).  So the tracker implements the abstract query   *)
(* service ConnTable.                                                      *)
(***************************************************************************)
EXTENDS CmTrackerProofs

\* The states a flow can be in; no handler ever enters the others.
Reached == {"IDLE", "REQ_SENT", "REQ_RCVD", "REP_SENT", "REP_RCVD", "ESTABLISHED",
            "DREQ_SENT", "DREQ_RCVD"}

Advances(old, cur) ==
    /\ old \in Reached /\ cur \in Reached
    /\ Phase(old) <= Phase(cur)
    /\ old \in {"REQ_SENT", "REP_RCVD"} => cur \notin {"REQ_RCVD", "REP_SENT"}
    /\ old \in {"REQ_RCVD", "REP_SENT"} => cur \notin {"REQ_SENT", "REP_RCVD"}

AllReached(t) == \A f \in Ptr : t.flow[f].state \in Reached

StatesKept(t, u) == \A f \in Ptr : u.flow[f].state = t.flow[f].state

Moves(t, u) == \A f \in Ptr : Advances(t.flow[f].state, u.flow[f].state)

\* get_flow may turn free memory into a new flow.
Gets(t, g) ==
    \A f \in Ptr : \/ g.flow[f].state = t.flow[f].state
                   \/ f \notin Live(t) /\ g.flow[f].state = "IDLE"

Progress(t, u) ==
    /\ AllReached(u)
    /\ \A f \in Live(t) : Advances(t.flow[f].state, u.flow[f].state)

-----------------------------------------------------------------------------
(* Operators *)

\* The steps between states that the handlers take are steps forward.
LEMMA StepsForward ==
    /\ \A st \in Reached : Advances(st, st)
    /\ Advances("IDLE", "REQ_SENT") /\ Advances("IDLE", "REQ_RCVD")
    /\ Advances("REQ_RCVD", "REP_SENT") /\ Advances("REQ_SENT", "REP_RCVD")
    /\ Advances("REP_RCVD", "ESTABLISHED") /\ Advances("REP_SENT", "ESTABLISHED")
    /\ \A st \in {"IDLE", "ESTABLISHED", "DREQ_SENT", "DREQ_RCVD"} : Advances(st, "DREQ_SENT")
    /\ \A st \in {"REP_SENT", "ESTABLISHED", "DREQ_SENT", "DREQ_RCVD"} : Advances(st, "DREQ_RCVD")
BY DEF Advances, Phase, Reached

\* Leaving the states alone is a move, and may follow one.
LEMMA MovesThenKept ==
    ASSUME NEW t, NEW u, NEW v, StatesKept(u, v)
    PROVE  /\ Moves(t, u) => Moves(t, v)
           /\ AllReached(u) => Moves(u, v)
BY StepsForward DEF Moves, StatesKept, AllReached

\* get_flow, then a move.
LEMMA GetsThenMoves ==
    ASSUME NEW t, NEW g, NEW u, Gets(t, g), Moves(g, u)
    PROVE  Progress(t, u)
BY DEF Gets, Moves, Progress, AllReached, Advances, Live

\* add_new_flow gives only a flow it allocates a state.
LEMMA AddNewFlowStates ==
    ASSUME NEW t \in TrackerType, NEW l \in Id0(HostId), NEW r \in CmFlowKey,
           NEW new \in Ptr
    PROVE  /\ \A f \in Ptr : f # target(t, l, r, new) =>
                 add_new_flow(t, l, r, new).flow[f] = t.flow[f]
           /\ IF t.local_map[l] = NULL /\ t.remote_map[r] = NULL
              THEN /\ target(t, l, r, new) = new
                   /\ add_new_flow(t, l, r, new).flow[new].state = "IDLE"
              ELSE StatesKept(t, add_new_flow(t, l, r, new))
<1>. DEFINE f == target(t, l, r, new)
            u == add_new_flow(t, l, r, new)
            s == IF t.local_map[l] = NULL /\ t.remote_map[r] = NULL
                 THEN NewFlowState ELSE t.flow[f]
<1>0. AddNewFlowEffect(t, l, r, new)
  BY AddNewFlowFields
<1>1. /\ f \in Ptr
      /\ \A g \in Ptr : g # f => u.flow[g] = t.flow[g]
      /\ u.flow[f].state = s.state
  BY <1>0, Zenon DEF AddNewFlowEffect
<1>2. NewFlowState.state = "IDLE"
  BY DEF NewFlowState
<1>3. t.local_map[l] = NULL /\ t.remote_map[r] = NULL => f = new
  BY DEF target
<1>. HIDE DEF f, u
<1>4. ~(t.local_map[l] = NULL /\ t.remote_map[r] = NULL) => StatesKept(t, u)
  BY <1>1 DEF StatesKept
<1>. QED
  BY <1>1, <1>2, <1>3, <1>4 DEF f, u

\* get_flow leaves the states of tracked flows alone.
LEMMA GetFlowGets ==
    ASSUME NEW t \in TrackerType, NEW l \in Id0(HostId), NEW r \in CmFlowKey,
           NEW new \in Free(t), AllReached(t)
    PROVE  Gets(t, get_flow(t, l, r, new)) /\ AllReached(get_flow(t, l, r, new))
<1>. DEFINE a == add_new_flow(t, l, r, new)
<1>1. new \in Ptr /\ new \notin Live(t)
  BY DEF Free
<1>2. get_flow(t, l, r, new) \in {t, a}
  BY DEF get_flow
<1>3. Gets(t, a)
  BY <1>1, AddNewFlowStates DEF Gets, StatesKept
<1>. HIDE DEF a
<1>4. \A g \in {t, a} : Gets(t, g) /\ AllReached(g)
  BY <1>3 DEF Gets, AllReached, Reached
<1>. QED
  BY <1>2, <1>4

\* An assignment to the state moves the flow, if it is a step forward.
LEMMA SetStateMoves ==
    ASSUME NEW t \in TrackerType, NEW f \in Ptr, NEW st, AllReached(t),
           Advances(t.flow[f].state, st)
    PROVE  Moves(t, SetState(t, f, st))
<1>1. t.flow[f] \in FlowState
  BY DEF TrackerType
<1>2. /\ SetState(t, f, st).flow[f].state = st
      /\ \A g \in Ptr : g # f => SetState(t, f, st).flow[g] = t.flow[g]
  BY <1>1 DEF SetState, TrackerType, FlowState
<1>. QED
  BY Zenon, <1>2, StepsForward DEF Moves, AllReached

\* The other assignments, and the table, have nothing to do with states.
LEMMA OthersKeepStates ==
    ASSUME NEW t \in TrackerType, NEW f \in Ptr, NEW q
    PROVE  /\ StatesKept(t, SetLocalQpn(t, f, q))
           /\ StatesKept(t, SetRemoteQpn(t, f, q))
           /\ StatesKept(t, on_established(t, f))
           /\ StatesKept(t, on_disconnected(t, f))
<1>1. t.flow[f] \in FlowState
  BY DEF TrackerType
<1>2. StatesKept(t, SetLocalQpn(t, f, q)) /\ StatesKept(t, SetRemoteQpn(t, f, q))
  BY <1>1 DEF SetLocalQpn, SetRemoteQpn, StatesKept, TrackerType, FlowState
<1>3. StatesKept(t, on_established(t, f))
  BY <1>1 DEF on_established, StatesKept, TrackerType, FlowState
<1>4. StatesKept(t, on_disconnected(t, f))
  BY <1>1 DEF on_disconnected, StatesKept, TrackerType, FlowState
<1>. QED
  BY <1>2, <1>3, <1>4

\* erase_flow takes a flow out of the maps, and does not touch its state.
LEMMA EraseFlowStates ==
    ASSUME NEW t, Sound(t), NEW l \in Id0(HostId), NEW r \in CmFlowKey,
           lookup(t, l, r) \in Ptr
    PROVE  StatesKept(t, erase_flow(t, l, r))
<1>. DEFINE f == lookup(t, l, r)
            d == IF t.flow[f].in_qpn_map THEN on_disconnected(t, f) ELSE t
<1>1. erase_flow(t, l, r) = Unindex(d, l, r)
  BY MarkersAssumption DEF erase_flow, Unindex
<1>2. StatesKept(t, d)
  BY OthersKeepStates DEF StatesKept, Sound
<1>3. d \in TrackerType
  BY OnDisconnectedSound DEF Sound
<1>. HIDE DEF d
<1>4. Unindex(d, l, r).flow = d.flow
  BY <1>3 DEF Unindex, TrackerType
<1>. QED
  BY Zenon, <1>1, <1>2, <1>4 DEF StatesKept

-----------------------------------------------------------------------------
(* Handlers *)

\* req_sent and req_received: a request makes an idle flow one of its side.
LEMMA RequestMoves ==
    ASSUME NEW g, Sound(g), AllReached(g), NEW f \in Ptr,
           NEW st \in {"REQ_SENT", "REQ_RCVD"}, g.flow[f].state \in {"IDLE", st},
           NEW q \in Id0(Qpn)
    PROVE  /\ Moves(g, SetLocalQpn(SetState(g, f, st), f, q))
           /\ Moves(g, SetRemoteQpn(SetState(g, f, st), f, q))
<1>. DEFINE u == SetState(g, f, st)
<1>1. Advances(g.flow[f].state, st)
  BY StepsForward DEF Reached
<1>2. Moves(g, u)
  BY <1>1, SetStateMoves DEF Sound
<1>3. u \in TrackerType
  <2>1. g.flow[f] \in FlowState
    BY DEF Sound, TrackerType
  <2>. QED
    BY Zenon, <2>1 DEF SetState, Sound, TrackerType, FlowState, FLOW_STATES
<1>. HIDE DEF u
<1>4. StatesKept(u, SetLocalQpn(u, f, q)) /\ StatesKept(u, SetRemoteQpn(u, f, q))
  BY <1>3, OthersKeepStates
<1>. QED
  BY <1>2, <1>4, MovesThenKept DEF u

\* rtu_sent and rtu_received: on_established follows the step to ESTABLISHED.
LEMMA EstablishMoves ==
    ASSUME NEW g, Sound(g), AllReached(g), NEW f \in Ptr,
           g.flow[f].state \in {"REP_SENT", "REP_RCVD"}
    PROVE  Moves(g, on_established(SetState(g, f, "ESTABLISHED"), f))
<1>. DEFINE u == SetState(g, f, "ESTABLISHED")
<1>1. Moves(g, u)
  BY StepsForward, SetStateMoves DEF Sound
<1>2. u \in TrackerType
  <2>1. g.flow[f] \in FlowState
    BY DEF Sound, TrackerType
  <2>. QED
    BY Zenon, <2>1 DEF SetState, Sound, TrackerType, FlowState, FLOW_STATES
<1>. HIDE DEF u
<1>3. StatesKept(u, on_established(u, f))
  BY <1>2, OthersKeepStates
<1>. QED
  BY <1>1, <1>3, MovesThenKept DEF u

\* The second call of add_new_flow in rep_sent and rep_received links ids to a
\* flow that is there.
LEMMA LinkKeepsStates ==
    ASSUME NEW u \in TrackerType, NEW l \in Id0(HostId), NEW r \in CmFlowKey,
           NEW new \in Ptr, lookup(u, l, r) \in Ptr
    PROVE  StatesKept(u, add_new_flow(u, l, r, new))
<1>1. ~(u.local_map[l] = NULL /\ u.remote_map[r] = NULL)
  BY MarkersAssumption DEF lookup
<1>. QED
  BY <1>1, AddNewFlowStates

\* No handler of the host's packets takes a tracked flow back.
LEMMA HostHandlersProgress ==
    ASSUME NEW t, Sound(t), AllReached(t), NEW p \in AnyHostPacket, NEW new \in Free(t),
           host_abort(t, p, new) = "none"
    PROVE  Progress(t, host_handlers(t, p, new))
<1>. DEFINE l == p.local_comm_id
            r == <<p.daddr, p.remote_comm_id>>
            g == get_flow(t, l, NoKey, new)
            f == lookup(g, l, NoKey)
            gr == get_flow(t, l, r, new)
            fr == lookup(gr, l, r)
            h == host_handlers(t, p, new)
<1>1. /\ l \in Id0(HostId) /\ r \in CmFlowKey /\ NoKey \in CmFlowKey
      /\ p.local_qpn \in Id0(Qpn) /\ p.attr \in Attr /\ new \in Ptr
  BY DEF AnyHostPacket, Packet, CmFlowKey, NoKey, Id0, Free
<1>2. from_dest(p, p.remote_comm_id) = r
  BY DEF from_dest
<1>. SUFFICES Progress(t, h)
  OBVIOUS
<1>. HIDE DEF l, r, h
<1>3. t \in TrackerType
  BY DEF Sound
<1>4. /\ Gets(t, g) /\ AllReached(g)
      /\ Gets(t, gr) /\ AllReached(gr)
  BY <1>1, <1>3, GetFlowGets
<1>5. Moves(g, h) \/ Moves(gr, h) => Progress(t, h)
  BY <1>4, GetsThenMoves
<1>6. Moves(g, g) /\ Moves(gr, gr)
  BY <1>4, MovesThenKept DEF StatesKept
<1>7. ASSUME p.attr \in {"REQ", "RTU", "DREQ", "DREP"}
      PROVE  Sound(g) /\ f \in Ptr /\ l # 0
  <2>1. get_flow_abort(t, l, NoKey) = "none"
    BY <1>7 DEF host_abort, l
  <2>. QED
    BY <1>1, <2>1, GetFlowByLocalId
<1>8. ASSUME p.attr \in {"REJ", "REP"}
      PROVE  Sound(gr) /\ fr \in Ptr
  <2>1. get_flow_abort(t, l, r) = "none"
    BY <1>2, <1>8 DEF host_abort, rej_sent_abort, rep_sent_abort, l
  <2>. QED
    BY <1>1, <2>1, GetFlowSound
<1>9. CASE p.attr = "REQ"
  <2>1. h = IF g.flow[f].state \in {"IDLE", "REQ_SENT"}
            THEN SetLocalQpn(SetState(g, f, "REQ_SENT"), f, p.local_qpn) ELSE g
    BY <1>9 DEF h, host_handlers, req_sent, l
  <2>. HIDE DEF g, f
  <2>. QED
    BY <1>1, <1>4, <1>5, <1>6, <1>7, <1>9, <2>1, RequestMoves
<1>10. CASE p.attr = "RTU"
  <2>1. h = IF g.flow[f].state \in {"REP_RCVD", "MRA_REP_SENT"}
            THEN on_established(SetState(g, f, "ESTABLISHED"), f) ELSE g
    BY <1>10 DEF h, host_handlers, rtu_sent, l
  <2>. HIDE DEF g, f
  <2>2. g.flow[f].state # "MRA_REP_SENT"
    BY <1>4, <1>7, <1>10 DEF AllReached, Reached
  <2>. QED
    BY <1>4, <1>5, <1>6, <1>7, <1>10, <2>1, <2>2, EstablishMoves
<1>11. CASE p.attr = "DREQ"
  <2>1. h = IF g.flow[f].state \in {"IDLE", "ESTABLISHED", "DREQ_SENT", "DREQ_RCVD"}
            THEN SetState(g, f, "DREQ_SENT") ELSE g
    BY <1>11 DEF h, host_handlers, dreq_sent, l
  <2>. HIDE DEF g, f
  <2>. QED
    BY <1>4, <1>5, <1>6, <1>7, <1>11, <2>1, StepsForward, SetStateMoves DEF Sound
<1>12. CASE p.attr = "DREP"
  <2>1. h \in {erase_flow(g, l, r), g}
    BY <1>2, <1>12 DEF h, host_handlers, drep_sent, l
  <2>2. lookup(g, l, r) = f
    BY <1>7, <1>12 DEF lookup
  <2>. HIDE DEF g, f
  <2>3. Moves(g, erase_flow(g, l, r))
    BY <1>1, <1>4, <1>7, <1>12, <2>2, EraseFlowStates, MovesThenKept
  <2>. QED
    BY <1>5, <1>6, <2>1, <2>3
<1>13. CASE p.attr = "REJ"
  <2>1. h \in {erase_flow(gr, l, r), gr}
    BY <1>2, <1>13 DEF h, host_handlers, rej_sent, l
  <2>. HIDE DEF gr
  <2>2. Moves(gr, erase_flow(gr, l, r))
    BY <1>1, <1>4, <1>8, <1>13, EraseFlowStates, MovesThenKept
  <2>. QED
    BY <1>5, <1>6, <2>1, <2>2
<1>14. CASE p.attr = "REP"
  <2>. DEFINE u == SetState(gr, fr, "REP_SENT")
              v == add_new_flow(u, l, r, new)
              w == SetLocalQpn(v, fr, p.local_qpn)
  <2>1. h = IF gr.flow[fr].state \in {"REQ_RCVD", "MRA_REQ_SENT"} THEN w ELSE gr
    BY <1>2, <1>14 DEF h, host_handlers, rep_sent, l
  <2>2. lookup(gr, l, r) = fr
    OBVIOUS
  <2>. HIDE DEF gr, fr
  <2>3. SUFFICES ASSUME gr.flow[fr].state \in {"REQ_RCVD", "MRA_REQ_SENT"}
                 PROVE  Moves(gr, w)
    BY <1>5, <1>6, <2>1
  <2>4. gr.flow[fr].state = "REQ_RCVD"
    BY <1>4, <1>8, <1>14, <2>3 DEF AllReached, Reached
  <2>5. Moves(gr, u)
    BY <1>4, <1>8, <1>14, <2>4, StepsForward, SetStateMoves DEF Sound
  <2>6. u \in TrackerType /\ Touches(gr, u, fr)
    <3>1. ~gr.flow[fr].in_qpn_map
      BY <1>8, <1>14, <2>4, NotConnectedNotMapped
    <3>. QED
      BY Zenon, <1>8, <1>14, <3>1, SetStateSound DEF FLOW_STATES, Sound
  <2>. HIDE DEF u
  <2>7. lookup(u, l, r) \in Ptr
    BY <1>8, <1>14, <2>2, <2>6 DEF lookup, Touches
  <2>8. StatesKept(u, v) /\ v \in TrackerType
    BY Zenon, <1>1, <2>6, <2>7, LinkKeepsStates, AddNewFlowFields DEF AddNewFlowEffect
  <2>. HIDE DEF v
  <2>9. StatesKept(v, w)
    BY <1>8, <1>14, <2>8, OthersKeepStates
  <2>. HIDE DEF w
  <2>. QED
    BY <2>5, <2>8, <2>9, MovesThenKept
<1>15. CASE p.attr \notin Handled
  <2>1. h = t
    BY <1>15 DEF h, host_handlers, Handled
  <2>2. Gets(t, t) /\ Moves(t, t)
    BY MovesThenKept DEF Gets, StatesKept
  <2>. QED
    BY <2>1, <2>2, GetsThenMoves
<1>. QED
  BY <1>1, <1>9, <1>10, <1>11, <1>12, <1>13, <1>14, <1>15 DEF Handled, Attr

\* No handler of the network's packets takes a tracked flow back.
LEMMA NetHandlersProgress ==
    ASSUME NEW t, Sound(t), AllReached(t), NEW p \in AnyNetPacket, NEW new \in Free(t),
           net_abort(t, p, new) = "none"
    PROVE  Progress(t, net_handlers(t, p, new))
<1>. DEFINE l == p.remote_comm_id
            r == <<p.saddr, p.local_comm_id>>
            g == get_flow(t, l, NoKey, new)
            f == lookup(g, l, NoKey)
            gr == get_flow(t, l, r, new)
            fr == lookup(gr, l, r)
            g0 == get_flow(t, 0, r, new)
            f0 == lookup(g0, 0, r)
            h == net_handlers(t, p, new)
<1>1. /\ l \in Id0(HostId) /\ r \in CmFlowKey /\ NoKey \in CmFlowKey
      /\ p.local_qpn \in Id0(Qpn) /\ p.attr \in Attr /\ new \in Ptr
      /\ 0 \in Id0(HostId)
  BY DEF AnyNetPacket, Packet, CmFlowKey, NoKey, Id0, Free
<1>2. from_src(p, p.local_comm_id) = r
  BY DEF from_src
<1>. SUFFICES Progress(t, h)
  OBVIOUS
<1>. HIDE DEF l, r, h
<1>3. t \in TrackerType
  BY DEF Sound
<1>4. /\ Gets(t, g) /\ AllReached(g)
      /\ Gets(t, gr) /\ AllReached(gr)
      /\ Gets(t, g0) /\ AllReached(g0)
  BY <1>1, <1>3, GetFlowGets
<1>5. Moves(g, h) \/ Moves(gr, h) \/ Moves(g0, h) => Progress(t, h)
  BY <1>4, GetsThenMoves
<1>6. Moves(g, g) /\ Moves(gr, gr) /\ Moves(g0, g0)
  BY <1>4, MovesThenKept DEF StatesKept
<1>7. ASSUME p.attr \in {"REP", "RTU", "DREQ", "DREP"}
      PROVE  Sound(g) /\ f \in Ptr /\ l # 0
  <2>1. get_flow_abort(t, l, NoKey) = "none"
    BY <1>2, <1>7 DEF net_abort, rep_received_abort, l
  <2>. QED
    BY <1>1, <2>1, GetFlowByLocalId
<1>8. CASE p.attr = "REQ"
  <2>1. h = IF g0.flow[f0].state \in {"REQ_RCVD", "IDLE"}
            THEN SetRemoteQpn(SetState(g0, f0, "REQ_RCVD"), f0, p.local_qpn) ELSE g0
    BY <1>2, <1>8 DEF h, net_handlers, req_received
  <2>2. get_flow_abort(t, 0, r) = "none"
    BY <1>2, <1>8 DEF net_abort, req_received_abort
  <2>3. Sound(g0) /\ f0 \in Ptr
    BY <1>1, <2>2, GetFlowSound
  <2>. HIDE DEF g0, f0
  <2>. QED
    BY <1>1, <1>4, <1>5, <1>6, <2>1, <2>3, RequestMoves
<1>9. CASE p.attr = "REJ"
  <2>1. h \in {erase_flow(gr, l, r), gr}
    BY <1>2, <1>9 DEF h, net_handlers, rej_received, l
  <2>2. get_flow_abort(t, l, r) = "none"
    BY <1>2, <1>9 DEF net_abort, rej_received_abort, l
  <2>3. Sound(gr) /\ fr \in Ptr
    BY <1>1, <2>2, GetFlowSound
  <2>. HIDE DEF gr
  <2>4. Moves(gr, erase_flow(gr, l, r))
    BY <1>1, <1>4, <2>3, EraseFlowStates, MovesThenKept
  <2>. QED
    BY <1>5, <1>6, <2>1, <2>4
<1>10. CASE p.attr = "REP"
  <2>. DEFINE u == SetRemoteQpn(SetState(g, f, "REP_RCVD"), f, p.local_qpn)
              v == add_new_flow(u, l, r, new)
  <2>1. h = IF g.flow[f].state \in {"REQ_SENT", "MRA_REQ_RCVD"} THEN v ELSE g
    BY <1>2, <1>10 DEF h, net_handlers, rep_received, l
  <2>2. lookup(g, l, r) = f
    BY <1>7, <1>10 DEF lookup
  <2>. HIDE DEF g, f
  <2>3. SUFFICES ASSUME g.flow[f].state \in {"REQ_SENT", "MRA_REQ_RCVD"}
                 PROVE  Moves(g, v)
    BY <1>5, <1>6, <2>1
  <2>4. g.flow[f].state = "REQ_SENT"
    BY <1>4, <1>7, <1>10, <2>3 DEF AllReached, Reached
  <2>5. Moves(g, SetState(g, f, "REP_RCVD"))
    BY <1>4, <1>7, <1>10, <2>4, StepsForward, SetStateMoves DEF Sound
  <2>6. SetState(g, f, "REP_RCVD") \in TrackerType
    <3>1. ~g.flow[f].in_qpn_map
      BY <1>7, <1>10, <2>4, NotConnectedNotMapped
    <3>. QED
      BY Zenon, <1>7, <1>10, <3>1, SetStateSound DEF FLOW_STATES, Sound
  <2>7. StatesKept(SetState(g, f, "REP_RCVD"), u)
    BY <1>7, <1>10, <2>6, OthersKeepStates
  <2>8. Sound(u) /\ Touches(g, u, f)
    BY <1>1, <1>7, <1>10, <2>4, RequestSound DEF FLOW_STATES
  <2>. HIDE DEF u
  <2>9. lookup(u, l, r) \in Ptr
    BY <1>7, <1>10, <2>2, <2>8 DEF lookup, Touches
  <2>10. StatesKept(u, v)
    BY Zenon, <1>1, <2>8, <2>9, LinkKeepsStates DEF Sound
  <2>. HIDE DEF v
  <2>. QED
    BY <2>5, <2>7, <2>10, MovesThenKept
<1>11. CASE p.attr = "RTU"
  <2>1. h = IF g.flow[f].state \in {"REP_SENT", "MRA_REP_RCVD"}
            THEN on_established(SetState(g, f, "ESTABLISHED"), f) ELSE g
    BY Zenon, <1>11 DEF h, net_handlers, rtu_received, l
  <2>. HIDE DEF g, f
  <2>2. g.flow[f].state # "MRA_REP_RCVD"
    BY Zenon, <1>4, <1>7, <1>11 DEF AllReached, Reached
  <2>. QED
    BY <1>4, <1>5, <1>6, <1>7, <1>11, <2>1, <2>2, EstablishMoves
<1>12. CASE p.attr = "DREQ"
  <2>1. h = IF g.flow[f].state \in {"REP_SENT", "DREQ_SENT", "ESTABLISHED",
                                    "MRA_REP_RCVD", "TIMEWAIT", "DREQ_RCVD"}
            THEN SetState(g, f, "DREQ_RCVD") ELSE g
    BY <1>12 DEF h, net_handlers, dreq_received, l
  <2>. HIDE DEF g, f
  <2>2. g.flow[f].state \notin {"MRA_REP_RCVD", "TIMEWAIT"}
    BY <1>4, <1>7, <1>12 DEF AllReached, Reached
  <2>. QED
    BY <1>4, <1>5, <1>6, <1>7, <1>12, <2>1, <2>2, StepsForward, SetStateMoves DEF Sound
<1>13. CASE p.attr = "DREP"
  <2>1. h \in {erase_flow(g, l, r), g}
    BY <1>2, <1>13 DEF h, net_handlers, drep_received, l
  <2>2. lookup(g, l, r) = f
    BY <1>7, <1>13 DEF lookup
  <2>. HIDE DEF g, f
  <2>3. Moves(g, erase_flow(g, l, r))
    BY <1>1, <1>4, <1>7, <1>13, <2>2, EraseFlowStates, MovesThenKept
  <2>. QED
    BY <1>5, <1>6, <2>1, <2>3
<1>14. CASE p.attr \notin Handled
  <2>1. h = t
    BY <1>14 DEF h, net_handlers, Handled
  <2>2. Gets(t, t) /\ Moves(t, t)
    BY MovesThenKept DEF Gets, StatesKept
  <2>. QED
    BY <2>1, <2>2, GetsThenMoves
<1>. QED
  BY <1>1, <1>8, <1>9, <1>10, <1>11, <1>12, <1>13, <1>14 DEF Handled, Attr

-----------------------------------------------------------------------------
(* Steps *)

\* The invariant of the argument: besides IInv, no flow is ever in a state that
\* no handler assigns (the MRA states and TIMEWAIT), for which Phase has no value.
PInv == IInv /\ AllReached(Tracker)

\* The body of PhaseNeverRegresses.
PhaseStep ==
    \A f \in Live(Tracker) \cap Live(Tracker)' :
       LET old == flow[f].state
           cur == flow'[f].state
       IN  /\ Phase(old) <= Phase(cur)
           /\ old \in {"REQ_SENT", "REP_RCVD"} => cur \notin {"REQ_RCVD", "REP_SENT"}
           /\ old \in {"REQ_RCVD", "REP_SENT"} => cur \notin {"REQ_SENT", "REP_RCVD"}

\* Leaving everything as it is is no step back.
LEMMA StutterPhase ==
    ASSUME PInv, UNCHANGED <<flow, local_map, remote_map, qpn_map>>
    PROVE  AllReached(Tracker)' /\ PhaseStep
<1>1. Tracker' = Tracker /\ Tracker.flow = flow
  BY DEF Tracker
<1>2. AllReached(Tracker')
  BY <1>1 DEF PInv
<1>3. \A f \in Ptr : Advances(flow[f].state, flow[f].state)
  BY <1>1, StepsForward DEF PInv, AllReached
<1>4. Live(Tracker) \subseteq Ptr
  BY DEF Live
<1>. QED
  BY <1>2, <1>3, <1>4 DEF PhaseStep, Advances

\* A handler that progresses and returns, or fails an assert, is no step back;
\* objects that no map holds any more are freed.
LEMMA FinishPhase ==
    ASSUME PInv, NEW a, NEW u, Finish(a, u),
           a = "none" => u \in TrackerType /\ Progress(Tracker, u)
    PROVE  AllReached(Tracker)' /\ PhaseStep
<1>1. CASE a # "none"
  BY <1>1, StutterPhase DEF Finish
<1>2. CASE a = "none"
  <2>1. /\ flow' = Release(u).flow
        /\ local_map' = u.local_map /\ remote_map' = u.remote_map
    BY <1>2 DEF Finish
  <2>2. /\ Tracker'.flow = flow' /\ Tracker'.local_map = local_map'
        /\ Tracker'.remote_map = remote_map' /\ Tracker.flow = flow
    BY DEF Tracker
  <2>3. Live(Tracker') = Live(u)
    BY <2>1, <2>2 DEF Live
  <2>4. \A f \in Ptr : /\ f \in Live(u) => flow'[f] = u.flow[f]
                       /\ f \notin Live(u) => flow'[f].state = "IDLE"
    BY <1>2, <2>1 DEF Release, TrackerType, NewFlowState
  <2>5. AllReached(u) /\ \A f \in Live(Tracker) : Advances(flow[f].state, u.flow[f].state)
    BY <1>2, <2>2 DEF Progress
  <2>6. \A f \in Ptr : flow'[f].state \in Reached
    BY <2>4, <2>5 DEF AllReached, Reached
  <2>7. AllReached(Tracker')
    BY <2>2, <2>6 DEF AllReached
  <2>8. Live(u) \subseteq Ptr
    BY DEF Live
  <2>9. PhaseStep
    <3>. SUFFICES ASSUME NEW f \in Live(Tracker), f \in Live(Tracker')
                  PROVE  Advances(flow[f].state, flow'[f].state)
      BY DEF PhaseStep, Advances
    <3>. QED
      BY <2>3, <2>4, <2>5, <2>8
  <2>. QED
    BY <2>7, <2>9
<1>. QED
  BY <1>1, <1>2

\* No step takes a tracked flow back.
LEMMA NextPhase == PInv /\ [Next]_vars => AllReached(Tracker)' /\ PhaseStep
<1>. SUFFICES ASSUME PInv, [Next]_vars PROVE AllReached(Tracker)' /\ PhaseStep
  OBVIOUS
<1>. USE DEF PInv, IInv
<1>1. ASSUME NEW A, FromHost(A) PROVE AllReached(Tracker)' /\ PhaseStep
  <2>1. PICK p \in HostPackets, new \in Free(Tracker) :
          Finish(host_abort(Tracker, p, new), host_handlers(Tracker, p, new))
    BY <1>1 DEF FromHost
  <2>2. ASSUME host_abort(Tracker, p, new) = "none"
        PROVE  /\ host_handlers(Tracker, p, new) \in TrackerType
               /\ Progress(Tracker, host_handlers(Tracker, p, new))
    BY <2>2, HostHandlersSound, HostHandlersProgress, PacketsAssumption DEF Sound
  <2>. QED
    BY <2>1, <2>2, FinishPhase
<1>2. ASSUME NEW A, FromNet(A) PROVE AllReached(Tracker)' /\ PhaseStep
  <2>1. PICK p \in NetPackets, new \in Free(Tracker) :
          Finish(net_abort(Tracker, p, new), net_handlers(Tracker, p, new))
    BY <1>2 DEF FromNet
  <2>2. ASSUME net_abort(Tracker, p, new) = "none"
        PROVE  /\ net_handlers(Tracker, p, new) \in TrackerType
               /\ Progress(Tracker, net_handlers(Tracker, p, new))
    BY <2>2, NetHandlersSound, NetHandlersProgress, PacketsAssumption DEF Sound
  <2>. QED
    BY <2>1, <2>2, FinishPhase
<1>3. CASE UNCHANGED vars
  BY <1>3, StutterPhase DEF vars
<1>4. CASE Next
  BY <1>1, <1>2, <1>4 DEF Next, ReqSent, RejSent, RepSent, RtuSent, DreqSent,
     DrepSent, UnknownSent, ReqReceived, RejReceived, RepReceived, RtuReceived,
     DreqReceived, DrepReceived, UnknownReceived
<1>. QED
  BY <1>3, <1>4

\* For every set of packets, whatever is repeated, late or out of order: a
\* tracked flow never returns to an earlier phase and never changes sides.
THEOREM NoPhaseRegression == Spec => PhaseNeverRegresses
<1>1. Init => AllReached(Tracker)
  <2>1. NewFlowState.state \in Reached
    BY DEF NewFlowState, Reached
  <2>2. Tracker.flow = flow
    BY DEF Tracker
  <2>. QED
    BY Zenon, <2>1, <2>2 DEF Init, AllReached
<1>2. PInv /\ [Next]_vars => AllReached(Tracker)'
  BY NextPhase
<1>3. IInv /\ AllReached(Tracker) /\ [Next]_vars => [PhaseStep]_vars
  BY NextPhase DEF PInv
<1>. QED
  BY <1>1, <1>2, <1>3, TrackerInvariant, PTL DEF Spec, PInv, PhaseNeverRegresses, PhaseStep

-----------------------------------------------------------------------------
(* The query table *)

SameConn(s, v) ==
    /\ v.local_id = s.local_id /\ v.remote_id = s.remote_id
    /\ v.local_qpn = s.local_qpn /\ v.remote_qpn = s.remote_qpn

\* The flow g has not got an entry in remote_map.
NotIndexed(t, u, g) ==
    u.remote_map[t.flow[g].remote_id] = g => t.remote_map[t.flow[g].remote_id] = g

\* The flow f was in a map, and is not any more.
Unindexed(t, u, f) ==
    \/ u.local_map[t.flow[f].local_id] = NULL
    \/ /\ t.remote_map[t.flow[f].remote_id] = f
       /\ u.remote_map[t.flow[f].remote_id] = NULL

\* The flow g is in the table of both trackers, as the same connection, or of none.
KeptAt(t, u, g) ==
    /\ u.flow[g].in_qpn_map <=> t.flow[g].in_qpn_map
    /\ t.flow[g].in_qpn_map => SameConn(t.flow[g], u.flow[g]) /\ NotIndexed(t, u, g)

Kept(t, u) == \A g \in Ptr : KeptAt(t, u, g)

Enters(t, u, f) ==
    /\ ~t.flow[f].in_qpn_map /\ u.flow[f].in_qpn_map
    /\ \A g \in Ptr : g # f => KeptAt(t, u, g)

Leaves(t, u, f) ==
    /\ t.flow[f].in_qpn_map /\ ~u.flow[f].in_qpn_map /\ Unindexed(t, u, f)
    /\ \A g \in Ptr : g # f => KeptAt(t, u, g)

TableStep(t, u) ==
    \/ Kept(t, u)
    \/ \E f \in Ptr : Enters(t, u, f)
    \/ \E f \in Ptr : Leaves(t, u, f)

-----------------------------------------------------------------------------
(* Operators *)

\* Keeping the table, and keeping it again.
LEMMA KeptTwice ==
    ASSUME NEW t, NEW u, NEW v, Kept(t, u), Kept(u, v)
    PROVE  Kept(t, v)
<1>1. ASSUME NEW g \in Ptr PROVE KeptAt(t, v, g)
  <2>1. KeptAt(t, u, g) /\ KeptAt(u, v, g)
    BY Zenon DEF Kept
  <2>2. CASE t.flow[g].in_qpn_map
    <3>1. /\ u.flow[g].in_qpn_map /\ v.flow[g].in_qpn_map
          /\ SameConn(t.flow[g], u.flow[g]) /\ NotIndexed(t, u, g)
          /\ SameConn(u.flow[g], v.flow[g]) /\ NotIndexed(u, v, g)
      BY Zenon, <2>1, <2>2 DEF KeptAt
    <3>2. SameConn(t.flow[g], v.flow[g])
      BY Zenon, <3>1 DEF SameConn
    <3>3. NotIndexed(t, v, g)
      BY Zenon, <3>1 DEF NotIndexed, SameConn
    <3>. QED
      BY Zenon, <2>2, <3>1, <3>2, <3>3 DEF KeptAt
  <2>3. CASE ~t.flow[g].in_qpn_map
    BY Zenon, <2>1, <2>3 DEF KeptAt
  <2>. QED
    BY Zenon, <2>2, <2>3
<1>. QED
  BY Zenon, <1>1 DEF Kept

\* Steps that keep the table may come before and after a table step.
LEMMA KeptThenStep ==
    ASSUME NEW t, NEW u, NEW v, Kept(t, u), TableStep(u, v)
    PROVE  TableStep(t, v)
<1>1. \A g \in Ptr : KeptAt(u, v, g) => KeptAt(t, v, g)
  BY Zenon DEF Kept, KeptAt, SameConn, NotIndexed
<1>2. CASE Kept(u, v)
  BY <1>1, <1>2 DEF Kept, TableStep
<1>3. CASE \E f \in Ptr : Enters(u, v, f)
  BY Zenon, <1>1, <1>3 DEF Kept, KeptAt, Enters, TableStep
<1>4. ASSUME NEW f \in Ptr, Leaves(u, v, f) PROVE TableStep(t, v)
  <2>1. t.flow[f].in_qpn_map /\ KeptAt(t, u, f)
    BY Zenon, <1>4 DEF Kept, KeptAt, Leaves
  <2>2. Unindexed(t, v, f)
    BY Zenon, <1>4, <2>1 DEF Leaves, KeptAt, SameConn, NotIndexed, Unindexed
  <2>. QED
    BY Zenon, <1>1, <1>4, <2>1, <2>2 DEF Leaves, TableStep
<1>. QED
  BY <1>2, <1>3, <1>4 DEF TableStep

\* The other order.
LEMMA StepThenKept ==
    ASSUME NEW t, NEW u, NEW v, TableStep(t, u), Kept(u, v),
           v.local_map = u.local_map, v.remote_map = u.remote_map
    PROVE  TableStep(t, v)
<1>1. \A g \in Ptr : KeptAt(t, u, g) => KeptAt(t, v, g)
  BY Zenon DEF Kept, KeptAt, SameConn, NotIndexed
<1>2. CASE Kept(t, u)
  BY <1>1, <1>2 DEF Kept, TableStep
<1>3. CASE \E f \in Ptr : Enters(t, u, f)
  BY Zenon, <1>1, <1>3 DEF Kept, KeptAt, Enters, TableStep
<1>4. CASE \E f \in Ptr : Leaves(t, u, f)
  BY Zenon, <1>1, <1>4 DEF Kept, KeptAt, Leaves, Unindexed, TableStep
<1>. QED
  BY <1>2, <1>3, <1>4 DEF TableStep

\* A tracker keeps its own table.
LEMMA KeptItself == \A t : Kept(t, t)
BY DEF Kept, KeptAt, SameConn, NotIndexed

\* Nothing that happens to one unmapped flow concerns the table, as long as
\* it stays unmapped and others get no entries.
LEMMA UnmappedKept ==
    ASSUME NEW t, NEW u, NEW f \in Ptr,
           \A g \in Ptr : g # f => u.flow[g] = t.flow[g],
           \A g \in Ptr : g # f => NotIndexed(t, u, g),
           ~t.flow[f].in_qpn_map, ~u.flow[f].in_qpn_map
    PROVE  Kept(t, u)
BY Zenon DEF Kept, KeptAt, SameConn

\* add_new_flow on an unmapped flow keeps the table.
LEMMA AddNewFlowKept ==
    ASSUME NEW t \in TrackerType, NEW l \in Id0(HostId), NEW r \in CmFlowKey,
           NEW new \in Ptr, ~t.flow[target(t, l, r, new)].in_qpn_map
    PROVE  Kept(t, add_new_flow(t, l, r, new))
<1>. DEFINE f == target(t, l, r, new)
            u == add_new_flow(t, l, r, new)
            s == IF t.local_map[l] = NULL /\ t.remote_map[r] = NULL
                 THEN NewFlowState ELSE t.flow[f]
<1>1. AddNewFlowEffect(t, l, r, new)
  BY AddNewFlowFields
<1>2. /\ f \in Ptr
      /\ \A g \in Ptr : g # f => u.flow[g] = t.flow[g]
      /\ u.flow[f].in_qpn_map = s.in_qpn_map
  BY Zenon, <1>1 DEF AddNewFlowEffect
<1>3. ~s.in_qpn_map
  BY Zenon DEF NewFlowState
<1>4. ~t.flow[f].in_qpn_map
  OBVIOUS
<1>5. u.remote_map = [t.remote_map EXCEPT ![r] =
                         IF t.remote_map[r] = NULL /\ IsKey(r) THEN f ELSE @]
  BY Zenon, <1>1 DEF AddNewFlowEffect
<1>. HIDE DEF f, u, s
<1>6. \A g \in Ptr : g # f => NotIndexed(t, u, g)
  <2>1. \A g \in Ptr : t.flow[g].remote_id \in CmFlowKey
    BY DEF TrackerType, FlowState
  <2>. QED
    BY <1>5, <2>1 DEF NotIndexed, TrackerType
<1>7. Kept(t, u)
  BY <1>2, <1>3, <1>4, <1>6, UnmappedKept
<1>. QED
  BY <1>7 DEF u

\* get_flow, when it fails no assert, keeps the table.
LEMMA GetFlowKept ==
    ASSUME NEW t, Sound(t), NEW l \in Id0(HostId), NEW r \in CmFlowKey,
           NEW new \in Free(t), get_flow_abort(t, l, r) = "none"
    PROVE  Kept(t, get_flow(t, l, r, new))
<1>1. t \in TrackerType /\ new \in Ptr
  BY DEF Sound, Free
<1>2. CASE lookup(t, l, r) # NULL
  BY <1>2, KeptItself DEF get_flow
<1>3. CASE lookup(t, l, r) = NULL
  <2>1. ~t.flow[target(t, l, r, new)].in_qpn_map
    BY <1>3, GetFlowTarget
  <2>2. Kept(t, add_new_flow(t, l, r, new))
    BY <1>1, <2>1, AddNewFlowKept
  <2>. QED
    BY <1>3, <2>2 DEF get_flow
<1>. QED
  BY <1>2, <1>3

\* A new state keeps the table; so does a new QPN of an unmapped flow.
LEMMA SetKept ==
    ASSUME NEW t \in TrackerType, NEW f \in Ptr, NEW st, NEW q
    PROVE  /\ Kept(t, SetState(t, f, st))
           /\ ~t.flow[f].in_qpn_map => /\ Kept(t, SetLocalQpn(t, f, q))
                                       /\ Kept(t, SetRemoteQpn(t, f, q))
<1>1. t.flow[f] \in FlowState
  BY DEF TrackerType
<1>2. Kept(t, SetState(t, f, st))
  BY <1>1 DEF Kept, KeptAt, SameConn, NotIndexed, SetState, TrackerType, FlowState
<1>3. ASSUME ~t.flow[f].in_qpn_map PROVE Kept(t, SetLocalQpn(t, f, q))
  BY <1>1, <1>3 DEF Kept, KeptAt, SameConn, NotIndexed, SetLocalQpn, TrackerType, FlowState
<1>4. ASSUME ~t.flow[f].in_qpn_map PROVE Kept(t, SetRemoteQpn(t, f, q))
  BY <1>1, <1>4 DEF Kept, KeptAt, SameConn, NotIndexed, SetRemoteQpn, TrackerType, FlowState
<1>. QED
  BY <1>2, <1>3, <1>4

\* on_established lets at most its own flow into the table.
LEMMA OnEstablishedStep ==
    ASSUME NEW t \in TrackerType, NEW f \in Ptr, ~t.flow[f].in_qpn_map
    PROVE  TableStep(t, on_established(t, f))
<1>. DEFINE k == get_flow_key(t.flow[f])
            u == [t EXCEPT !.qpn_map[k] = t.flow[f].local_qpn,
                           !.flow[f].in_qpn_map = TRUE]
<1>1. on_established(t, f) \in {t, u}
  BY DEF on_established
<1>2. Enters(t, u, f)
  <2>1. t.flow[f] \in FlowState
    BY DEF TrackerType
  <2>. HIDE DEF k
  <2>2. /\ \A g \in Ptr : g # f => u.flow[g] = t.flow[g]
        /\ u.flow[f] = [t.flow[f] EXCEPT !.in_qpn_map = TRUE]
        /\ u.remote_map = t.remote_map
    BY Zenon DEF TrackerType
  <2>. HIDE DEF u
  <2>3. u.flow[f].in_qpn_map
    BY <2>1, <2>2 DEF FlowState
  <2>. QED
    BY <2>2, <2>3 DEF Enters, KeptAt, SameConn, NotIndexed
<1>. HIDE DEF u
<1>3. TableStep(t, u)
  BY <1>2 DEF TableStep
<1>4. TableStep(t, t)
  BY KeptItself DEF TableStep
<1>. QED
  BY <1>1, <1>3, <1>4

\* rtu_sent and rtu_received.
LEMMA EstablishStep ==
    ASSUME NEW t, Sound(t), NEW f \in Ptr,
           t.flow[f].state \notin {"ESTABLISHED", "DREQ_SENT", "DREQ_RCVD"}
    PROVE  TableStep(t, on_established(SetState(t, f, "ESTABLISHED"), f))
<1>. DEFINE u == SetState(t, f, "ESTABLISHED")
<1>1. ~t.flow[f].in_qpn_map
  BY NotConnectedNotMapped
<1>2. Sound(u) /\ Touches(t, u, f)
  BY <1>1, SetStateSound DEF FLOW_STATES
<1>3. Kept(t, u)
  BY SetKept DEF Sound
<1>. HIDE DEF u
<1>4. u \in TrackerType /\ ~u.flow[f].in_qpn_map
  BY <1>1, <1>2 DEF Sound, Touches
<1>5. TableStep(u, on_established(u, f))
  BY <1>4, OnEstablishedStep
<1>6. TableStep(t, on_established(u, f))
  BY <1>3, <1>5, KeptThenStep
<1>. QED
  BY <1>6 DEF u

\* req_sent and req_received, and the first assignments of rep_received.
LEMMA RequestKept ==
    ASSUME NEW t, Sound(t), NEW f \in Ptr, NEW q \in Id0(Qpn), NEW st \in FLOW_STATES,
           t.flow[f].state \notin {"ESTABLISHED", "DREQ_SENT", "DREQ_RCVD"}
    PROVE  /\ Kept(t, SetLocalQpn(SetState(t, f, st), f, q))
           /\ Kept(t, SetRemoteQpn(SetState(t, f, st), f, q))
<1>. DEFINE u == SetState(t, f, st)
<1>1. ~t.flow[f].in_qpn_map
  BY NotConnectedNotMapped
<1>2. Sound(u) /\ Touches(t, u, f)
  BY <1>1, SetStateSound
<1>3. Kept(t, u)
  BY SetKept DEF Sound
<1>. HIDE DEF u
<1>4. Kept(u, SetLocalQpn(u, f, q)) /\ Kept(u, SetRemoteQpn(u, f, q))
  BY <1>1, <1>2, SetKept DEF Sound, Touches
<1>. DEFINE a == SetLocalQpn(u, f, q)
            b == SetRemoteQpn(u, f, q)
<1>. HIDE DEF a, b
<1>5. Kept(t, a) /\ Kept(t, b)
  <2>1. Kept(u, a) /\ Kept(u, b)
    BY <1>4 DEF a, b
  <2>. QED
    BY <1>3, <2>1, KeptTwice
<1>. QED
  BY <1>5 DEF a, b, u

\* erase_flow takes at most the flow it looks up out of the table.
LEMMA EraseFlowStep ==
    ASSUME NEW t, Sound(t), NEW l \in Id0(HostId), NEW r \in CmFlowKey,
           lookup(t, l, r) \in Ptr
    PROVE  TableStep(t, erase_flow(t, l, r))
<1>. DEFINE f == lookup(t, l, r)
            d == IF t.flow[f].in_qpn_map THEN on_disconnected(t, f) ELSE t
<1>1. erase_flow(t, l, r) = Unindex(d, l, r)
  BY MarkersAssumption DEF erase_flow, Unindex
<1>2. Sound(d) /\ ~d.flow[f].in_qpn_map
  BY OnDisconnectedSound
<1>3. ASSUME NEW g \in Ptr, g # f PROVE d.flow[g] = t.flow[g]
  BY <1>3 DEF on_disconnected, Sound, TrackerType
<1>4. d.local_map = t.local_map /\ d.remote_map = t.remote_map
  BY OnDisconnectedSound
<1>5. f \in Ptr /\ f # NULL
  BY Zenon, MarkersAssumption
<1>6. /\ l # 0 => t.flow[f].local_id = l
      /\ l = 0 => t.flow[f].remote_id = r /\ t.remote_map[r] = f
  BY <1>5 DEF lookup, Sound, Indexed
<1>. DEFINE u == Unindex(d, l, r)
<1>. HIDE DEF d, f
<1>7. /\ u.flow = d.flow
      /\ u.local_map = [t.local_map EXCEPT ![l] = NULL]
      /\ u.remote_map = [t.remote_map EXCEPT ![r] = NULL]
  BY Zenon, <1>2, <1>4 DEF Sound, TrackerType, Unindex
<1>8. u.local_map[l] = NULL /\ u.remote_map[r] = NULL
  BY <1>7 DEF Sound, TrackerType
<1>9. \A g \in Ptr : NotIndexed(t, u, g)
  <2>1. \A g \in Ptr : t.flow[g].remote_id \in CmFlowKey
    BY DEF Sound, TrackerType, FlowState
  <2>. QED
    BY <1>7, <2>1, MarkersAssumption DEF NotIndexed, Sound, TrackerType
<1>. HIDE DEF u
<1>10. CASE t.flow[f].in_qpn_map
  <2>1. Unindexed(t, u, f)
    BY Zenon, <1>6, <1>8 DEF Unindexed
  <2>2. Leaves(t, u, f)
    BY <1>2, <1>3, <1>7, <1>9, <1>10, <2>1 DEF Leaves, KeptAt, SameConn
  <2>. QED
    BY <1>1, <1>5, <2>2 DEF TableStep, u
<1>11. CASE ~t.flow[f].in_qpn_map
  <2>1. d = t
    BY <1>11 DEF d
  <2>2. Kept(t, u)
    BY Zenon, <1>7, <1>9, <2>1 DEF Kept, KeptAt, SameConn
  <2>. QED
    BY <1>1, <2>2 DEF TableStep, u
<1>. QED
  BY <1>10, <1>11

\* Freeing objects does not touch the table: local_map holds its flows.
LEMMA ReleaseKept ==
    ASSUME NEW t, Sound(t)
    PROVE  Kept(t, Release(t))
<1>1. t \in TrackerType
  BY DEF Sound
<1>2. /\ Release(t).flow = [f \in Ptr |-> IF f \in Live(t) THEN t.flow[f] ELSE NewFlowState]
      /\ Release(t).remote_map = t.remote_map
  BY Zenon, <1>1 DEF Release, TrackerType
<1>3. \A f \in Ptr : t.flow[f].in_qpn_map => f \in Live(t)
  BY <1>1 DEF Sound, Exact, Answers, Live, TrackerType, FlowState
<1>4. ~NewFlowState.in_qpn_map
  BY DEF NewFlowState
<1>. QED
  BY <1>2, <1>3, <1>4 DEF Kept, KeptAt, SameConn, NotIndexed

\* rep_sent and rep_received: linking the second id to a flow.
LEMMA LinkKept ==
    ASSUME NEW g, Sound(g), NEW f \in Ptr, NEW u, Sound(u), Touches(g, u, f),
           NEW l \in Id0(HostId), NEW r \in CmFlowKey, NEW new \in Ptr,
           lookup(g, l, r) = f, ~g.flow[f].in_qpn_map
    PROVE  Kept(u, add_new_flow(u, l, r, new))
<1>1. g \in TrackerType /\ u \in TrackerType
  BY DEF Sound
<1>2. l = 0 => g.local_map[l] = NULL
  BY DEF Sound, Indexed
<1>3. target(g, l, r, new) = f
  BY <1>2, MarkersAssumption DEF lookup, target
<1>4. target(u, l, r, new) = f
  BY <1>1, <1>3, TouchesSameChoice
<1>5. ~u.flow[f].in_qpn_map
  BY DEF Touches
<1>. QED
  BY <1>1, <1>4, <1>5, AddNewFlowKept

-----------------------------------------------------------------------------
(* Handlers *)

\* A handler for a packet of the host is a table step.
LEMMA HostHandlersStep ==
    ASSUME NEW t, Sound(t), NEW p \in AnyHostPacket, NEW new \in Free(t),
           host_abort(t, p, new) = "none"
    PROVE  TableStep(t, host_handlers(t, p, new))
<1>. DEFINE l == p.local_comm_id
            r == <<p.daddr, p.remote_comm_id>>
            g == get_flow(t, l, NoKey, new)
            f == lookup(g, l, NoKey)
            gr == get_flow(t, l, r, new)
            fr == lookup(gr, l, r)
            u == host_handlers(t, p, new)
<1>1. /\ l \in Id0(HostId) /\ r \in CmFlowKey /\ p.local_qpn \in Id0(Qpn)
      /\ p.attr \in Attr /\ new \in Ptr /\ NoKey \in CmFlowKey
  BY DEF AnyHostPacket, Packet, CmFlowKey, Id0, Free, NoKey
<1>2. from_dest(p, p.remote_comm_id) = r
  BY Zenon DEF from_dest
<1>. HIDE DEF l, r
<1>3. ASSUME p.attr \in {"REQ", "RTU", "DREQ", "DREP"}
      PROVE  Sound(g) /\ f \in Ptr /\ l # 0 /\ Kept(t, g)
  <2>1. get_flow_abort(t, l, NoKey) = "none"
    BY <1>3 DEF host_abort, l
  <2>. QED
    BY <1>1, <2>1, GetFlowByLocalId, GetFlowKept
<1>4. ASSUME p.attr \in {"REJ", "REP"}
      PROVE  Sound(gr) /\ fr \in Ptr /\ Kept(t, gr)
  <2>1. get_flow_abort(t, l, r) = "none"
    BY <1>2, <1>4 DEF host_abort, rej_sent_abort, rep_sent_abort, l
  <2>. QED
    BY <1>1, <2>1, GetFlowSound, GetFlowKept
<1>5. CASE p.attr = "REQ"
  <2>1. u = IF g.flow[f].state \in {"IDLE", "REQ_SENT"}
            THEN SetLocalQpn(SetState(g, f, "REQ_SENT"), f, p.local_qpn) ELSE g
    BY Zenon, <1>5 DEF host_handlers, req_sent, l
  <2>. HIDE DEF g, f, u
  <2>2. Kept(g, u)
    BY <1>1, <1>3, <1>5, <2>1, RequestKept, KeptItself DEF FLOW_STATES
  <2>. QED
    BY <1>3, <1>5, <2>2, KeptThenStep DEF TableStep, u
<1>6. CASE p.attr = "RTU"
  <2>1. u = IF g.flow[f].state \in {"REP_RCVD", "MRA_REP_SENT"}
            THEN on_established(SetState(g, f, "ESTABLISHED"), f) ELSE g
    BY Zenon, <1>6 DEF host_handlers, rtu_sent, l
  <2>. HIDE DEF g, f, u
  <2>2. TableStep(g, u)
    BY <1>3, <1>6, <2>1, EstablishStep, KeptItself DEF TableStep
  <2>. QED
    BY <1>3, <1>6, <2>2, KeptThenStep DEF u
<1>7. CASE p.attr = "DREQ"
  <2>1. u \in {SetState(g, f, "DREQ_SENT"), g}
    BY <1>7 DEF host_handlers, dreq_sent, l
  <2>. HIDE DEF g, f, u
  <2>2. Kept(g, u)
    BY <1>3, <1>7, <2>1, SetKept, KeptItself DEF Sound
  <2>. QED
    BY <1>3, <1>7, <2>2, KeptThenStep DEF TableStep, u
<1>8. CASE p.attr = "DREP"
  <2>1. u \in {erase_flow(g, l, r), g}
    BY Zenon, <1>2, <1>8 DEF host_handlers, drep_sent, l
  <2>2. lookup(g, l, r) = f
    BY <1>3, <1>8 DEF lookup
  <2>. HIDE DEF g, f, u
  <2>3. TableStep(g, u)
    BY <1>1, <1>3, <1>8, <2>1, <2>2, EraseFlowStep, KeptItself DEF TableStep
  <2>. QED
    BY <1>3, <1>8, <2>3, KeptThenStep DEF u
<1>9. CASE p.attr = "REJ"
  <2>1. u \in {erase_flow(gr, l, r), gr}
    BY <1>2, <1>9 DEF host_handlers, rej_sent, l
  <2>. HIDE DEF gr, u
  <2>2. TableStep(gr, u)
    BY <1>1, <1>4, <1>9, <2>1, EraseFlowStep, KeptItself DEF TableStep
  <2>. QED
    BY <1>4, <1>9, <2>2, KeptThenStep DEF u
<1>10. CASE p.attr = "REP"
  <2>. DEFINE a == SetState(gr, fr, "REP_SENT")
              b == add_new_flow(a, l, r, new)
  <2>1. u = IF gr.flow[fr].state \in {"REQ_RCVD", "MRA_REQ_SENT"}
            THEN SetLocalQpn(b, fr, p.local_qpn) ELSE gr
    BY <1>2, <1>10 DEF host_handlers, rep_sent, l
  <2>2. CASE gr.flow[fr].state \notin {"REQ_RCVD", "MRA_REQ_SENT"}
    BY Zenon, <1>4, <1>10, <2>1, <2>2 DEF TableStep
  <2>3. CASE gr.flow[fr].state \in {"REQ_RCVD", "MRA_REQ_SENT"}
    <3>1. add_new_flow_ok(gr, l, r)
      BY <1>2, <1>10, <2>3 DEF host_abort, rep_sent_abort, l
    <3>. HIDE DEF gr, fr
    <3>2. ~gr.flow[fr].in_qpn_map
      BY <1>4, <1>10, <2>3, NotConnectedNotMapped
    <3>3. Sound(a) /\ Touches(gr, a, fr) /\ Kept(gr, a)
      <4>1. "REP_SENT" \in FLOW_STATES
        BY DEF FLOW_STATES
      <4>2. Sound(gr) /\ gr \in TrackerType /\ fr \in Ptr
        BY <1>4, <1>10 DEF Sound
      <4>3. Sound(a) /\ Touches(gr, a, fr)
        BY <3>2, <4>1, <4>2, SetStateSound, Zenon
      <4>4. Kept(gr, a)
        BY <4>2, SetKept, Zenon
      <4>. QED
        BY <4>3, <4>4
    <3>. HIDE DEF a
    <3>4. lookup(gr, l, r) = fr
      BY DEF fr
    <3>5. Sound(b) /\ ~b.flow[fr].in_qpn_map
      BY <1>1, <1>4, <1>10, <3>1, <3>2, <3>3, <3>4, LinkSound
    <3>6. Kept(a, b)
      BY Zenon, <1>1, <1>4, <1>10, <3>2, <3>3, <3>4, LinkKept
    <3>. HIDE DEF b, u
    <3>7. Kept(b, u)
      BY <1>4, <1>10, <2>1, <2>3, <3>5, SetKept DEF Sound
    <3>8. TableStep(b, u)
      BY <3>7 DEF TableStep
    <3>9. TableStep(a, u)
      BY <3>6, <3>8, KeptThenStep
    <3>10. TableStep(gr, u)
      BY <3>3, <3>9, KeptThenStep
    <3>. QED
      BY <1>4, <1>10, <3>10, KeptThenStep DEF u
  <2>. QED
    BY Zenon, <2>2, <2>3
<1>11. CASE p.attr \notin Handled
  BY Zenon, <1>11, KeptItself DEF host_handlers, Handled, TableStep
<1>. QED
  BY <1>1, <1>5, <1>6, <1>7, <1>8, <1>9, <1>10, <1>11 DEF Handled, Attr

\* So is a handler for a packet of the network.
LEMMA NetHandlersStep ==
    ASSUME NEW t, Sound(t), NEW p \in AnyNetPacket, NEW new \in Free(t),
           net_abort(t, p, new) = "none"
    PROVE  TableStep(t, net_handlers(t, p, new))
<1>. DEFINE l == p.remote_comm_id
            r == <<p.saddr, p.local_comm_id>>
            g == get_flow(t, l, NoKey, new)
            f == lookup(g, l, NoKey)
            gr == get_flow(t, l, r, new)
            fr == lookup(gr, l, r)
            g0 == get_flow(t, 0, r, new)
            f0 == lookup(g0, 0, r)
            u == net_handlers(t, p, new)
<1>1. /\ l \in Id0(HostId) /\ r \in CmFlowKey /\ p.local_qpn \in Id0(Qpn)
      /\ p.attr \in Attr /\ new \in Ptr /\ 0 \in Id0(HostId) /\ NoKey \in CmFlowKey
  BY DEF AnyNetPacket, Packet, CmFlowKey, Id0, Free, NoKey
<1>2. from_src(p, p.local_comm_id) = r
  BY Zenon DEF from_src
<1>. HIDE DEF l, r
<1>3. ASSUME p.attr \in {"REP", "RTU", "DREQ", "DREP"}
      PROVE  Sound(g) /\ f \in Ptr /\ l # 0 /\ Kept(t, g)
  <2>1. get_flow_abort(t, l, NoKey) = "none"
    BY <1>2, <1>3 DEF net_abort, rep_received_abort, l
  <2>. QED
    BY <1>1, <2>1, GetFlowByLocalId, GetFlowKept
<1>4. CASE p.attr = "REQ"
  <2>1. u = IF g0.flow[f0].state \in {"REQ_RCVD", "IDLE"}
            THEN SetRemoteQpn(SetState(g0, f0, "REQ_RCVD"), f0, p.local_qpn) ELSE g0
    BY <1>2, <1>4 DEF net_handlers, req_received
  <2>2. get_flow_abort(t, 0, r) = "none"
    BY <1>2, <1>4 DEF net_abort, req_received_abort
  <2>3. Sound(g0) /\ f0 \in Ptr /\ Kept(t, g0)
    BY Zenon, <1>1, <2>2, GetFlowSound, GetFlowKept
  <2>. HIDE DEF g0, f0, u
  <2>4. Kept(g0, u)
    BY <1>1, <2>1, <2>3, RequestKept, KeptItself DEF FLOW_STATES
  <2>. QED
    BY <2>3, <2>4, KeptThenStep DEF TableStep, u
<1>5. CASE p.attr = "REJ"
  <2>1. u \in {erase_flow(gr, l, r), gr}
    BY <1>2, <1>5 DEF net_handlers, rej_received, l
  <2>2. get_flow_abort(t, l, r) = "none"
    BY <1>2, <1>5 DEF net_abort, rej_received_abort, l
  <2>3. Sound(gr) /\ fr \in Ptr /\ Kept(t, gr)
    BY <1>1, <2>2, GetFlowSound, GetFlowKept
  <2>. HIDE DEF gr, u
  <2>4. TableStep(gr, u)
    BY ZenonT(30), <1>1, <2>1, <2>3, EraseFlowStep, KeptItself DEF TableStep
  <2>. QED
    BY <2>3, <2>4, KeptThenStep DEF u
<1>6. CASE p.attr = "REP"
  <2>. DEFINE a == SetRemoteQpn(SetState(g, f, "REP_RCVD"), f, p.local_qpn)
  <2>1. u = IF g.flow[f].state \in {"REQ_SENT", "MRA_REQ_RCVD"}
            THEN add_new_flow(a, l, r, new) ELSE g
    BY <1>2, <1>6 DEF net_handlers, rep_received, l
  <2>2. CASE g.flow[f].state \notin {"REQ_SENT", "MRA_REQ_RCVD"}
    BY Zenon, <1>3, <1>6, <2>1, <2>2 DEF TableStep
  <2>3. CASE g.flow[f].state \in {"REQ_SENT", "MRA_REQ_RCVD"}
    <3>1. lookup(g, l, r) = f
      BY Zenon, <1>3, <1>6 DEF lookup
    <3>. HIDE DEF g, f
    <3>2. ~g.flow[f].in_qpn_map
      BY Zenon, <1>3, <1>6, <2>3, NotConnectedNotMapped
    <3>3. Sound(a) /\ Touches(g, a, f) /\ Kept(g, a)
      BY Zenon, <1>1, <1>3, <1>6, <2>3, RequestSound, RequestKept DEF FLOW_STATES
    <3>. HIDE DEF a, u
    <3>4. Kept(a, u)
      BY Zenon, <1>1, <1>3, <1>6, <2>1, <2>3, <3>1, <3>2, <3>3, LinkKept
    <3>5. TableStep(a, u)
      BY <3>4 DEF TableStep
    <3>6. TableStep(g, u)
      BY <3>3, <3>5, KeptThenStep
    <3>. QED
      BY Zenon, <1>3, <1>6, <3>6, KeptThenStep DEF u
  <2>. QED
    BY <2>2, <2>3
<1>7. CASE p.attr = "RTU"
  <2>1. u = IF g.flow[f].state \in {"REP_SENT", "MRA_REP_RCVD"}
            THEN on_established(SetState(g, f, "ESTABLISHED"), f) ELSE g
    BY Zenon, <1>7 DEF net_handlers, rtu_received, l
  <2>. HIDE DEF g, f, u
  <2>2. TableStep(g, u)
    BY <1>3, <1>7, <2>1, EstablishStep, KeptItself DEF TableStep
  <2>. QED
    BY <1>3, <1>7, <2>2, KeptThenStep DEF u
<1>8. CASE p.attr = "DREQ"
  <2>1. u \in {SetState(g, f, "DREQ_RCVD"), g}
    BY <1>8 DEF net_handlers, dreq_received, l
  <2>. HIDE DEF g, f, u
  <2>2. Kept(g, u)
    BY <1>3, <1>8, <2>1, SetKept, KeptItself DEF Sound
  <2>. QED
    BY <1>3, <1>8, <2>2, KeptThenStep DEF TableStep, u
<1>9. CASE p.attr = "DREP"
  <2>1. u \in {erase_flow(g, l, r), g}
    BY Zenon, <1>2, <1>9 DEF net_handlers, drep_received, l
  <2>2. lookup(g, l, r) = f
    BY Zenon, <1>3, <1>9 DEF lookup
  <2>. HIDE DEF g, f, u
  <2>3. TableStep(g, u)
    BY <1>1, <1>3, <1>9, <2>1, <2>2, EraseFlowStep, KeptItself DEF TableStep
  <2>. QED
    BY <1>3, <1>9, <2>3, KeptThenStep DEF u
<1>10. CASE p.attr \notin Handled
  BY <1>10, KeptItself DEF net_handlers, Handled, TableStep
<1>. QED
  BY <1>1, <1>4, <1>5, <1>6, <1>7, <1>8, <1>9, <1>10 DEF Handled, Attr

\* What process does with a packet, the release of objects included, is a step
\* from a sound tracker to a sound tracker, and a table step.
LEMMA FinishStep ==
    ASSUME Sound(Tracker), NEW a, NEW t, Finish(a, t),
           a = "none" => Sound(t) /\ TableStep(Tracker, t)
    PROVE  TableStep(Tracker, Tracker')
<1>1. CASE a # "none"
  <2>1. Tracker' = Tracker
    BY <1>1 DEF Finish, Tracker
  <2>. QED
    BY <2>1, KeptItself DEF TableStep
<1>2. CASE a = "none"
  <2>. DEFINE u == Release(t)
  <2>1. /\ u.local_map = t.local_map /\ u.remote_map = t.remote_map
        /\ u.qpn_map = t.qpn_map /\ u \in TrackerType
    BY <1>2, ReleaseSound DEF Sound
  <2>2. TableStep(Tracker, u)
    BY <1>2, <2>1, ReleaseKept, StepThenKept
  <2>3. /\ flow' = u.flow /\ local_map' = u.local_map
        /\ remote_map' = u.remote_map /\ qpn_map' = u.qpn_map
    BY Zenon, <1>2, <2>1 DEF Finish
  <2>. HIDE DEF u
  <2>4. u = [flow |-> u.flow, local_map |-> u.local_map,
             remote_map |-> u.remote_map, qpn_map |-> u.qpn_map]
    BY <2>1 DEF TrackerType
  <2>5. Tracker' = u
    BY <2>3, <2>4 DEF Tracker
  <2>. QED
    BY <2>2, <2>5
<1>. QED
  BY <1>1, <1>2

\* Every step of the tracker is a table step.
LEMMA NextStep == IInv /\ [Next]_vars => TableStep(Tracker, Tracker')
<1>. SUFFICES ASSUME IInv, [Next]_vars PROVE TableStep(Tracker, Tracker')
  OBVIOUS
<1>. USE DEF IInv
<1>1. ASSUME NEW A, FromHost(A) PROVE TableStep(Tracker, Tracker')
  <2>1. PICK p \in HostPackets, new \in Free(Tracker) :
          Finish(host_abort(Tracker, p, new), host_handlers(Tracker, p, new))
    BY <1>1 DEF FromHost
  <2>2. p \in AnyHostPacket
    BY PacketsAssumption
  <2>3. host_abort(Tracker, p, new) = "none" =>
           /\ Sound(host_handlers(Tracker, p, new))
           /\ TableStep(Tracker, host_handlers(Tracker, p, new))
    BY <2>2, HostHandlersSound, HostHandlersStep
  <2>. QED
    BY <2>1, <2>3, FinishStep
<1>2. ASSUME NEW A, FromNet(A) PROVE TableStep(Tracker, Tracker')
  <2>1. PICK p \in NetPackets, new \in Free(Tracker) :
          Finish(net_abort(Tracker, p, new), net_handlers(Tracker, p, new))
    BY <1>2 DEF FromNet
  <2>2. p \in AnyNetPacket
    BY PacketsAssumption
  <2>3. net_abort(Tracker, p, new) = "none" =>
           /\ Sound(net_handlers(Tracker, p, new))
           /\ TableStep(Tracker, net_handlers(Tracker, p, new))
    BY <2>2, NetHandlersSound, NetHandlersStep
  <2>. QED
    BY <2>1, <2>3, FinishStep
<1>3. CASE UNCHANGED vars
  <2>1. Tracker' = Tracker
    BY <1>3 DEF vars, Tracker
  <2>. QED
    BY <2>1, KeptItself DEF TableStep
<1>4. CASE Next
  BY <1>1, <1>2, <1>4 DEF Next, ReqSent, RejSent, RepSent, RtuSent, DreqSent,
     DrepSent, UnknownSent, ReqReceived, RejReceived, RepReceived, RtuReceived,
     DreqReceived, DrepReceived, UnknownReceived
<1>. QED
  BY <1>3, <1>4

-----------------------------------------------------------------------------
(* Refinement *)

Mapped(t) == {g \in Ptr : t.flow[g].in_qpn_map}

ConnOf(t, g) == [owner |-> t.flow[g].local_id, key |-> get_flow_key(t.flow[g]),
                 qpn |-> t.flow[g].local_qpn]

\* The table of a sound tracker has connections of the right type, no two of
\* them with the same key or the same owner.
LEMMA ConnsSound ==
    ASSUME NEW t, Sound(t)
    PROVE  /\ Conns(t) = {ConnOf(t, g) : g \in Mapped(t)}
           /\ \A g \in Mapped(t) : ConnOf(t, g) \in Table!Conn
           /\ \A g, h \in Mapped(t) :
                 \/ t.flow[g].local_id = t.flow[h].local_id
                 \/ get_flow_key(t.flow[g]) = get_flow_key(t.flow[h])
                 => g = h
<1>1. Conns(t) = {ConnOf(t, g) : g \in Mapped(t)}
  BY Zenon DEF Conns, ConnOf, Mapped
<1>2. ASSUME NEW g \in Mapped(t)
      PROVE  /\ t.flow[g].local_id \in HostId
             /\ t.flow[g].local_qpn \in Qpn
             /\ get_flow_key(t.flow[g]) \in FlowKey
             /\ t.local_map[t.flow[g].local_id] = g
  <2>1. g \in Ptr /\ t.flow[g] \in FlowState /\ Answers(t, g, get_flow_key(t.flow[g]))
    BY DEF Mapped, Sound, Exact, TrackerType
  <2>2. t.flow[g].local_id \in Id0(HostId) /\ t.flow[g].local_qpn \in Id0(Qpn)
    BY Zenon, <2>1 DEF FlowState
  <2>3. t.flow[g].local_id # 0
    BY Zenon, <2>1, <2>2, MarkersAssumption DEF Answers, Sound, Indexed
  <2>4. get_flow_key(t.flow[g]) \in FlowKey
    BY Zenon, <2>1 DEF get_flow_key, FlowState, CmFlowKey, FlowKey
  <2>. QED
    BY <2>1, <2>2, <2>3, <2>4 DEF Answers, Id0
<1>3. \A g \in Mapped(t) : ConnOf(t, g) \in Table!Conn
  BY Zenon, <1>2 DEF ConnOf, Table!Conn
<1>4. ASSUME NEW g \in Mapped(t), NEW h \in Mapped(t),
             \/ t.flow[g].local_id = t.flow[h].local_id
             \/ get_flow_key(t.flow[g]) = get_flow_key(t.flow[h])
      PROVE  g = h
  BY <1>2, <1>4 DEF Mapped, Sound, Exact
<1>. QED
  BY <1>1, <1>3, <1>4

\* A connection the table keeps is the same connection afterwards.
LEMMA ConnKept ==
    ASSUME NEW t, NEW u, NEW g, KeptAt(t, u, g), t.flow[g].in_qpn_map
    PROVE  ConnOf(u, g) = ConnOf(t, g)
BY DEF KeptAt, SameConn, ConnOf, get_flow_key

\* What ConnTable lets happen to its connections, between two values of them.
ConnsStep(C, D) ==
    \/ D = C
    \/ \E c \in Table!Conn : /\ \A d \in C : d.owner # c.owner /\ d.key # c.key
                             /\ D = C \cup {c}
    \/ \E c \in Table!Conn : c \in C /\ D = C \ {c}

\* A table step is a step of ConnTable or changes nothing there.
LEMMA TableStepRefines ==
    ASSUME NEW t, Sound(t), NEW u, Sound(u), TableStep(t, u)
    PROVE  ConnsStep(Conns(t), Conns(u))
<1>1. /\ Conns(t) = {ConnOf(t, g) : g \in Mapped(t)}
      /\ Conns(u) = {ConnOf(u, g) : g \in Mapped(u)}
  BY ConnsSound
<1>2. CASE Kept(t, u)
  <2>1. Mapped(u) = Mapped(t)
    BY <1>2 DEF Kept, KeptAt, Mapped
  <2>2. \A g \in Mapped(t) : ConnOf(u, g) = ConnOf(t, g)
    BY Zenon, <1>2, ConnKept DEF Kept, Mapped
  <2>3. Conns(u) = Conns(t)
    BY <1>1, <2>1, <2>2
  <2>. QED
    BY <2>3 DEF ConnsStep
<1>3. ASSUME NEW f \in Ptr, Enters(t, u, f) PROVE ConnsStep(Conns(t), Conns(u))
  <2>1. Mapped(u) = Mapped(t) \cup {f} /\ f \notin Mapped(t)
    BY <1>3 DEF Enters, KeptAt, Mapped
  <2>2. \A g \in Mapped(t) : g # f /\ ConnOf(u, g) = ConnOf(t, g)
    BY Zenon, <1>3, ConnKept DEF Enters, Mapped
  <2>3. Conns(u) = Conns(t) \cup {ConnOf(u, f)}
    <3>1. {ConnOf(u, g) : g \in Mapped(t)} = {ConnOf(t, g) : g \in Mapped(t)}
      BY Zenon, <2>2
    <3>2. {ConnOf(u, g) : g \in Mapped(t) \cup {f}}
             = {ConnOf(u, g) : g \in Mapped(t)} \cup {ConnOf(u, f)}
      BY Zenon
    <3>. QED
      BY Zenon, <1>1, <2>1, <3>1, <3>2
  <2>4. ConnOf(u, f) \in Table!Conn
    BY <2>1, ConnsSound
  <2>5. ASSUME NEW d \in Conns(t)
        PROVE  d.owner # ConnOf(u, f).owner /\ d.key # ConnOf(u, f).key
    <3>1. PICK g \in Mapped(t) : d = ConnOf(u, g) /\ g # f
      BY <1>1, <2>2, <2>5
    <3>2. g \in Mapped(u) /\ f \in Mapped(u)
      BY <2>1
    <3>3. /\ u.flow[g].local_id # u.flow[f].local_id
          /\ get_flow_key(u.flow[g]) # get_flow_key(u.flow[f])
      BY <3>1, <3>2, ConnsSound
    <3>. QED
      BY <3>1, <3>3 DEF ConnOf
  <2>. QED
    BY <2>3, <2>4, <2>5 DEF ConnsStep
<1>4. ASSUME NEW f \in Ptr, Leaves(t, u, f) PROVE ConnsStep(Conns(t), Conns(u))
  <2>1. Mapped(u) = Mapped(t) \ {f} /\ f \in Mapped(t)
    BY <1>4 DEF Leaves, KeptAt, Mapped
  <2>2. \A g \in Mapped(u) : ConnOf(u, g) = ConnOf(t, g)
    BY Zenon, <1>4, <2>1, ConnKept DEF Leaves, Mapped
  <2>3. \A g \in Mapped(u) : ConnOf(t, g) # ConnOf(t, f)
    <3>1. \A g \in Mapped(u) : get_flow_key(t.flow[g]) # get_flow_key(t.flow[f])
      BY <2>1, ConnsSound
    <3>. QED
      BY <3>1 DEF ConnOf
  <2>4. Conns(u) = Conns(t) \ {ConnOf(t, f)}
    BY <1>1, <2>1, <2>2, <2>3
  <2>5. ConnOf(t, f) \in Conns(t) /\ ConnOf(t, f) \in Table!Conn
    BY <1>1, <2>1, ConnsSound
  <2>. QED
    BY <2>4, <2>5 DEF ConnsStep
<1>. QED
  BY <1>2, <1>3, <1>4 DEF TableStep

\* The tracker implements ConnTable for all ids, addresses, QPNs and packets:
\* connections enter and leave the query table one at a time and whole, and
\* neither a key nor a host id is ever in it twice.
THEOREM TrackerImplementsConnTable == Spec => ImplementsConnTable
<1>1. Init => Table!Init
  <2>. SUFFICES ASSUME Init PROVE Conns(Tracker) = {}
    BY DEF Table!Init
  <2>1. \A f \in Ptr : ~Tracker.flow[f].in_qpn_map
    BY Zenon DEF Init, Tracker, NewFlowState
  <2>. QED
    BY <2>1 DEF Conns
<1>2. IInv /\ IInv' /\ [Next]_vars => [Table!Next]_(Conns(Tracker))
  <2>. SUFFICES ASSUME IInv, IInv', [Next]_vars
                PROVE  [Table!Next]_(Conns(Tracker))
    OBVIOUS
  <2>1. Sound(Tracker) /\ Sound(Tracker')
    BY DEF IInv
  <2>2. ConnsStep(Conns(Tracker), Conns(Tracker'))
    BY <2>1, NextStep, TableStepRefines
  <2>3. Conns(Tracker)' = Conns(Tracker')
    BY DEF Conns, get_flow_key
  <2>. QED
    BY <2>2, <2>3 DEF ConnsStep, Table!Next, Table!Establish, Table!Withdraw
<1>. QED
  BY <1>1, <1>2, TrackerInvariant, PTL DEF Spec, ImplementsConnTable, Table!Spec

\* ctcm_query_ipv4 returns what ConnTable's query returns: the host QPN of the
\* one connection with the key, and 0 exactly when there is none.
THEOREM QueriesServed == Spec => []QueryServed
<1>1. IInv => QueryServed
  <2>. SUFFICES ASSUME IInv, NEW k \in FlowKey
                PROVE  Table!Query(k, get_source_qpn(Tracker, k))
    BY DEF QueryServed
  <2>. DEFINE t == Tracker
  <2>1. Sound(t)
    BY DEF IInv
  <2>. HIDE DEF t
  <2>2. Conns(t) = {ConnOf(t, g) : g \in Mapped(t)}
    BY <2>1, ConnsSound
  <2>3. CASE t.qpn_map[k] # Absent
    <3>1. PICK f \in Ptr : Answers(t, f, k)
      BY Zenon, <2>1, <2>3 DEF Sound, Exact
    <3>2. ConnOf(t, f) \in Conns(t) /\ ConnOf(t, f).key = k
          /\ ConnOf(t, f).qpn = t.qpn_map[k]
      BY <2>2, <3>1 DEF Answers, Mapped, ConnOf
    <3>. QED
      BY <2>3, <3>2 DEF Table!Query, get_source_qpn, t
  <2>4. CASE t.qpn_map[k] = Absent
    <3>1. ASSUME NEW c \in Conns(t) PROVE c.key # k
      <4>1. PICK g \in Mapped(t) : c = ConnOf(t, g)
        BY <2>2, <3>1
      <4>2. Answers(t, g, get_flow_key(t.flow[g])) /\ t.flow[g].local_qpn \in Id0(Qpn)
        BY Zenon, <2>1 DEF Mapped, Sound, Exact, TrackerType, FlowState
      <4>3. t.qpn_map[get_flow_key(t.flow[g])] # Absent
        BY <4>2, MarkersAssumption DEF Answers
      <4>. QED
        BY <2>4, <4>1, <4>3 DEF ConnOf
    <3>. QED
      BY <2>4, <3>1 DEF Table!Query, get_source_qpn, t
  <2>. QED
    BY <2>3, <2>4
<1>. QED
  BY <1>1, TrackerInvariant, PTL

\* A flow in the query table keeps its ids and QPNs, so that on_disconnected
\* computes the key that on_established has inserted.
THEOREM MappedFlowsFrozen == Spec => MappedFlowFrozen
<1>. DEFINE Frozen == \A f \in Ptr : flow[f].in_qpn_map /\ flow'[f].in_qpn_map =>
                        \A x \in {"local_id", "remote_id", "local_qpn", "remote_qpn"} :
                           flow'[f][x] = flow[f][x]
<1>1. IInv /\ [Next]_vars => [Frozen]_vars
  <2>. SUFFICES ASSUME IInv, [Next]_vars PROVE Frozen
    OBVIOUS
  <2>1. TableStep(Tracker, Tracker')
    BY NextStep
  <2>2. ASSUME NEW f \in Ptr, flow[f].in_qpn_map, flow'[f].in_qpn_map
        PROVE  SameConn(flow[f], flow'[f])
    BY Zenon, <2>1, <2>2 DEF TableStep, Kept, Enters, Leaves, KeptAt, Tracker
  <2>. QED
    BY <2>2 DEF SameConn
<1>. QED
  BY <1>1, TrackerInvariant, PTL DEF Spec, MappedFlowFrozen

\* What a table step does to the answer for k, between two sound trackers.
LEMMA AnswerLeaves ==
    ASSUME NEW t, Sound(t), NEW u, Sound(u), TableStep(t, u), NEW k \in FlowKey,
           t.qpn_map[k] # Absent, u.qpn_map[k] # t.qpn_map[k]
    PROVE  /\ u.qpn_map[k] = Absent
           /\ \E f \in Ptr : Answers(t, f, k) /\ Unindexed(t, u, f)
<1>1. PICK f \in Ptr : Answers(t, f, k)
  BY Zenon DEF Sound, Exact
<1>2. t.flow[f].in_qpn_map /\ get_flow_key(t.flow[f]) = k
      /\ t.flow[f].local_qpn = t.qpn_map[k]
  BY Zenon, <1>1 DEF Answers
<1>3. ~KeptAt(t, u, f)
  <2>. SUFFICES ASSUME KeptAt(t, u, f) PROVE FALSE
    OBVIOUS
  <2>1. u.flow[f].in_qpn_map /\ SameConn(t.flow[f], u.flow[f])
    BY Zenon, <1>2 DEF KeptAt
  <2>2. get_flow_key(u.flow[f]) = k /\ u.flow[f].local_qpn = t.qpn_map[k]
    BY Zenon, <1>2, <2>1 DEF SameConn, get_flow_key
  <2>3. Answers(u, f, get_flow_key(u.flow[f]))
    BY <2>1 DEF Sound, Exact
  <2>. QED
    BY <2>2, <2>3 DEF Answers
<1>4. ~u.flow[f].in_qpn_map /\ Unindexed(t, u, f) /\ \A g \in Ptr : g # f => KeptAt(t, u, g)
  BY Zenon, <1>2, <1>3 DEF TableStep, Kept, Enters, Leaves
<1>5. u.qpn_map[k] = Absent
  <2>. SUFFICES ASSUME u.qpn_map[k] # Absent PROVE FALSE
    OBVIOUS
  <2>1. PICK g \in Ptr : u.flow[g].in_qpn_map /\ get_flow_key(u.flow[g]) = k
    <3>1. PICK g \in Ptr : Answers(u, g, k)
      BY DEF Sound, Exact
    <3>. QED
      BY Zenon, <3>1 DEF Answers
  <2>2. g # f /\ KeptAt(t, u, g)
    BY <1>4, <2>1
  <2>3. t.flow[g].in_qpn_map /\ SameConn(t.flow[g], u.flow[g])
    BY Zenon, <2>1, <2>2 DEF KeptAt
  <2>4. get_flow_key(t.flow[g]) = k
    BY <2>1, <2>3 DEF SameConn, get_flow_key
  <2>. QED
    BY Zenon, <1>2, <2>2, <2>3, <2>4 DEF Sound, Exact
<1>. QED
  BY Zenon, <1>1, <1>4, <1>5

\* For every set of packets: an answer is never overwritten by another one, and is
\* withdrawn only by erase_flow, when it takes the answering flow out of a map.
THEOREM AnswersWithdrawnByErase == Spec => AnswerWithdrawnByEraseOnly
<1>. DEFINE Withdrawn ==
       \A k \in FlowKey : qpn_map[k] # Absent /\ qpn_map'[k] # qpn_map[k] =>
          /\ qpn_map'[k] = Absent
          /\ \E f \in Ptr :
                /\ Answers(Tracker, f, k)
                /\ \/ local_map'[flow[f].local_id] = NULL
                   \/ remote_map[flow[f].remote_id] = f /\ remote_map'[flow[f].remote_id] = NULL
<1>1. IInv /\ IInv' /\ [Next]_vars => [Withdrawn]_vars
  <2>. SUFFICES ASSUME IInv, IInv', [Next]_vars PROVE Withdrawn
    OBVIOUS
  <2>1. Sound(Tracker) /\ Sound(Tracker') /\ TableStep(Tracker, Tracker')
    BY NextStep DEF IInv
  <2>2. /\ Tracker.flow = flow /\ Tracker.qpn_map = qpn_map
        /\ Tracker.remote_map = remote_map
        /\ Tracker'.local_map = local_map' /\ Tracker'.remote_map = remote_map'
        /\ Tracker'.qpn_map = qpn_map'
    BY DEF Tracker
  <2>3. ASSUME NEW k \in FlowKey, qpn_map[k] # Absent, qpn_map'[k] # qpn_map[k]
        PROVE  /\ qpn_map'[k] = Absent
               /\ \E f \in Ptr : Answers(Tracker, f, k) /\ Unindexed(Tracker, Tracker', f)
    BY <2>1, <2>2, <2>3, AnswerLeaves
  <2>. QED
    BY Zenon, <2>2, <2>3 DEF Unindexed
<1>. QED
  BY <1>1, TrackerInvariant, PTL DEF Spec, AnswerWithdrawnByEraseOnly

-----------------------------------------------------------------------------
(* Established flows *)

\* A flow in the handshake has the QPNs its packets so far have carried.
FlowReady(s) ==
    /\ s.state \in {"REQ_SENT", "REP_SENT", "REP_RCVD"} => s.local_qpn # 0
    /\ s.state \in {"REQ_RCVD", "REP_SENT", "REP_RCVD"} => s.remote_qpn # 0

Ready(t) == \A f \in Ptr : FlowReady(t.flow[f])

SameQpns(s, v) ==
    v.state = s.state /\ v.local_qpn = s.local_qpn /\ v.remote_qpn = s.remote_qpn

\* No flow is established, and what has changed is ready.
Quiet(t, u) ==
    \A f \in Ptr : \/ SameQpns(t.flow[f], u.flow[f])
                   \/ FlowReady(u.flow[f]) /\ u.flow[f].state # "ESTABLISHED"

InTable(t, f) == t.qpn_map[get_flow_key(t.flow[f])] # Absent

\* Flows are ready, and one that is established now is in the table, or another
\* one with its key.
Answering(t, u) ==
    /\ Ready(u)
    /\ \A f \in Ptr : u.flow[f].state = "ESTABLISHED" =>
          t.flow[f].state = "ESTABLISHED" \/ InTable(u, f)

\* The flow f has these state and QPNs now; nothing else has changed.
Assigned(t, u, f, st, lq, rq) ==
    /\ u.flow[f].state = st /\ u.flow[f].local_qpn = lq /\ u.flow[f].remote_qpn = rq
    /\ \A h \in Ptr : h # f => u.flow[h] = t.flow[h]
    /\ u.local_map = t.local_map /\ u.remote_map = t.remote_map

\* A quiet step of a ready tracker is answering.
LEMMA QuietAnswering ==
    ASSUME NEW t, NEW u, Ready(t), Quiet(t, u)
    PROVE  Answering(t, u)
<1>1. \A f \in Ptr : FlowReady(u.flow[f])
  BY Zenon DEF Ready, Quiet, FlowReady, SameQpns
<1>. QED
  BY Zenon, <1>1 DEF Answering, Ready, Quiet, SameQpns

\* Changing nothing is quiet.
LEMMA QuietItself == \A t : Quiet(t, t)
BY DEF Quiet, SameQpns

\* Quiet steps in a row are quiet.
LEMMA QuietTwice ==
    ASSUME NEW t, NEW u, NEW v, Quiet(t, u), Quiet(u, v)
    PROVE  Quiet(t, v)
<1>. SUFFICES ASSUME NEW f \in Ptr
              PROVE  \/ SameQpns(t.flow[f], v.flow[f])
                     \/ FlowReady(v.flow[f]) /\ v.flow[f].state # "ESTABLISHED"
  BY Zenon DEF Quiet
<1>1. CASE SameQpns(u.flow[f], v.flow[f])
  BY Zenon, <1>1 DEF Quiet, SameQpns, FlowReady
<1>2. CASE FlowReady(v.flow[f]) /\ v.flow[f].state # "ESTABLISHED"
  BY <1>2
<1>. QED
  BY Zenon, <1>1, <1>2 DEF Quiet

\* A change of one flow is quiet if the flow is ready and not established.
LEMMA OneFlowQuiet ==
    ASSUME NEW t, NEW u, NEW f \in Ptr, \A h \in Ptr : h # f => u.flow[h] = t.flow[h],
           FlowReady(u.flow[f]), u.flow[f].state # "ESTABLISHED"
    PROVE  Quiet(t, u)
BY Zenon DEF Quiet, SameQpns

\* The assignments of the handlers.
LEMMA AssignedFields ==
    ASSUME NEW t \in TrackerType, NEW f \in Ptr, NEW st, NEW q
    PROVE  /\ Assigned(t, SetState(t, f, st), f, st, t.flow[f].local_qpn, t.flow[f].remote_qpn)
           /\ Assigned(t, SetLocalQpn(t, f, q), f, t.flow[f].state, q, t.flow[f].remote_qpn)
           /\ Assigned(t, SetRemoteQpn(t, f, q), f, t.flow[f].state, t.flow[f].local_qpn, q)
<1>1. t.flow[f] \in FlowState
  BY DEF TrackerType
<1>2. Assigned(t, SetState(t, f, st), f, st, t.flow[f].local_qpn, t.flow[f].remote_qpn)
  BY <1>1 DEF Assigned, SetState, TrackerType, FlowState
<1>3. Assigned(t, SetLocalQpn(t, f, q), f, t.flow[f].state, q, t.flow[f].remote_qpn)
  BY <1>1 DEF Assigned, SetLocalQpn, TrackerType, FlowState
<1>4. Assigned(t, SetRemoteQpn(t, f, q), f, t.flow[f].state, t.flow[f].local_qpn, q)
  BY <1>1 DEF Assigned, SetRemoteQpn, TrackerType, FlowState
<1>. QED
  BY <1>2, <1>3, <1>4

\* Assignments keep the types.
LEMMA FieldTypes ==
    ASSUME NEW t \in TrackerType, NEW f \in Ptr, NEW st \in FLOW_STATES,
           NEW q \in Id0(Qpn)
    PROVE  /\ SetState(t, f, st) \in TrackerType
           /\ SetLocalQpn(t, f, q) \in TrackerType
           /\ SetRemoteQpn(t, f, q) \in TrackerType
<1>1. t.flow[f] \in FlowState
  BY DEF TrackerType
<1>2. /\ [t.flow[f] EXCEPT !.state = st] \in FlowState
      /\ [t.flow[f] EXCEPT !.local_qpn = q] \in FlowState
      /\ [t.flow[f] EXCEPT !.remote_qpn = q] \in FlowState
  BY <1>1 DEF FlowState
<1>3. \A s \in FlowState : [t EXCEPT !.flow[f] = s] \in TrackerType
  BY Zenon DEF TrackerType
<1>. QED
  BY Zenon, <1>2, <1>3 DEF SetState, SetLocalQpn, SetRemoteQpn

\* add_new_flow changes neither states nor QPNs, except that a new flow is idle.
LEMMA AddNewFlowQuiet ==
    ASSUME NEW t \in TrackerType, NEW l \in Id0(HostId), NEW r \in CmFlowKey,
           NEW new \in Ptr
    PROVE  /\ Quiet(t, add_new_flow(t, l, r, new))
           /\ ~(t.local_map[l] = NULL /\ t.remote_map[r] = NULL) =>
                 \A f \in Ptr : SameQpns(t.flow[f], add_new_flow(t, l, r, new).flow[f])
<1>. DEFINE f == target(t, l, r, new)
            u == add_new_flow(t, l, r, new)
            s == IF t.local_map[l] = NULL /\ t.remote_map[r] = NULL
                 THEN NewFlowState ELSE t.flow[f]
<1>1. AddNewFlowEffect(t, l, r, new)
  BY AddNewFlowFields
<1>2. /\ f \in Ptr
      /\ \A g \in Ptr : g # f => u.flow[g] = t.flow[g]
      /\ SameQpns(s, u.flow[f])
  BY Zenon, <1>1 DEF AddNewFlowEffect, SameQpns
<1>3. NewFlowState.state = "IDLE"
  BY DEF NewFlowState
<1>. HIDE DEF f, u
<1>4. CASE t.local_map[l] = NULL /\ t.remote_map[r] = NULL
  <2>1. u.flow[f].state = "IDLE"
    BY <1>2, <1>3, <1>4 DEF SameQpns
  <2>2. FlowReady(u.flow[f]) /\ u.flow[f].state # "ESTABLISHED"
    BY Zenon, <2>1 DEF FlowReady
  <2>3. f \in Ptr /\ \A h \in Ptr : h # f => u.flow[h] = t.flow[h]
    BY Zenon, <1>2
  <2>4. Quiet(t, u)
    BY <2>2, <2>3, OneFlowQuiet
  <2>. QED
    BY Zenon, <1>4, <2>4 DEF u
<1>5. CASE ~(t.local_map[l] = NULL /\ t.remote_map[r] = NULL)
  <2>1. \A g \in Ptr : SameQpns(t.flow[g], u.flow[g])
    BY Zenon, <1>2, <1>5 DEF SameQpns
  <2>. QED
    BY <2>1 DEF Quiet, u
<1>. QED
  BY <1>4, <1>5

\* get_flow establishes nothing.
LEMMA GetFlowQuiet ==
    ASSUME NEW t \in TrackerType, NEW l \in Id0(HostId), NEW r \in CmFlowKey,
           NEW new \in Ptr
    PROVE  Quiet(t, get_flow(t, l, r, new))
BY QuietItself, AddNewFlowQuiet DEF get_flow

\* erase_flow takes a flow out of the maps and the table, and that is all.
LEMMA EraseFlowQuiet ==
    ASSUME NEW t, Sound(t), NEW l \in Id0(HostId), NEW r \in CmFlowKey,
           lookup(t, l, r) \in Ptr
    PROVE  Quiet(t, erase_flow(t, l, r))
<1>. DEFINE f == lookup(t, l, r)
            d == IF t.flow[f].in_qpn_map THEN on_disconnected(t, f) ELSE t
<1>1. erase_flow(t, l, r) = Unindex(d, l, r)
  BY MarkersAssumption DEF erase_flow, Unindex
<1>2. t.flow[f] \in FlowState /\ t \in TrackerType
  BY DEF Sound, TrackerType
<1>3. \A g \in Ptr : SameQpns(t.flow[g], d.flow[g])
  BY <1>2 DEF on_disconnected, SameQpns, TrackerType, FlowState
<1>4. d \in TrackerType
  BY OnDisconnectedSound DEF Sound
<1>. HIDE DEF d
<1>5. Unindex(d, l, r).flow = d.flow
  BY <1>4 DEF Unindex, TrackerType
<1>. QED
  BY Zenon, <1>1, <1>3, <1>5 DEF Quiet

\* rtu_sent and rtu_received: a flow that is ready does not take the "Bad QPNs" exit
\* of on_established.
LEMMA EstablishAnswers ==
    ASSUME NEW g, Sound(g), Ready(g), NEW f \in Ptr,
           g.flow[f].state \in {"REP_SENT", "REP_RCVD"}
    PROVE  LET u == on_established(SetState(g, f, "ESTABLISHED"), f)
           IN  /\ \A h \in Ptr : h # f => u.flow[h] = g.flow[h]
               /\ u.flow[f].state = "ESTABLISHED"
               /\ InTable(u, f)
<1>. DEFINE a == SetState(g, f, "ESTABLISHED")
            k == get_flow_key(a.flow[f])
            s == a.flow[f]
            e == [a EXCEPT !.qpn_map[k] = s.local_qpn, !.flow[f].in_qpn_map = TRUE]
<1>1. /\ s.state = "ESTABLISHED" /\ s.local_qpn # 0 /\ s.remote_qpn # 0
      /\ \A h \in Ptr : h # f => a.flow[h] = g.flow[h]
  <2>1. g \in TrackerType /\ g.flow[f].local_qpn # 0 /\ g.flow[f].remote_qpn # 0
    BY Zenon DEF Ready, FlowReady, Sound
  <2>2. Assigned(g, a, f, "ESTABLISHED", g.flow[f].local_qpn, g.flow[f].remote_qpn)
    BY Zenon, <2>1, AssignedFields
  <2>. QED
    BY Zenon, <2>1, <2>2 DEF Assigned
<1>2. Sound(a)
  <2>1. ~g.flow[f].in_qpn_map
    BY NotConnectedNotMapped
  <2>. QED
    BY <2>1, SetStateSound DEF FLOW_STATES
<1>3. on_established(a, f) = IF InTable(a, f) THEN a ELSE e
  BY Zenon, <1>1 DEF on_established, InTable
<1>4. a \in TrackerType /\ s \in FlowState /\ k \in FlowKey
  BY <1>2 DEF Sound, TrackerType, FlowState, CmFlowKey, FlowKey, get_flow_key
<1>. HIDE DEF a
<1>5. /\ \A h \in Ptr : h # f => e.flow[h] = a.flow[h]
      /\ e.flow[f] = [s EXCEPT !.in_qpn_map = TRUE]
      /\ e.qpn_map[k] = s.local_qpn
  <2>. HIDE DEF k
  <2>. QED
    BY Zenon, <1>4 DEF TrackerType
<1>6. e.flow[f].state = s.state /\ get_flow_key(e.flow[f]) = k
  <2>. HIDE DEF e
  <2>. QED
    BY Zenon, <1>4, <1>5 DEF FlowState, get_flow_key
<1>7. s.local_qpn # Absent
  BY Zenon, <1>4, MarkersAssumption DEF FlowState
<1>. HIDE DEF e
<1>8. InTable(e, f)
  BY <1>5, <1>6, <1>7 DEF InTable
<1>. HIDE DEF k
<1>. QED
  BY Zenon, <1>1, <1>3, <1>5, <1>6, <1>8 DEF a

\* A quiet step, and then a flow is established.
LEMMA QuietThenEstablish ==
    ASSUME NEW t, Ready(t), NEW g, Quiet(t, g), NEW u, NEW f \in Ptr,
           \A h \in Ptr : h # f => u.flow[h] = g.flow[h],
           u.flow[f].state = "ESTABLISHED", InTable(u, f)
    PROVE  Answering(t, u)
<1>1. Answering(t, g)
  BY Zenon, QuietAnswering
<1>2. FlowReady(u.flow[f])
  BY DEF FlowReady
<1>3. Ready(u)
  BY Zenon, <1>1, <1>2 DEF Answering, Ready
<1>4. ASSUME NEW h \in Ptr, h # f, u.flow[h].state = "ESTABLISHED"
      PROVE  t.flow[h].state = "ESTABLISHED"
  BY Zenon, <1>4 DEF Quiet, SameQpns
<1>. QED
  BY Zenon, <1>3, <1>4 DEF Answering

\* rep_sent and rep_received: linking the second id.
LEMMA LinkQuiet ==
    ASSUME NEW u \in TrackerType, NEW l \in Id0(HostId), NEW r \in CmFlowKey,
           NEW new \in Ptr, lookup(u, l, r) \in Ptr
    PROVE  \A h \in Ptr : SameQpns(u.flow[h], add_new_flow(u, l, r, new).flow[h])
<1>1. ~(u.local_map[l] = NULL /\ u.remote_map[r] = NULL)
  BY MarkersAssumption DEF lookup
<1>. QED
  BY Zenon, <1>1, AddNewFlowQuiet

\* A flow that a handler of the host's packets establishes is answered.
LEMMA HostHandlersAnswering ==
    ASSUME NEW t, Sound(t), AllReached(t), Ready(t), NEW p \in AnyHostPacket,
           p.attr \in {"REQ", "REP"} => p.local_qpn # 0, NEW new \in Free(t),
           host_abort(t, p, new) = "none"
    PROVE  Answering(t, host_handlers(t, p, new))
<1>. DEFINE l == p.local_comm_id
            r == <<p.daddr, p.remote_comm_id>>
            g == get_flow(t, l, NoKey, new)
            f == lookup(g, l, NoKey)
            gr == get_flow(t, l, r, new)
            fr == lookup(gr, l, r)
            h == host_handlers(t, p, new)
<1>1. /\ l \in Id0(HostId) /\ r \in CmFlowKey /\ NoKey \in CmFlowKey
      /\ p.local_qpn \in Id0(Qpn) /\ p.attr \in Attr /\ new \in Ptr
  BY DEF AnyHostPacket, Packet, CmFlowKey, NoKey, Id0, Free
<1>2. from_dest(p, p.remote_comm_id) = r
  BY DEF from_dest
<1>. SUFFICES Answering(t, h)
  OBVIOUS
<1>. HIDE DEF l, r, h
<1>3. t \in TrackerType
  BY DEF Sound
<1>4. Quiet(t, g) /\ AllReached(g) /\ Quiet(t, gr) /\ AllReached(gr)
  BY Zenon, <1>1, <1>3, GetFlowQuiet, GetFlowGets
<1>5. Ready(g) /\ Ready(gr)
  BY <1>4, QuietAnswering DEF Answering
<1>6. ASSUME p.attr \in {"REQ", "RTU", "DREQ", "DREP"}
      PROVE  Sound(g) /\ g \in TrackerType /\ f \in Ptr /\ l # 0
  <2>1. get_flow_abort(t, l, NoKey) = "none"
    BY Zenon, <1>6 DEF host_abort, l
  <2>. QED
    BY Zenon, <1>1, <2>1, GetFlowByLocalId DEF Sound
<1>7. ASSUME p.attr \in {"REJ", "REP"}
      PROVE  Sound(gr) /\ gr \in TrackerType /\ fr \in Ptr
  <2>1. get_flow_abort(t, l, r) = "none"
    BY Zenon, <1>2, <1>7 DEF host_abort, rej_sent_abort, rep_sent_abort, l
  <2>. QED
    BY <1>1, <2>1, GetFlowSound DEF Sound
<1>8. /\ Quiet(g, h) => Answering(t, h)
      /\ Quiet(gr, h) => Answering(t, h)
      /\ Quiet(g, g) /\ Quiet(gr, gr)
  BY <1>4, QuietItself, QuietTwice, QuietAnswering
<1>9. CASE p.attr = "REQ"
  <2>. DEFINE a == SetState(g, f, "REQ_SENT")
              b == SetLocalQpn(a, f, p.local_qpn)
  <2>1. h = IF g.flow[f].state \in {"IDLE", "REQ_SENT"} THEN b ELSE g
    BY <1>9 DEF h, host_handlers, req_sent, l
  <2>. HIDE DEF g, f
  <2>. SUFFICES ASSUME g.flow[f].state \in {"IDLE", "REQ_SENT"} PROVE Quiet(g, b)
    BY Zenon, <1>8, <2>1
  <2>2. Assigned(g, a, f, "REQ_SENT", g.flow[f].local_qpn, g.flow[f].remote_qpn)
    BY Zenon, <1>6, <1>9, AssignedFields
  <2>3. a \in TrackerType
    BY Zenon, <1>1, <1>6, <1>9, FieldTypes DEF FLOW_STATES
  <2>. HIDE DEF a
  <2>4. Assigned(a, b, f, a.flow[f].state, p.local_qpn, a.flow[f].remote_qpn)
    BY Zenon, <1>6, <1>9, <2>3, AssignedFields
  <2>. HIDE DEF b
  <2>5. /\ b.flow[f].state = "REQ_SENT" /\ b.flow[f].local_qpn # 0
        /\ \A x \in Ptr : x # f => b.flow[x] = g.flow[x]
    BY Zenon, <1>9, <2>2, <2>4 DEF Assigned
  <2>6. FlowReady(b.flow[f]) /\ b.flow[f].state # "ESTABLISHED"
    BY Zenon, <2>5 DEF FlowReady
  <2>. QED
    BY Zenon, <2>5, <2>6 DEF Quiet, SameQpns
<1>10. CASE p.attr = "RTU"
  <2>. DEFINE u == on_established(SetState(g, f, "ESTABLISHED"), f)
  <2>1. h = IF g.flow[f].state \in {"REP_RCVD", "MRA_REP_SENT"} THEN u ELSE g
    BY <1>10 DEF h, host_handlers, rtu_sent, l
  <2>. HIDE DEF g, f
  <2>. SUFFICES ASSUME g.flow[f].state \in {"REP_RCVD", "MRA_REP_SENT"}
                PROVE  Answering(t, u)
    BY Zenon, <1>8, <2>1
  <2>2. g.flow[f].state = "REP_RCVD"
    BY <1>4, <1>6, <1>10 DEF AllReached, Reached
  <2>3. /\ \A x \in Ptr : x # f => u.flow[x] = g.flow[x]
        /\ u.flow[f].state = "ESTABLISHED" /\ InTable(u, f)
    BY Zenon, <1>5, <1>6, <1>10, <2>2, EstablishAnswers
  <2>. HIDE DEF u
  <2>. QED
    BY Zenon, <1>4, <1>6, <1>10, <2>3, QuietThenEstablish
<1>11. CASE p.attr = "DREQ"
  <2>. DEFINE a == SetState(g, f, "DREQ_SENT")
  <2>1. h \in {a, g}
    BY Zenon, <1>11 DEF h, host_handlers, dreq_sent, l
  <2>. HIDE DEF g, f
  <2>2. Assigned(g, a, f, "DREQ_SENT", g.flow[f].local_qpn, g.flow[f].remote_qpn)
    BY Zenon, <1>6, <1>11, AssignedFields
  <2>. HIDE DEF a
  <2>3. FlowReady(a.flow[f]) /\ a.flow[f].state # "ESTABLISHED"
    BY <2>2 DEF FlowReady, Assigned
  <2>4. Quiet(g, a)
    BY Zenon, <2>2, <2>3 DEF Assigned, Quiet, SameQpns
  <2>. QED
    BY <1>8, <2>1, <2>4
<1>12. CASE p.attr = "DREP"
  <2>1. h \in {erase_flow(g, l, r), g}
    BY Zenon, <1>2, <1>12 DEF h, host_handlers, drep_sent, l
  <2>2. lookup(g, l, r) = f
    BY <1>6, <1>12 DEF lookup
  <2>. HIDE DEF g, f
  <2>3. Quiet(g, erase_flow(g, l, r))
    BY Zenon, <1>1, <1>6, <1>12, <2>2, EraseFlowQuiet
  <2>. QED
    BY <1>8, <2>1, <2>3
<1>13. CASE p.attr = "REJ"
  <2>1. h \in {erase_flow(gr, l, r), gr}
    BY <1>2, <1>13 DEF h, host_handlers, rej_sent, l
  <2>. HIDE DEF gr
  <2>2. Quiet(gr, erase_flow(gr, l, r))
    BY <1>1, <1>7, <1>13, EraseFlowQuiet
  <2>. QED
    BY <1>8, <2>1, <2>2
<1>14. CASE p.attr = "REP"
  <2>. DEFINE a == SetState(gr, fr, "REP_SENT")
              b == add_new_flow(a, l, r, new)
              c == SetLocalQpn(b, fr, p.local_qpn)
  <2>1. h = IF gr.flow[fr].state \in {"REQ_RCVD", "MRA_REQ_SENT"} THEN c ELSE gr
    BY <1>2, <1>14 DEF h, host_handlers, rep_sent, l
  <2>2. lookup(gr, l, r) = fr
    OBVIOUS
  <2>. HIDE DEF gr, fr
  <2>. SUFFICES ASSUME gr.flow[fr].state \in {"REQ_RCVD", "MRA_REQ_SENT"}
                PROVE  Quiet(gr, c)
    BY Zenon, <1>8, <2>1
  <2>3. gr.flow[fr].state = "REQ_RCVD" /\ gr.flow[fr].remote_qpn # 0
    BY Zenon, <1>4, <1>5, <1>7, <1>14 DEF AllReached, Reached, Ready, FlowReady
  <2>4. Assigned(gr, a, fr, "REP_SENT", gr.flow[fr].local_qpn, gr.flow[fr].remote_qpn)
    BY Zenon, <1>7, <1>14, AssignedFields
  <2>5. a \in TrackerType
    BY Zenon, <1>1, <1>7, <1>14, FieldTypes DEF FLOW_STATES
  <2>. HIDE DEF a
  <2>6. lookup(a, l, r) = fr
    BY <2>2, <2>4 DEF Assigned, lookup
  <2>7. b \in TrackerType /\ \A x \in Ptr : SameQpns(a.flow[x], b.flow[x])
    BY Zenon, <1>1, <1>7, <1>14, <2>5, <2>6, LinkQuiet, AddNewFlowFields DEF AddNewFlowEffect
  <2>. HIDE DEF b
  <2>8. Assigned(b, c, fr, b.flow[fr].state, p.local_qpn, b.flow[fr].remote_qpn)
    BY Zenon, <1>7, <1>14, <2>7, AssignedFields
  <2>. HIDE DEF c
  <2>9. /\ c.flow[fr].state = "REP_SENT" /\ c.flow[fr].local_qpn # 0
        /\ c.flow[fr].remote_qpn # 0
    BY Zenon, <1>7, <1>14, <2>3, <2>4, <2>7, <2>8 DEF Assigned, SameQpns
  <2>10. \A x \in Ptr : x # fr => SameQpns(gr.flow[x], c.flow[x])
    BY Zenon, <2>4, <2>7, <2>8 DEF Assigned
  <2>11. FlowReady(c.flow[fr]) /\ c.flow[fr].state # "ESTABLISHED"
    BY <2>9 DEF FlowReady
  <2>. QED
    BY Zenon, <2>10, <2>11 DEF Quiet
<1>15. CASE p.attr \notin Handled
  <2>1. h = t
    BY Zenon, <1>15 DEF h, host_handlers, Handled
  <2>. QED
    BY <2>1, QuietItself, QuietAnswering
<1>. QED
  BY Zenon, <1>1, <1>9, <1>10, <1>11, <1>12, <1>13, <1>14, <1>15 DEF Handled, Attr

\* So is one that a handler of the network's packets establishes.
LEMMA NetHandlersAnswering ==
    ASSUME NEW t, Sound(t), AllReached(t), Ready(t), NEW p \in AnyNetPacket,
           p.attr \in {"REQ", "REP"} => p.local_qpn # 0, NEW new \in Free(t),
           net_abort(t, p, new) = "none"
    PROVE  Answering(t, net_handlers(t, p, new))
<1>. DEFINE l == p.remote_comm_id
            r == <<p.saddr, p.local_comm_id>>
            g == get_flow(t, l, NoKey, new)
            f == lookup(g, l, NoKey)
            gr == get_flow(t, l, r, new)
            fr == lookup(gr, l, r)
            g0 == get_flow(t, 0, r, new)
            f0 == lookup(g0, 0, r)
            h == net_handlers(t, p, new)
<1>1. /\ l \in Id0(HostId) /\ r \in CmFlowKey /\ NoKey \in CmFlowKey
      /\ p.local_qpn \in Id0(Qpn) /\ p.attr \in Attr /\ new \in Ptr
      /\ 0 \in Id0(HostId)
  BY DEF AnyNetPacket, Packet, CmFlowKey, NoKey, Id0, Free
<1>2. from_src(p, p.local_comm_id) = r
  BY Zenon DEF from_src
<1>. SUFFICES Answering(t, h)
  OBVIOUS
<1>. HIDE DEF l, r, h
<1>3. t \in TrackerType
  BY DEF Sound
<1>4. Quiet(t, g) /\ AllReached(g) /\ Quiet(t, gr) /\ Quiet(t, g0)
  BY Zenon, <1>1, <1>3, GetFlowQuiet, GetFlowGets
<1>5. Ready(g)
  BY <1>4, QuietAnswering DEF Answering
<1>6. ASSUME p.attr \in {"REP", "RTU", "DREQ", "DREP"}
      PROVE  Sound(g) /\ g \in TrackerType /\ f \in Ptr /\ l # 0
  <2>1. get_flow_abort(t, l, NoKey) = "none"
    BY Zenon, <1>2, <1>6 DEF net_abort, rep_received_abort, l
  <2>. QED
    BY Zenon, <1>1, <2>1, GetFlowByLocalId DEF Sound
<1>7. /\ Quiet(g, h) => Answering(t, h)
      /\ Quiet(gr, h) => Answering(t, h)
      /\ Quiet(g0, h) => Answering(t, h)
      /\ Quiet(g, g) /\ Quiet(gr, gr) /\ Quiet(g0, g0)
  BY <1>4, QuietItself, QuietTwice, QuietAnswering
<1>8. CASE p.attr = "REQ"
  <2>. DEFINE a == SetState(g0, f0, "REQ_RCVD")
              b == SetRemoteQpn(a, f0, p.local_qpn)
  <2>1. h = IF g0.flow[f0].state \in {"REQ_RCVD", "IDLE"} THEN b ELSE g0
    BY <1>2, <1>8 DEF h, net_handlers, req_received
  <2>2. get_flow_abort(t, 0, r) = "none"
    BY Zenon, <1>2, <1>8 DEF net_abort, req_received_abort
  <2>3. Sound(g0) /\ g0 \in TrackerType /\ f0 \in Ptr
    BY <1>1, <2>2, GetFlowSound DEF Sound
  <2>. HIDE DEF g0, f0
  <2>. SUFFICES ASSUME g0.flow[f0].state \in {"REQ_RCVD", "IDLE"} PROVE Quiet(g0, b)
    BY Zenon, <1>7, <2>1
  <2>4. Assigned(g0, a, f0, "REQ_RCVD", g0.flow[f0].local_qpn, g0.flow[f0].remote_qpn)
    BY Zenon, <2>3, AssignedFields
  <2>5. a \in TrackerType
    BY Zenon, <1>1, <2>3, FieldTypes DEF FLOW_STATES
  <2>. HIDE DEF a
  <2>6. Assigned(a, b, f0, a.flow[f0].state, a.flow[f0].local_qpn, p.local_qpn)
    BY Zenon, <2>3, <2>5, AssignedFields
  <2>. HIDE DEF b
  <2>7. /\ b.flow[f0].state = "REQ_RCVD" /\ b.flow[f0].remote_qpn # 0
        /\ \A x \in Ptr : x # f0 => b.flow[x] = g0.flow[x]
    BY Zenon, <1>8, <2>4, <2>6 DEF Assigned
  <2>8. FlowReady(b.flow[f0]) /\ b.flow[f0].state # "ESTABLISHED"
    BY Zenon, <2>7 DEF FlowReady
  <2>. QED
    BY Zenon, <2>7, <2>8 DEF Quiet, SameQpns
<1>9. CASE p.attr = "REJ"
  <2>1. h \in {erase_flow(gr, l, r), gr}
    BY <1>2, <1>9 DEF h, net_handlers, rej_received, l
  <2>2. get_flow_abort(t, l, r) = "none"
    BY Zenon, <1>2, <1>9 DEF net_abort, rej_received_abort, l
  <2>3. Sound(gr) /\ fr \in Ptr
    BY Zenon, <1>1, <2>2, GetFlowSound
  <2>. HIDE DEF gr
  <2>4. Quiet(gr, erase_flow(gr, l, r))
    BY <1>1, <2>3, EraseFlowQuiet
  <2>. QED
    BY <1>7, <2>1, <2>4
<1>10. CASE p.attr = "REP"
  <2>. DEFINE a == SetState(g, f, "REP_RCVD")
              b == SetRemoteQpn(a, f, p.local_qpn)
              c == add_new_flow(b, l, r, new)
  <2>1. h = IF g.flow[f].state \in {"REQ_SENT", "MRA_REQ_RCVD"} THEN c ELSE g
    BY Zenon, <1>2, <1>10 DEF h, net_handlers, rep_received, l
  <2>2. lookup(g, l, r) = f
    BY <1>6, <1>10 DEF lookup
  <2>. HIDE DEF g, f
  <2>. SUFFICES ASSUME g.flow[f].state \in {"REQ_SENT", "MRA_REQ_RCVD"}
                PROVE  Quiet(g, c)
    BY Zenon, <1>7, <2>1
  <2>3. g.flow[f].state = "REQ_SENT" /\ g.flow[f].local_qpn # 0
    BY Zenon, <1>4, <1>5, <1>6, <1>10 DEF AllReached, Reached, Ready, FlowReady
  <2>4. Assigned(g, a, f, "REP_RCVD", g.flow[f].local_qpn, g.flow[f].remote_qpn)
    BY ZenonT(30), <1>6, <1>10, AssignedFields
  <2>5. a \in TrackerType
    BY <1>1, <1>6, <1>10, FieldTypes DEF FLOW_STATES
  <2>. HIDE DEF a
  <2>6. /\ Assigned(a, b, f, a.flow[f].state, a.flow[f].local_qpn, p.local_qpn)
        /\ b \in TrackerType
    BY Zenon, <1>1, <1>6, <1>10, <2>5, AssignedFields, FieldTypes DEF FLOW_STATES
  <2>. HIDE DEF b
  <2>7. Assigned(g, b, f, "REP_RCVD", g.flow[f].local_qpn, p.local_qpn)
    BY Zenon, <2>4, <2>6 DEF Assigned
  <2>8. lookup(b, l, r) = f
    BY Zenon, <2>2, <2>7 DEF Assigned, lookup
  <2>9. \A x \in Ptr : SameQpns(b.flow[x], c.flow[x])
    BY Zenon, <1>1, <1>6, <1>10, <2>6, <2>8, LinkQuiet
  <2>. HIDE DEF c
  <2>10. /\ c.flow[f].state = "REP_RCVD" /\ c.flow[f].local_qpn # 0
         /\ c.flow[f].remote_qpn # 0
    BY Zenon, <1>6, <1>10, <2>3, <2>7, <2>9 DEF Assigned, SameQpns
  <2>11. \A x \in Ptr : x # f => SameQpns(g.flow[x], c.flow[x])
    BY Zenon, <2>7, <2>9 DEF Assigned
  <2>12. FlowReady(c.flow[f]) /\ c.flow[f].state # "ESTABLISHED"
    BY Zenon, <2>10 DEF FlowReady
  <2>. QED
    BY Zenon, <2>11, <2>12 DEF Quiet
<1>11. CASE p.attr = "RTU"
  <2>. DEFINE u == on_established(SetState(g, f, "ESTABLISHED"), f)
  <2>1. h = IF g.flow[f].state \in {"REP_SENT", "MRA_REP_RCVD"} THEN u ELSE g
    BY <1>11 DEF h, net_handlers, rtu_received, l
  <2>. HIDE DEF g, f
  <2>. SUFFICES ASSUME g.flow[f].state \in {"REP_SENT", "MRA_REP_RCVD"}
                PROVE  Answering(t, u)
    BY Zenon, <1>7, <2>1
  <2>2. g.flow[f].state = "REP_SENT"
    BY <1>4, <1>6, <1>11 DEF AllReached, Reached
  <2>3. /\ \A x \in Ptr : x # f => u.flow[x] = g.flow[x]
        /\ u.flow[f].state = "ESTABLISHED" /\ InTable(u, f)
    BY Zenon, <1>5, <1>6, <1>11, <2>2, EstablishAnswers
  <2>. HIDE DEF u
  <2>. QED
    BY Zenon, <1>4, <1>6, <1>11, <2>3, QuietThenEstablish
<1>12. CASE p.attr = "DREQ"
  <2>. DEFINE a == SetState(g, f, "DREQ_RCVD")
  <2>1. h \in {a, g}
    BY <1>12 DEF h, net_handlers, dreq_received, l
  <2>. HIDE DEF g, f
  <2>2. Assigned(g, a, f, "DREQ_RCVD", g.flow[f].local_qpn, g.flow[f].remote_qpn)
    BY ZenonT(30), <1>6, <1>12, AssignedFields
  <2>. HIDE DEF a
  <2>3. FlowReady(a.flow[f]) /\ a.flow[f].state # "ESTABLISHED"
    BY <2>2 DEF FlowReady, Assigned
  <2>4. Quiet(g, a)
    BY Zenon, <2>2, <2>3 DEF Assigned, Quiet, SameQpns
  <2>. QED
    BY <1>7, <2>1, <2>4
<1>13. CASE p.attr = "DREP"
  <2>1. h \in {erase_flow(g, l, r), g}
    BY Zenon, <1>2, <1>13 DEF h, net_handlers, drep_received, l
  <2>2. lookup(g, l, r) = f
    BY Zenon, <1>6, <1>13 DEF lookup
  <2>. HIDE DEF g, f
  <2>3. Quiet(g, erase_flow(g, l, r))
    BY Zenon, <1>1, <1>6, <1>13, <2>2, EraseFlowQuiet
  <2>. QED
    BY <1>7, <2>1, <2>3
<1>14. CASE p.attr \notin Handled
  <2>1. h = t
    BY <1>14 DEF h, net_handlers, Handled
  <2>. QED
    BY <2>1, QuietItself, QuietAnswering
<1>. QED
  BY Zenon, <1>1, <1>8, <1>9, <1>10, <1>11, <1>12, <1>13, <1>14 DEF Handled, Attr

\* Answering handlers, and the release of objects, leave flows ready; a flow that
\* is established by them is answered.
LEMMA FinishAnswering ==
    ASSUME Sound(Tracker), Ready(Tracker), NEW a, NEW t, Finish(a, t),
           a = "none" => Sound(t) /\ Answering(Tracker, t)
    PROVE  Answering(Tracker, Tracker')
<1>1. CASE a # "none"
  <2>1. Tracker' = Tracker
    BY <1>1 DEF Finish, Tracker
  <2>. QED
    BY Zenon, <2>1, QuietItself, QuietAnswering
<1>2. CASE a = "none"
  <2>. DEFINE u == Tracker'
  <2>1. u.flow = Release(t).flow /\ u.qpn_map = t.qpn_map
    BY <1>2 DEF Finish, Tracker
  <2>2. \A f \in Ptr : u.flow[f] = t.flow[f] \/ u.flow[f].state = "IDLE"
    BY <1>2, <2>1 DEF Release, Sound, TrackerType, NewFlowState
  <2>. HIDE DEF u
  <2>3. Answering(Tracker, t)
    BY <1>2
  <2>4. Ready(u)
    BY Zenon, <2>2, <2>3 DEF Answering, Ready, FlowReady
  <2>5. ASSUME NEW f \in Ptr, u.flow[f].state = "ESTABLISHED"
        PROVE  Tracker.flow[f].state = "ESTABLISHED" \/ InTable(u, f)
    <3>1. u.flow[f] = t.flow[f]
      BY <2>2, <2>5
    <3>. QED
      BY Zenon, <2>1, <2>3, <2>5, <3>1 DEF Answering, InTable
  <2>6. Answering(Tracker, u)
    BY Zenon, <2>4, <2>5 DEF Answering
  <2>. QED
    BY Zenon, <2>6 DEF u
<1>. QED
  BY <1>1, <1>2

\* Flows stay ready as long as REQs and REPs carry QPNs, and every flow that a
\* step establishes is answered.
LEMMA NextAnswering ==
    ASSUME QpnsPresent, PInv, Ready(Tracker), [Next]_vars
    PROVE  Answering(Tracker, Tracker')
<1>. USE DEF PInv, IInv
<1>1. ASSUME NEW A, FromHost(A) PROVE Answering(Tracker, Tracker')
  <2>1. PICK p \in HostPackets, new \in Free(Tracker) :
          Finish(host_abort(Tracker, p, new), host_handlers(Tracker, p, new))
    BY <1>1 DEF FromHost
  <2>2. p \in AnyHostPacket /\ (p.attr \in {"REQ", "REP"} => p.local_qpn # 0)
    BY PacketsAssumption DEF QpnsPresent
  <2>3. host_abort(Tracker, p, new) = "none" =>
           /\ Sound(host_handlers(Tracker, p, new))
           /\ Answering(Tracker, host_handlers(Tracker, p, new))
    BY <2>2, HostHandlersSound, HostHandlersAnswering
  <2>. QED
    BY <2>1, <2>3, FinishAnswering
<1>2. ASSUME NEW A, FromNet(A) PROVE Answering(Tracker, Tracker')
  <2>1. PICK p \in NetPackets, new \in Free(Tracker) :
          Finish(net_abort(Tracker, p, new), net_handlers(Tracker, p, new))
    BY <1>2 DEF FromNet
  <2>2. p \in AnyNetPacket /\ (p.attr \in {"REQ", "REP"} => p.local_qpn # 0)
    BY PacketsAssumption DEF QpnsPresent
  <2>3. net_abort(Tracker, p, new) = "none" =>
           /\ Sound(net_handlers(Tracker, p, new))
           /\ Answering(Tracker, net_handlers(Tracker, p, new))
    BY <2>2, NetHandlersSound, NetHandlersAnswering
  <2>. QED
    BY <2>1, <2>3, FinishAnswering
<1>3. CASE UNCHANGED vars
  <2>1. Tracker' = Tracker
    BY <1>3 DEF vars, Tracker
  <2>. QED
    BY Zenon, <2>1, QuietItself, QuietAnswering
<1>4. CASE Next
  BY <1>1, <1>2, <1>4 DEF Next, ReqSent, RejSent, RepSent, RtuSent, DreqSent,
     DrepSent, UnknownSent, ReqReceived, RejReceived, RepReceived, RtuReceived,
     DreqReceived, DrepReceived, UnknownReceived
<1>. QED
  BY <1>3, <1>4

\* What the flows of a tracker fed with QPNs keep.
QpnsKept == QpnsPresent => Ready(Tracker)

\* For every set of packets in which REQs and REPs carry QPNs: on_established
\* never finds a QPN missing, so every flow that becomes ESTABLISHED is answered.
THEOREM EstablishedFlowsAnswered == Spec => EstablishedIsAnswered
<1>. DEFINE Answered ==
       \A f \in Ptr :
          QpnsPresent /\ flow[f].state # "ESTABLISHED"
                      /\ flow'[f].state = "ESTABLISHED" =>
             get_source_qpn(Tracker, get_flow_key(flow[f]))' # 0
<1>1. Init => AllReached(Tracker) /\ QpnsKept
  <2>1. NewFlowState.state \in Reached /\ FlowReady(NewFlowState)
    BY DEF NewFlowState, Reached, FlowReady
  <2>2. Tracker.flow = flow
    BY DEF Tracker
  <2>. QED
    BY Zenon, <2>1, <2>2 DEF Init, AllReached, QpnsKept, Ready
<1>2. PInv /\ QpnsKept /\ [Next]_vars => QpnsKept'
  <2>. SUFFICES ASSUME PInv, QpnsKept, [Next]_vars, QpnsPresent PROVE Ready(Tracker')
    BY DEF QpnsKept
  <2>. QED
    BY NextAnswering DEF QpnsKept, Answering
<1>3. PInv /\ IInv' /\ QpnsKept /\ [Next]_vars => [Answered]_vars
  <2>. SUFFICES ASSUME PInv, IInv', QpnsKept, [Next]_vars, NEW f \in Ptr, QpnsPresent,
                       flow[f].state # "ESTABLISHED", flow'[f].state = "ESTABLISHED"
                PROVE  get_source_qpn(Tracker', get_flow_key(flow'[f])) # 0
    OBVIOUS
  <2>. DEFINE u == Tracker'
              k == get_flow_key(flow'[f])
  <2>1. Answering(Tracker, u)
    BY Zenon, NextAnswering DEF QpnsKept
  <2>2. u.flow = flow' /\ Tracker.flow = flow
    BY DEF Tracker
  <2>3. u \in TrackerType /\ Exact(u)
    BY DEF IInv, Sound
  <2>. HIDE DEF u
  <2>4. u.qpn_map[k] # Absent
    BY Zenon, <2>1, <2>2 DEF Answering, InTable
  <2>5. k \in FlowKey
    BY Zenon, <2>2, <2>3 DEF TrackerType, FlowState, get_flow_key, CmFlowKey, FlowKey
  <2>6. u.qpn_map[k] # 0
    <3>1. PICK g \in Ptr : Answers(u, g, k)
      BY Zenon, <2>3, <2>4, <2>5 DEF Exact
    <3>. QED
      BY Zenon, <3>1 DEF Answers
  <2>7. get_source_qpn(u, k) # 0
    BY <2>4, <2>6 DEF get_source_qpn
  <2>. QED
    BY <2>7 DEF u
<1>4. PInv /\ [Next]_vars => AllReached(Tracker)'
  BY NextPhase
<1>. QED
  BY <1>1, <1>2, <1>3, <1>4, TrackerInvariant, PTL
     DEF Spec, PInv, EstablishedIsAnswered

-----------------------------------------------------------------------------
(* Retransmissions *)

\* Objects are freed once: releasing again changes nothing.
LEMMA ReleaseTwice ==
    ASSUME NEW t \in TrackerType
    PROVE  LET o == Release(t)
           IN  /\ o \in TrackerType
               /\ o.local_map = t.local_map /\ o.remote_map = t.remote_map
               /\ o.qpn_map = t.qpn_map
               /\ Live(o) = Live(t) /\ Live(o) \subseteq Ptr
               /\ \A f \in Live(t) : o.flow[f] = t.flow[f]
               /\ \A f \in Ptr : f \notin Live(t) => o.flow[f] = NewFlowState
               /\ Release(o) = o
<1>. DEFINE o == Release(t)
<1>1. NewFlowState \in FlowState
  BY DEF NewFlowState, FlowState, FLOW_STATES, Id0, CmFlowKey, NoKey
<1>2. /\ o \in TrackerType
      /\ o.local_map = t.local_map /\ o.remote_map = t.remote_map
      /\ o.qpn_map = t.qpn_map
      /\ o.flow = [f \in Ptr |-> IF f \in Live(t) THEN t.flow[f] ELSE NewFlowState]
  BY Zenon, <1>1 DEF Release, TrackerType
<1>. HIDE DEF o
<1>3. Live(o) = Live(t) /\ Live(o) \subseteq Ptr
  BY <1>2 DEF Live
<1>4. /\ \A f \in Live(t) : o.flow[f] = t.flow[f]
      /\ \A f \in Ptr : f \notin Live(t) => o.flow[f] = NewFlowState
  BY Zenon, <1>2, <1>3
<1>5. Release(o) = o
  <2>1. [f \in Ptr |-> IF f \in Live(o) THEN o.flow[f] ELSE NewFlowState] = o.flow
    BY Zenon, <1>2, <1>3, <1>4 DEF TrackerType
  <2>. QED
    BY <1>2, <2>1 DEF Release, TrackerType
<1>. QED
  BY Zenon, <1>2, <1>3, <1>4, <1>5 DEF o

\* Assigning a field the value it has changes nothing.
LEMMA SameValue ==
    ASSUME NEW o \in TrackerType, NEW f \in Ptr
    PROVE  /\ SetState(o, f, o.flow[f].state) = o
           /\ SetLocalQpn(o, f, o.flow[f].local_qpn) = o
           /\ SetRemoteQpn(o, f, o.flow[f].remote_qpn) = o
<1>1. o.flow[f] \in FlowState /\ o.flow \in [Ptr -> FlowState]
  BY DEF TrackerType
<1>2. /\ [o.flow[f] EXCEPT !.state = o.flow[f].state] = o.flow[f]
      /\ [o.flow[f] EXCEPT !.local_qpn = o.flow[f].local_qpn] = o.flow[f]
      /\ [o.flow[f] EXCEPT !.remote_qpn = o.flow[f].remote_qpn] = o.flow[f]
  BY <1>1 DEF FlowState
<1>3. [o EXCEPT !.flow[f] = o.flow[f]] = o
  BY Zenon, <1>1 DEF TrackerType
<1>. QED
  BY Zenon, <1>2, <1>3 DEF SetState, SetLocalQpn, SetRemoteQpn

\* A tracker with freed objects and the flow f under the ids l and r.
Holds(o, l, r, f) ==
    /\ o \in TrackerType /\ Release(o) = o
    /\ f \in Ptr /\ lookup(o, l, r) = f
    /\ get_flow_abort(o, l, r) = "none"
    /\ \A n : get_flow(o, l, r, n) = o

\* What a handler has left under its ids, it finds there again.
LEMMA FoundAgain ==
    ASSUME NEW u \in TrackerType, NEW l \in Id0(HostId), NEW r \in CmFlowKey,
           lookup(u, l, r) \in Ptr, l # 0 \/ IsKey(r)
    PROVE  LET f == lookup(u, l, r)
           IN  Holds(Release(u), l, r, f) /\ Release(u).flow[f] = u.flow[f]
<1>. DEFINE o == Release(u)
            f == lookup(u, l, r)
<1>1. /\ o \in TrackerType /\ Release(o) = o
      /\ o.local_map = u.local_map /\ o.remote_map = u.remote_map
      /\ \A h \in Live(u) : o.flow[h] = u.flow[h]
  BY ReleaseTwice
<1>2. f \in Live(u)
  BY Zenon DEF lookup, Live
<1>. HIDE DEF o
<1>3. lookup(o, l, r) = f /\ f # NULL
  BY <1>1, MarkersAssumption DEF lookup
<1>4. get_flow_abort(o, l, r) = "none" /\ \A n : get_flow(o, l, r, n) = o
  BY Zenon, <1>3 DEF get_flow_abort, get_flow
<1>5. Holds(o, l, r, f) /\ o.flow[f] = u.flow[f]
  BY <1>1, <1>2, <1>3, <1>4 DEF Holds
<1>. QED
  BY Zenon, <1>5 DEF o

\* A second copy that changes nothing is harmless.
LEMMA NothingAgain ==
    ASSUME NEW o, Release(o) = o, NEW p
    PROVE  Repeat(p, o, "none", o)
BY DEF Repeat

Cleared(u, l, r) == Sound(u) /\ u.local_map[l] = NULL /\ u.remote_map[r] = NULL

\* After erase_flow nothing is left under the ids of the message.
LEMMA ErasedMaps ==
    ASSUME NEW t, Sound(t), NEW l \in Id0(HostId), NEW r \in CmFlowKey,
           lookup(t, l, r) \in Ptr
    PROVE  Cleared(erase_flow(t, l, r), l, r)
<1>. DEFINE f == lookup(t, l, r)
            d == IF t.flow[f].in_qpn_map THEN on_disconnected(t, f) ELSE t
<1>1. t \in TrackerType /\ f # NULL
  BY MarkersAssumption DEF Sound
<1>2. d \in TrackerType
  BY OnDisconnectedSound DEF Sound
<1>3. erase_flow(t, l, r) = [d EXCEPT !.local_map[l] = NULL, !.remote_map[r] = NULL]
  BY <1>1 DEF erase_flow
<1>. HIDE DEF d
<1>4. /\ erase_flow(t, l, r).local_map[l] = NULL
      /\ erase_flow(t, l, r).remote_map[r] = NULL
  BY <1>2, <1>3 DEF TrackerType
<1>. QED
  BY Zenon, <1>4, EraseFlowSound DEF Cleared

\* g is o with an idle flow at n, under the ids l and r.
Created(o, g, l, r, n) ==
    /\ get_flow_abort(o, l, r) = "none"
    /\ g \in TrackerType /\ lookup(g, l, r) = n
    /\ g.flow[n].state = "IDLE" /\ ~g.flow[n].in_qpn_map
    /\ \A h \in Ptr : h # n => g.flow[h] = o.flow[h]
    /\ \A k \in Id0(HostId) : k # l => g.local_map[k] = o.local_map[k]
    /\ \A k \in CmFlowKey : k # r => g.remote_map[k] = o.remote_map[k]
    /\ g.qpn_map = o.qpn_map

\* A flow that get_flow creates is idle, and only it and its ids are new.
LEMMA CreatedAgain ==
    ASSUME NEW o \in TrackerType, NEW l \in Id0(HostId), NEW r \in CmFlowKey,
           o.local_map[l] = NULL, o.remote_map[r] = NULL, l # 0 \/ IsKey(r),
           NEW n \in Free(o)
    PROVE  Created(o, get_flow(o, l, r, n), l, r, n)
<1>. DEFINE g == get_flow(o, l, r, n)
            s == [NewFlowState EXCEPT !.local_id = IF l # 0 THEN l ELSE @,
                                      !.remote_id = IF IsKey(r) THEN r ELSE @]
<1>1. get_flow_abort(o, l, r) = "none"
  BY Zenon DEF get_flow_abort, add_new_flow_ok, lookup
<1>2. target(o, l, r, n) = n /\ n \in Ptr /\ g = add_new_flow(o, l, r, n)
  BY DEF target, get_flow, lookup, Free
<1>3. g = [o EXCEPT !.flow[n] = s,
                    !.local_map[l] = IF l # 0 THEN n ELSE @,
                    !.remote_map[r] = IF IsKey(r) THEN n ELSE @]
  BY <1>2 DEF add_new_flow
<1>4. s \in FlowState /\ s.state = "IDLE" /\ ~s.in_qpn_map
  BY ZenonT(30) DEF NewFlowState, FlowState, FLOW_STATES, Id0, CmFlowKey, NoKey
<1>. HIDE DEF g, s
<1>5. /\ g.flow = [o.flow EXCEPT ![n] = s]
      /\ g.local_map = [o.local_map EXCEPT ![l] = IF l # 0 THEN n ELSE @]
      /\ g.remote_map = [o.remote_map EXCEPT ![r] = IF IsKey(r) THEN n ELSE @]
      /\ g.qpn_map = o.qpn_map
      /\ g = [flow |-> g.flow, local_map |-> g.local_map,
              remote_map |-> g.remote_map, qpn_map |-> g.qpn_map]
  BY Zenon, <1>3 DEF TrackerType
<1>6. g \in TrackerType
  <2>1. /\ o.flow \in [Ptr -> FlowState]
        /\ o.local_map \in [Id0(HostId) -> Ptr \cup {NULL}]
        /\ o.remote_map \in [CmFlowKey -> Ptr \cup {NULL}]
        /\ o.qpn_map \in [FlowKey -> Id0(Qpn) \cup {Absent}]
    BY Zenon DEF TrackerType
  <2>2. /\ g.flow \in [Ptr -> FlowState]
        /\ g.local_map \in [Id0(HostId) -> Ptr \cup {NULL}]
        /\ g.remote_map \in [CmFlowKey -> Ptr \cup {NULL}]
    BY <1>2, <1>4, <1>5, <2>1
  <2>. QED
    BY Zenon, <1>5, <2>1, <2>2 DEF TrackerType
<1>7. lookup(g, l, r) = n
  BY Zenon, <1>5 DEF lookup, TrackerType
<1>8. /\ g.flow[n] = s /\ \A h \in Ptr : h # n => g.flow[h] = o.flow[h]
      /\ \A k \in Id0(HostId) : k # l => g.local_map[k] = o.local_map[k]
      /\ \A k \in CmFlowKey : k # r => g.remote_map[k] = o.remote_map[k]
  BY <1>2, <1>5 DEF TrackerType
<1>9. Created(o, g, l, r, n)
  BY Zenon, <1>1, <1>4, <1>5, <1>6, <1>7, <1>8 DEF Created
<1>. QED
  BY Zenon, <1>9 DEF g

\* A second copy of a message whose first one has erased its flow creates a flow
\* and erases it again.
LEMMA ErasedAgain ==
    ASSUME NEW o \in TrackerType, Release(o) = o,
           NEW l \in Id0(HostId), NEW r \in CmFlowKey,
           o.local_map[l] = NULL, o.remote_map[r] = NULL, l # 0 \/ IsKey(r),
           NEW n \in Free(o), NEW p
    PROVE  Repeat(p, o, "none", erase_flow(get_flow(o, l, r, n), l, r))
<1>. DEFINE g == get_flow(o, l, r, n)
            e == erase_flow(g, l, r)
<1>1. /\ g \in TrackerType /\ lookup(g, l, r) = n /\ ~g.flow[n].in_qpn_map
      /\ \A h \in Ptr : h # n => g.flow[h] = o.flow[h]
      /\ \A k \in Id0(HostId) : k # l => g.local_map[k] = o.local_map[k]
      /\ \A k \in CmFlowKey : k # r => g.remote_map[k] = o.remote_map[k]
      /\ g.qpn_map = o.qpn_map
  <2>1. Created(o, g, l, r, n)
    BY Zenon, CreatedAgain
  <2>. QED
    BY Zenon, <2>1 DEF Created
<1>2. n \in Ptr /\ n \notin Live(o) /\ n # NULL
  BY MarkersAssumption DEF Free
<1>. HIDE DEF g
<1>3. e = [g EXCEPT !.local_map[l] = NULL, !.remote_map[r] = NULL]
  BY <1>1, <1>2 DEF erase_flow
<1>. HIDE DEF e
<1>4. /\ e.flow = g.flow /\ e.qpn_map = g.qpn_map
      /\ e.local_map = [g.local_map EXCEPT ![l] = NULL]
      /\ e.remote_map = [g.remote_map EXCEPT ![r] = NULL]
      /\ e = [flow |-> e.flow, local_map |-> e.local_map,
              remote_map |-> e.remote_map, qpn_map |-> e.qpn_map]
  BY Zenon, <1>1, <1>3 DEF TrackerType
<1>. DEFINE Fields(t) == /\ t.flow \in [Ptr -> FlowState]
                         /\ t.local_map \in [Id0(HostId) -> Ptr \cup {NULL}]
                         /\ t.remote_map \in [CmFlowKey -> Ptr \cup {NULL}]
<1>0. Fields(o) /\ Fields(g)
  BY Zenon, <1>1 DEF TrackerType
<1>5. e.local_map = o.local_map
  BY <1>0, <1>1, <1>4
<1>6. e.remote_map = o.remote_map
  BY <1>0, <1>1, <1>4
<1>7. Live(e) = Live(o)
  BY Zenon, <1>5, <1>6 DEF Live
<1>8. \A h \in Ptr : h \notin Live(o) => o.flow[h] = NewFlowState
  <2>1. \A h \in Ptr : h \notin Live(o) => Release(o).flow[h] = NewFlowState
    BY Zenon, ReleaseTwice
  <2>. QED
    BY Zenon, <2>1
<1>9. [h \in Ptr |-> IF h \in Live(e) THEN e.flow[h] ELSE NewFlowState] = o.flow
  BY <1>0, <1>1, <1>2, <1>4, <1>7, <1>8
<1>10. Release(e) = [e EXCEPT !.flow = o.flow]
  BY <1>9 DEF Release
<1>11. Release(e) = o
  BY <1>1, <1>4, <1>5, <1>6, <1>10 DEF TrackerType
<1>12. \A h \in Live(o) : e.flow[h] = o.flow[h]
  BY Zenon, <1>1, <1>2, <1>4 DEF Live
<1>. QED
  BY Zenon, <1>1, <1>4, <1>11, <1>12 DEF Repeat, e, g

FoundIn(b, c, l, r) ==
    /\ c \in TrackerType /\ lookup(c, l, r) = lookup(b, l, r)
    /\ \A x \in Ptr : SameQpns(b.flow[x], c.flow[x])

\* A flow is still found under its ids when its second id is linked.
LEMMA LinkFinds ==
    ASSUME NEW b \in TrackerType, NEW l \in Id0(HostId), NEW r \in CmFlowKey,
           NEW new \in Ptr, lookup(b, l, r) \in Ptr
    PROVE  FoundIn(b, add_new_flow(b, l, r, new), l, r)
<1>. DEFINE c == add_new_flow(b, l, r, new)
<1>1. c \in TrackerType /\ \A x \in Ptr : SameQpns(b.flow[x], c.flow[x])
  BY Zenon, LinkQuiet, AddNewFlowFields DEF AddNewFlowEffect
<1>2. lookup(c, l, r) = lookup(b, l, r)
  <2>1. lookup(b, l, r) # NULL
    BY MarkersAssumption
  <2>. QED
    BY <2>1 DEF add_new_flow, lookup, TrackerType
<1>. QED
  BY Zenon, <1>1, <1>2 DEF FoundIn

Establishes(g, u, f) ==
    u.flow[f].state = "ESTABLISHED" /\ \A l, r : lookup(u, l, r) = lookup(g, l, r)

\* A flow is still found under its ids when it is established.
LEMMA EstablishFinds ==
    ASSUME NEW g \in TrackerType, NEW f \in Ptr
    PROVE  Establishes(g, on_established(SetState(g, f, "ESTABLISHED"), f), f)
<1>. DEFINE a == SetState(g, f, "ESTABLISHED")
            u == on_established(a, f)
<1>1. Assigned(g, a, f, "ESTABLISHED", g.flow[f].local_qpn, g.flow[f].remote_qpn)
  BY AssignedFields
<1>2. a \in TrackerType
  <2>1. 0 \in Id0(Qpn)
    BY DEF Id0
  <2>. QED
    BY <2>1, FieldTypes DEF FLOW_STATES
<1>. HIDE DEF a
<1>3. /\ u.flow[f].state = a.flow[f].state
      /\ u.local_map = a.local_map /\ u.remote_map = a.remote_map
  BY <1>2 DEF on_established, TrackerType, FlowState
<1>. HIDE DEF u
<1>4. Establishes(g, u, f)
  BY Zenon, <1>1, <1>3 DEF Assigned, lookup, Establishes
<1>. QED
  BY Zenon, <1>4 DEF u, a

\* The second copy of a message from the host.
LEMMA HostRepeat ==
    ASSUME NEW t, Sound(t), NEW p \in AnyHostPacket, NEW new \in Free(t),
           host_abort(t, p, new) = "none",
           NEW o, o = Release(host_handlers(t, p, new)), NEW n \in Free(o)
    PROVE  Repeat(p, o, host_abort(o, p, n), host_handlers(o, p, n))
<1>. DEFINE l == p.local_comm_id
            r == <<p.daddr, p.remote_comm_id>>
            g == get_flow(t, l, NoKey, new)
            f == lookup(g, l, NoKey)
            gr == get_flow(t, l, r, new)
            fr == lookup(gr, l, r)
            h == host_handlers(t, p, new)
            q == p.local_qpn
<1>1. /\ l \in Id0(HostId) /\ r \in CmFlowKey /\ NoKey \in CmFlowKey
      /\ q \in Id0(Qpn) /\ p.attr \in Attr /\ new \in Ptr
  BY DEF AnyHostPacket, Packet, CmFlowKey, NoKey, Id0, Free
<1>2. from_dest(p, p.remote_comm_id) = r
  BY Zenon DEF from_dest
<1>3. h \in TrackerType /\ Sound(h)
  BY Zenon, HostHandlersSound DEF Sound
<1>4. /\ o \in TrackerType /\ Release(o) = o
      /\ o.local_map = h.local_map /\ o.remote_map = h.remote_map
  BY Zenon, <1>3, ReleaseTwice
<1>5. ASSUME NEW k \in CmFlowKey, lookup(h, l, k) \in Ptr, l # 0 \/ IsKey(k)
      PROVE  /\ Holds(o, l, k, lookup(h, l, k))
             /\ o.flow[lookup(h, l, k)] = h.flow[lookup(h, l, k)]
  BY <1>1, <1>3, <1>5, FoundAgain
<1>. HIDE DEF l, r, h, q
<1>6. ASSUME p.attr \in {"REQ", "RTU", "DREQ", "DREP"}
      PROVE  Sound(g) /\ g \in TrackerType /\ f \in Ptr /\ l # 0
  <2>1. get_flow_abort(t, l, NoKey) = "none"
    BY Zenon, <1>6 DEF host_abort, l
  <2>. QED
    BY Zenon, <1>1, <2>1, GetFlowByLocalId DEF Sound
<1>7. ASSUME p.attr \in {"REJ", "REP"}
      PROVE  Sound(gr) /\ gr \in TrackerType /\ fr \in Ptr /\ (l # 0 \/ IsKey(r))
  <2>1. get_flow_abort(t, l, r) = "none"
    BY <1>2, <1>7 DEF host_abort, rej_sent_abort, rep_sent_abort, l
  <2>2. l # 0 \/ IsKey(r)
    BY <2>1 DEF get_flow_abort
  <2>. QED
    BY <1>1, <2>1, <2>2, GetFlowSound DEF Sound
<1>8. ASSUME p.attr \in {"REQ", "RTU", "DREQ", "DREP"}, Holds(o, l, NoKey, f)
      PROVE  host_abort(o, p, n) = "none"
  BY Zenon, <1>8 DEF host_abort, Holds, l
<1>9. CASE p.attr = "REQ"
  <2>. DEFINE a == SetState(g, f, "REQ_SENT")
              b == SetLocalQpn(a, f, q)
  <2>1. h = IF g.flow[f].state \in {"IDLE", "REQ_SENT"} THEN b ELSE g
    BY <1>9 DEF h, host_handlers, req_sent, l, q
  <2>2. lookup(g, l, NoKey) = f
    OBVIOUS
  <2>. HIDE DEF g, f
  <2>3. Assigned(g, a, f, "REQ_SENT", g.flow[f].local_qpn, g.flow[f].remote_qpn)
        /\ a \in TrackerType
    BY Zenon, <1>1, <1>6, <1>9, AssignedFields, FieldTypes DEF FLOW_STATES
  <2>. HIDE DEF a
  <2>4. Assigned(a, b, f, a.flow[f].state, q, a.flow[f].remote_qpn)
    BY ZenonT(30), <1>6, <1>9, <2>3, AssignedFields
  <2>. HIDE DEF b
  <2>5. /\ lookup(h, l, NoKey) = f
        /\ \/ h.flow[f].state \notin {"IDLE", "REQ_SENT"}
           \/ h.flow[f].state = "REQ_SENT" /\ h.flow[f].local_qpn = q
    BY <2>1, <2>2, <2>3, <2>4 DEF Assigned, lookup
  <2>6. Holds(o, l, NoKey, f) /\ o.flow[f] = h.flow[f]
    BY Zenon, <1>1, <1>5, <1>6, <1>9, <2>5
  <2>7. host_handlers(o, p, n) = IF o.flow[f].state \in {"IDLE", "REQ_SENT"}
                                 THEN SetLocalQpn(SetState(o, f, "REQ_SENT"), f, q)
                                 ELSE o
    <3>1. get_flow(o, l, NoKey, n) = o /\ lookup(o, l, NoKey) = f
      BY <2>6 DEF Holds
    <3>2. host_handlers(o, p, n) = req_sent(o, p, n)
      BY <1>9 DEF host_handlers
    <3>. QED
      BY ZenonT(30), <2>6, <3>1, <3>2 DEF req_sent, l, q
  <2>8. host_handlers(o, p, n) = o
    <3>1. /\ o.flow[f].state = "REQ_SENT" => SetState(o, f, "REQ_SENT") = o
          /\ o.flow[f].local_qpn = q => SetLocalQpn(o, f, q) = o
      BY Zenon, <1>4, <1>6, <1>9, SameValue
    <3>. QED
      BY Zenon, <2>5, <2>6, <2>7, <3>1
  <2>. QED
    BY Zenon, <1>4, <1>8, <1>9, <2>6, <2>8, NothingAgain
<1>10. CASE p.attr = "RTU"
  <2>. DEFINE u == on_established(SetState(g, f, "ESTABLISHED"), f)
  <2>1. h = IF g.flow[f].state \in {"REP_RCVD", "MRA_REP_SENT"} THEN u ELSE g
    BY <1>10 DEF h, host_handlers, rtu_sent, l
  <2>2. lookup(g, l, NoKey) = f
    OBVIOUS
  <2>. HIDE DEF g, f
  <2>3. u.flow[f].state = "ESTABLISHED" /\ lookup(u, l, NoKey) = f
    <3>1. Establishes(g, u, f)
      BY Zenon, <1>6, <1>10, EstablishFinds
    <3>. QED
      BY Zenon, <2>2, <3>1 DEF Establishes
  <2>. HIDE DEF u
  <2>4. /\ lookup(h, l, NoKey) = f
        /\ h.flow[f].state \notin {"REP_RCVD", "MRA_REP_SENT"}
    BY <2>1, <2>2, <2>3
  <2>5. Holds(o, l, NoKey, f) /\ o.flow[f] = h.flow[f]
    BY Zenon, <1>1, <1>5, <1>6, <1>10, <2>4
  <2>6. host_handlers(o, p, n) = o
    <3>1. get_flow(o, l, NoKey, n) = o /\ lookup(o, l, NoKey) = f
      BY <2>5 DEF Holds
    <3>2. host_handlers(o, p, n) = rtu_sent(o, p, n)
      BY Zenon, <1>10 DEF host_handlers
    <3>. QED
      BY Zenon, <2>4, <2>5, <3>1, <3>2 DEF rtu_sent, l
  <2>. QED
    BY Zenon, <1>4, <1>8, <1>10, <2>5, <2>6, NothingAgain
<1>11. CASE p.attr = "DREQ"
  <2>. DEFINE a == SetState(g, f, "DREQ_SENT")
              S == {"IDLE", "ESTABLISHED", "DREQ_SENT", "DREQ_RCVD"}
  <2>1. h = IF g.flow[f].state \in S THEN a ELSE g
    BY Zenon, <1>11 DEF h, host_handlers, dreq_sent, l
  <2>2. lookup(g, l, NoKey) = f
    OBVIOUS
  <2>. HIDE DEF g, f
  <2>3. Assigned(g, a, f, "DREQ_SENT", g.flow[f].local_qpn, g.flow[f].remote_qpn)
    BY ZenonT(30), <1>6, <1>11, AssignedFields
  <2>. HIDE DEF a
  <2>4. /\ lookup(h, l, NoKey) = f
        /\ h.flow[f].state \notin S \/ h.flow[f].state = "DREQ_SENT"
    BY <2>1, <2>2, <2>3 DEF Assigned, lookup
  <2>5. Holds(o, l, NoKey, f) /\ o.flow[f] = h.flow[f]
    BY Zenon, <1>1, <1>5, <1>6, <1>11, <2>4
  <2>6. host_handlers(o, p, n) = IF o.flow[f].state \in S
                                 THEN SetState(o, f, "DREQ_SENT") ELSE o
    <3>1. get_flow(o, l, NoKey, n) = o /\ lookup(o, l, NoKey) = f
      BY <2>5 DEF Holds
    <3>2. host_handlers(o, p, n) = dreq_sent(o, p, n)
      BY <1>11 DEF host_handlers
    <3>. QED
      BY Zenon, <2>5, <3>1, <3>2 DEF dreq_sent, l
  <2>7. host_handlers(o, p, n) = o
    BY ZenonT(30), <1>4, <1>6, <1>11, <2>4, <2>5, <2>6, SameValue
  <2>. QED
    BY Zenon, <1>4, <1>8, <1>11, <2>5, <2>7, NothingAgain
<1>12. CASE p.attr = "DREP"
  <2>. DEFINE e == erase_flow(g, l, r)
              S == {"DREQ_SENT", "DREQ_RCVD"}
  <2>1. h = IF g.flow[f].state \in S THEN e ELSE g
    BY <1>2, <1>12 DEF h, host_handlers, drep_sent, l
  <2>2. lookup(g, l, NoKey) = f /\ lookup(g, l, r) = f
    BY <1>6, <1>12 DEF lookup
  <2>. HIDE DEF g, f
  <2>3. CASE g.flow[f].state \notin S
    <3>1. Holds(o, l, NoKey, f) /\ o.flow[f] = g.flow[f]
      BY Zenon, <1>1, <1>5, <1>6, <1>12, <2>1, <2>2, <2>3
    <3>2. host_handlers(o, p, n) = o
      <4>1. get_flow(o, l, NoKey, n) = o /\ lookup(o, l, NoKey) = f
        BY Zenon, <3>1 DEF Holds
      <4>2. host_handlers(o, p, n) = drep_sent(o, p, n)
        BY <1>12 DEF host_handlers
      <4>. QED
        BY Zenon, <2>3, <3>1, <4>1, <4>2 DEF drep_sent, l
    <3>. QED
      BY Zenon, <1>4, <1>8, <1>12, <3>1, <3>2, NothingAgain
  <2>4. CASE g.flow[f].state \in S
    <3>1. o.local_map[l] = NULL
      <4>1. Cleared(h, l, r)
        BY Zenon, <1>1, <1>6, <1>12, <2>1, <2>2, <2>4, ErasedMaps
      <4>. QED
        BY Zenon, <1>4, <4>1 DEF Cleared
    <3>2. host_abort(o, p, n) = get_flow_abort(o, l, NoKey)
      BY <1>12 DEF host_abort, l
    <3>3. drep_sent(o, p, n) = host_handlers(o, p, n)
      BY <1>12 DEF host_handlers
    <3>4. o.remote_map[NoKey] = NULL
      <4>1. ~IsKey(NoKey)
        BY DEF IsKey, NoKey
      <4>. QED
        BY Zenon, <1>1, <1>3, <1>4, <4>1 DEF Sound, Indexed
    <3>. DEFINE w == get_flow(o, l, NoKey, n)
    <3>5. /\ get_flow_abort(o, l, NoKey) = "none"
          /\ lookup(w, l, NoKey) = n /\ w.flow[n].state = "IDLE"
          /\ \A x \in Ptr : x # n => w.flow[x] = o.flow[x]
          /\ w.qpn_map = o.qpn_map
      <4>1. Created(o, w, l, NoKey, n)
        BY Zenon, <1>1, <1>4, <1>6, <1>12, <3>1, <3>4, CreatedAgain
      <4>. QED
        BY Zenon, <4>1 DEF Created
    <3>6. host_handlers(o, p, n) = w
      BY Zenon, <3>3, <3>5 DEF drep_sent, l
    <3>. HIDE DEF w
    <3>7. \A x \in Live(o) : w.flow[x] = o.flow[x]
      BY ZenonT(30), <3>5 DEF Live, Free
    <3>. QED
      BY Zenon, <1>12, <3>2, <3>5, <3>6, <3>7 DEF Repeat
  <2>. QED
    BY <2>3, <2>4
<1>13. CASE p.attr = "REJ"
  <2>. DEFINE e == erase_flow(gr, l, r)
              S == {"IDLE", "REQ_RCVD", "REQ_SENT", "MRA_REQ_RCVD", "MRA_REQ_SENT",
                    "REP_RCVD", "MRA_REP_SENT", "REP_SENT", "MRA_REP_RCVD"}
  <2>1. h = IF gr.flow[fr].state \in S THEN e ELSE gr
    BY Zenon, <1>2, <1>13 DEF h, host_handlers, rej_sent, l
  <2>2. lookup(gr, l, r) = fr
    OBVIOUS
  <2>3. host_abort(o, p, n) = get_flow_abort(o, l, r)
    BY <1>2, <1>13 DEF host_abort, rej_sent_abort, l
  <2>. HIDE DEF gr, fr
  <2>4. CASE gr.flow[fr].state \notin S
    <3>1. Holds(o, l, r, fr) /\ o.flow[fr] = gr.flow[fr]
      BY Zenon, <1>1, <1>5, <1>7, <1>13, <2>1, <2>2, <2>4
    <3>2. host_handlers(o, p, n) = o
      <4>1. get_flow(o, l, r, n) = o /\ lookup(o, l, r) = fr
        BY <3>1 DEF Holds
      <4>2. host_handlers(o, p, n) = rej_sent(o, p, n)
        BY <1>13 DEF host_handlers
      <4>. QED
        BY Zenon, <1>2, <2>4, <3>1, <4>1, <4>2 DEF rej_sent, l
    <3>. QED
      BY Zenon, <1>4, <2>3, <3>1, <3>2, NothingAgain DEF Holds
  <2>5. CASE gr.flow[fr].state \in S
    <3>1. o.local_map[l] = NULL /\ o.remote_map[r] = NULL
      <4>1. Cleared(h, l, r)
        BY Zenon, <1>1, <1>7, <1>13, <2>1, <2>2, <2>5, ErasedMaps
      <4>. QED
        BY Zenon, <1>4, <4>1 DEF Cleared
    <3>. DEFINE w == get_flow(o, l, r, n)
    <3>2. /\ get_flow_abort(o, l, r) = "none"
          /\ lookup(w, l, r) = n /\ w.flow[n].state = "IDLE"
          /\ Repeat(p, o, "none", erase_flow(w, l, r))
      <4>1. Created(o, w, l, r, n) /\ Repeat(p, o, "none", erase_flow(w, l, r))
        BY Zenon, <1>1, <1>4, <1>7, <1>13, <3>1, CreatedAgain, ErasedAgain
      <4>. QED
        BY Zenon, <4>1 DEF Created
    <3>3. host_handlers(o, p, n) = rej_sent(o, p, n)
      BY <1>13 DEF host_handlers
    <3>4. rej_sent(o, p, n) = erase_flow(w, l, r)
      BY Zenon, <1>2, <3>2 DEF rej_sent, l
    <3>. QED
      BY Zenon, <2>3, <3>2, <3>3, <3>4
  <2>. QED
    BY <2>4, <2>5
<1>14. CASE p.attr = "REP"
  <2>. DEFINE a == SetState(gr, fr, "REP_SENT")
              b == add_new_flow(a, l, r, new)
              c == SetLocalQpn(b, fr, q)
              S == {"REQ_RCVD", "MRA_REQ_SENT"}
  <2>1. h = IF gr.flow[fr].state \in S THEN c ELSE gr
    BY Zenon, <1>2, <1>14 DEF h, host_handlers, rep_sent, l, q
  <2>2. lookup(gr, l, r) = fr
    OBVIOUS
  <2>. HIDE DEF gr, fr
  <2>3. Assigned(gr, a, fr, "REP_SENT", gr.flow[fr].local_qpn, gr.flow[fr].remote_qpn)
        /\ a \in TrackerType
    BY Zenon, <1>1, <1>7, <1>14, AssignedFields, FieldTypes DEF FLOW_STATES
  <2>. HIDE DEF a
  <2>4. lookup(a, l, r) = fr
    BY <2>2, <2>3 DEF Assigned, lookup
  <2>5. b \in TrackerType /\ lookup(b, l, r) = fr /\ b.flow[fr].state = "REP_SENT"
    <3>1. FoundIn(a, b, l, r)
      BY Zenon, <1>1, <1>7, <1>14, <2>3, <2>4, LinkFinds
    <3>. QED
      BY Zenon, <1>7, <1>14, <2>3, <2>4, <3>1 DEF FoundIn, SameQpns, Assigned
  <2>. HIDE DEF b
  <2>6. Assigned(b, c, fr, "REP_SENT", q, b.flow[fr].remote_qpn)
    BY Zenon, <1>7, <1>14, <2>5, AssignedFields
  <2>. HIDE DEF c
  <2>7. lookup(h, l, r) = fr /\ h.flow[fr].state \notin S
    BY <2>1, <2>2, <2>5, <2>6 DEF Assigned, lookup
  <2>8. Holds(o, l, r, fr) /\ o.flow[fr] = h.flow[fr]
    BY Zenon, <1>1, <1>5, <1>7, <1>14, <2>7
  <2>9. host_handlers(o, p, n) = o
    <3>1. get_flow(o, l, r, n) = o /\ lookup(o, l, r) = fr
      BY Zenon, <2>8 DEF Holds
    <3>2. host_handlers(o, p, n) = rep_sent(o, p, n)
      BY <1>14 DEF host_handlers
    <3>. QED
      BY Zenon, <1>2, <2>7, <2>8, <3>1, <3>2 DEF rep_sent, l
  <2>10. host_abort(o, p, n) = "none"
    BY Zenon, <1>2, <1>14, <2>7, <2>8 DEF host_abort, rep_sent_abort, Holds, l
  <2>. QED
    BY Zenon, <1>4, <2>9, <2>10, NothingAgain
<1>15. CASE p.attr \notin Handled
  <2>1. host_handlers(o, p, n) = o /\ host_abort(o, p, n) = "none"
    BY Zenon, <1>15 DEF host_handlers, host_abort, Handled
  <2>. QED
    BY Zenon, <1>4, <2>1, NothingAgain
<1>. QED
  BY Zenon, <1>1, <1>9, <1>10, <1>11, <1>12, <1>13, <1>14, <1>15 DEF Handled, Attr

\* The second copy of a message from the network.
LEMMA NetRepeat ==
    ASSUME NEW t, Sound(t), NEW p \in AnyNetPacket, NEW new \in Free(t),
           net_abort(t, p, new) = "none",
           NEW o, o = Release(net_handlers(t, p, new)), NEW n \in Free(o)
    PROVE  Repeat(p, o, net_abort(o, p, n), net_handlers(o, p, n))
<1>. DEFINE l == p.remote_comm_id
            r == <<p.saddr, p.local_comm_id>>
            g == get_flow(t, l, NoKey, new)
            f == lookup(g, l, NoKey)
            gr == get_flow(t, l, r, new)
            fr == lookup(gr, l, r)
            g0 == get_flow(t, 0, r, new)
            f0 == lookup(g0, 0, r)
            h == net_handlers(t, p, new)
            q == p.local_qpn
<1>1. /\ l \in Id0(HostId) /\ r \in CmFlowKey /\ NoKey \in CmFlowKey
      /\ q \in Id0(Qpn) /\ p.attr \in Attr /\ new \in Ptr
      /\ 0 \in Id0(HostId)
  BY DEF AnyNetPacket, Packet, CmFlowKey, NoKey, Id0, Free
<1>2. from_src(p, p.local_comm_id) = r
  BY Zenon DEF from_src
<1>3. h \in TrackerType /\ Sound(h)
  BY NetHandlersSound DEF Sound
<1>4. /\ o \in TrackerType /\ Release(o) = o
      /\ o.local_map = h.local_map /\ o.remote_map = h.remote_map
  BY <1>3, ReleaseTwice
<1>5. ASSUME NEW k \in CmFlowKey, lookup(h, l, k) \in Ptr, l # 0 \/ IsKey(k)
      PROVE  /\ Holds(o, l, k, lookup(h, l, k))
             /\ o.flow[lookup(h, l, k)] = h.flow[lookup(h, l, k)]
  BY <1>1, <1>3, <1>5, FoundAgain
<1>. HIDE DEF l, r, h, q
<1>6. ASSUME p.attr \in {"REP", "RTU", "DREQ", "DREP"}
      PROVE  Sound(g) /\ g \in TrackerType /\ f \in Ptr /\ l # 0
  <2>1. get_flow_abort(t, l, NoKey) = "none"
    BY ZenonT(30), <1>2, <1>6 DEF net_abort, rep_received_abort, l
  <2>. QED
    BY Zenon, <1>1, <2>1, GetFlowByLocalId DEF Sound
<1>7. ASSUME p.attr = "REJ"
      PROVE  Sound(gr) /\ gr \in TrackerType /\ fr \in Ptr /\ (l # 0 \/ IsKey(r))
  <2>1. get_flow_abort(t, l, r) = "none"
    BY <1>2, <1>7 DEF net_abort, rej_received_abort, l
  <2>2. l # 0 \/ IsKey(r)
    BY <2>1 DEF get_flow_abort
  <2>. QED
    BY <1>1, <2>1, <2>2, GetFlowSound DEF Sound
<1>8. ASSUME p.attr \in {"RTU", "DREQ", "DREP"}, Holds(o, l, NoKey, f)
      PROVE  net_abort(o, p, n) = "none"
  BY <1>8 DEF net_abort, Holds, l
<1>9. CASE p.attr = "REQ"
  <2>. DEFINE a == SetState(g0, f0, "REQ_RCVD")
              b == SetRemoteQpn(a, f0, q)
              S == {"REQ_RCVD", "IDLE"}
  <2>1. h = IF g0.flow[f0].state \in S THEN b ELSE g0
    BY <1>2, <1>9 DEF h, net_handlers, req_received, q
  <2>2. get_flow_abort(t, 0, r) = "none"
    BY Zenon, <1>2, <1>9 DEF net_abort, req_received_abort
  <2>3. g0 \in TrackerType /\ f0 \in Ptr /\ lookup(g0, 0, r) = f0 /\ IsKey(r)
    BY <1>1, <2>2, GetFlowSound DEF Sound, get_flow_abort
  <2>. HIDE DEF g0, f0
  <2>4. Assigned(g0, a, f0, "REQ_RCVD", g0.flow[f0].local_qpn, g0.flow[f0].remote_qpn)
        /\ a \in TrackerType
    BY Zenon, <1>1, <2>3, AssignedFields, FieldTypes DEF FLOW_STATES
  <2>. HIDE DEF a
  <2>5. Assigned(a, b, f0, a.flow[f0].state, a.flow[f0].local_qpn, q)
    BY Zenon, <2>3, <2>4, AssignedFields
  <2>. HIDE DEF b
  <2>6. /\ lookup(h, 0, r) = f0
        /\ \/ h.flow[f0].state \notin S
           \/ h.flow[f0].state = "REQ_RCVD" /\ h.flow[f0].remote_qpn = q
    BY Zenon, <2>1, <2>3, <2>4, <2>5 DEF Assigned, lookup
  <2>7. Holds(o, 0, r, f0) /\ o.flow[f0] = h.flow[f0]
    BY Zenon, <1>1, <1>3, <2>3, <2>6, FoundAgain DEF h
  <2>8. /\ get_flow(o, 0, r, n) = o /\ lookup(o, 0, r) = f0
        /\ get_flow_abort(o, 0, r) = "none"
    BY Zenon, <2>7 DEF Holds
  <2>9. net_handlers(o, p, n) = req_received(o, p, n)
    BY <1>9 DEF net_handlers
  <2>10. req_received(o, p, n) = IF o.flow[f0].state \in S
                                 THEN SetRemoteQpn(SetState(o, f0, "REQ_RCVD"), f0, q)
                                 ELSE o
    BY Zenon, <1>2, <2>8 DEF req_received, q
  <2>11. net_handlers(o, p, n) = o
    BY Zenon, <1>4, <2>3, <2>6, <2>7, <2>9, <2>10, SameValue
  <2>12. net_abort(o, p, n) = req_received_abort(o, p, n)
    BY <1>9 DEF net_abort
  <2>13. req_received_abort(o, p, n) = "none"
    BY Zenon, <1>2, <2>6, <2>7, <2>8 DEF req_received_abort, q
  <2>. QED
    BY Zenon, <1>4, <2>11, <2>12, <2>13, NothingAgain
<1>10. CASE p.attr = "RTU"
  <2>. DEFINE u == on_established(SetState(g, f, "ESTABLISHED"), f)
  <2>1. h = IF g.flow[f].state \in {"REP_SENT", "MRA_REP_RCVD"} THEN u ELSE g
    BY <1>10 DEF h, net_handlers, rtu_received, l
  <2>2. lookup(g, l, NoKey) = f
    OBVIOUS
  <2>. HIDE DEF g, f
  <2>3. u.flow[f].state = "ESTABLISHED" /\ lookup(u, l, NoKey) = f
    <3>1. Establishes(g, u, f)
      BY ZenonT(30), <1>6, <1>10, EstablishFinds
    <3>. QED
      BY Zenon, <2>2, <3>1 DEF Establishes
  <2>. HIDE DEF u
  <2>4. /\ lookup(h, l, NoKey) = f
        /\ h.flow[f].state \notin {"REP_SENT", "MRA_REP_RCVD"}
    BY <2>1, <2>2, <2>3
  <2>5. Holds(o, l, NoKey, f) /\ o.flow[f] = h.flow[f]
    BY Zenon, <1>1, <1>5, <1>6, <1>10, <2>4
  <2>6. net_handlers(o, p, n) = o
    <3>1. get_flow(o, l, NoKey, n) = o /\ lookup(o, l, NoKey) = f
      BY <2>5 DEF Holds
    <3>2. net_handlers(o, p, n) = rtu_received(o, p, n)
      BY <1>10 DEF net_handlers
    <3>. QED
      BY Zenon, <2>4, <2>5, <3>1, <3>2 DEF rtu_received, l
  <2>. QED
    BY Zenon, <1>4, <1>8, <1>10, <2>5, <2>6, NothingAgain
<1>11. CASE p.attr = "DREQ"
  <2>. DEFINE a == SetState(g, f, "DREQ_RCVD")
              S == {"REP_SENT", "DREQ_SENT", "ESTABLISHED", "MRA_REP_RCVD",
                    "TIMEWAIT", "DREQ_RCVD"}
  <2>1. h = IF g.flow[f].state \in S THEN a ELSE g
    BY <1>11 DEF h, net_handlers, dreq_received, l
  <2>2. lookup(g, l, NoKey) = f
    OBVIOUS
  <2>. HIDE DEF g, f
  <2>3. Assigned(g, a, f, "DREQ_RCVD", g.flow[f].local_qpn, g.flow[f].remote_qpn)
    BY ZenonT(30), <1>6, <1>11, AssignedFields
  <2>. HIDE DEF a
  <2>4. /\ lookup(h, l, NoKey) = f
        /\ h.flow[f].state \notin S \/ h.flow[f].state = "DREQ_RCVD"
    BY <2>1, <2>2, <2>3 DEF Assigned, lookup
  <2>5. Holds(o, l, NoKey, f) /\ o.flow[f] = h.flow[f]
    BY Zenon, <1>1, <1>5, <1>6, <1>11, <2>4
  <2>6. net_handlers(o, p, n) = IF o.flow[f].state \in S
                                 THEN SetState(o, f, "DREQ_RCVD") ELSE o
    <3>1. get_flow(o, l, NoKey, n) = o /\ lookup(o, l, NoKey) = f
      BY <2>5 DEF Holds
    <3>2. net_handlers(o, p, n) = dreq_received(o, p, n)
      BY <1>11 DEF net_handlers
    <3>. QED
      BY Zenon, <2>5, <3>1, <3>2 DEF dreq_received, l
  <2>7. net_handlers(o, p, n) = o
    BY Zenon, <1>4, <1>6, <1>11, <2>4, <2>5, <2>6, SameValue
  <2>. QED
    BY Zenon, <1>4, <1>8, <1>11, <2>5, <2>7, NothingAgain
<1>12. CASE p.attr = "DREP"
  <2>. DEFINE e == erase_flow(g, l, r)
              S == {"DREQ_SENT", "DREQ_RCVD"}
  <2>1. h = IF g.flow[f].state \in S THEN e ELSE g
    BY <1>2, <1>12 DEF h, net_handlers, drep_received, l
  <2>2. lookup(g, l, NoKey) = f /\ lookup(g, l, r) = f
    BY Zenon, <1>6, <1>12 DEF lookup
  <2>. HIDE DEF g, f
  <2>3. CASE g.flow[f].state \notin S
    <3>1. Holds(o, l, NoKey, f) /\ o.flow[f] = g.flow[f]
      BY Zenon, <1>1, <1>5, <1>6, <1>12, <2>1, <2>2, <2>3
    <3>2. net_handlers(o, p, n) = o
      <4>1. get_flow(o, l, NoKey, n) = o /\ lookup(o, l, NoKey) = f
        BY Zenon, <3>1 DEF Holds
      <4>2. net_handlers(o, p, n) = drep_received(o, p, n)
        BY <1>12 DEF net_handlers
      <4>. QED
        BY Zenon, <2>3, <3>1, <4>1, <4>2 DEF drep_received, l
    <3>. QED
      BY Zenon, <1>4, <1>8, <1>12, <3>1, <3>2, NothingAgain
  <2>4. CASE g.flow[f].state \in S
    <3>1. o.local_map[l] = NULL
      <4>1. Cleared(h, l, r)
        BY Zenon, <1>1, <1>6, <1>12, <2>1, <2>2, <2>4, ErasedMaps
      <4>. QED
        BY Zenon, <1>4, <4>1 DEF Cleared
    <3>2. net_abort(o, p, n) = get_flow_abort(o, l, NoKey)
      BY <1>12 DEF net_abort, l
    <3>3. drep_received(o, p, n) = net_handlers(o, p, n)
      BY <1>12 DEF net_handlers
    <3>4. o.remote_map[NoKey] = NULL
      <4>1. ~IsKey(NoKey)
        BY DEF IsKey, NoKey
      <4>. QED
        BY Zenon, <1>1, <1>3, <1>4, <4>1 DEF Sound, Indexed
    <3>. DEFINE w == get_flow(o, l, NoKey, n)
    <3>5. /\ get_flow_abort(o, l, NoKey) = "none"
          /\ lookup(w, l, NoKey) = n /\ w.flow[n].state = "IDLE"
          /\ \A x \in Ptr : x # n => w.flow[x] = o.flow[x]
          /\ w.qpn_map = o.qpn_map
      <4>1. Created(o, w, l, NoKey, n)
        BY Zenon, <1>1, <1>4, <1>6, <1>12, <3>1, <3>4, CreatedAgain
      <4>. QED
        BY Zenon, <4>1 DEF Created
    <3>6. net_handlers(o, p, n) = w
      BY Zenon, <3>3, <3>5 DEF drep_received, l
    <3>. HIDE DEF w
    <3>7. \A x \in Live(o) : w.flow[x] = o.flow[x]
      BY ZenonT(30), <3>5 DEF Live, Free
    <3>. QED
      BY Zenon, <1>12, <3>2, <3>5, <3>6, <3>7 DEF Repeat
  <2>. QED
    BY <2>3, <2>4
<1>13. CASE p.attr = "REJ"
  <2>. DEFINE e == erase_flow(gr, l, r)
              S == {"IDLE", "REQ_SENT", "MRA_REQ_RCVD", "REP_SENT", "MRA_REP_RCVD",
                    "MRA_REQ_SENT", "DREQ_SENT", "REP_RCVD", "MRA_REP_SENT",
                    "ESTABLISHED"}
  <2>1. h = IF gr.flow[fr].state \in S THEN e ELSE gr
    BY Zenon, <1>2, <1>13 DEF h, net_handlers, rej_received, l
  <2>2. lookup(gr, l, r) = fr
    OBVIOUS
  <2>3. net_abort(o, p, n) = get_flow_abort(o, l, r)
    BY Zenon, <1>2, <1>13 DEF net_abort, rej_received_abort, l
  <2>. HIDE DEF gr, fr
  <2>4. CASE gr.flow[fr].state \notin S
    <3>1. Holds(o, l, r, fr) /\ o.flow[fr] = gr.flow[fr]
      BY Zenon, <1>1, <1>5, <1>7, <1>13, <2>1, <2>2, <2>4
    <3>2. net_handlers(o, p, n) = o
      <4>1. get_flow(o, l, r, n) = o /\ lookup(o, l, r) = fr
        BY <3>1 DEF Holds
      <4>2. net_handlers(o, p, n) = rej_received(o, p, n)
        BY <1>13 DEF net_handlers
      <4>. QED
        BY Zenon, <1>2, <2>4, <3>1, <4>1, <4>2 DEF rej_received, l
    <3>. QED
      BY Zenon, <1>4, <2>3, <3>1, <3>2, NothingAgain DEF Holds
  <2>5. CASE gr.flow[fr].state \in S
    <3>1. o.local_map[l] = NULL /\ o.remote_map[r] = NULL
      <4>1. Cleared(h, l, r)
        BY Zenon, <1>1, <1>7, <1>13, <2>1, <2>2, <2>5, ErasedMaps
      <4>. QED
        BY Zenon, <1>4, <4>1 DEF Cleared
    <3>. DEFINE w == get_flow(o, l, r, n)
    <3>2. /\ get_flow_abort(o, l, r) = "none"
          /\ lookup(w, l, r) = n /\ w.flow[n].state = "IDLE"
          /\ Repeat(p, o, "none", erase_flow(w, l, r))
      <4>1. Created(o, w, l, r, n) /\ Repeat(p, o, "none", erase_flow(w, l, r))
        BY Zenon, <1>1, <1>4, <1>7, <1>13, <3>1, CreatedAgain, ErasedAgain
      <4>. QED
        BY Zenon, <4>1 DEF Created
    <3>3. net_handlers(o, p, n) = rej_received(o, p, n)
      BY <1>13 DEF net_handlers
    <3>4. rej_received(o, p, n) = erase_flow(w, l, r)
      BY Zenon, <1>2, <3>2 DEF rej_received, l
    <3>. QED
      BY Zenon, <2>3, <3>2, <3>3, <3>4
  <2>. QED
    BY Zenon, <2>4, <2>5
<1>14. CASE p.attr = "REP"
  <2>. DEFINE a == SetState(g, f, "REP_RCVD")
              b == SetRemoteQpn(a, f, q)
              c == add_new_flow(b, l, r, new)
              S == {"REQ_SENT", "MRA_REQ_RCVD"}
  <2>1. h = IF g.flow[f].state \in S THEN c ELSE g
    BY <1>2, <1>14 DEF h, net_handlers, rep_received, l, q
  <2>2. lookup(g, l, NoKey) = f
    OBVIOUS
  <2>. HIDE DEF g, f
  <2>3. Assigned(g, a, f, "REP_RCVD", g.flow[f].local_qpn, g.flow[f].remote_qpn)
        /\ a \in TrackerType
    BY Zenon, <1>1, <1>6, <1>14, AssignedFields, FieldTypes DEF FLOW_STATES
  <2>. HIDE DEF a
  <2>4. Assigned(a, b, f, a.flow[f].state, a.flow[f].local_qpn, q)
        /\ b \in TrackerType
    BY Zenon, <1>1, <1>6, <1>14, <2>3, AssignedFields, FieldTypes DEF FLOW_STATES
  <2>. HIDE DEF b
  <2>5. lookup(b, l, r) = f /\ b.flow[f].state = "REP_RCVD"
    BY Zenon, <1>6, <1>14, <2>2, <2>3, <2>4 DEF Assigned, lookup
  <2>6. lookup(c, l, r) = f /\ c.flow[f].state = "REP_RCVD"
    <3>1. FoundIn(b, c, l, r)
      BY ZenonT(30), <1>1, <1>6, <1>14, <2>4, <2>5, LinkFinds
    <3>. QED
      BY Zenon, <1>6, <1>14, <2>5, <3>1 DEF FoundIn, SameQpns
  <2>. HIDE DEF c
  <2>7. lookup(h, l, NoKey) = f /\ h.flow[f].state \notin S
    BY <1>6, <1>14, <2>1, <2>2, <2>6 DEF lookup
  <2>8. Holds(o, l, NoKey, f) /\ o.flow[f] = h.flow[f]
    BY ZenonT(30), <1>1, <1>5, <1>6, <1>14, <2>7
  <2>9. /\ get_flow(o, l, NoKey, n) = o /\ lookup(o, l, NoKey) = f
        /\ get_flow_abort(o, l, NoKey) = "none"
    BY <2>8 DEF Holds
  <2>10. /\ net_handlers(o, p, n) = rep_received(o, p, n)
         /\ net_abort(o, p, n) = rep_received_abort(o, p, n)
    BY <1>14 DEF net_handlers, net_abort
  <2>11. rep_received(o, p, n) = o
    BY Zenon, <2>7, <2>8, <2>9 DEF rep_received, l
  <2>12. rep_received_abort(o, p, n) = "none"
    BY Zenon, <2>7, <2>8, <2>9 DEF rep_received_abort, l
  <2>. QED
    BY Zenon, <1>4, <2>10, <2>11, <2>12, NothingAgain
<1>15. CASE p.attr \notin Handled
  <2>1. net_handlers(o, p, n) = o /\ net_abort(o, p, n) = "none"
    BY <1>15 DEF net_handlers, net_abort, Handled
  <2>. QED
    BY <1>4, <2>1, NothingAgain
<1>. QED
  BY ZenonT(30), <1>1, <1>9, <1>10, <1>11, <1>12, <1>13, <1>14, <1>15 DEF Handled, Attr

\* For every set of packets: handling any packet a second time, right after the
\* first, fails no assert and changes neither answers nor tracked flows.
THEOREM RetransmissionsHarmless == Spec => []RetransmissionHarmless
<1>1. IInv => RetransmissionHarmless
  <2>. SUFFICES ASSUME IInv PROVE RetransmissionHarmless
    OBVIOUS
  <2>1. Sound(Tracker)
    BY DEF IInv
  <2>2. ASSUME NEW new \in Free(Tracker), NEW p \in HostPackets,
               host_abort(Tracker, p, new) = "none",
               NEW n \in Free(Release(host_handlers(Tracker, p, new)))
        PROVE  LET once == Release(host_handlers(Tracker, p, new))
               IN  Repeat(p, once, host_abort(once, p, n), host_handlers(once, p, n))
    BY Zenon, <2>1, <2>2, HostRepeat, PacketsAssumption
  <2>3. ASSUME NEW new \in Free(Tracker), NEW p \in NetPackets,
               net_abort(Tracker, p, new) = "none",
               NEW n \in Free(Release(net_handlers(Tracker, p, new)))
        PROVE  LET once == Release(net_handlers(Tracker, p, new))
               IN  Repeat(p, once, net_abort(once, p, n), net_handlers(once, p, n))
    BY Zenon, <2>1, <2>3, NetRepeat, PacketsAssumption
  <2>. QED
    BY Zenon, <2>2, <2>3 DEF RetransmissionHarmless
<1>. QED
  BY <1>1, TrackerInvariant, PTL
=============================================================================
