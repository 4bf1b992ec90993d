----------------------------- MODULE CmTracker -----------------------------
(***************************************************************************)
(* The connection tracker of libconntrack-cm (class cm_connection_tracker).*)
(*                                                                         *)
(* The tracker sits on the wire between a host and its network and watches *)
(* the RDMA CM datagrams that pass in both directions.  It keeps           *)
(*                                                                         *)
(*   flow        the flow_state objects, by address (std::shared_ptr);     *)
(*   local_map   flows by the host's communication id;                     *)
(*   remote_map  flows by the peer's <<address, communication id>>;        *)
(*   qpn_map     the answer table: <<peer address, peer QPN>> -> host QPN. *)
(*                                                                         *)
(* A datagram is handled by exactly one handler, run to completion, so a   *)
(* handler is one action.  Every handler first calls get_flow, which adds  *)
(* a flow when it finds none; it is written as an operator from tracker    *)
(* records to tracker records, in the order of the code's own calls.       *)
(*                                                                         *)
(* Packets are arbitrary members of the sets HostPackets and NetPackets:   *)
(* loss, duplication, reordering, truncated exchanges and reused ids are   *)
(* all sequences of packets that this specification allows.                *)
(*                                                                         *)
(* The library is built with its asserts (meson's b_ndebug is not set), so *)
(* an assert that fails ends the process: "abort" names it, and nothing    *)
(* happens afterwards.                                                     *)
(***************************************************************************)
EXTENDS Naturals

CONSTANTS
    Ptr,            \* addresses a flow_state may live at
    NULL,           \* the empty flow_state_ptr; "not found" in a flow map
    HostId,         \* communication ids the host allocates (not 0)
    PeerId,         \* communication ids the peers allocate (not 0)
    HostAddr,       \* IPv4 address of the host
    PeerAddr,       \* IPv4 addresses of the peers
    Qpn,            \* queue pair numbers (not 0)
    Absent,         \* "no entry" in qpn_map
    HostPackets,    \* CM packets that may arrive from the host
    NetPackets      \* CM packets that may arrive from the network

\* 0 stands for "no id", "no QPN" and 0.0.0.0, as in the code.
Id0(S) == S \cup {0}

\* enum of flow_state.  MRA_* and TIMEWAIT are declared and tested, never set.
FLOW_STATES ==
    {"IDLE", "REQ_SENT", "REQ_RCVD", "MRA_REQ_RCVD", "MRA_REQ_SENT",
     "MRA_REP_SENT", "MRA_REP_RCVD", "REP_SENT", "REP_RCVD", "ESTABLISHED",
     "DREQ_SENT", "DREQ_RCVD", "TIMEWAIT"}

\* cm_flow_key: <<address, communication id>> of the remote side.
CmFlowKey == Id0(PeerAddr) \X Id0(PeerId)
NoKey == <<0, 0>>
IsKey(k) == k[1] # 0 /\ k[2] # 0

\* flow_key: <<destination address, destination QPN>>.
FlowKey == Id0(PeerAddr) \X Id0(Qpn)

FlowState ==
    [state: FLOW_STATES, local_id: Id0(HostId), remote_id: CmFlowKey,
     local_qpn: Id0(Qpn), remote_qpn: Id0(Qpn), in_qpn_map: BOOLEAN]

\* Mutant: no initialiser for the state.
flow_state_uninitialised ==
    [state |-> "garbage", local_id |-> 0, remote_id |-> NoKey,
     local_qpn |-> 0, remote_qpn |-> 0, in_qpn_map |-> FALSE]

\* flow_state's member initialisers.
NewFlowState ==
    [state |-> "IDLE", local_id |-> 0, remote_id |-> NoKey,
     local_qpn |-> 0, remote_qpn |-> 0, in_qpn_map |-> FALSE]

\* Mutant: the key is the QPN alone, as if the peers shared one number space.
get_flow_key_no_address(s) == <<CHOOSE a \in PeerAddr : TRUE, s.remote_qpn>>

get_flow_key(s) == <<s.remote_id[1], s.remote_qpn>>

\* CM attributes with a handler, and the ones without: MRA stands for those
\* whose slot in the handler vectors is empty, BEYOND for ids >= CM_MAX_ATTR_ID.
Handled == {"REQ", "REJ", "REP", "RTU", "DREQ", "DREP"}
Attr == Handled \cup {"MRA", "BEYOND"}

\* What a handler reads of a packet: attribute, addresses, the sender's and
\* the receiver's communication id, the sender's QPN.
Packet(src, dst, sender, receiver) ==
    [attr: Attr, saddr: src, daddr: dst, local_comm_id: Id0(sender),
     remote_comm_id: Id0(receiver), local_qpn: Id0(Qpn)]

AnyHostPacket == Packet({HostAddr}, PeerAddr, HostId, PeerId)
AnyNetPacket == Packet(PeerAddr, {HostAddr}, PeerId, HostId)

ASSUME PacketsAssumption ==
    /\ HostPackets \subseteq AnyHostPacket
    /\ NetPackets \subseteq AnyNetPacket

ASSUME MarkersAssumption ==
    /\ NULL \notin Ptr
    /\ Absent \notin Id0(Qpn)
    /\ 0 \notin HostId \cup PeerId \cup PeerAddr \cup Qpn

VARIABLES flow, local_map, remote_map, qpn_map, abort

vars == <<flow, local_map, remote_map, qpn_map, abort>>

\* The tracker's data as one value, for the operators below.
Tracker == [flow |-> flow, local_map |-> local_map,
            remote_map |-> remote_map, qpn_map |-> qpn_map]

TrackerType ==
    [flow: [Ptr -> FlowState],
     local_map: [Id0(HostId) -> Ptr \cup {NULL}],
     remote_map: [CmFlowKey -> Ptr \cup {NULL}],
     qpn_map: [FlowKey -> Id0(Qpn) \cup {Absent}]]

-----------------------------------------------------------------------------
(* Object lifetime *)

\* Flows some map still holds a shared_ptr to.
Live(t) == {f \in Ptr : \/ \E l \in Id0(HostId) : t.local_map[l] = f
                        \/ \E k \in CmFlowKey : t.remote_map[k] = f}

\* The last shared_ptr is gone when the handler returns: the object is freed.
Release(t) ==
    [t EXCEPT !.flow = [f \in Ptr |-> IF f \in Live(t) THEN t.flow[f]
                                                       ELSE NewFlowState]]

-----------------------------------------------------------------------------
(* The flow maps *)

\* The flow add_new_flow settles on: an indexed one, or the one it allocates.
target(t, l, r, new) ==
    IF t.local_map[l] # NULL THEN t.local_map[l]
    ELSE IF t.remote_map[r] # NULL THEN t.remote_map[r] ELSE new

\* Mutant: the id is entered into local_map and not into the flow.
add_new_flow_no_local_id(t, l, r, new) ==
    LET f == target(t, l, r, new)
        s == IF t.local_map[l] = NULL /\ t.remote_map[r] = NULL
             THEN NewFlowState ELSE t.flow[f]
        addRemote == t.remote_map[r] = NULL /\ IsKey(r)
    IN  [t EXCEPT
           !.flow[f] = [s EXCEPT !.remote_id = IF addRemote THEN r ELSE @],
           !.local_map[l] = IF @ = NULL /\ l # 0 THEN f ELSE @,
           !.remote_map[r] = IF addRemote THEN f ELSE @]

add_new_flow(t, l, r, new) ==
    LET f == target(t, l, r, new)
        s == IF t.local_map[l] = NULL /\ t.remote_map[r] = NULL
             THEN NewFlowState ELSE t.flow[f]
        addLocal == t.local_map[l] = NULL /\ l # 0
        addRemote == t.remote_map[r] = NULL /\ IsKey(r)
    IN  [t EXCEPT
           !.flow[f] = [s EXCEPT !.local_id = IF addLocal THEN l ELSE @,
                                 !.remote_id = IF addRemote THEN r ELSE @],
           !.local_map[l] = IF addLocal THEN f ELSE @,
           !.remote_map[r] = IF addRemote THEN f ELSE @]

\* The asserts of add_new_flow all hold.
add_new_flow_ok(t, l, r) ==
    LET lf == t.local_map[l]
        rf == t.remote_map[r]
    IN  /\ (lf # NULL /\ rf # NULL) =>
              /\ lf = rf
              /\ t.flow[lf].local_id = l
              /\ t.flow[lf].remote_id = r
        /\ (lf = NULL /\ rf = NULL) => (l # 0 \/ IsKey(r))
        /\ (lf = NULL /\ rf # NULL /\ l # 0) => t.flow[rf].local_id = 0
        /\ (rf = NULL /\ lf # NULL /\ IsKey(r)) =>
              ~IsKey(t.flow[lf].remote_id)

\* The local id decides which map is searched.
lookup(t, l, r) == IF l # 0 THEN t.local_map[l] ELSE t.remote_map[r]

get_flow(t, l, r, new) ==
    IF lookup(t, l, r) = NULL THEN add_new_flow(t, l, r, new) ELSE t

\* The assert that get_flow(l, r) fails, or "none".
get_flow_abort(t, l, r) ==
    IF l = 0 /\ ~IsKey(r) THEN "get_flow"
    ELSE IF lookup(t, l, r) = NULL /\ ~add_new_flow_ok(t, l, r)
         THEN "add_new_flow" ELSE "none"

-----------------------------------------------------------------------------
(* The QPN table *)

\* Mutant: qpn_map[key] = value, which replaces an entry, for insert.
on_established_overwrites(t, f) ==
    LET s == t.flow[f]
    IN  IF s.local_qpn = 0 \/ s.remote_qpn = 0 THEN t
        ELSE [t EXCEPT !.qpn_map[get_flow_key(s)] = s.local_qpn,
                       !.flow[f].in_qpn_map = TRUE]

on_established(t, f) ==
    LET s == t.flow[f]
        k == get_flow_key(s)
    IN  IF s.local_qpn = 0 \/ s.remote_qpn = 0 \/ t.qpn_map[k] # Absent
        THEN t
        ELSE [t EXCEPT !.qpn_map[k] = s.local_qpn,
                       !.flow[f].in_qpn_map = TRUE]

on_disconnected(t, f) ==
    LET s == t.flow[f]
        k == get_flow_key(s)
    IN  IF s.local_qpn = 0 \/ s.remote_qpn = 0 \/ t.qpn_map[k] = Absent
        THEN t
        ELSE [t EXCEPT !.qpn_map[k] = Absent,
                       !.flow[f].in_qpn_map = FALSE]

\* Mutant: the flow's entry stays in qpn_map.
erase_flow_keeps_entry(t, l, r) ==
    IF lookup(t, l, r) = NULL THEN t
    ELSE [t EXCEPT !.local_map[l] = NULL, !.remote_map[r] = NULL]

\* Mutant: only the map the flow was found in is erased from.
erase_flow_one_map(t, l, r) ==
    LET f == lookup(t, l, r)
        d == IF t.flow[f].in_qpn_map THEN on_disconnected(t, f) ELSE t
    IN  IF f = NULL THEN t
        ELSE IF l # 0 THEN [d EXCEPT !.local_map[l] = NULL]
        ELSE [d EXCEPT !.remote_map[r] = NULL]

\* Looks the flow up in one map only; erases the message's ids from both.
\* Its assert repeats the one get_flow has already passed in every caller.
erase_flow(t, l, r) ==
    LET f == lookup(t, l, r)
        d == IF t.flow[f].in_qpn_map THEN on_disconnected(t, f) ELSE t
    IN  IF f = NULL THEN t
        ELSE [d EXCEPT !.local_map[l] = NULL, !.remote_map[r] = NULL]

\* ctcm_query_ipv4: the host QPN of the flow to k, 0 if there is none.
get_source_qpn(t, k) == IF t.qpn_map[k] = Absent THEN 0 ELSE t.qpn_map[k]

-----------------------------------------------------------------------------
(* Handlers: the tracker after the handler ran on packet p *)

from_dest(p, id) == <<p.daddr, id>>
\* Mutant: peers are told apart by their ids alone.
from_src_no_address(p, id) == <<CHOOSE a \in PeerAddr : TRUE, id>>
from_src(p, id) == <<p.saddr, id>>

\* Assignments to the fields of the flow a handler works on.
SetState(t, f, st) == [t EXCEPT !.flow[f].state = st]
SetLocalQpn(t, f, q) == [t EXCEPT !.flow[f].local_qpn = q]
SetRemoteQpn_missing(t, f, q) == t    \* Mutant: the assignment is missing.
SetRemoteQpn(t, f, q) == [t EXCEPT !.flow[f].remote_qpn = q]

\* Mutant: the state is not tested.
req_sent_any_state(t, p, new) ==
    LET g == get_flow(t, p.local_comm_id, NoKey, new)
        f == lookup(g, p.local_comm_id, NoKey)
    IN  SetLocalQpn(SetState(g, f, "REQ_SENT"), f, p.local_qpn)

req_sent(t, p, new) ==
    LET g == get_flow(t, p.local_comm_id, NoKey, new)
        f == lookup(g, p.local_comm_id, NoKey)
    IN  IF g.flow[f].state \in {"IDLE", "REQ_SENT"}
        THEN SetLocalQpn(SetState(g, f, "REQ_SENT"), f, p.local_qpn)
        ELSE g

req_received(t, p, new) ==
    LET r == from_src(p, p.local_comm_id)
        g == get_flow(t, 0, r, new)
        f == lookup(g, 0, r)
    IN  IF g.flow[f].state \in {"REQ_RCVD", "IDLE"}
        THEN SetRemoteQpn(SetState(g, f, "REQ_RCVD"), f, p.local_qpn)
        ELSE g

rej_sent(t, p, new) ==
    LET l == p.local_comm_id
        r == from_dest(p, p.remote_comm_id)
        g == get_flow(t, l, r, new)
    IN  IF g.flow[lookup(g, l, r)].state \in
             {"IDLE", "REQ_RCVD", "REQ_SENT", "MRA_REQ_RCVD", "MRA_REQ_SENT",
              "REP_RCVD", "MRA_REP_SENT", "REP_SENT", "MRA_REP_RCVD"}
        THEN erase_flow(g, l, r)
        ELSE g

rej_received(t, p, new) ==
    LET l == p.remote_comm_id
        r == from_src(p, p.local_comm_id)
        g == get_flow(t, l, r, new)
    IN  IF g.flow[lookup(g, l, r)].state \in
             {"IDLE", "REQ_SENT", "MRA_REQ_RCVD", "REP_SENT", "MRA_REP_RCVD",
              "MRA_REQ_SENT", "DREQ_SENT", "REP_RCVD", "MRA_REP_SENT",
              "ESTABLISHED"}
        THEN erase_flow(g, l, r)
        ELSE g

rep_sent(t, p, new) ==
    LET l == p.local_comm_id
        r == from_dest(p, p.remote_comm_id)
        g == get_flow(t, l, r, new)
        f == lookup(g, l, r)
    IN  IF g.flow[f].state \in {"REQ_RCVD", "MRA_REQ_SENT"}
        THEN SetLocalQpn(add_new_flow(SetState(g, f, "REP_SENT"), l, r, new),
                         f, p.local_qpn)
        ELSE g

rep_received(t, p, new) ==
    LET l == p.remote_comm_id
        r == from_src(p, p.local_comm_id)
        g == get_flow(t, l, NoKey, new)
        f == lookup(g, l, NoKey)
    IN  IF g.flow[f].state \in {"REQ_SENT", "MRA_REQ_RCVD"}
        THEN add_new_flow(SetRemoteQpn(SetState(g, f, "REP_RCVD"), f, p.local_qpn),
                          l, r, new)
        ELSE g

rtu_sent(t, p, new) ==
    LET g == get_flow(t, p.local_comm_id, NoKey, new)
        f == lookup(g, p.local_comm_id, NoKey)
    IN  IF g.flow[f].state \in {"REP_RCVD", "MRA_REP_SENT"}
        THEN on_established(SetState(g, f, "ESTABLISHED"), f)
        ELSE g

rtu_received(t, p, new) ==
    LET g == get_flow(t, p.remote_comm_id, NoKey, new)
        f == lookup(g, p.remote_comm_id, NoKey)
    IN  IF g.flow[f].state \in {"REP_SENT", "MRA_REP_RCVD"}
        THEN on_established(SetState(g, f, "ESTABLISHED"), f)
        ELSE g

dreq_sent(t, p, new) ==
    LET g == get_flow(t, p.local_comm_id, NoKey, new)
        f == lookup(g, p.local_comm_id, NoKey)
    IN  IF g.flow[f].state \in {"IDLE", "ESTABLISHED", "DREQ_SENT", "DREQ_RCVD"}
        THEN SetState(g, f, "DREQ_SENT")
        ELSE g

dreq_received(t, p, new) ==
    LET g == get_flow(t, p.remote_comm_id, NoKey, new)
        f == lookup(g, p.remote_comm_id, NoKey)
    IN  IF g.flow[f].state \in {"REP_SENT", "DREQ_SENT", "ESTABLISHED",
                                "MRA_REP_RCVD", "TIMEWAIT", "DREQ_RCVD"}
        THEN SetState(g, f, "DREQ_RCVD")
        ELSE g

\* Mutant: the case label DREQ_RCVD is missing.
drep_sent_requested_only(t, p, new) ==
    LET l == p.local_comm_id
        g == get_flow(t, l, NoKey, new)
    IN  IF g.flow[lookup(g, l, NoKey)].state = "DREQ_SENT"
        THEN erase_flow(g, l, from_dest(p, p.remote_comm_id))
        ELSE g

drep_sent(t, p, new) ==
    LET l == p.local_comm_id
        g == get_flow(t, l, NoKey, new)
    IN  IF g.flow[lookup(g, l, NoKey)].state \in {"DREQ_SENT", "DREQ_RCVD"}
        THEN erase_flow(g, l, from_dest(p, p.remote_comm_id))
        ELSE g

drep_received(t, p, new) ==
    LET l == p.remote_comm_id
        g == get_flow(t, l, NoKey, new)
    IN  IF g.flow[lookup(g, l, NoKey)].state \in {"DREQ_SENT", "DREQ_RCVD"}
        THEN erase_flow(g, l, from_src(p, p.local_comm_id))
        ELSE g

-----------------------------------------------------------------------------
(* Asserts: the first one the handler fails on packet p, or "none" *)

\* The other handlers only fail in get_flow.
req_received_abort(t, p, new) ==
    LET r == from_src(p, p.local_comm_id)
        g == get_flow(t, 0, r, new)
        s == g.flow[lookup(g, 0, r)]
    IN  IF get_flow_abort(t, 0, r) # "none" THEN get_flow_abort(t, 0, r)
        ELSE IF s.state = "REQ_RCVD" /\ s.remote_qpn # p.local_qpn
             THEN "req_received" ELSE "none"

rej_sent_abort(t, p) ==
    get_flow_abort(t, p.local_comm_id, from_dest(p, p.remote_comm_id))

rej_received_abort(t, p) ==
    get_flow_abort(t, p.remote_comm_id, from_src(p, p.local_comm_id))

rep_sent_abort(t, p, new) ==
    LET l == p.local_comm_id
        r == from_dest(p, p.remote_comm_id)
        g == get_flow(t, l, r, new)
    IN  IF get_flow_abort(t, l, r) # "none" THEN get_flow_abort(t, l, r)
        ELSE IF /\ g.flow[lookup(g, l, r)].state \in {"REQ_RCVD", "MRA_REQ_SENT"}
                /\ ~add_new_flow_ok(g, l, r)
             THEN "add_new_flow" ELSE "none"

rep_received_abort(t, p, new) ==
    LET l == p.remote_comm_id
        r == from_src(p, p.local_comm_id)
        g == get_flow(t, l, NoKey, new)
    IN  IF get_flow_abort(t, l, NoKey) # "none" THEN get_flow_abort(t, l, NoKey)
        ELSE IF /\ g.flow[lookup(g, l, NoKey)].state \in
                     {"REQ_SENT", "MRA_REQ_RCVD"}
                /\ ~add_new_flow_ok(g, l, r)
             THEN "add_new_flow" ELSE "none"

-----------------------------------------------------------------------------
(* The handler vectors: an attribute without an entry is logged and dropped *)

host_handlers(t, p, new) ==
    CASE p.attr = "REQ" -> req_sent(t, p, new)
      [] p.attr = "REJ" -> rej_sent(t, p, new)
      [] p.attr = "REP" -> rep_sent(t, p, new)
      [] p.attr = "RTU" -> rtu_sent(t, p, new)
      [] p.attr = "DREQ" -> dreq_sent(t, p, new)
      [] p.attr = "DREP" -> drep_sent(t, p, new)
      [] OTHER -> t

net_handlers(t, p, new) ==
    CASE p.attr = "REQ" -> req_received(t, p, new)
      [] p.attr = "REJ" -> rej_received(t, p, new)
      [] p.attr = "REP" -> rep_received(t, p, new)
      [] p.attr = "RTU" -> rtu_received(t, p, new)
      [] p.attr = "DREQ" -> dreq_received(t, p, new)
      [] p.attr = "DREP" -> drep_received(t, p, new)
      [] OTHER -> t

host_abort(t, p, new) ==
    CASE p.attr = "REJ" -> rej_sent_abort(t, p)
      [] p.attr = "REP" -> rep_sent_abort(t, p, new)
      [] p.attr \in {"REQ", "RTU", "DREQ", "DREP"} ->
           get_flow_abort(t, p.local_comm_id, NoKey)
      [] OTHER -> "none"

net_abort(t, p, new) ==
    CASE p.attr = "REQ" -> req_received_abort(t, p, new)
      [] p.attr = "REJ" -> rej_received_abort(t, p)
      [] p.attr = "REP" -> rep_received_abort(t, p, new)
      [] p.attr \in {"RTU", "DREQ", "DREP"} ->
           get_flow_abort(t, p.remote_comm_id, NoKey)
      [] OTHER -> "none"

-----------------------------------------------------------------------------
(* The state machine *)

Init ==
    /\ flow = [f \in Ptr |-> NewFlowState]
    /\ local_map = [l \in Id0(HostId) |-> NULL]
    /\ remote_map = [k \in CmFlowKey |-> NULL]
    /\ qpn_map = [k \in FlowKey |-> Absent]
    /\ abort = "none"

\* Addresses make_shared<flow_state> may return.
Free(t) == Ptr \ Live(t)

\* The handler fails the assert a, or returns with the tracker t.
Finish(a, t) ==
    /\ abort' = a
    /\ IF a = "none"
       THEN /\ flow' = Release(t).flow
            /\ local_map' = t.local_map
            /\ remote_map' = t.remote_map
            /\ qpn_map' = t.qpn_map
       ELSE UNCHANGED <<flow, local_map, remote_map, qpn_map>>

\* process: a packet with an attribute of A comes from the host or the network.
FromHost(A) ==
    \E p \in HostPackets, new \in Free(Tracker) :
       /\ p.attr \in A
       /\ Finish(host_abort(Tracker, p, new), host_handlers(Tracker, p, new))

FromNet(A) ==
    \E p \in NetPackets, new \in Free(Tracker) :
       /\ p.attr \in A
       /\ Finish(net_abort(Tracker, p, new), net_handlers(Tracker, p, new))

ReqSent == FromHost({"REQ"})
RejSent == FromHost({"REJ"})
RepSent == FromHost({"REP"})
RtuSent == FromHost({"RTU"})
DreqSent == FromHost({"DREQ"})
DrepSent == FromHost({"DREP"})
UnknownSent == FromHost({"MRA", "BEYOND"})

ReqReceived == FromNet({"REQ"})
RejReceived == FromNet({"REJ"})
RepReceived == FromNet({"REP"})
RtuReceived == FromNet({"RTU"})
DreqReceived == FromNet({"DREQ"})
DrepReceived == FromNet({"DREP"})
UnknownReceived == FromNet({"MRA", "BEYOND"})

\* One packet at a time, as long as the process lives.
Next ==
    /\ abort = "none"
    /\ \/ ReqSent \/ RejSent \/ RepSent \/ RtuSent \/ DreqSent \/ DrepSent
       \/ UnknownSent
       \/ ReqReceived \/ RejReceived \/ RepReceived \/ RtuReceived
       \/ DreqReceived \/ DrepReceived \/ UnknownReceived

Spec == Init /\ [][Next]_vars

-----------------------------------------------------------------------------
(* Properties *)

TypeOK ==
    /\ Tracker \in TrackerType
    /\ abort \in {"none", "get_flow", "add_new_flow", "req_received"}

\* A map entry leads to a flow with that very id.
Indexed(t) ==
    /\ \A l \in Id0(HostId) : t.local_map[l] # NULL =>
          l # 0 /\ t.flow[t.local_map[l]].local_id = l
    /\ \A k \in CmFlowKey : t.remote_map[k] # NULL =>
          IsKey(k) /\ t.flow[t.remote_map[k]].remote_id = k

\* The flow f is what qpn_map answers from for the key k.
Answers(t, f, k) ==
    /\ t.flow[f].in_qpn_map
    /\ get_flow_key(t.flow[f]) = k
    /\ t.flow[f].local_qpn = t.qpn_map[k]
    /\ t.flow[f].local_qpn # 0 /\ t.flow[f].remote_qpn # 0
    /\ t.flow[f].state \in {"ESTABLISHED", "DREQ_SENT", "DREQ_RCVD"}
    /\ t.local_map[t.flow[f].local_id] = f

\* qpn_map and the flows marked in_qpn_map correspond one to one.
Exact(t) ==
    /\ \A k \in FlowKey : t.qpn_map[k] # Absent => \E f \in Ptr : Answers(t, f, k)
    /\ \A f \in Ptr : t.flow[f].in_qpn_map => Answers(t, f, get_flow_key(t.flow[f]))
    /\ \A f, g \in Ptr :
          /\ t.flow[f].in_qpn_map /\ t.flow[g].in_qpn_map
          /\ get_flow_key(t.flow[f]) = get_flow_key(t.flow[g])
          => f = g

\* The two maps hold a flow only under the flow's own ids, and never under a
\* null id, although erase_flow removes the ids of the message and not those
\* of the flow.
IndexConsistent == Indexed(Tracker)

\* Every entry of the query table belongs to exactly one flow, one that is
\* connected, still reachable by its local id, and has the entry's QPNs; and a
\* flow marked in_qpn_map has its entry.  No erase leaks an entry, frees the
\* flow under it, or removes another flow's entry; on_disconnected never
\* takes its "QP was not in table" or "Bad QPNs" exit.
QpnMapExact == Exact(Tracker)

\* The flows in the query table, as the connections of ConnTable.
Conns(t) ==
    {[owner |-> t.flow[f].local_id, key |-> get_flow_key(t.flow[f]),
      qpn |-> t.flow[f].local_qpn] : f \in {g \in Ptr : t.flow[g].in_qpn_map}}

Table == INSTANCE ConnTable
         WITH conns <- Conns(Tracker), Owner <- HostId, Key <- FlowKey, HostQpn <- Qpn

\* The tracker implements the abstract query service: whatever packets come,
\* connections enter and leave the table one at a time and whole, the first
\* one keeps the key, and no handler changes a connection in the table.
ImplementsConnTable == Table!Spec

\* ctcm_query_ipv4 returns what the abstract service returns for the key.
QueryServed == \A k \in FlowKey : Table!Query(k, get_source_qpn(Tracker, k))

\* How far a flow is in its life.
Phase(st) ==
    CASE st = "IDLE" -> 0
      [] st \in {"REQ_SENT", "REQ_RCVD"} -> 1
      [] st \in {"REP_SENT", "REP_RCVD"} -> 2
      [] st = "ESTABLISHED" -> 3
      [] st \in {"DREQ_SENT", "DREQ_RCVD"} -> 4

\* Retransmitted and late packets never take a tracked flow back to an earlier
\* phase, and never make the active side of a handshake the passive one.
PhaseNeverRegresses ==
    [][\A f \in Live(Tracker) \cap Live(Tracker)' :
          LET old == flow[f].state
              cur == flow'[f].state
          IN  /\ Phase(old) <= Phase(cur)
              /\ old \in {"REQ_SENT", "REP_RCVD"} => cur \notin {"REQ_RCVD", "REP_SENT"}
              /\ old \in {"REQ_RCVD", "REP_SENT"} => cur \notin {"REQ_SENT", "REP_RCVD"}
      ]_vars

\* An answer of the query table is never replaced by another one in place: it
\* is withdrawn first, and only by a packet that takes the flow it came from
\* out of a map (erase_flow), never by a handshake of another flow.
AnswerWithdrawnByEraseOnly ==
    [][\A k \in FlowKey : qpn_map[k] # Absent /\ qpn_map'[k] # qpn_map[k] =>
          /\ qpn_map'[k] = Absent
          /\ \E f \in Ptr :
                /\ Answers(Tracker, f, k)
                /\ \/ local_map'[flow[f].local_id] = NULL
                   \/ remote_map[flow[f].remote_id] = f /\ remote_map'[flow[f].remote_id] = NULL
      ]_vars

\* While a flow is in the query table its ids and QPNs do not change, so that
\* on_disconnected later computes the key on_established inserted.
MappedFlowFrozen ==
    [][\A f \in Ptr : flow[f].in_qpn_map /\ flow'[f].in_qpn_map =>
          \A x \in {"local_id", "remote_id", "local_qpn", "remote_qpn"} :
             flow'[f][x] = flow[f][x]
      ]_vars

\* REQs and REPs carry a QPN, as the protocol requires of them.
QpnsPresent ==
    \A p \in HostPackets \cup NetPackets :
       p.attr \in {"REQ", "REP"} => p.local_qpn # 0

\* As long as REQs and REPs carry non-zero QPNs, the step that establishes a
\* flow leaves an answer for its peer in the query table (ctcm_query_ipv4
\* returns a QPN): on_established never
\* takes its "Bad QPNs" exit, whatever was lost or repeated before.
EstablishedIsAnswered ==
    [][\A f \in Ptr :
          QpnsPresent /\ flow[f].state # "ESTABLISHED"
                      /\ flow'[f].state = "ESTABLISHED" =>
             get_source_qpn(Tracker, get_flow_key(flow[f]))' # 0
      ]_vars

\* p, handled again right after "once", changes neither the query table nor a
\* tracked flow; only a DREP leaves anything behind, a new flow.
Repeat(p, once, a, twice) ==
    /\ a = "none"
    /\ twice.qpn_map = once.qpn_map
    /\ \A f \in Live(once) : twice.flow[f] = once.flow[f]
    /\ p.attr # "DREP" => Release(twice) = once

\* A retransmitted packet is harmless: the second copy fails no assert and is
\* a no-op, although by then the flow has moved on or is erased.
RetransmissionHarmless ==
    \A new \in Free(Tracker) :
       /\ \A p \in HostPackets : host_abort(Tracker, p, new) = "none" =>
             LET once == Release(host_handlers(Tracker, p, new))
             IN  \A n \in Free(once) :
                    Repeat(p, once, host_abort(once, p, n), host_handlers(once, p, n))
       /\ \A p \in NetPackets : net_abort(Tracker, p, new) = "none" =>
             LET once == Release(net_handlers(Tracker, p, new))
             IN  \A n \in Free(once) :
                    Repeat(p, once, net_abort(once, p, n), net_handlers(once, p, n))
=============================================================================
