------------------------------ MODULE CmSystem ------------------------------
(***************************************************************************)
(* The tracker between CM endpoints that follow the protocol.              *)
(*                                                                         *)
(* A host and its peers set up and close connections with the CM messages  *)
(* the tracker understands.  The tracker sees every packet the host sends, *)
(* as it is sent, and every packet for the host just before it arrives.    *)
(* The network keeps what was sent: a packet may be delivered in any       *)
(* order, again, or never.  The host may also drop what the tracker has    *)
(* seen, an endpoint may lose patience, and the application may replace    *)
(* the library's context in the middle of it all.                          *)
(*                                                                         *)
(* The endpoints and the network are not code of the library; they are     *)
(* what its handlers are written for.  An endpoint uses a communication id *)
(* and a QPN again only if the id is in Reusable, and not before every     *)
(* packet with the id has left the network, which is what TIMEWAIT is for. *)
(***************************************************************************)
EXTENDS CmTracker

CONSTANTS
    HostQpn,        \* QPNs of the host
    PeerQpn,        \* QPNs of each peer
    Callers,        \* the nodes that connect; all of them accept
    Reusable,       \* ids that may be used for more than one connection
    MayFail         \* what may happen besides the exchange: "giveup", "drop", "restart"

ASSUME SystemAssumption ==
    /\ HostAddr \notin PeerAddr
    /\ HostQpn \cup PeerQpn \subseteq Qpn

\* An endpoint of a connection: <<address, communication id>>.
HostEnd == {HostAddr} \X HostId
PeerEnd == PeerAddr \X PeerId
Ends == HostEnd \cup PeerEnd
At(n) == {x \in Ends : x[1] = n}
Nodes == {HostAddr} \cup PeerAddr
QpnsOf(n) == IF n = HostAddr THEN HostQpn ELSE PeerQpn

\* CLOSED: the handshake failed.  ABANDONED: no answer to the DREQ came.
EndStates ==
    {"IDLE", "REQ_SENT", "REQ_RCVD", "REP_SENT", "REP_RCVD", "ESTABLISHED",
     "DREQ_SENT", "DREQ_RCVD", "TIMEWAIT", "CLOSED", "ABANDONED"}
Over == {"TIMEWAIT", "CLOSED", "ABANDONED"}

\* other: the far end, with id 0 as long as it is not known.
Endpoint ==
    [state: EndStates, other: Id0(Nodes) \X Id0(HostId \cup PeerId),
     qpn: Id0(Qpn), oqpn: Id0(Qpn)]
Unused == [state |-> "IDLE", other |-> <<0, 0>>, qpn |-> 0, oqpn |-> 0]

VARIABLES
    ends,           \* every endpoint's view of its connection
    net,            \* the packets that may still be delivered
    faults          \* what has gone wrong around the tracker so far

sysVars == <<flow, local_map, remote_map, qpn_map, abort, ends, net, faults>>

Msg(attr, x, y, q) ==
    [attr |-> attr, saddr |-> x[1], daddr |-> y[1], local_comm_id |-> x[2],
     remote_comm_id |-> y[2], local_qpn |-> q]

SysInit ==
    /\ Init
    /\ ends = [x \in Ends |-> Unused]
    /\ net = {}
    /\ faults = {}

-----------------------------------------------------------------------------
(* Packets and the tracker *)

TrackSent(p) ==
    \E new \in Free(Tracker) :
       Finish(host_abort(Tracker, p, new), host_handlers(Tracker, p, new))

TrackReceived(p) ==
    \E new \in Free(Tracker) :
       Finish(net_abort(Tracker, p, new), net_handlers(Tracker, p, new))

\* The endpoint x sends p and goes on as e.
Send(x, e, p) ==
    /\ ends' = [ends EXCEPT ![x] = e]
    /\ net' = net \cup {p}
    /\ IF p.saddr = HostAddr THEN TrackSent(p) ELSE UNCHANGED vars
    /\ UNCHANGED faults

To(x, st) == [ends[x] EXCEPT !.state = st]

FreeQpn(n) == QpnsOf(n) \ {ends[x].qpn : x \in At(n)}

-----------------------------------------------------------------------------
(* What an endpoint sends *)

Connect(x) ==
    /\ x[1] \in Callers /\ ends[x].state = "IDLE"
    /\ \E n \in IF x \in HostEnd THEN PeerAddr ELSE {HostAddr}, q \in FreeQpn(x[1]) :
         Send(x, [state |-> "REQ_SENT", other |-> <<n, 0>>, qpn |-> q, oqpn |-> 0],
              Msg("REQ", x, <<n, 0>>, q))

Accept(x) ==
    /\ ends[x].state = "REQ_RCVD"
    /\ \E q \in FreeQpn(x[1]) :
         Send(x, [To(x, "REP_SENT") EXCEPT !.qpn = q], Msg("REP", x, ends[x].other, q))

Confirm(x) ==
    /\ ends[x].state = "REP_RCVD"
    /\ Send(x, To(x, "ESTABLISHED"), Msg("RTU", x, ends[x].other, 0))

\* A handshake is refused, or times out.
Reject(x) ==
    /\ ends[x].state \in {"REQ_RCVD", "REP_RCVD"}
    /\ Send(x, To(x, "CLOSED"), Msg("REJ", x, ends[x].other, 0))

Disconnect(x) ==
    /\ ends[x].state = "ESTABLISHED"
    /\ Send(x, To(x, "DREQ_SENT"), Msg("DREQ", x, ends[x].other, 0))

AnswerDreq(x) ==
    /\ ends[x].state = "DREQ_RCVD"
    /\ Send(x, To(x, "TIMEWAIT"), Msg("DREP", x, ends[x].other, 0))

\* After a timeout, or because the packet it answers came again, the host
\* repeats the last packet.  (A peer's repetition is a second delivery.)
Retransmit ==
    \E p \in net, h \in HostId :
       LET x == <<HostAddr, h>>
       IN  /\ p.saddr = HostAddr /\ p.local_comm_id = h
           /\ <<ends[x].state, p.attr>> \in
                {<<"REQ_SENT", "REQ">>, <<"REP_SENT", "REP">>, <<"ESTABLISHED", "RTU">>,
                 <<"DREQ_SENT", "DREQ">>, <<"TIMEWAIT", "DREP">>}
           /\ TrackSent(p)
           /\ UNCHANGED <<ends, net, faults>>

\* The other side does not answer.
GiveUp(x) ==
    /\ "giveup" \in MayFail
    /\ \/ /\ ends[x].state \in {"REQ_SENT", "REP_SENT"}
          /\ Send(x, To(x, "CLOSED"), Msg("REJ", x, ends[x].other, 0))
       \/ /\ ends[x].state = "DREQ_SENT"
          /\ ends' = [ends EXCEPT ![x] = To(x, "ABANDONED")]
          /\ UNCHANGED <<flow, local_map, remote_map, qpn_map, abort, net, faults>>

-----------------------------------------------------------------------------
(* What an endpoint does with a packet *)

\* The endpoint of node n that p is for.  A REJ may come from a sender that
\* does not know the id of the other side yet.
IsFor(p, x) ==
    /\ x[1] = p.daddr
    /\ ends[x].state # "IDLE"
    /\ \/ p.remote_comm_id = x[2]
       \/ p.remote_comm_id = 0 /\ ends[x].other = <<p.saddr, p.local_comm_id>>

\* The endpoint x after p; states not listed ignore the packet.
After(x, p) ==
    LET e == ends[x]
        st == e.state
    IN  CASE p.attr = "REP" /\ st = "REQ_SENT" ->
               [e EXCEPT !.state = "REP_RCVD", !.oqpn = p.local_qpn,
                         !.other = <<p.saddr, p.local_comm_id>>]
          [] p.attr = "RTU" /\ st = "REP_SENT" -> To(x, "ESTABLISHED")
          [] p.attr = "DREQ" /\ st \in {"REP_SENT", "ESTABLISHED", "DREQ_SENT"} ->
               To(x, "DREQ_RCVD")
          [] p.attr = "DREP" /\ st \in {"DREQ_SENT", "DREQ_RCVD"} -> To(x, "TIMEWAIT")
          [] p.attr = "REJ" /\ st \in {"REQ_SENT", "REQ_RCVD", "REP_SENT", "REP_RCVD"} ->
               To(x, "CLOSED")
          [] p.attr = "REJ" /\ st \in {"ESTABLISHED", "DREQ_SENT"} -> To(x, "TIMEWAIT")
          [] OTHER -> e

\* An endpoint has taken the request p: it is a repetition.
Known(p) == \E x \in At(p.daddr) :
    ends[x].state # "IDLE" /\ ends[x].other = <<p.saddr, p.local_comm_id>>

\* A new request takes an unused id; everything else goes to its endpoint.  A
\* repeated request, and a packet nobody waits for, is ignored.
Handle(p) ==
    \/ /\ p.attr = "REQ" /\ ~Known(p)
       /\ \E x \in At(p.daddr) :
            /\ ends[x].state = "IDLE"
            /\ ends' = [ends EXCEPT ![x] =
                  [state |-> "REQ_RCVD", other |-> <<p.saddr, p.local_comm_id>>,
                   qpn |-> 0, oqpn |-> p.local_qpn]]
    \/ /\ p.attr # "REQ"
       /\ \E x \in Ends : IsFor(p, x) /\ ends' = [ends EXCEPT ![x] = After(x, p)]
    \/ /\ IF p.attr = "REQ" THEN Known(p) ELSE \A x \in Ends : ~IsFor(p, x)
       /\ UNCHANGED ends

\* A packet passes the tracker and reaches the host.
ToHost(p) ==
    /\ p.daddr = HostAddr
    /\ TrackReceived(p)
    /\ Handle(p)
    /\ UNCHANGED <<net, faults>>

\* A packet passes the tracker and is lost on its way to the host.
DropAtHost(p) ==
    /\ "drop" \in MayFail
    /\ p.daddr = HostAddr
    /\ TrackReceived(p)
    /\ faults' = faults \cup {"drop"}
    /\ UNCHANGED <<ends, net>>

ToPeer(p) ==
    /\ p.daddr \in PeerAddr
    /\ Handle(p)
    /\ UNCHANGED <<flow, local_map, remote_map, qpn_map, abort, net, faults>>

\* Both sides are done with the old connection of x and nothing of it is under
\* way any more: x, and its QPN, may be used again.
Recycle(x) ==
    /\ x[2] \in Reusable
    /\ ends[x].state \in Over
    /\ \A y \in Ends : ends[y].other = x => ends[y].state \in Over
    /\ ends' = [ends EXCEPT ![x] = Unused]
    /\ net' = {p \in net : <<p.saddr, p.local_comm_id>> # x /\ <<p.daddr, p.remote_comm_id>> # x}
    /\ UNCHANGED <<flow, local_map, remote_map, qpn_map, abort, faults>>

\* ctcm_destroy and ctcm_create: an empty tracker, once.
Restart ==
    /\ "restart" \in MayFail \ faults
    /\ faults' = faults \cup {"restart"}
    /\ flow' = [f \in Ptr |-> NewFlowState]
    /\ local_map' = [l \in Id0(HostId) |-> NULL]
    /\ remote_map' = [k \in CmFlowKey |-> NULL]
    /\ qpn_map' = [k \in FlowKey |-> Absent]
    /\ UNCHANGED <<abort, ends, net>>

Deliver == \E p \in net : ToHost(p) \/ DropAtHost(p) \/ ToPeer(p)

Endpoints ==
    \/ \E x \in Ends : \/ Connect(x) \/ Accept(x) \/ Confirm(x) \/ Reject(x)
                       \/ Disconnect(x) \/ AnswerDreq(x)
    \/ Retransmit

SysNext ==
    /\ abort = "none"
    /\ \/ Endpoints \/ Deliver \/ Restart
       \/ \E x \in Ends : GiveUp(x) \/ Recycle(x)

SysSpec == SysInit /\ [][SysNext]_sysVars

\* An endpoint answers what it has to answer, and a packet that is repeated
\* until it is answered arrives at last.  Nobody has to connect, to disconnect
\* or to reject.
ArriveAt(n, attr) ==
    \E p \in net : p.daddr = n /\ p.attr = attr /\ (ToHost(p) \/ ToPeer(p))
Fairness ==
    /\ \A x \in Ends : WF_sysVars(abort = "none" /\ AnswerDreq(x))
    /\ \A n \in Nodes : \A attr \in {"DREQ", "DREP", "REJ", "RTU"} :
          WF_sysVars(abort = "none" /\ ArriveAt(n, attr))

LiveSpec == SysSpec /\ Fairness

-----------------------------------------------------------------------------
(* Properties *)

\* The tracker and the endpoints are well typed, and every packet on the network
\* is one the handlers are written for.
SysTypeOK ==
    /\ TypeOK
    /\ ends \in [Ends -> Endpoint]
    /\ net \subseteq AnyHostPacket \cup AnyNetPacket
    /\ faults \subseteq {"drop", "restart"}

\* What ctcm_query_ipv4 returns for the flow of the host endpoint x.
Answer(x) == get_source_qpn(Tracker, <<ends[x].other[1], ends[x].oqpn>>)

\* Both sides hold the connection of the host endpoint x.
Open(x) ==
    LET y == ends[x].other
    IN  /\ ends[x].state = "ESTABLISHED"
        /\ y \in Ends /\ ends[y].state = "ESTABLISHED" /\ ends[y].other = x

\* No assert of get_flow, add_new_flow or req_received fails on the packets of
\* endpoints that follow the protocol.
NoAssertFails == abort = "none"

\* ctcm_query_ipv4 answers every open connection with its own host QPN: no
\* order, repetition or loss of packets makes a handler miss the step to
\* ESTABLISHED, erase the flow of a connection that is up, or find the key
\* taken in on_established.  Not asserted once the tracker was replaced or has
\* seen a packet the host has not.
Answered ==
    \A x \in HostEnd :
       faults = {} /\ Open(x) => Answer(x) = ends[x].qpn

\* ctcm_query_ipv4 never answers an open connection with the QPN of another
\* one, even after the context was replaced in the middle of handshakes.
NeverWrong ==
    \A x \in HostEnd : Open(x) => Answer(x) \in {0, ends[x].qpn}

\* erase_flow has withdrawn the answer of a connection by the time the host
\* has closed it (a DREP was sent or came in, or a REJ came in).
ClosedWithdrawn ==
    \A x \in HostEnd : ends[x].state = "TIMEWAIT" => Answer(x) # ends[x].qpn

\* One of the two sides has asked to close the connection of x.
Closing(x) ==
    \/ ends[x].state = "DREQ_SENT"
    \/ \E y \in PeerEnd : ends[y].state = "DREQ_SENT" /\ ends[y].other = x

\* Once either side has sent a DREQ, the answer for the connection is withdrawn
\* for good, with DREQs that cross, repeated packets, a replaced context and
\* packets the host drops: dreq_*, drep_* and erase_flow never leave an entry
\* that no packet removes, and no late packet brings it back.
EventuallyWithdrawn ==
    \A x \in HostEnd : Closing(x) ~> [](Answer(x) = 0)

=============================================================================
