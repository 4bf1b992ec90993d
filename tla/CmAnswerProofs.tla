--------------------------- MODULE CmAnswerProofs ---------------------------
(***************************************************************************)
(* The query table never lies, for any number of peers, ids, QPNs and      *)
(* connections, as long as no endpoint uses an id twice (Reusable = {}).   *)
(* Two things are shown side by side: what the endpoints believe of each   *)
(* other fits together (Pairing), and what a flow has recorded is what the *)
(* endpoints it names have chosen (Truthful), even a flow that a replaced  *)
(* context has pieced together from late packets.                          *)
(***************************************************************************)
EXTENDS CmSystemProofs

PairInv ==
    /\ Pairing(ends, Requesters(net))
    /\ \A p \in net : PacketFits(ends, Requesters(net), p)

-----------------------------------------------------------------------------
(* What endpoints do *)

\* What an endpoint has chosen or learned, it keeps.
Grows(E, E2) ==
    \A z \in Ends : /\ E[z].qpn # 0 => E2[z].qpn = E[z].qpn
                    /\ Full(E[z].other) => E2[z].other = E[z].other

\* The endpoints go on from E to E2, and with them the requesters.
GoesOn(E, R, E2, R2) ==
    /\ Pairing(E2, R2)
    /\ Grows(E, E2)
    /\ \A p : PacketFits(E, R, p) => PacketFits(E2, R2, p)

\* Only the state of x changes, and it does not begin anew.
LEMMA StateStep ==
    ASSUME NEW E, NEW R, Pairing(E, R), NEW x \in Ends, NEW st \in EndStates,
           E[x].state # "IDLE", st \notin {"IDLE", "REQ_SENT", "REQ_RCVD"},
           st # "CLOSED" => E[x].state \notin {"REQ_SENT", "REQ_RCVD", "CLOSED"},
           st \in Mutual => E[x].other \in Ends /\ E[E[x].other].other = x
    PROVE  GoesOn(E, R, [E EXCEPT ![x].state = st], R)
<1>. DEFINE E2 == [E EXCEPT ![x].state = st]
<1>1. E2 \in [Ends -> Endpoint] /\ E \in [Ends -> Endpoint]
  BY Zenon DEF Pairing, Endpoint
<1>2. /\ \A z \in Ends : /\ E2[z].other = E[z].other
                         /\ E2[z].qpn = E[z].qpn /\ E2[z].oqpn = E[z].oqpn
      /\ \A z \in Ends : z # x => E2[z] = E[z]
      /\ E2[x].state = st
  BY <1>1 DEF Endpoint
<1>. SUFFICES GoesOn(E, R, E2, R)
  OBVIOUS
<1>. HIDE DEF E2
<1>3. ASSUME NEW z \in Ends PROVE EndFits(E2, R, z)
  <2>1. EndFits(E, R, z)
    BY Zenon DEF Pairing
  <2>2. CASE z # x
    BY ZenonT(30), <1>2, <2>1, <2>2 DEF EndFits
  <2>3. CASE z = x
    BY <1>2, <2>1, <2>3 DEF EndFits, Mutual
  <2>. QED
    BY <2>2, <2>3
<1>4. Unique(E2, R)
  <2>1. \A z \in Ends : E2[z].state # "IDLE" => E[z].state # "IDLE"
    BY <1>2
  <2>. QED
    BY <1>2, <2>1 DEF Pairing, Unique
<1>5. ASSUME NEW p, PacketFits(E, R, p) PROVE PacketFits(E2, R, p)
  BY <1>2, <1>5 DEF PacketFits
<1>. QED
  BY <1>1, <1>2, <1>3, <1>4, <1>5 DEF GoesOn, Pairing, Grows

\* Connect: x chooses a QPN that its node does not use.
LEMMA ConnectStep ==
    ASSUME NEW E, NEW R, Pairing(E, R), NEW x \in Ends, E[x].state = "IDLE",
           NEW n, NEW q, q # 0, \A w \in Ends : w[1] = x[1] => E[w].qpn # q,
           NEW e \in Endpoint,
           e = [state |-> "REQ_SENT", other |-> <<n, 0>>, qpn |-> q, oqpn |-> 0]
    PROVE  GoesOn(E, R, [E EXCEPT ![x] = e], R \cup {x})
<1>. DEFINE E2 == [E EXCEPT ![x] = e]
            R2 == R \cup {x}
<1>1. E2 \in [Ends -> Endpoint] /\ E \in [Ends -> Endpoint]
  BY DEF Pairing
<1>2. (\A z \in Ends : z # x => E2[z] = E[z]) /\ E2[x] = e
  BY <1>1
<1>. SUFFICES GoesOn(E, R, E2, R2)
  OBVIOUS
<1>3. \A z \in Ends : E[z].other # x
  BY IdleUnheard
<1>4. E[x] = Unused
  BY DEF Pairing, EndFits
<1>5. \A z : z \in R2 <=> z \in R \/ z = x
  OBVIOUS
<1>. HIDE DEF E2, R2
<1>6. ASSUME NEW z \in Ends PROVE EndFits(E2, R2, z)
  <2>1. EndFits(E, R, z) /\ E[z].other # x
    BY Zenon, <1>3 DEF Pairing
  <2>2. CASE z # x
    BY <1>2, <1>5, <2>1, <2>2 DEF EndFits
  <2>3. CASE z = x
    BY <1>2, <1>5, <2>3 DEF EndFits, Full, Mutual
  <2>. QED
    BY <2>2, <2>3
<1>7. Unique(E2, R2)
  BY <1>2, <1>5 DEF Pairing, Unique
<1>8. ASSUME NEW p, PacketFits(E, R, p) PROVE PacketFits(E2, R2, p)
  BY <1>2, <1>5, <1>8 DEF PacketFits
<1>9. Grows(E, E2)
  BY <1>2, <1>4 DEF Grows, Unused, Full
<1>. QED
  BY <1>1, <1>6, <1>7, <1>8, <1>9 DEF GoesOn, Pairing

\* Accept: nobody relies on a QPN that is not chosen yet.
LEMMA AcceptStep ==
    ASSUME NEW E, NEW R, Pairing(E, R), NEW x \in Ends, E[x].state = "REQ_RCVD",
           NEW q \in Id0(Qpn), q # 0, \A w \in Ends : w[1] = x[1] => E[w].qpn # q
    PROVE  GoesOn(E, R, [E EXCEPT ![x] = [[E[x] EXCEPT !.state = "REP_SENT"] EXCEPT !.qpn = q]], R)
<1>. DEFINE e == [[E[x] EXCEPT !.state = "REP_SENT"] EXCEPT !.qpn = q]
            E2 == [E EXCEPT ![x] = e]
<1>1. E2 \in [Ends -> Endpoint] /\ E \in [Ends -> Endpoint]
  BY ZenonT(30) DEF Pairing, Endpoint, EndStates
<1>2. /\ \A z \in Ends : z # x => E2[z] = E[z]
      /\ E2[x].state = "REP_SENT" /\ E2[x].qpn = q
      /\ E2[x].other = E[x].other /\ E2[x].oqpn = E[x].oqpn
  BY <1>1 DEF Endpoint
<1>. SUFFICES GoesOn(E, R, E2, R)
  OBVIOUS
<1>. HIDE DEF E2
<1>3. E[x].qpn = 0 /\ x \notin R /\ Full(E[x].other)
  BY DEF Pairing, EndFits
<1>4. ASSUME NEW z \in Ends PROVE E[z].other # x
  <2>1. CASE E[z].state = "IDLE"
    BY <2>1, EndsArePairs DEF Pairing, EndFits, Unused
  <2>2. CASE E[z].state # "IDLE"
    BY <1>3, <2>2, EndsArePairs DEF Pairing, EndFits
  <2>. QED
    BY <2>1, <2>2
<1>5. ASSUME NEW z \in Ends PROVE EndFits(E2, R, z)
  <2>1. EndFits(E, R, z)
    BY Zenon DEF Pairing
  <2>2. CASE z # x
    BY Zenon, <1>2, <1>4, <2>1, <2>2 DEF EndFits
  <2>3. CASE z = x
    <3>1. E[x].other \in Ends /\ E[x].other # x /\ E[x].other \in R
      BY <1>3, <2>1, <2>3 DEF EndFits
    <3>. QED
      BY Zenon, <1>2, <1>3, <2>1, <2>3, <3>1 DEF EndFits, Mutual
  <2>. QED
    BY <2>2, <2>3
<1>6. Unique(E2, R)
  BY <1>2 DEF Pairing, Unique
<1>7. ASSUME NEW p, PacketFits(E, R, p) PROVE PacketFits(E2, R, p)
  BY <1>2, <1>3, <1>7 DEF PacketFits
<1>8. Grows(E, E2)
  BY Zenon, <1>2, <1>3 DEF Grows
<1>. QED
  BY <1>1, <1>5, <1>6, <1>7, <1>8 DEF GoesOn, Pairing

\* A new request: the sender of the REQ p has not been heard of at its node.
LEMMA RequestStep ==
    ASSUME NEW E, NEW R, Pairing(E, R), NEW x \in Ends, E[x].state = "IDLE",
           NEW p, PacketFits(E, R, p), p.attr = "REQ", p.daddr = x[1],
           \A w \in Ends : w[1] = x[1] /\ E[w].state # "IDLE" => E[w].other # From(p),
           NEW e \in Endpoint,
           e = [state |-> "REQ_RCVD", other |-> From(p), qpn |-> 0, oqpn |-> p.local_qpn]
    PROVE  GoesOn(E, R, [E EXCEPT ![x] = e], R)
<1>. DEFINE E2 == [E EXCEPT ![x] = e]
            y == From(p)
<1>1. E2 \in [Ends -> Endpoint] /\ E \in [Ends -> Endpoint]
  BY DEF Pairing
<1>2. (\A z \in Ends : z # x => E2[z] = E[z]) /\ E2[x] = e
  BY <1>1
<1>. SUFFICES GoesOn(E, R, E2, R)
  OBVIOUS
<1>3. (\A z \in Ends : E[z].other # x) /\ x \notin R
  BY Zenon, IdleUnheard
<1>4. E[x] = Unused
  BY DEF Pairing, EndFits
<1>5. y \in Ends /\ y \in R /\ y # x /\ p.local_qpn = E[y].qpn /\ E[y].other[1] = x[1]
  BY DEF PacketFits
<1>. HIDE DEF E2, y
<1>6. ASSUME NEW z \in Ends PROVE EndFits(E2, R, z)
  <2>1. EndFits(E, R, z) /\ E[z].other # x
    BY Zenon, <1>3 DEF Pairing
  <2>2. CASE z # x
    BY Zenon, <1>2, <2>1, <2>2 DEF EndFits
  <2>3. CASE z = x
    <3>1. e.other = y /\ E2[y] = E[y]
      BY <1>2, <1>5 DEF y
    <3>2. Full(y)
      BY <1>5, EndsArePairs
    <3>. QED
      BY <1>2, <1>3, <1>5, <2>3, <3>1, <3>2 DEF EndFits, Mutual
  <2>. QED
    BY <2>2, <2>3
<1>7. Unique(E2, R)
  <2>1. \A z, w \in Ends : z[1] = w[1] /\ E2[z].qpn = E2[w].qpn /\ E2[z].qpn # 0 => z = w
    BY <1>2 DEF Pairing, Unique
  <2>2. \A w \in Ends : w[1] = x[1] /\ w # x /\ E2[w].state # "IDLE" => E2[w].other # e.other
    BY <1>2
  <2>3. ASSUME NEW z \in Ends, NEW w \in Ends, z[1] = w[1],
               E2[z].state # "IDLE", E2[w].state # "IDLE",
               z \notin R, w \notin R, E2[z].other = E2[w].other
        PROVE  z = w
    BY <1>2, <2>2, <2>3 DEF Pairing, Unique
  <2>. QED
    BY <2>1, <2>3 DEF Unique
<1>8. ASSUME NEW m, PacketFits(E, R, m) PROVE PacketFits(E2, R, m)
  BY <1>2, <1>8 DEF PacketFits
<1>9. Grows(E, E2)
  BY <1>2, <1>4 DEF Grows, Unused, Full
<1>. QED
  BY Zenon, <1>1, <1>6, <1>7, <1>8, <1>9 DEF GoesOn, Pairing

\* A REP reaches the endpoint that asked for it.
LEMMA ReplyStep ==
    ASSUME NEW E, NEW R, Pairing(E, R), NEW x \in Ends, E[x].state = "REQ_SENT",
           NEW p, PacketFits(E, R, p), p.attr = "REP", Dest(p) = x,
           NEW e \in Endpoint,
           e = [E[x] EXCEPT !.state = "REP_RCVD", !.oqpn = p.local_qpn, !.other = From(p)]
    PROVE  GoesOn(E, R, [E EXCEPT ![x] = e], R)
<1>. DEFINE E2 == [E EXCEPT ![x] = e]
            y == From(p)
<1>1. E2 \in [Ends -> Endpoint] /\ E \in [Ends -> Endpoint]
  BY DEF Pairing
<1>2. /\ \A z \in Ends : z # x => E2[z] = E[z]
      /\ E2[x].state = "REP_RCVD" /\ E2[x].qpn = E[x].qpn
      /\ E2[x].other = y /\ E2[x].oqpn = p.local_qpn
  BY <1>1 DEF Endpoint
<1>. SUFFICES GoesOn(E, R, E2, R)
  OBVIOUS
<1>3. x \in R /\ ~Full(E[x].other) /\ E[x].qpn # 0
  BY DEF Pairing, EndFits
<1>4. /\ y \in Ends /\ y \notin R /\ y # x /\ E[y].state # "IDLE" /\ E[y].other = x
      /\ p.local_qpn = E[y].qpn /\ p.local_qpn # 0
  BY Zenon, <1>3 DEF PacketFits
<1>5. E[x].other[1] = y[1]
  BY <1>4 DEF Pairing, EndFits
<1>6. \A z \in Ends : z \in R \/ E[z].state \in Mutual => E[z].other # x
  <2>. SUFFICES ASSUME NEW z \in Ends, E[z].other = x, z \in R \/ E[z].state \in Mutual
                PROVE  FALSE
    OBVIOUS
  <2>1. Full(x)
    BY Zenon, EndsArePairs
  <2>2. E[x].other = z
    BY <1>3, <2>1 DEF Pairing, EndFits
  <2>. QED
    BY <1>3, <2>2, EndsArePairs
<1>. HIDE DEF E2, y
<1>7. ASSUME NEW z \in Ends PROVE EndFits(E2, R, z)
  <2>1. EndFits(E, R, z)
    BY Zenon DEF Pairing
  <2>2. CASE z # x
    BY ZenonT(30), <1>2, <1>5, <1>6, <2>1, <2>2 DEF EndFits
  <2>3. CASE z = x
    BY Zenon, <1>2, <1>3, <1>4, <2>3, EndsArePairs DEF EndFits
  <2>. QED
    BY <2>2, <2>3
<1>8. Unique(E2, R)
  BY <1>2, <1>3 DEF Pairing, Unique
<1>9. ASSUME NEW m, PacketFits(E, R, m) PROVE PacketFits(E2, R, m)
  BY <1>2, <1>5, <1>9 DEF PacketFits
<1>10. Grows(E, E2)
  BY <1>2, <1>3 DEF Grows
<1>. QED
  BY Zenon, <1>1, <1>7, <1>8, <1>9, <1>10 DEF GoesOn, Pairing

-----------------------------------------------------------------------------
(* The endpoints in the system *)

\* A packet more on the network.
LEMMA RequestersGrow ==
    ASSUME NEW N, NEW m
    PROVE  /\ m.attr # "REQ" => Requesters(N \cup {m}) = Requesters(N)
           /\ m.attr = "REQ" => Requesters(N \cup {m}) = Requesters(N) \cup {From(m)}
BY DEF Requesters

\* A sender that goes on well, with a packet that says so, keeps the pairing.
LEMMA SendPairs ==
    ASSUME PairInv, NEW x \in Ends, NEW e, NEW m, Send(x, e, m), NEW R2,
           R2 = Requesters(net \cup {m}),
           GoesOn(ends, Requesters(net), [ends EXCEPT ![x] = e], R2),
           PacketFits([ends EXCEPT ![x] = e], R2, m)
    PROVE  PairInv' /\ Grows(ends, ends')
<1>1. ends' = [ends EXCEPT ![x] = e] /\ net' = net \cup {m}
  BY DEF Send
<1>2. Requesters(net') = R2
  BY <1>1
<1>3. Pairing(ends', R2) /\ Grows(ends, ends')
  BY <1>1 DEF GoesOn
<1>4. \A p \in net' : PacketFits(ends', R2, p)
  BY Zenon, <1>1 DEF GoesOn, PairInv
<1>. QED
  BY <1>2, <1>3, <1>4 DEF PairInv

\* The same for a message without a QPN.
LEMMA SendStatePairs ==
    ASSUME PairInv, NEW x \in Ends, NEW st \in EndStates,
           NEW attr \in {"REJ", "RTU", "DREQ", "DREP"},
           Send(x, To(x, st), Msg(attr, x, ends[x].other, 0)),
           ends[x].state # "IDLE", st \notin {"IDLE", "REQ_SENT", "REQ_RCVD"},
           st # "CLOSED" => ends[x].state \notin {"REQ_SENT", "REQ_RCVD", "CLOSED"},
           st \in Mutual => ends[x].other \in Ends /\ ends[ends[x].other].other = x,
           attr # "REJ" => Full(ends[x].other)
    PROVE  PairInv' /\ Grows(ends, ends')
<1>. DEFINE R == Requesters(net)
            m == Msg(attr, x, ends[x].other, 0)
            E2 == [ends EXCEPT ![x] = To(x, st)]
<1>1. Pairing(ends, R) /\ ends \in [Ends -> Endpoint]
  BY DEF PairInv, Pairing
<1>2. E2 = [ends EXCEPT ![x].state = st]
  BY DEF To
<1>3. GoesOn(ends, R, E2, R)
  <2>. HIDE DEF R, E2
  <2>. QED
    BY Zenon, <1>1, <1>2, StateStep
<1>4. /\ m.attr = attr /\ From(m) = x /\ Dest(m) = ends[x].other
      /\ m.remote_comm_id = ends[x].other[2]
  BY <1>1, EndsArePairs DEF From, Dest, Msg, Endpoint
<1>5. Requesters(net \cup {m}) = R
  BY <1>4, RequestersGrow
<1>6. E2[x].state = st /\ E2[x].other = ends[x].other
  BY <1>1, <1>2 DEF Endpoint
<1>. HIDE DEF m, E2, R
<1>7. PacketFits(E2, R, m)
  BY Zenon, <1>4, <1>6 DEF PacketFits, Full
<1>8. Send(x, To(x, st), m)
  BY DEF m
<1>. QED
  BY Zenon, <1>3, <1>5, <1>7, <1>8, SendPairs DEF E2, R

\* Whatever an endpoint sends, the endpoints stay paired.
LEMMA EndpointPairs ==
    ASSUME SysInv, PairInv, NEW x \in Ends,
           \/ Connect(x) \/ Accept(x) \/ Confirm(x) \/ Reject(x)
           \/ Disconnect(x) \/ AnswerDreq(x) \/ GiveUp(x)
    PROVE  PairInv' /\ Grows(ends, ends')
<1>. DEFINE R == Requesters(net)
<1>1. Pairing(ends, R) /\ ends \in [Ends -> Endpoint] /\ EndFits(ends, R, x)
  BY DEF PairInv, Pairing
<1>2. \A q \in FreeQpn(x[1]) : q \in Qpn /\ q # 0 /\ \A w \in Ends : w[1] = x[1] => ends[w].qpn # q
  BY FreeQpnOK, MarkersAssumption DEF FreeQpn, At
<1>. HIDE DEF R
<1>3. CASE Connect(x)
  <2>1. PICK n \in IF x \in HostEnd THEN PeerAddr ELSE {HostAddr}, q \in FreeQpn(x[1]) :
          Send(x, [state |-> "REQ_SENT", other |-> <<n, 0>>, qpn |-> q, oqpn |-> 0],
               Msg("REQ", x, <<n, 0>>, q))
    BY <1>3 DEF Connect
  <2>. DEFINE e == [state |-> "REQ_SENT", other |-> <<n, 0>>, qpn |-> q, oqpn |-> 0]
              m == Msg("REQ", x, <<n, 0>>, q)
              E2 == [ends EXCEPT ![x] = e]
  <2>2. m.attr = "REQ" /\ From(m) = x /\ m.daddr = n /\ m.remote_comm_id = 0 /\ m.local_qpn = q
    BY Zenon, EndsArePairs DEF Msg, From
  <2>3. Requesters(net \cup {m}) = R \cup {x}
    BY <2>2, RequestersGrow DEF R
  <2>4. e \in Endpoint
    BY Zenon, <1>2 DEF Endpoint, EndStates, Id0, Nodes
  <2>5. ends[x].state = "IDLE"
    BY <1>3 DEF Connect
  <2>6. GoesOn(ends, R, E2, R \cup {x})
    <3>. HIDE DEF m
    <3>. QED
      BY Zenon, <1>1, <1>2, <2>4, <2>5, ConnectStep
  <2>7. E2[x] = e
    BY Zenon, <1>1
  <2>. HIDE DEF m, E2
  <2>8. PacketFits(E2, R \cup {x}, m)
    BY <1>2, <2>2, <2>7 DEF PacketFits
  <2>9. Send(x, e, m)
    BY <2>1 DEF m
  <2>. HIDE DEF e
  <2>. QED
    BY Zenon, <2>3, <2>6, <2>8, <2>9, SendPairs DEF E2, R
<1>4. CASE Accept(x)
  <2>1. PICK q \in FreeQpn(x[1]) :
          Send(x, [To(x, "REP_SENT") EXCEPT !.qpn = q], Msg("REP", x, ends[x].other, q))
    BY Zenon, <1>4 DEF Accept
  <2>. DEFINE e == [To(x, "REP_SENT") EXCEPT !.qpn = q]
              m == Msg("REP", x, ends[x].other, q)
              E2 == [ends EXCEPT ![x] = e]
  <2>2. /\ m.attr = "REP" /\ From(m) = x /\ Dest(m) = ends[x].other
        /\ m.remote_comm_id = ends[x].other[2] /\ m.local_qpn = q
    BY <1>1, EndsArePairs DEF Msg, From, Dest, Endpoint
  <2>3. Requesters(net \cup {m}) = R
    BY <2>2, RequestersGrow DEF R
  <2>4. ends[x].state = "REQ_RCVD" /\ q \in Id0(Qpn)
    BY <1>2, <1>4 DEF Accept, Id0
  <2>5. GoesOn(ends, R, E2, R)
    <3>. HIDE DEF m
    <3>. QED
      BY Zenon, <1>1, <1>2, <2>4, AcceptStep DEF To
  <2>6. E2[x].state = "REP_SENT" /\ E2[x].other = ends[x].other /\ E2[x].qpn = q
    BY Zenon, <1>1 DEF Endpoint, To
  <2>7. x \notin R /\ Full(ends[x].other)
    BY Zenon, <1>1, <2>4 DEF EndFits
  <2>. HIDE DEF m, E2, e
  <2>8. PacketFits(E2, R, m)
    BY Zenon, <1>2, <2>2, <2>6, <2>7 DEF PacketFits, Full
  <2>9. Send(x, e, m)
    BY <2>1 DEF m, e
  <2>. QED
    BY Zenon, <2>3, <2>5, <2>8, <2>9, SendPairs DEF E2, R
<1>5. CASE Confirm(x)
  BY Zenon, <1>1, <1>5, SendStatePairs DEF Confirm, EndFits, EndStates, Mutual
<1>6. CASE Reject(x)
  BY Zenon, <1>1, <1>6, SendStatePairs DEF Reject, EndStates, Mutual
<1>7. CASE Disconnect(x)
  BY Zenon, <1>1, <1>7, SendStatePairs DEF Disconnect, EndFits, EndStates, Mutual
<1>8. CASE AnswerDreq(x)
  BY Zenon, <1>1, <1>8, SendStatePairs DEF AnswerDreq, EndFits, EndStates, Mutual
<1>9. CASE GiveUp(x)
  <2>1. CASE /\ ends[x].state \in {"REQ_SENT", "REP_SENT"}
             /\ Send(x, To(x, "CLOSED"), Msg("REJ", x, ends[x].other, 0))
    BY Zenon, <2>1, SendStatePairs DEF EndStates, Mutual
  <2>2. CASE /\ ends[x].state = "DREQ_SENT"
             /\ ends' = [ends EXCEPT ![x] = To(x, "ABANDONED")]
             /\ net' = net
    <3>1. ends' = [ends EXCEPT ![x].state = "ABANDONED"]
      BY <2>2 DEF To
    <3>2. ends[x].other \in Ends /\ ends[ends[x].other].other = x
      BY Zenon, <1>1, <2>2 DEF EndFits, Mutual
    <3>3. GoesOn(ends, R, [ends EXCEPT ![x].state = "ABANDONED"], R)
      BY Zenon, <1>1, <2>2, <3>2, StateStep DEF EndStates
    <3>4. GoesOn(ends, R, ends', R)
      BY Zenon, <3>1, <3>3
    <3>. QED
      BY Zenon, <2>2, <3>4 DEF GoesOn, PairInv, R
  <2>. QED
    BY <1>9, <2>1, <2>2 DEF GiveUp
<1>. QED
  BY Zenon, <1>3, <1>4, <1>5, <1>6, <1>7, <1>8, <1>9

\* A packet that names x comes from the far end of x, if x knows one.
LEMMA ForPartner ==
    ASSUME NEW E, NEW R, Pairing(E, R), NEW p, PacketFits(E, R, p), p.attr # "REQ",
           NEW x \in Ends, x = Dest(p), Full(E[x].other)
    PROVE  E[x].other = From(p)
BY PartnerKnows DEF PacketFits

\* Whatever an endpoint is given, the endpoints stay paired.
LEMMA AfterPairs ==
    ASSUME PairInv, NEW p \in net, PacketOK(p), p.attr # "REQ", NEW x \in Ends, IsFor(p, x),
           EndOK(x, After(x, p))
    PROVE  LET R == Requesters(net)
           IN  GoesOn(ends, R, [ends EXCEPT ![x] = After(x, p)], R)
<1>. DEFINE R == Requesters(net)
            st == ends[x].state
<1>1. /\ Pairing(ends, R) /\ ends \in [Ends -> Endpoint] /\ EndFits(ends, R, x)
      /\ PacketFits(ends, R, p)
  BY Zenon DEF PairInv, Pairing
<1>2. st # "IDLE"
  BY DEF IsFor
<1>3. p.attr # "REJ" => x = Dest(p)
  BY Zenon, <1>1, EndsArePairs DEF IsFor, PacketFits, Dest
<1>4. p.attr # "REJ" /\ Full(ends[x].other) =>
         ends[x].other \in Ends /\ ends[ends[x].other].other = x
  <2>. SUFFICES ASSUME p.attr # "REJ", Full(ends[x].other)
                PROVE  ends[x].other \in Ends /\ ends[ends[x].other].other = x
    OBVIOUS
  <2>1. ends[x].other = From(p)
    BY Zenon, <1>1, <1>3, ForPartner
  <2>. QED
    BY Zenon, <1>1, <1>3, <2>1 DEF PacketFits
<1>5. st \in Mutual => ends[x].other \in Ends /\ ends[ends[x].other].other = x
  BY <1>1 DEF EndFits
<1>. SUFFICES GoesOn(ends, R, [ends EXCEPT ![x] = After(x, p)], R)
  OBVIOUS
<1>. HIDE DEF R
<1>6. ASSUME NEW s2 \in EndStates \ {"IDLE", "REQ_SENT", "REQ_RCVD"}, After(x, p) = To(x, s2),
             s2 # "CLOSED" => st \notin {"REQ_SENT", "REQ_RCVD", "CLOSED"},
             s2 \in Mutual => ends[x].other \in Ends /\ ends[ends[x].other].other = x
      PROVE  GoesOn(ends, R, [ends EXCEPT ![x] = After(x, p)], R)
  <2>1. [ends EXCEPT ![x] = After(x, p)] = [ends EXCEPT ![x].state = s2]
    BY <1>6 DEF To
  <2>2. GoesOn(ends, R, [ends EXCEPT ![x].state = s2], R)
    BY Zenon, <1>1, <1>2, <1>6, StateStep
  <2>. QED
    BY Zenon, <2>1, <2>2
<1>7. CASE p.attr = "REP" /\ st = "REQ_SENT"
  <2>1. After(x, p) = [ends[x] EXCEPT !.state = "REP_RCVD", !.oqpn = p.local_qpn,
                                      !.other = From(p)]
    BY <1>7 DEF After, From
  <2>2. After(x, p) \in Endpoint
    BY DEF EndOK
  <2>. QED
    BY Zenon, <1>1, <1>3, <1>7, <2>1, <2>2, ReplyStep
<1>8. CASE p.attr = "RTU" /\ st = "REP_SENT"
  <2>1. After(x, p) = To(x, "ESTABLISHED")
    BY Zenon, <1>8 DEF After
  <2>2. Full(ends[x].other)
    BY <1>1, <1>8 DEF EndFits
  <2>. QED
    BY Zenon, <1>4, <1>6, <1>8, <2>1, <2>2 DEF EndStates
<1>9. CASE p.attr = "DREQ" /\ st \in {"REP_SENT", "ESTABLISHED", "DREQ_SENT"}
  <2>1. After(x, p) = To(x, "DREQ_RCVD")
    BY Zenon, <1>9 DEF After
  <2>2. Full(ends[x].other)
    BY <1>1, <1>9 DEF EndFits
  <2>. QED
    BY Zenon, <1>4, <1>6, <1>9, <2>1, <2>2 DEF EndStates
<1>10. CASE p.attr = "DREP" /\ st \in {"DREQ_SENT", "DREQ_RCVD"}
  <2>1. After(x, p) = To(x, "TIMEWAIT")
    BY <1>10 DEF After
  <2>. QED
    BY Zenon, <1>5, <1>6, <1>10, <2>1 DEF EndStates, Mutual
<1>11. CASE p.attr = "REJ" /\ st \in {"REQ_SENT", "REQ_RCVD", "REP_SENT", "REP_RCVD"}
  <2>1. After(x, p) = To(x, "CLOSED")
    BY <1>11 DEF After
  <2>. QED
    BY Zenon, <1>6, <1>11, <2>1 DEF EndStates, Mutual
<1>12. CASE p.attr = "REJ" /\ st \in {"ESTABLISHED", "DREQ_SENT"}
  <2>1. After(x, p) = To(x, "TIMEWAIT")
    BY <1>12 DEF After
  <2>. QED
    BY Zenon, <1>5, <1>6, <1>12, <2>1 DEF EndStates, Mutual
<1>13. CASE After(x, p) = ends[x]
  <2>1. [ends EXCEPT ![x] = After(x, p)] = ends
    BY <1>1, <1>13
  <2>2. GoesOn(ends, R, ends, R)
    BY Zenon, <1>1 DEF GoesOn, Grows
  <2>. QED
    BY Zenon, <2>1, <2>2
<1>. QED
  BY Zenon, <1>7, <1>8, <1>9, <1>10, <1>11, <1>12, <1>13 DEF After

\* Nor does the arrival of a packet part them.
LEMMA HandlePairs ==
    ASSUME SysInv, PairInv, NEW p \in net, Handle(p), net' = net
    PROVE  PairInv' /\ Grows(ends, ends')
<1>. DEFINE R == Requesters(net)
<1>1. PacketOK(p) /\ Pairing(ends, R) /\ PacketFits(ends, R, p) /\ ends \in [Ends -> Endpoint]
  BY DEF SysInv, EndsInv, PairInv, Pairing
<1>2. SUFFICES GoesOn(ends, R, ends', R)
  BY DEF GoesOn, PairInv
<1>. HIDE DEF R
<1>3. CASE p.attr = "REQ" /\ ~Known(p) /\ \E x \in At(p.daddr) :
              /\ ends[x].state = "IDLE"
              /\ ends' = [ends EXCEPT ![x] =
                    [state |-> "REQ_RCVD", other |-> <<p.saddr, p.local_comm_id>>,
                     qpn |-> 0, oqpn |-> p.local_qpn]]
  <2>1. PICK x \in At(p.daddr) :
              /\ ends[x].state = "IDLE"
              /\ ends' = [ends EXCEPT ![x] =
                    [state |-> "REQ_RCVD", other |-> <<p.saddr, p.local_comm_id>>,
                     qpn |-> 0, oqpn |-> p.local_qpn]]
    BY Zenon, <1>3
  <2>. DEFINE e == [state |-> "REQ_RCVD", other |-> From(p), qpn |-> 0, oqpn |-> p.local_qpn]
  <2>2. x \in Ends /\ x[1] = p.daddr
    BY DEF At
  <2>3. ends' = [ends EXCEPT ![x] = e]
    BY Zenon, <2>1 DEF From
  <2>4. ends'[x] = e /\ ends' \in [Ends -> Endpoint]
    <3>1. ends' \in [Ends -> Endpoint]
      BY <1>1, HandleOK DEF SysInv
    <3>. QED
      BY Zenon, <1>1, <2>2, <2>3, <3>1
  <2>5. e \in Endpoint
    BY Zenon, <2>2, <2>4
  <2>6. \A w \in Ends : w[1] = x[1] /\ ends[w].state # "IDLE" => ends[w].other # From(p)
    BY <1>3, <2>2 DEF Known, At, From
  <2>. HIDE DEF e
  <2>7. GoesOn(ends, R, [ends EXCEPT ![x] = e], R)
    BY Zenon, <1>1, <1>3, <2>1, <2>2, <2>5, <2>6, RequestStep DEF e
  <2>. QED
    BY <2>3, <2>7
<1>4. CASE /\ p.attr # "REQ"
           /\ \E x \in Ends : IsFor(p, x) /\ ends' = [ends EXCEPT ![x] = After(x, p)]
  <2>1. PICK x \in Ends : IsFor(p, x) /\ ends' = [ends EXCEPT ![x] = After(x, p)]
    BY Zenon, <1>4
  <2>2. EndOK(x, After(x, p))
    BY <1>1, <2>1, AfterOK DEF SysInv
  <2>3. GoesOn(ends, R, [ends EXCEPT ![x] = After(x, p)], R)
    BY <1>1, <1>4, <2>1, <2>2, AfterPairs, Zenon DEF R
  <2>. QED
    BY <2>1, <2>3
<1>5. CASE UNCHANGED ends
  BY <1>1, <1>5 DEF GoesOn, Grows
<1>. QED
  BY <1>3, <1>4, <1>5 DEF Handle

-----------------------------------------------------------------------------
(* What flows record *)

\* What is true stays true when the endpoints go on.
LEMMA TruthGrows ==
    ASSUME NEW t \in TrackerType, NEW E, NEW E2, Truthful(t, E), Grows(E, E2)
    PROVE  Truthful(t, E2)
<1>. SUFFICES ASSUME NEW f \in Ptr PROVE FlowTrue(t.flow[f], E2)
  BY Zenon DEF Truthful
<1>. DEFINE s == t.flow[f]
            x == <<HostAddr, s.local_id>>
            y == s.remote_id
<1>1. FlowTrue(s, E) /\ s.local_id \in Id0(HostId) /\ y \in CmFlowKey
  BY Zenon DEF Truthful, TrackerType, FlowState
<1>2. (s.local_id # 0 => x \in Ends) /\ (IsKey(y) => y \in Ends)
  BY <1>1, IdsNameEnds
<1>3. (s.local_id # 0 => Full(x)) /\ (IsKey(y) => Full(y))
  BY Zenon DEF Full, IsKey
<1>. HIDE DEF s, x, y
<1>4. FlowTrue(s, E2)
  BY Zenon, <1>1, <1>2, <1>3 DEF FlowTrue, Grows, Paired, x, y
<1>. QED
  BY <1>4 DEF s

\* No id and no QPN of a flow changes.
DataKept(t, u) ==
    \A f \in Ptr : \A c \in {"local_id", "remote_id", "local_qpn", "remote_qpn"} :
       u.flow[f][c] = t.flow[f][c]

\* Without a change of data there is no untruth.
LEMMA DataKeptTrue ==
    ASSUME NEW t, NEW u, DataKept(t, u), NEW E, Truthful(t, E)
    PROVE  Truthful(u, E)
<1>. SUFFICES ASSUME NEW f \in Ptr PROVE FlowTrue(u.flow[f], E)
  BY Zenon DEF Truthful
<1>1. /\ u.flow[f].local_id = t.flow[f].local_id
      /\ u.flow[f].remote_id = t.flow[f].remote_id
      /\ u.flow[f].local_qpn = t.flow[f].local_qpn
      /\ u.flow[f].remote_qpn = t.flow[f].remote_qpn
  BY DEF DataKept
<1>. QED
  BY <1>1 DEF Truthful, FlowTrue

\* A state, the mark in_qpn_map, and the maps are no data.
LEMMA DataKeptBy ==
    ASSUME NEW t \in TrackerType, NEW f \in Ptr, NEW st
    PROVE  /\ DataKept(t, SetState(t, f, st))
           /\ DataKept(t, on_established(t, f))
           /\ DataKept(t, on_disconnected(t, f))
<1>1. t.flow[f] \in FlowState
  BY DEF TrackerType
<1>2. DataKept(t, SetState(t, f, st))
  BY <1>1 DEF SetState, DataKept, TrackerType, FlowState
<1>3. DataKept(t, on_established(t, f))
  BY <1>1 DEF on_established, DataKept, TrackerType, FlowState
<1>4. DataKept(t, on_disconnected(t, f))
  BY <1>1 DEF on_disconnected, DataKept, TrackerType, FlowState
<1>. QED
  BY <1>2, <1>3, <1>4

\* Nor does erase_flow touch the data.
LEMMA EraseKeepsData ==
    ASSUME NEW t, Sound(t), NEW l \in Id0(HostId), NEW r \in CmFlowKey,
           lookup(t, l, r) \in Ptr
    PROVE  DataKept(t, erase_flow(t, l, r))
<1>. DEFINE f == lookup(t, l, r)
            d == IF t.flow[f].in_qpn_map THEN on_disconnected(t, f) ELSE t
<1>1. erase_flow(t, l, r) = Unindex(d, l, r)
  BY Zenon, MarkersAssumption DEF erase_flow, Unindex
<1>2. DataKept(t, d)
  BY DataKeptBy DEF DataKept, Sound
<1>3. d \in TrackerType
  BY OnDisconnectedSound DEF Sound
<1>. HIDE DEF d
<1>4. Unindex(d, l, r).flow = d.flow
  BY Zenon, <1>3 DEF Unindex, TrackerType
<1>. QED
  BY <1>1, <1>2, <1>4 DEF DataKept

\* A QPN is recorded with the flow of the endpoint that has chosen it.
LEMMA SetQpnTrue ==
    ASSUME NEW t \in TrackerType, NEW f \in Ptr, NEW E, Truthful(t, E), NEW q
    PROVE  /\ t.flow[f].local_id # 0 /\ q = E[<<HostAddr, t.flow[f].local_id>>].qpn =>
                 Truthful(SetLocalQpn(t, f, q), E)
           /\ IsKey(t.flow[f].remote_id) /\ q = E[t.flow[f].remote_id].qpn =>
                 Truthful(SetRemoteQpn(t, f, q), E)
<1>. DEFINE u == SetLocalQpn(t, f, q)
            v == SetRemoteQpn(t, f, q)
<1>1. t.flow[f] \in FlowState
  BY Zenon DEF TrackerType
<1>2. /\ \A g \in Ptr : g # f => u.flow[g] = t.flow[g]
      /\ u.flow[f].local_id = t.flow[f].local_id /\ u.flow[f].remote_id = t.flow[f].remote_id
      /\ u.flow[f].local_qpn = q /\ u.flow[f].remote_qpn = t.flow[f].remote_qpn
  BY <1>1 DEF SetLocalQpn, TrackerType, FlowState
<1>3. /\ \A g \in Ptr : g # f => v.flow[g] = t.flow[g]
      /\ v.flow[f].local_id = t.flow[f].local_id /\ v.flow[f].remote_id = t.flow[f].remote_id
      /\ v.flow[f].local_qpn = t.flow[f].local_qpn /\ v.flow[f].remote_qpn = q
  BY <1>1 DEF SetRemoteQpn, TrackerType, FlowState
<1>. HIDE DEF u, v
<1>4. t.flow[f].local_id # 0 /\ q = E[<<HostAddr, t.flow[f].local_id>>].qpn => Truthful(u, E)
  BY ZenonT(30), <1>2 DEF Truthful, FlowTrue
<1>5. IsKey(t.flow[f].remote_id) /\ q = E[t.flow[f].remote_id].qpn => Truthful(v, E)
  BY ZenonT(30), <1>3 DEF Truthful, FlowTrue
<1>. QED
  BY <1>4, <1>5 DEF u, v

\* Two ids are linked only if their endpoints belong together.
LEMMA AddNewFlowTrue ==
    ASSUME NEW t, Sound(t), NEW E, Truthful(t, E), NEW l \in Id0(HostId),
           NEW r \in CmFlowKey, NEW new \in Ptr, add_new_flow_ok(t, l, r),
           l # 0 /\ IsKey(r) => Paired(E, <<HostAddr, l>>, r)
    PROVE  Truthful(add_new_flow(t, l, r, new), E)
<1>. DEFINE f == target(t, l, r, new)
            u == add_new_flow(t, l, r, new)
            addLocal == t.local_map[l] = NULL /\ l # 0
            addRemote == t.remote_map[r] = NULL /\ IsKey(r)
            s == IF t.local_map[l] = NULL /\ t.remote_map[r] = NULL
                 THEN NewFlowState ELSE t.flow[f]
<1>1. /\ f \in Ptr
      /\ \A g \in Ptr : g # f => u.flow[g] = t.flow[g]
      /\ u.flow[f].local_id = IF addLocal THEN l ELSE s.local_id
      /\ u.flow[f].remote_id = IF addRemote THEN r ELSE s.remote_id
      /\ u.flow[f].local_qpn = s.local_qpn
      /\ u.flow[f].remote_qpn = s.remote_qpn
  <2>1. AddNewFlowEffect(t, l, r, new)
    BY AddNewFlowFields DEF Sound
  <2>. QED
    BY <2>1, Zenon DEF AddNewFlowEffect
<1>2. FlowTrue(s, E)
  BY Zenon, <1>1 DEF Truthful, FlowTrue, NewFlowState, NoKey, IsKey
<1>3. /\ addLocal => s.local_id = 0
      /\ addRemote => ~IsKey(s.remote_id)
      /\ addLocal /\ ~addRemote => s.remote_id = r \/ ~IsKey(s.remote_id)
      /\ addRemote /\ ~addLocal => s.local_id = l
  <2>1. CASE t.local_map[l] = NULL /\ t.remote_map[r] = NULL
    BY Zenon, <2>1 DEF NewFlowState, NoKey, IsKey
  <2>2. CASE t.local_map[l] = NULL /\ t.remote_map[r] # NULL
    BY Zenon, <2>2 DEF add_new_flow_ok, target, Sound, Indexed
  <2>3. CASE t.local_map[l] # NULL
    BY Zenon, <2>3 DEF add_new_flow_ok, target, Sound, Indexed
  <2>. QED
    BY Zenon, <2>1, <2>2, <2>3
<1>4. addRemote /\ ~addLocal /\ l = 0 => s.local_id = 0
  BY Zenon, <1>3
<1>. HIDE DEF f, u, s
<1>5. FlowTrue(u.flow[f], E)
  BY Zenon, <1>1, <1>2, <1>3, <1>4 DEF FlowTrue
<1>6. Truthful(u, E)
  BY Zenon, <1>1, <1>5 DEF Truthful
<1>. QED
  BY <1>6 DEF u

\* get_flow records nothing but the packet's ids.
LEMMA GetFlowTrue ==
    ASSUME NEW t, Sound(t), NEW E, Truthful(t, E), NEW l \in Id0(HostId),
           NEW r \in CmFlowKey, NEW new \in Free(t), get_flow_abort(t, l, r) = "none",
           l # 0 /\ IsKey(r) => Paired(E, <<HostAddr, l>>, r)
    PROVE  Truthful(get_flow(t, l, r, new), E)
<1>1. new \in Ptr
  BY DEF Free
<1>2. CASE lookup(t, l, r) = NULL
  <2>1. add_new_flow_ok(t, l, r)
    BY Zenon, <1>2 DEF get_flow_abort
  <2>2. Truthful(add_new_flow(t, l, r, new), E)
    BY Zenon, <1>1, <2>1, AddNewFlowTrue
  <2>. QED
    BY Zenon, <1>2, <2>2 DEF get_flow
<1>3. CASE lookup(t, l, r) # NULL
  BY Zenon, <1>3 DEF get_flow
<1>. QED
  BY <1>2, <1>3

\* Assignments keep the types.
LEMMA SetTyped ==
    ASSUME NEW t \in TrackerType, NEW f \in Ptr, NEW st \in FLOW_STATES, NEW q \in Id0(Qpn)
    PROVE  /\ SetState(t, f, st) \in TrackerType
           /\ SetLocalQpn(t, f, q) \in TrackerType
           /\ SetRemoteQpn(t, f, q) \in TrackerType
<1>1. t.flow[f] \in FlowState
  BY DEF TrackerType
<1>. QED
  BY Zenon, <1>1 DEF SetState, SetLocalQpn, SetRemoteQpn, TrackerType, FlowState

\* A request and its QPN.
LEMMA RequestTrue ==
    ASSUME NEW g, Sound(g), NEW E, Truthful(g, E), NEW f \in Ptr, NEW st \in FLOW_STATES, NEW q
    PROVE  /\ g.flow[f].local_id # 0 /\ q = E[<<HostAddr, g.flow[f].local_id>>].qpn =>
                 Truthful(SetLocalQpn(SetState(g, f, st), f, q), E)
           /\ IsKey(g.flow[f].remote_id) /\ q = E[g.flow[f].remote_id].qpn =>
                 Truthful(SetRemoteQpn(SetState(g, f, st), f, q), E)
<1>. DEFINE u == SetState(g, f, st)
<1>1. g \in TrackerType
  BY DEF Sound
<1>2. u \in TrackerType
  BY <1>1, SetTyped DEF Id0
<1>3. DataKept(g, u)
  BY Zenon, <1>1, DataKeptBy
<1>. HIDE DEF u
<1>4. /\ Truthful(u, E) /\ u.flow[f].local_id = g.flow[f].local_id
      /\ u.flow[f].remote_id = g.flow[f].remote_id
  BY <1>3, DataKeptTrue DEF DataKept
<1>. QED
  BY Zenon, <1>2, <1>4, SetQpnTrue DEF u

\* The handlers that follow RTU: the table, not the data.
LEMMA EstablishTrue ==
    ASSUME NEW g, Sound(g), NEW E, Truthful(g, E), NEW f \in Ptr
    PROVE  Truthful(on_established(SetState(g, f, "ESTABLISHED"), f), E)
<1>. DEFINE u == SetState(g, f, "ESTABLISHED")
<1>1. g \in TrackerType
  BY DEF Sound
<1>2. u \in TrackerType
  BY <1>1, SetTyped DEF FLOW_STATES, Id0
<1>3. DataKept(g, u)
  BY <1>1, DataKeptBy
<1>. HIDE DEF u
<1>4. DataKept(u, on_established(u, f))
  BY Zenon, <1>2, DataKeptBy
<1>. QED
  BY Zenon, <1>3, <1>4, DataKeptTrue DEF u

\* What a packet of the host says, and about whom.
LEMMA HostPacketSays ==
    ASSUME NEW E, NEW R, NEW p \in AnyHostPacket, PacketFits(E, R, p)
    PROVE  /\ p.local_comm_id \in HostId /\ p.local_comm_id # 0
           /\ <<HostAddr, p.local_comm_id>> = From(p)
           /\ p.attr # "REQ" => Paired(E, <<HostAddr, p.local_comm_id>>, Dest(p))
           /\ p.attr \in {"REQ", "REP"} => p.local_qpn = E[<<HostAddr, p.local_comm_id>>].qpn
           /\ Dest(p) \in CmFlowKey
<1>1. p.saddr = HostAddr /\ p.local_comm_id \in Id0(HostId)
  BY DEF AnyHostPacket, Packet
<1>2. From(p) = <<HostAddr, p.local_comm_id>> /\ Dest(p) \in CmFlowKey
  BY Zenon, <1>1 DEF From, Dest, AnyHostPacket, Packet, CmFlowKey, Id0
<1>3. p.local_comm_id # 0
  BY Zenon, <1>2, EndsArePairs DEF PacketFits, Full
<1>. QED
  BY Zenon, <1>1, <1>2, <1>3 DEF PacketFits, Paired, Id0

\* No handler of the host's packets records an untruth.
LEMMA HostHandlersTrue ==
    ASSUME NEW t, Sound(t), NEW E, Truthful(t, E), NEW R, NEW p \in AnyHostPacket,
           PacketFits(E, R, p), NEW new \in Free(t), host_abort(t, p, new) = "none"
    PROVE  Truthful(host_handlers(t, p, new), E)
<1>. DEFINE l == p.local_comm_id
            r == Dest(p)
            g == get_flow(t, l, NoKey, new)
            f == lookup(g, l, NoKey)
            gr == get_flow(t, l, r, new)
            fr == lookup(gr, l, r)
            h == host_handlers(t, p, new)
<1>1. /\ l \in Id0(HostId) /\ l # 0 /\ r \in CmFlowKey /\ NoKey \in CmFlowKey /\ ~IsKey(NoKey)
      /\ p.attr \in Attr /\ new \in Ptr /\ p.local_qpn \in Id0(Qpn)
  BY Zenon, HostPacketSays DEF AnyHostPacket, Packet, CmFlowKey, NoKey, Id0, Free, IsKey
<1>2. /\ p.attr # "REQ" => Paired(E, <<HostAddr, l>>, r)
      /\ p.attr \in {"REQ", "REP"} => p.local_qpn = E[<<HostAddr, l>>].qpn
  BY Zenon, HostPacketSays
<1>3. from_dest(p, p.remote_comm_id) = r
  BY DEF from_dest, Dest
<1>. SUFFICES Truthful(h, E)
  OBVIOUS
<1>. HIDE DEF l, r, h
<1>4. ASSUME p.attr \in {"REQ", "RTU", "DREQ", "DREP"}
      PROVE  Truthful(g, E) /\ Sound(g) /\ f \in Ptr /\ g.flow[f].local_id = l
  <2>1. get_flow_abort(t, l, NoKey) = "none"
    BY <1>4 DEF host_abort, l
  <2>. QED
    BY Zenon, <1>1, <2>1, GetFlowByLocalId, GetFlowTrue
<1>5. ASSUME p.attr \in {"REJ", "REP"}
      PROVE  Truthful(gr, E) /\ Sound(gr) /\ fr \in Ptr
  <2>1. get_flow_abort(t, l, r) = "none"
    BY Zenon, <1>3, <1>5 DEF host_abort, rej_sent_abort, rep_sent_abort, l
  <2>. QED
    BY Zenon, <1>1, <1>2, <1>5, <2>1, GetFlowSound, GetFlowTrue
<1>6. CASE p.attr = "REQ"
  <2>1. h \in {SetLocalQpn(SetState(g, f, "REQ_SENT"), f, p.local_qpn), g}
    BY <1>6 DEF h, host_handlers, req_sent, l
  <2>. HIDE DEF g, f
  <2>2. Truthful(SetLocalQpn(SetState(g, f, "REQ_SENT"), f, p.local_qpn), E)
    BY Zenon, <1>1, <1>2, <1>4, <1>6, RequestTrue DEF FLOW_STATES
  <2>. QED
    BY Zenon, <1>4, <1>6, <2>1, <2>2
<1>7. CASE p.attr = "RTU"
  <2>1. h \in {on_established(SetState(g, f, "ESTABLISHED"), f), g}
    BY Zenon, <1>7 DEF h, host_handlers, rtu_sent, l
  <2>. HIDE DEF g, f
  <2>. QED
    BY Zenon, <1>4, <1>7, <2>1, EstablishTrue
<1>8. CASE p.attr = "DREQ"
  <2>1. h \in {SetState(g, f, "DREQ_SENT"), g}
    BY <1>8 DEF h, host_handlers, dreq_sent, l
  <2>. HIDE DEF g, f
  <2>2. DataKept(g, SetState(g, f, "DREQ_SENT"))
    BY Zenon, <1>4, <1>8, DataKeptBy DEF Sound
  <2>. QED
    BY Zenon, <1>4, <1>8, <2>1, <2>2, DataKeptTrue
<1>9. CASE p.attr = "DREP"
  <2>1. h \in {erase_flow(g, l, r), g}
    BY Zenon, <1>3, <1>9 DEF h, host_handlers, drep_sent, l
  <2>2. lookup(g, l, r) = f
    BY <1>1 DEF lookup
  <2>. HIDE DEF g, f
  <2>3. DataKept(g, erase_flow(g, l, r))
    BY Zenon, <1>1, <1>4, <1>9, <2>2, EraseKeepsData
  <2>. QED
    BY Zenon, <1>4, <1>9, <2>1, <2>3, DataKeptTrue
<1>10. CASE p.attr = "REJ"
  <2>1. h \in {erase_flow(gr, l, r), gr}
    BY Zenon, <1>3, <1>10 DEF h, host_handlers, rej_sent, l
  <2>. HIDE DEF gr
  <2>2. DataKept(gr, erase_flow(gr, l, r))
    BY Zenon, <1>1, <1>5, <1>10, EraseKeepsData
  <2>. QED
    BY Zenon, <1>5, <1>10, <2>1, <2>2, DataKeptTrue
<1>11. CASE p.attr = "REP"
  <2>. DEFINE u == SetState(gr, fr, "REP_SENT")
              v == add_new_flow(u, l, r, new)
              w == SetLocalQpn(v, fr, p.local_qpn)
  <2>1. h = IF gr.flow[fr].state \in {"REQ_RCVD", "MRA_REQ_SENT"} THEN w ELSE gr
    BY Zenon, <1>3, <1>11 DEF h, host_handlers, rep_sent, l
  <2>2. gr.flow[fr].state \in {"REQ_RCVD", "MRA_REQ_SENT"} => add_new_flow_ok(gr, l, r)
    BY <1>3, <1>11 DEF host_abort, rep_sent_abort, l
  <2>3. lookup(gr, l, r) = fr
    BY Zenon
  <2>. HIDE DEF gr, fr
  <2>4. SUFFICES ASSUME gr.flow[fr].state \in {"REQ_RCVD", "MRA_REQ_SENT"} PROVE Truthful(w, E)
    BY Zenon, <1>5, <1>11, <2>1
  <2>5. gr.local_map[l] = fr /\ gr.flow[fr].local_id = l /\ ~gr.flow[fr].in_qpn_map
    <3>1. gr.local_map[l] = fr
      BY Zenon, <1>1, <2>3 DEF lookup
    <3>2. gr.flow[fr].local_id = l
      BY Zenon, <1>1, <1>5, <1>11, <3>1, MarkersAssumption DEF Sound, Indexed
    <3>3. ~gr.flow[fr].in_qpn_map
      BY Zenon, <1>5, <1>11, <2>4, NotConnectedNotMapped
    <3>. QED
      BY Zenon, <3>1, <3>2, <3>3
  <2>6. Sound(u) /\ Touches(gr, u, fr) /\ Truthful(u, E)
    <3>1. Sound(u) /\ Touches(gr, u, fr)
      BY ZenonT(30), <1>5, <1>11, <2>5, SetStateSound DEF FLOW_STATES
    <3>2. DataKept(gr, u)
      BY Zenon, <1>5, <1>11, DataKeptBy DEF Sound
    <3>. QED
      BY Zenon, <1>5, <1>11, <3>1, <3>2, DataKeptTrue
  <2>7. add_new_flow_ok(u, l, r) /\ u.local_map[l] = fr /\ u.flow[fr].local_id = l
    <3>1. u.local_map[l] = fr /\ u.flow[fr].local_id = l
      BY Zenon, <2>5, <2>6 DEF Touches
    <3>. QED
      BY Zenon, <1>1, <1>5, <1>11, <2>2, <2>4, <2>6, <3>1, TouchesSameChoice DEF Sound
  <2>. HIDE DEF u
  <2>8. Truthful(v, E)
    BY Zenon, <1>1, <1>2, <1>11, <2>6, <2>7, AddNewFlowTrue
  <2>9. v \in TrackerType /\ v.flow[fr].local_id = l
    <3>1. AddNewFlowEffect(u, l, r, new)
      BY Zenon, <1>1, <2>6, AddNewFlowFields DEF Sound
    <3>2. target(u, l, r, new) = fr /\ fr # NULL
      BY Zenon, <1>5, <1>11, <2>7, MarkersAssumption DEF target
    <3>. QED
      BY Zenon, <2>7, <3>1, <3>2 DEF AddNewFlowEffect
  <2>. HIDE DEF v
  <2>. QED
    BY Zenon, <1>1, <1>2, <1>5, <1>11, <2>8, <2>9, SetQpnTrue
<1>12. CASE p.attr \notin Handled
  BY Zenon, <1>12 DEF h, host_handlers, Handled
<1>. QED
  BY Zenon, <1>1, <1>6, <1>7, <1>8, <1>9, <1>10, <1>11, <1>12 DEF Handled, Attr

\* rep_received records the QPN before it links the ids: the flow is true again
\* when the handler returns.
LEMMA ReplyTrue ==
    ASSUME NEW g, Sound(g), NEW E, Truthful(g, E), NEW l \in Id0(HostId), l # 0,
           NEW r \in CmFlowKey, IsKey(r), NEW f \in Ptr, g.local_map[l] = f,
           g.flow[f].state \in {"REQ_SENT", "MRA_REQ_RCVD"},
           add_new_flow_ok(g, l, r), Paired(E, <<HostAddr, l>>, r),
           NEW q \in Id0(Qpn), q = E[r].qpn, NEW new \in Ptr
    PROVE  Truthful(add_new_flow(SetRemoteQpn(SetState(g, f, "REP_RCVD"), f, q), l, r, new), E)
<1>. DEFINE u == SetRemoteQpn(SetState(g, f, "REP_RCVD"), f, q)
            v == add_new_flow(u, l, r, new)
<1>1. Sound(u) /\ Touches(g, u, f)
  BY Zenon, RequestSound DEF FLOW_STATES
<1>2. u.flow[f].local_qpn = g.flow[f].local_qpn /\ u.flow[f].remote_qpn = q
  <2>1. g.flow[f] \in FlowState /\ g \in TrackerType
    BY Zenon DEF Sound, TrackerType
  <2>. QED
    BY <2>1 DEF SetRemoteQpn, SetState, TrackerType, FlowState
<1>. HIDE DEF u
<1>3. f # NULL /\ g.flow[f].local_id = l
  BY MarkersAssumption DEF Sound, Indexed
<1>4. /\ u.local_map[l] = f /\ u.remote_map = g.remote_map
      /\ u.flow[f].local_id = l /\ u.flow[f].remote_id = g.flow[f].remote_id
      /\ \A e \in Ptr : e # f => u.flow[e] = g.flow[e]
  BY Zenon, <1>1, <1>3 DEF Touches
<1>5. AddNewFlowEffect(u, l, r, new)
  BY Zenon, <1>1, AddNewFlowFields DEF Sound
<1>6. target(u, l, r, new) = f
  BY Zenon, <1>3, <1>4 DEF target
<1>7. /\ \A e \in Ptr : e # f => v.flow[e] = g.flow[e]
      /\ v.flow[f].local_id = l
      /\ v.flow[f].remote_id =
            IF u.remote_map[r] = NULL /\ IsKey(r) THEN r ELSE u.flow[f].remote_id
      /\ v.flow[f].local_qpn = g.flow[f].local_qpn
      /\ v.flow[f].remote_qpn = q
  <2>. HIDE DEF v
  <2>1. \A e \in Ptr : e # f => v.flow[e] = u.flow[e]
    BY Zenon, <1>5, <1>6 DEF AddNewFlowEffect, v
  <2>2. v.flow[f].local_id = l
    BY Zenon, <1>3, <1>4, <1>5, <1>6 DEF AddNewFlowEffect, v
  <2>3. v.flow[f].remote_id =
           IF u.remote_map[r] = NULL /\ IsKey(r) THEN r ELSE u.flow[f].remote_id
    BY Zenon, <1>5, <1>6 DEF AddNewFlowEffect, v
  <2>4. v.flow[f].local_qpn = u.flow[f].local_qpn /\ v.flow[f].remote_qpn = u.flow[f].remote_qpn
    BY Zenon, <1>3, <1>4, <1>5, <1>6 DEF AddNewFlowEffect, v
  <2>. QED
    BY Zenon, <1>2, <1>4, <2>1, <2>2, <2>3, <2>4
<1>. HIDE DEF v
<1>8. v.flow[f].remote_id = r
  BY Zenon, <1>3, <1>4, <1>7 DEF add_new_flow_ok
<1>9. FlowTrue(v.flow[f], E)
  <2>1. FlowTrue(g.flow[f], E)
    BY Zenon DEF Truthful
  <2>. DEFINE a == v.flow[f]
              b == g.flow[f]
  <2>2. /\ a.local_id = l /\ b.local_id = l /\ a.remote_id = r
        /\ a.local_qpn = b.local_qpn /\ a.remote_qpn = q
    BY Zenon, <1>3, <1>7, <1>8
  <2>. HIDE DEF a, b
  <2>3. FlowTrue(b, E)
    BY Zenon, <2>1 DEF b
  <2>4. FlowTrue(a, E)
    BY <2>2, <2>3 DEF FlowTrue
  <2>. QED
    BY Zenon, <2>4 DEF a
<1>10. Truthful(v, E)
  BY Zenon, <1>7, <1>9 DEF Truthful
<1>. QED
  BY <1>10 DEF u, v

\* No handler of the network's packets records an untruth.
LEMMA NetHandlersTrue ==
    ASSUME NEW t, Sound(t), NEW E, Truthful(t, E), NEW R, NEW p \in AnyNetPacket,
           PacketFits(E, R, p), NEW new \in Free(t), net_abort(t, p, new) = "none"
    PROVE  Truthful(net_handlers(t, p, new), E)
<1>. DEFINE l == p.remote_comm_id
            r == From(p)
            g == get_flow(t, l, NoKey, new)
            f == lookup(g, l, NoKey)
            gr == get_flow(t, l, r, new)
            g0 == get_flow(t, 0, r, new)
            f0 == lookup(g0, 0, r)
            h == net_handlers(t, p, new)
<1>1. /\ l \in Id0(HostId) /\ 0 \in Id0(HostId)
      /\ r \in CmFlowKey /\ IsKey(r) /\ NoKey \in CmFlowKey /\ ~IsKey(NoKey)
      /\ p.attr \in Attr /\ new \in Ptr /\ p.local_qpn \in Id0(Qpn)
  BY Zenon, NetPacketSays DEF AnyNetPacket, Packet, CmFlowKey, NoKey, Id0, Free, IsKey
<1>2. /\ p.attr # "REQ" => Paired(E, <<HostAddr, l>>, r)
      /\ p.attr \in {"REQ", "REP"} => p.local_qpn = E[r].qpn
  BY Zenon, NetPacketSays
<1>3. from_src(p, p.local_comm_id) = r
  BY DEF from_src, From
<1>. SUFFICES Truthful(h, E)
  OBVIOUS
<1>. HIDE DEF l, r, h
<1>4. ASSUME p.attr \in {"REP", "RTU", "DREQ", "DREP"}
      PROVE  /\ Truthful(g, E) /\ Sound(g) /\ f \in Ptr /\ l # 0
             /\ g.local_map[l] = f /\ g.flow[f].local_id = l
  <2>1. get_flow_abort(t, l, NoKey) = "none"
    BY <1>3, <1>4 DEF net_abort, rep_received_abort, l
  <2>2. Truthful(g, E)
    BY Zenon, <1>1, <2>1, GetFlowTrue
  <2>3. Sound(g) /\ f \in Ptr /\ l # 0 /\ g.local_map[l] = f /\ g.flow[f].local_id = l
    BY Zenon, <1>1, <2>1, GetFlowByLocalId
  <2>. QED
    BY Zenon, <2>2, <2>3
<1>5. CASE p.attr = "REQ"
  <2>1. h \in {SetRemoteQpn(SetState(g0, f0, "REQ_RCVD"), f0, p.local_qpn), g0}
    BY <1>3, <1>5 DEF h, net_handlers, req_received
  <2>2. get_flow_abort(t, 0, r) = "none"
    BY <1>3, <1>5 DEF net_abort, req_received_abort
  <2>3. Truthful(g0, E) /\ Sound(g0) /\ f0 \in Ptr
    BY Zenon, <1>1, <2>2, GetFlowSound, GetFlowTrue
  <2>4. g0.flow[f0].remote_id = r
    BY Zenon, <1>1, <2>3, MarkersAssumption DEF lookup, Sound, Indexed
  <2>. HIDE DEF g0, f0
  <2>5. Truthful(SetRemoteQpn(SetState(g0, f0, "REQ_RCVD"), f0, p.local_qpn), E)
    BY Zenon, <1>1, <1>2, <1>5, <2>3, <2>4, RequestTrue DEF FLOW_STATES
  <2>. QED
    BY Zenon, <2>1, <2>3, <2>5
<1>6. CASE p.attr = "REJ"
  <2>1. h \in {erase_flow(gr, l, r), gr}
    BY <1>3, <1>6 DEF h, net_handlers, rej_received, l
  <2>2. get_flow_abort(t, l, r) = "none"
    BY <1>3, <1>6 DEF net_abort, rej_received_abort, l
  <2>3. Truthful(gr, E) /\ Sound(gr) /\ lookup(gr, l, r) \in Ptr
    BY Zenon, <1>1, <1>2, <1>6, <2>2, GetFlowSound, GetFlowTrue
  <2>. HIDE DEF gr
  <2>4. DataKept(gr, erase_flow(gr, l, r))
    BY Zenon, <1>1, <2>3, EraseKeepsData
  <2>. QED
    BY Zenon, <2>1, <2>3, <2>4, DataKeptTrue
<1>7. CASE p.attr = "REP"
  <2>. DEFINE v == add_new_flow(SetRemoteQpn(SetState(g, f, "REP_RCVD"), f, p.local_qpn), l, r, new)
  <2>1. h = IF g.flow[f].state \in {"REQ_SENT", "MRA_REQ_RCVD"} THEN v ELSE g
    BY Zenon, <1>3, <1>7 DEF h, net_handlers, rep_received, l
  <2>2. g.flow[f].state \in {"REQ_SENT", "MRA_REQ_RCVD"} => add_new_flow_ok(g, l, r)
    BY <1>3, <1>7 DEF net_abort, rep_received_abort, l
  <2>. HIDE DEF g, f
  <2>3. g.flow[f].state \in {"REQ_SENT", "MRA_REQ_RCVD"} => Truthful(v, E)
    BY Zenon, <1>1, <1>2, <1>4, <1>7, <2>2, ReplyTrue
  <2>. HIDE DEF v
  <2>. QED
    BY Zenon, <1>4, <1>7, <2>1, <2>3
<1>8. CASE p.attr = "RTU"
  <2>1. h \in {on_established(SetState(g, f, "ESTABLISHED"), f), g}
    BY Zenon, <1>8 DEF h, net_handlers, rtu_received, l
  <2>. HIDE DEF g, f
  <2>. QED
    BY Zenon, <1>4, <1>8, <2>1, EstablishTrue
<1>9. CASE p.attr = "DREQ"
  <2>1. h \in {SetState(g, f, "DREQ_RCVD"), g}
    BY <1>9 DEF h, net_handlers, dreq_received, l
  <2>. HIDE DEF g, f
  <2>2. DataKept(g, SetState(g, f, "DREQ_RCVD"))
    BY Zenon, <1>4, <1>9, DataKeptBy DEF Sound
  <2>. QED
    BY Zenon, <1>4, <1>9, <2>1, <2>2, DataKeptTrue
<1>10. CASE p.attr = "DREP"
  <2>1. h \in {erase_flow(g, l, r), g}
    BY <1>3, <1>10 DEF h, net_handlers, drep_received, l
  <2>2. lookup(g, l, r) = f
    BY Zenon, <1>4, <1>10 DEF lookup
  <2>. HIDE DEF g, f
  <2>3. DataKept(g, erase_flow(g, l, r))
    BY Zenon, <1>1, <1>4, <1>10, <2>2, EraseKeepsData
  <2>. QED
    BY Zenon, <1>4, <1>10, <2>1, <2>3, DataKeptTrue
<1>11. CASE p.attr \notin Handled
  BY <1>11 DEF h, net_handlers, Handled
<1>. QED
  BY Zenon, <1>1, <1>5, <1>6, <1>7, <1>8, <1>9, <1>10, <1>11 DEF Handled, Attr

-----------------------------------------------------------------------------
(* The system *)

\* A handler returns, or fails an assert; a flow that is freed says nothing.
LEMMA FinishTrue ==
    ASSUME NEW a, NEW u, Finish(a, u), NEW E, Truthful(Tracker, E),
           a = "none" => u \in TrackerType /\ Truthful(u, E)
    PROVE  Truthful(Tracker', E)
<1>0. Tracker'.flow = flow' /\ Tracker.flow = flow
  BY Zenon DEF Tracker
<1>1. CASE a # "none"
  BY <1>0, <1>1 DEF Finish, Truthful
<1>2. CASE a = "none"
  <2>1. flow' = Release(u).flow
    BY <1>2 DEF Finish
  <2>2. \A f \in Ptr : flow'[f] \in {u.flow[f], NewFlowState}
    BY Zenon, <1>2, <2>1 DEF Release, TrackerType
  <2>3. FlowTrue(NewFlowState, E)
    BY Zenon DEF FlowTrue, NewFlowState
  <2>. QED
    BY Zenon, <1>0, <1>2, <2>2, <2>3 DEF Truthful
<1>. QED
  BY Zenon, <1>1, <1>2

\* A packet that fits the endpoints passes the tracker.
LEMMA TrackedTrue ==
    ASSUME IInv, NEW E, NEW R, Truthful(Tracker, E), NEW p, PacketOK(p), PacketFits(E, R, p),
           \/ p.saddr = HostAddr /\ TrackSent(p)
           \/ p.daddr = HostAddr /\ TrackReceived(p)
    PROVE  Truthful(Tracker', E)
<1>1. CASE p.saddr = HostAddr /\ TrackSent(p)
  <2>1. PICK new \in Free(Tracker) :
          Finish(host_abort(Tracker, p, new), host_handlers(Tracker, p, new))
    BY Zenon, <1>1 DEF TrackSent
  <2>2. p \in AnyHostPacket
    BY <1>1, Sides
  <2>3. ASSUME host_abort(Tracker, p, new) = "none"
        PROVE  /\ host_handlers(Tracker, p, new) \in TrackerType
               /\ Truthful(host_handlers(Tracker, p, new), E)
    BY Zenon, <2>2, <2>3, HostHandlersSound, HostHandlersTrue DEF IInv, Sound
  <2>. QED
    BY Zenon, <2>1, <2>3, FinishTrue
<1>2. CASE p.daddr = HostAddr /\ TrackReceived(p)
  <2>1. PICK new \in Free(Tracker) :
          Finish(net_abort(Tracker, p, new), net_handlers(Tracker, p, new))
    BY Zenon, <1>2 DEF TrackReceived
  <2>2. p \in AnyNetPacket
    BY Zenon, <1>2, Sides
  <2>3. ASSUME net_abort(Tracker, p, new) = "none"
        PROVE  /\ net_handlers(Tracker, p, new) \in TrackerType
               /\ Truthful(net_handlers(Tracker, p, new), E)
    BY Zenon, <2>2, <2>3, NetHandlersSound, NetHandlersTrue DEF IInv, Sound
  <2>. QED
    BY Zenon, <2>1, <2>3, FinishTrue
<1>. QED
  BY <1>1, <1>2

\* The inductive invariant of the argument.
TruthInv == SysInv /\ PairInv /\ Truthful(Tracker, ends)

\* An endpoint sends; the tracker records what the endpoint has just decided.
LEMMA EndpointTrue ==
    ASSUME TruthInv, NEW x \in Ends,
           \/ Connect(x) \/ Accept(x) \/ Confirm(x) \/ Reject(x)
           \/ Disconnect(x) \/ AnswerDreq(x) \/ GiveUp(x)
    PROVE  PairInv' /\ Truthful(Tracker, ends)'
<1>1. PairInv' /\ Grows(ends, ends') /\ SysInv'
  BY Zenon, EndpointPairs, EndpointStep DEF TruthInv
<1>2. Truthful(Tracker, ends')
  BY Zenon, <1>1, TruthGrows DEF TruthInv, SysInv, IInv, Sound
<1>3. ASSUME NEW e, NEW p, Send(x, e, p) PROVE Truthful(Tracker, ends)'
  <2>1. p \in net'
    BY <1>3 DEF Send
  <2>2. PacketOK(p) /\ PacketFits(ends', Requesters(net'), p)
    BY Zenon, <1>1, <2>1 DEF SysInv, EndsInv, PairInv, PacketOK
  <2>3. CASE p.saddr = HostAddr
    BY Zenon, <1>2, <1>3, <2>2, <2>3, TrackedTrue DEF Send, TruthInv, SysInv
  <2>4. CASE p.saddr # HostAddr
    <3>1. UNCHANGED vars
      BY Zenon, <1>3, <2>4 DEF Send
    <3>2. Tracker' = Tracker
      BY <3>1 DEF vars, Tracker
    <3>. QED
      BY <1>2, <3>2
  <2>. QED
    BY Zenon, <2>3, <2>4
<1>4. CASE UNCHANGED <<flow, local_map, remote_map, qpn_map>>
  <2>1. Tracker' = Tracker
    BY <1>4 DEF Tracker
  <2>. QED
    BY Zenon, <1>1, <1>2, <2>1
<1>. QED
  BY Zenon, <1>1, <1>3, <1>4 DEF Connect, Accept, Confirm, Reject, Disconnect, AnswerDreq, GiveUp

\* A packet arrives, or is sent again; the endpoints know what the tracker learns.
LEMMA NetworkTrue ==
    ASSUME TruthInv, Deliver \/ Retransmit
    PROVE  PairInv' /\ Truthful(Tracker, ends)'
<1>. DEFINE R == Requesters(net)
<1>1. \A p \in net : PacketOK(p) /\ PacketFits(ends, R, p)
  BY DEF TruthInv, SysInv, EndsInv, PairInv
<1>2. IInv /\ Truthful(Tracker, ends) /\ Tracker \in TrackerType
  BY DEF TruthInv, SysInv, IInv, Sound
<1>. HIDE DEF R
<1>3. ASSUME NEW p \in net, UNCHANGED <<ends, net>>,
             \/ p.saddr = HostAddr /\ TrackSent(p)
             \/ p.daddr = HostAddr /\ TrackReceived(p)
      PROVE  PairInv' /\ Truthful(Tracker, ends)'
  <2>1. Truthful(Tracker', ends)
    BY Zenon, <1>1, <1>2, <1>3, TrackedTrue
  <2>2. PairInv'
    BY Zenon, <1>3 DEF TruthInv, PairInv
  <2>. QED
    BY Zenon, <1>3, <2>1, <2>2
<1>4. ASSUME NEW p \in net, ToHost(p) PROVE PairInv' /\ Truthful(Tracker, ends)'
  <2>1. PairInv' /\ Grows(ends, ends') /\ net' = net
    BY <1>4, HandlePairs DEF ToHost, TruthInv
  <2>2. Truthful(Tracker, ends')
    BY Zenon, <1>2, <2>1, TruthGrows
  <2>3. PacketFits(ends', Requesters(net'), p)
    BY <2>1 DEF PairInv
  <2>. QED
    BY Zenon, <1>1, <1>2, <1>4, <2>1, <2>2, <2>3, TrackedTrue DEF ToHost
<1>5. ASSUME NEW p \in net, ToPeer(p) PROVE PairInv' /\ Truthful(Tracker, ends)'
  <2>1. PairInv' /\ Grows(ends, ends') /\ Tracker' = Tracker
    BY Zenon, <1>5, HandlePairs DEF ToPeer, TruthInv, Tracker
  <2>. QED
    BY Zenon, <1>2, <2>1, TruthGrows
<1>6. ASSUME NEW p \in net, DropAtHost(p) PROVE PairInv' /\ Truthful(Tracker, ends)'
  BY Zenon, <1>3, <1>6 DEF DropAtHost
<1>7. CASE Retransmit
  BY <1>3, <1>7 DEF Retransmit
<1>. QED
  BY Zenon, <1>4, <1>5, <1>6, <1>7 DEF Deliver

\* The invariant holds in every reachable state.
THEOREM TruthInvariant ==
    ASSUME Reusable = {}
    PROVE  SysSpec => []TruthInv
<1>1. SysInit => PairInv /\ Truthful(Tracker, ends)
  <2>. SUFFICES ASSUME SysInit PROVE PairInv /\ Truthful(Tracker, ends)
    OBVIOUS
  <2>1. ends = [x \in Ends |-> Unused] /\ net = {} /\ Requesters(net) = {}
    BY Zenon DEF SysInit, Requesters
  <2>2. Unused \in Endpoint
    BY Zenon DEF Unused, Endpoint, EndStates, Id0
  <2>3. \A z \in Ends : EndFits(ends, {}, z)
    BY Zenon, <2>1 DEF EndFits, Unused, Mutual
  <2>4. Unique(ends, {})
    BY <2>1 DEF Unique, Unused
  <2>5. \A f \in Ptr : Tracker.flow[f] = NewFlowState
    BY Zenon DEF SysInit, Init, Tracker
  <2>6. FlowTrue(NewFlowState, ends)
    BY Zenon DEF FlowTrue, NewFlowState
  <2>. QED
    BY Zenon, <2>1, <2>2, <2>3, <2>4, <2>5, <2>6 DEF PairInv, Pairing, Truthful
<1>2. TruthInv /\ [SysNext]_sysVars => (PairInv /\ Truthful(Tracker, ends))'
  <2>. SUFFICES ASSUME TruthInv, [SysNext]_sysVars PROVE PairInv' /\ Truthful(Tracker, ends)'
    OBVIOUS
  <2>1. CASE UNCHANGED sysVars
    <3>1. Tracker' = Tracker /\ ends' = ends /\ net' = net
      BY Zenon, <2>1 DEF sysVars, Tracker
    <3>. QED
      BY Zenon, <3>1 DEF TruthInv, PairInv
  <2>2. CASE Restart
    <3>1. ends' = ends /\ net' = net /\ \A f \in Ptr : Tracker'.flow[f] = NewFlowState
      BY Zenon, <2>2 DEF Restart, Tracker
    <3>2. FlowTrue(NewFlowState, ends)
      BY Zenon DEF FlowTrue, NewFlowState
    <3>. QED
      BY Zenon, <3>1, <3>2 DEF TruthInv, PairInv, Truthful
  <2>3. ASSUME NEW x \in Ends PROVE ~Recycle(x)
    BY DEF Recycle
  <2>. QED
    BY Zenon, <2>1, <2>2, <2>3, EndpointTrue, NetworkTrue DEF SysNext, Endpoints
<1>. QED
  BY <1>1, <1>2, SystemInvariant, PTL DEF SysSpec, TruthInv

\* With ids that are not used twice, for any number of peers and connections:
\* whatever is lost, repeated, reordered or dropped behind the tracker, and
\* whenever the context is replaced, ctcm_query_ipv4 answers an open connection
\* with its own QPN or not at all.
THEOREM AnswersNeverWrong ==
    ASSUME Reusable = {}
    PROVE  SysSpec => []NeverWrong
<1>1. TruthInv => NeverWrong
  <2>. SUFFICES ASSUME TruthInv, NEW x \in HostEnd, Open(x), Answer(x) # 0
                PROVE  Answer(x) = ends[x].qpn
    BY DEF NeverWrong
  <2>. DEFINE R == Requesters(net)
              y == ends[x].other
              k == <<y[1], ends[x].oqpn>>
  <2>1. /\ Pairing(ends, R) /\ Sound(Tracker) /\ Truthful(Tracker, ends)
        /\ x \in Ends /\ y \in Ends /\ ends[y].other = x /\ ends[x].state = "ESTABLISHED"
    BY Zenon DEF TruthInv, PairInv, SysInv, IInv, Open, Ends
  <2>2. ends[x].oqpn = ends[y].qpn /\ y \in PeerEnd /\ ends[y].qpn \in Id0(Qpn)
    <3>1. y \in FarEnd(x)
      BY Zenon, <2>1 DEF TruthInv, SysInv, EndsInv, EndOK
    <3>2. y[1] # HostAddr
      BY Zenon, <3>1, SystemAssumption DEF FarEnd
    <3>3. ends[x].oqpn = ends[y].qpn
      BY Zenon, <2>1, EndsArePairs DEF Pairing, EndFits
    <3>4. ends[y].qpn \in Id0(Qpn)
      BY Zenon, <2>1 DEF Pairing, Endpoint
    <3>. QED
      BY Zenon, <2>1, <3>2, <3>3, <3>4 DEF Ends, HostEnd
  <2>3. k \in FlowKey /\ Tracker.qpn_map[k] # Absent /\ Answer(x) = Tracker.qpn_map[k]
    BY <2>2 DEF Answer, get_source_qpn, FlowKey, PeerEnd, Id0
  <2>4. PICK f \in Ptr : Answers(Tracker, f, k)
    BY Zenon, <2>1, <2>3 DEF Sound, Exact
  <2>. DEFINE s == Tracker.flow[f]
              w == <<HostAddr, s.local_id>>
              z == s.remote_id
  <2>5. /\ s.local_id \in Id0(HostId) /\ z \in CmFlowKey
        /\ z[1] = y[1] /\ s.remote_qpn = ends[x].oqpn /\ s.local_qpn = Answer(x)
        /\ s.local_qpn # 0 /\ s.remote_qpn # 0
    BY Zenon, <2>1, <2>3, <2>4 DEF Answers, get_flow_key, Sound, TrackerType, FlowState
  <2>6. /\ s.local_id # 0 /\ IsKey(z) /\ s.local_qpn = ends[w].qpn
        /\ s.remote_qpn = ends[z].qpn /\ Paired(ends, w, z)
    BY Zenon, <2>1, <2>5 DEF Truthful, FlowTrue
  <2>7. w \in Ends /\ z \in Ends
    BY Zenon, <2>5, <2>6, IdsNameEnds
  <2>8. z = y
    BY Zenon, <2>1, <2>2, <2>5, <2>6, <2>7 DEF Pairing, Unique
  <2>9. w[1] = x[1]
    BY DEF HostEnd
  <2>. HIDE DEF y, w, z
  <2>10. w = x
    <3>1. ends[x].other = y
      BY DEF y
    <3>. QED
      BY Zenon, <2>1, <2>6, <2>7, <2>8, <2>9, <3>1, PartnerUnique
  <2>. QED
    BY Zenon, <2>5, <2>6, <2>10
<1>. QED
  BY <1>1, TruthInvariant, PTL
=============================================================================
