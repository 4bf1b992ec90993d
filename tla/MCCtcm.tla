------------------------------- MODULE MCCtcm -------------------------------
(***************************************************************************)
(* Ctcm with one datagram per reason the parser has to stop, at the        *)
(* lengths where its comparisons change.                                   *)
(***************************************************************************)
EXTENDS Ctcm, TLC

Datagram(len, roce, ud, qp1, cm) ==
    [udp_len |-> len, pkt_len |-> L2 + L3 + len, roce |-> roce,
     ud_send_only |-> ud, qp1 |-> qp1, cm |-> cm]

\* Not RoCE, too short for a BTH, not UD, to another QP, not CM, a CM MAD.
Complete ==
    {Datagram(WholeMad, FALSE, TRUE, TRUE, TRUE),
     Datagram(UdpHdr + RxeBth + Icrc - 1, TRUE, TRUE, TRUE, TRUE),
     Datagram(UdpHdr + RxeBth + Icrc, TRUE, FALSE, TRUE, TRUE),
     Datagram(WholeMad, TRUE, TRUE, FALSE, TRUE),
     Datagram(WholeMad, TRUE, TRUE, TRUE, FALSE),
     Datagram(WholeMad, TRUE, TRUE, TRUE, TRUE)}

\* Cut off on the way: the mbuf is shorter than the UDP header says.
Truncated == [Datagram(WholeMad, TRUE, TRUE, TRUE, TRUE)
                EXCEPT !.pkt_len = L2 + L3 + UdpHdr]

WithTruncated == Complete \cup {Truncated}

\* Buffers and slots are interchangeable.
PoolSymmetry == Permutations(Mbuf) \cup Permutations(DynSlot)

\* Around the shortest CM datagram.
ShortMads == {Datagram(len, TRUE, TRUE, TRUE, TRUE) : len \in WholeMad - 9 .. WholeMad}
=============================================================================
