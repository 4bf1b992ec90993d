-------------------------------- MODULE Cnp --------------------------------
(***************************************************************************)
(* Generation of RoCE congestion notification packets (cnp.cpp).           *)
(*                                                                         *)
(* An application fills an mbuf with the CNP template once, completes the  *)
(* addresses, and then calls ctcm_generate_cnp for one QP after another,   *)
(* sending a copy each time.  Routers on the way may change what the ICRC  *)
(* leaves out, and a receiver checks it.  The application, the routers and *)
(* the receiver are external.                                              *)
(*                                                                         *)
(* The ICRC of a packet is modelled by the bytes it is computed over (no   *)
(* collisions); fields the library leaves 0 and nobody sets are left out.  *)
(***************************************************************************)
EXTENDS Bth

CONSTANTS
    Addr,       \* IPv4 addresses
    DestQpn,    \* arguments of ctcm_generate_cnp
    Ttl, Tos,   \* values the application and routers put into the IPv4 header
    Room,       \* tailrooms of mbufs, in bytes
    None        \* no bytes, no ICRC, no packet

\* The headers of a packet, the bytes the ICRC is computed over, and a packet.
IpHdr == [version: Nat, ihl: Nat, ttl: Nat, protocol: Nat, frag_off: Nat, tos: Nat,
          tot_len: Nat, check: Nat, saddr: Addr \cup {0}, daddr: Addr \cup {0}]
UdpHdr == [sport: Nat, dport: Nat, ulen: Nat, check: Nat]
IcrcBytes == [ip: IpHdr, udp: UdpHdr, bth: rxe_bth]
Packet == [ip: IpHdr, udp: UdpHdr, bth: rxe_bth, icrc: IcrcBytes \cup {None}]

\* QPNs are uint32_t, TTL and ToS are bytes, and no packet is not a packet.
ASSUME CnpAssumption ==
    /\ DestQpn \subseteq Nat /\ Room \subseteq Nat
    /\ Ttl \subseteq Unsigned(8) /\ Tos \subseteq Unsigned(8)
    /\ None \notin Packet

VARIABLES
    room,       \* tailroom of the mbuf
    cnp,        \* the mbuf: the metadata and the bytes of the packet
    ready,      \* generated since the application last changed it
    wire        \* the last packet sent, as routers have changed it, or None

vars == <<room, cnp, ready, wire>>

CTCM_BTH_LENGTH == 12
CTCM_CNP_LENGTH == 16
CTCM_ICRC_LENGTH == 4
CTCM_CNP_TOTAL_LENGTH == CTCM_BTH_LENGTH + CTCM_CNP_LENGTH + CTCM_ICRC_LENGTH

\* sizeof(iphdr), sizeof(udphdr)
IpLength == 20
UdpLength == 8

TemplateLength == IpLength + UdpLength + CTCM_CNP_TOTAL_LENGTH

Zeroed == [opcode |-> 0, flags |-> 0, pkey |-> 0,
           qpn |-> [top |-> 0, low |-> 0], apsn |-> [top |-> 0, low |-> 0]]

TemplateBth ==
    bth_set_pkey(bth_set_becn(bth_set_opcode(Zeroed, 129), 1), 65535)

\* The bytes ctcm_fill_cnp_template writes.
Template ==
    [ip |-> [version |-> 4, ihl |-> IpLength \div 4, ttl |-> 255,
             protocol |-> 17, frag_off |-> 16384,
             tos |-> 194, tot_len |-> TemplateLength, check |-> 0,
             saddr |-> 0, daddr |-> 0],
     udp |-> [sport |-> 61440, dport |-> 4791,
              ulen |-> UdpLength + CTCM_CNP_TOTAL_LENGTH, check |-> 0],
     bth |-> TemplateBth,
     icrc |-> None]

\* Mutant: ToS, which routers rewrite, is left in the checksum.
cnp_icrc_with_tos(p) ==
    [ip |-> [p.ip EXCEPT !.ttl = 255, !.check = 65535],
     udp |-> [p.udp EXCEPT !.check = 65535],
     bth |-> [p.bth EXCEPT !.qpn.top = 255]]

\* cnp_icrc_pseudo_packet: the variant fields are replaced by ones.
cnp_icrc_pseudo_packet(p) ==
    [ip |-> [p.ip EXCEPT !.ttl = 255, !.tos = 255, !.check = 65535],
     udp |-> [p.udp EXCEPT !.check = 65535],
     bth |-> [p.bth EXCEPT !.qpn.top = 255]]

\* What a receiver computes the ICRC over: the packet as it arrives, with ones
\* for what Route may have changed and for the rest of the byte of FECN.
receiver_icrc(p) ==
    [ip |-> [p.ip EXCEPT !.ttl = 255, !.tos = 255, !.check = 65535],
     udp |-> [p.udp EXCEPT !.check = 65535],
     bth |-> [p.bth EXCEPT !.qpn.top = 255]]

\* A fresh mbuf: no bytes, no metadata.
EmptyMbuf == [ptype |-> "unknown", l3_len |-> 0, l4_len |-> 0, data |-> None]

Init ==
    /\ room \in Room
    /\ cnp = EmptyMbuf
    /\ ready = FALSE
    /\ wire = None

\* The metadata is set first; without room for the headers, -1 is returned.
ctcm_fill_cnp_template ==
    /\ cnp.data = None
    /\ cnp' = [ptype |-> "ipv4_udp", l3_len |-> IpLength, l4_len |-> UdpLength,
               data |-> IF TemplateLength <= room THEN Template ELSE None]
    /\ room' = IF TemplateLength <= room THEN room - TemplateLength ELSE room
    /\ UNCHANGED <<ready, wire>>

\* After a -1, another mbuf.
NewMbuf ==
    /\ cnp.data = None /\ cnp # EmptyMbuf
    /\ room' \in Room
    /\ cnp' = EmptyMbuf
    /\ UNCHANGED <<ready, wire>>

\* The application completes the template, before it generates the packet.
Complete ==
    /\ cnp.data # None
    /\ \E s, d \in Addr, ttl \in Ttl, tos \in Tos :
          cnp' = [cnp EXCEPT !.data.ip =
                     [@ EXCEPT !.saddr = s, !.daddr = d, !.ttl = ttl, !.tos = tos]]
    /\ ready' = FALSE
    /\ UNCHANGED <<room, wire>>

ctcm_generate_cnp ==
    /\ cnp.data # None
    /\ \E dest_qpn \in DestQpn :
         LET p == [cnp.data EXCEPT !.bth = bth_set_qpn(@, dest_qpn)]
         IN  cnp' = [cnp EXCEPT !.data = [p EXCEPT !.icrc = cnp_icrc_pseudo_packet(p)]]
    /\ ready' = TRUE
    /\ UNCHANGED <<room, wire>>

Send ==
    /\ ready
    /\ wire' = cnp.data
    /\ UNCHANGED <<room, cnp, ready>>

\* A router may rewrite TTL, ToS and FECN, and writes the checksums: of the IPv4
\* header (here a function of the TTL) and of the datagram (of FECN).
Route ==
    /\ wire # None
    /\ \E ttl \in Ttl, tos \in Tos, fecn \in {0, 1} :
          wire' = [wire EXCEPT !.ip = [@ EXCEPT !.ttl = ttl, !.tos = tos, !.check = ttl],
                               !.udp = [@ EXCEPT !.check = fecn],
                               !.bth = bth_set_fecn(@, fecn)]
    /\ UNCHANGED <<room, cnp, ready>>

Next == \/ ctcm_fill_cnp_template \/ NewMbuf \/ Complete \/ ctcm_generate_cnp
        \/ Send \/ Route

Spec == Init /\ [][Next]_vars

-----------------------------------------------------------------------------
(* Properties *)

\* The bytes of the mbuf are absent or a packet with well-formed headers, and
\* the append never takes more than the tailroom.
TypeOK == room \in Nat /\ {cnp.data, wire} \subseteq Packet \cup {None}

\* A receiver that computes the ICRC over the packet as it arrives finds the
\* one in the packet, for every QP the template was reused for and whatever
\* routers did to TTL, ToS and the congestion bits.
WireIcrcValid == wire # None => wire.icrc = receiver_icrc(wire)

\* Every CNP sent, also from a template that was used before, is a CNP: opcode
\* 0x81 with BECN set, for the default partition, and its length fields agree
\* with each other and with the headers.
SentIsCnp ==
    wire # None =>
       /\ bth_opcode(wire.bth) = 129 /\ bth_becn(wire.bth) = 1
       /\ bth_pkey(wire.bth) = 65535
       /\ wire.ip.tot_len = wire.ip.ihl * 4 + wire.udp.ulen
       /\ wire.udp.ulen = UdpLength + CTCM_CNP_TOTAL_LENGTH
=============================================================================
