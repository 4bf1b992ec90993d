-------------------------------- MODULE Ctcm --------------------------------
(***************************************************************************)
(* The library's interface and its packet parser (main.cpp, parser.cpp,    *)
(* parser.h, libconntrack-cm.h) around a pool of DPDK mbufs.               *)
(*                                                                         *)
(* The parser leaves its result in two dynamic fields of the mbuf: the     *)
(* offsets of the BTH and of the CM MAD, 0 for none.  DPDK recycles mbufs  *)
(* and does not clear dynamic fields, so an mbuf arrives with the offsets  *)
(* of the packet it held before.  The application parses every packet it   *)
(* receives and then processes it; in between it may handle other mbufs    *)
(* and replace the context.                                                *)
(*                                                                         *)
(* The tracker is here only as what it is given; CmTracker models it.      *)
(***************************************************************************)
EXTENDS Naturals

CONSTANTS
    Mbuf,       \* the pool
    Packets,    \* UDP datagrams that may arrive
    DynSlot,    \* places for dynamic fields DPDK may have left
    None        \* no context, no packet, not registered

L2 == 14        \* l2_len and l3_len, which the application sets
L3 == 20

\* sizeof of the headers
UdpHdr == 8
RxeBth == 12
RxeDeth == 8
IbMadHdr == 24
Icrc == 4
OffsetsSize == 12   \* ctcm_dynfield_offsets

\* What the parser reads of a datagram: the UDP length field, the port, BTH
\* opcode and destination QPN, MAD class; pkt_len is the length of the mbuf.
ASSUME PacketsAssumption ==
    \A p \in Packets :
       /\ p.udp_len \in Nat /\ p.pkt_len \in Nat
       /\ p.pkt_len >= L2 + L3 + UdpHdr
       /\ p.roce \in BOOLEAN /\ p.ud_send_only \in BOOLEAN
       /\ p.qp1 \in BOOLEAN /\ p.cm \in BOOLEAN

ASSUME NoneAssumption ==
    None \notin Packets \cup DynSlot \cup [bth: DynSlot, mad: DynSlot]

VARIABLES
    dyn,        \* DPDK's registry: slot of "BTH" and "IB_MAD_HDR", or None
    used,       \* slots DPDK has given out, to this library or another
    ctx,        \* the context's dynfield_offsets, or None
    app,        \* the copy ctcm_dynfield_offsets gave the application, or None
    mbuf,       \* each mbuf's packet and its dynamic fields
    parsed,     \* mbufs parsed since they were received
    seen,       \* the last packet given to the tracker, or None
    abort       \* an assert has failed

vars == <<dyn, used, ctx, app, mbuf, parsed, seen, abort>>

Init ==
    /\ dyn = [n \in {"BTH", "IB_MAD_HDR"} |-> None]
    /\ used = {}
    /\ ctx = None
    /\ app = None
    /\ mbuf = [m \in Mbuf |-> [pkt |-> None, field |-> [x \in DynSlot |-> 0]]]
    /\ parsed = {}
    /\ seen = None
    /\ abort = FALSE

-----------------------------------------------------------------------------
(* The parser *)

extract_bth_ok(p, len) == len >= RxeBth + UdpHdr + Icrc /\ p.roce

extract_deth_ok(p, len) == p.ud_send_only /\ len >= RxeDeth

extract_mad_ok(p, len) == len >= IbMadHdr

BthOffset == L2 + L3 + UdpHdr
MadOffset == BthOffset + RxeBth + RxeDeth

\* Mutant: the destination QP is not looked at.
HasMad_any_qp(p) ==
    /\ extract_bth_ok(p, p.udp_len)
    /\ extract_deth_ok(p, p.udp_len - (RxeBth + Icrc))
    /\ extract_mad_ok(p, p.udp_len - (RxeBth + Icrc) - RxeDeth)
    /\ p.cm

\* The remaining length is reduced by each header but the UDP one.
HasMad(p) ==
    LET afterBth == p.udp_len - (RxeBth + Icrc)
        afterDeth == afterBth - RxeDeth
    IN  /\ extract_bth_ok(p, p.udp_len)
        /\ extract_deth_ok(p, afterBth)
        /\ p.qp1
        /\ extract_mad_ok(p, afterDeth)
        /\ p.cm

\* Mutant: the MAD offset is written only when there is one.
parse_packet_keeps_mad(b, o) ==
    [b EXCEPT !.field[o.bth] = IF extract_bth_ok(b.pkt, b.pkt.udp_len)
                               THEN BthOffset ELSE 0,
              !.field[o.mad] = IF HasMad(b.pkt) THEN MadOffset ELSE @]

\* Mutant: the MAD is taken to start where the DETH does.
parse_packet_at_deth(b, o) ==
    [b EXCEPT !.field[o.bth] = IF extract_bth_ok(b.pkt, b.pkt.udp_len)
                               THEN BthOffset ELSE 0,
              !.field[o.mad] = IF HasMad(b.pkt) THEN BthOffset + RxeBth ELSE 0]

\* Both fields are written for every packet, at the places o names.
parse_packet(b, o) ==
    [b EXCEPT !.field[o.bth] = IF extract_bth_ok(b.pkt, b.pkt.udp_len)
                               THEN BthOffset ELSE 0,
              !.field[o.mad] = IF HasMad(b.pkt) THEN MadOffset ELSE 0]

\* ctcm_mbuf_set_* and ctcm_mbuf_get_*: assert(offset < pkt_len).
InPacket(b, slot) == b.field[slot] < b.pkt.pkt_len

-----------------------------------------------------------------------------
(* The interface *)

\* rte_mbuf_dynfield_register: the slot a name already has, or a free one; it
\* fails when no slot is left.
Register(n, u) == IF dyn[n] # None THEN {dyn[n]} ELSE DynSlot \ u

\* Mutant: every context registers fields of its own.
ctcm_create_own_fields ==
    /\ ctx = None
    /\ \E b, m \in DynSlot \ used :
         /\ b # m
         /\ dyn' = [dyn EXCEPT !["BTH"] = b, !["IB_MAD_HDR"] = m]
         /\ used' = used \cup {b, m}
         /\ ctx' = [bth |-> b, mad |-> m]
    /\ UNCHANGED <<app, mbuf, parsed, seen, abort>>

\* parser_context registers the two fields in turn; a failure throws, and
\* leaves the first field registered.
ctcm_create ==
    /\ ctx = None
    /\ \/ /\ Register("BTH", used) = {}
          /\ UNCHANGED <<dyn, used, ctx>>
       \/ \E b \in Register("BTH", used) :
             \/ /\ Register("IB_MAD_HDR", used \cup {b}) = {}
                /\ dyn' = [dyn EXCEPT !["BTH"] = b]
                /\ used' = used \cup {b}
                /\ UNCHANGED ctx
             \/ \E m \in Register("IB_MAD_HDR", used \cup {b}) :
                  /\ dyn' = [dyn EXCEPT !["BTH"] = b, !["IB_MAD_HDR"] = m]
                  /\ used' = used \cup {b, m}
                  /\ ctx' = [bth |-> b, mad |-> m]
    /\ UNCHANGED <<app, mbuf, parsed, seen, abort>>

\* Another library takes a slot.
OtherRegister ==
    /\ \E x \in DynSlot \ used : used' = used \cup {x}
    /\ UNCHANGED <<dyn, ctx, app, mbuf, parsed, seen, abort>>

ctcm_destroy ==
    /\ ctx # None
    /\ ctx' = None
    /\ UNCHANGED <<dyn, used, app, mbuf, parsed, seen, abort>>

\* Refused (ENOMEM) when the caller's structure is too small.
ctcm_dynfield_offsets ==
    /\ ctx # None
    /\ \E size \in {OffsetsSize - 4, OffsetsSize, OffsetsSize + 4} :
          app' = IF size < OffsetsSize THEN app ELSE ctx
    /\ UNCHANGED <<dyn, used, ctx, mbuf, parsed, seen, abort>>

\* A free mbuf receives a packet; its dynamic fields keep their old values.
Receive ==
    /\ \E m \in Mbuf, p \in Packets :
         /\ mbuf[m].pkt = None
         /\ mbuf' = [mbuf EXCEPT ![m].pkt = p]
    /\ UNCHANGED <<dyn, used, ctx, app, parsed, seen, abort>>

ctcm_parse_packet ==
    /\ ctx # None
    /\ \E m \in Mbuf :
         LET b == parse_packet(mbuf[m], ctx)
         IN  /\ mbuf[m].pkt # None
             /\ abort' = ~(InPacket(b, ctx.bth) /\ InPacket(b, ctx.mad))
             /\ mbuf' = IF abort' THEN mbuf ELSE [mbuf EXCEPT ![m] = b]
             /\ parsed' = IF abort' THEN parsed ELSE parsed \cup {m}
    /\ UNCHANGED <<dyn, used, ctx, app, seen>>

\* The tracker runs if there is a MAD offset.
ctcm_process_packet ==
    /\ ctx # None
    /\ \E m \in parsed :
         /\ abort' = ~InPacket(mbuf[m], ctx.mad)
         /\ seen' = IF ~abort' /\ mbuf[m].field[ctx.mad] # 0 THEN mbuf[m].pkt ELSE seen
    /\ UNCHANGED <<dyn, used, ctx, app, mbuf, parsed>>

\* The mbuf goes back to the pool.
Recycle ==
    /\ \E m \in Mbuf :
         /\ mbuf[m].pkt # None
         /\ mbuf' = [mbuf EXCEPT ![m].pkt = None]
         /\ parsed' = parsed \ {m}
    /\ UNCHANGED <<dyn, used, ctx, app, seen, abort>>

Next ==
    /\ ~abort
    /\ \/ ctcm_create \/ ctcm_destroy \/ ctcm_dynfield_offsets
       \/ OtherRegister \/ Receive \/ ctcm_parse_packet \/ ctcm_process_packet
       \/ Recycle

Spec == Init /\ [][Next]_vars

-----------------------------------------------------------------------------
(* Properties *)

TypeOK ==
    /\ dyn \in [{"BTH", "IB_MAD_HDR"} -> DynSlot \cup {None}]
    /\ used \subseteq DynSlot
    /\ ctx \in {None} \cup [bth: DynSlot, mad: DynSlot]
    /\ app \in {None} \cup [bth: DynSlot, mad: DynSlot]
    /\ mbuf \in [Mbuf -> [pkt: Packets \cup {None},
                          field: [DynSlot -> {0, BthOffset, MadOffset}]]]
    /\ parsed \subseteq {m \in Mbuf : mbuf[m].pkt # None}
    /\ seen \in Packets \cup {None}
    /\ abort \in BOOLEAN

\* A RoCE datagram that is a CM MAD of the general services QP, whatever its
\* length.
IsCm(p) == p.roce /\ p.ud_send_only /\ p.qp1 /\ p.cm

\* The length of a datagram with all the headers and the ICRC.
WholeMad == UdpHdr + RxeBth + RxeDeth + IbMadHdr + Icrc

\* After ctcm_parse_packet the two fields describe the packet the mbuf holds
\* now: no offset of a packet it held before survives, and no complete CM MAD
\* is missed.  This holds also when the context is replaced after the parse.
ParsedFieldsFresh ==
    \A m \in parsed :
       LET b == mbuf[m]
           bth == b.field[dyn["BTH"]]
           mad == b.field[dyn["IB_MAD_HDR"]]
       IN  /\ mad \in {0, MadOffset} /\ bth \in {0, BthOffset}
           /\ mad # 0 => IsCm(b.pkt) /\ bth # 0
           /\ bth # 0 <=> b.pkt.roce /\ b.pkt.udp_len >= UdpHdr + RxeBth + Icrc
           /\ IsCm(b.pkt) /\ b.pkt.udp_len >= WholeMad => mad # 0

\* The tracker is given CM MADs only.
OnlyCmTracked == seen # None => IsCm(seen)

\* The places the application was told of are the ones the library uses, also
\* under a later context and after a refused call.
AppReadsParserFields == app # None /\ ctx # None => app = ctx

\* A MAD offset is recorded only for a datagram that contains the whole MAD
\* header.  ("Return the MAD header if the UDP packet contains a CM MAD.",
\* parser.h.)
MadInsideDatagram ==
    \A m \in parsed :
       mbuf[m].field[dyn["IB_MAD_HDR"]] # 0 => mbuf[m].pkt.udp_len >= WholeMad
=============================================================================
