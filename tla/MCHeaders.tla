----------------------------- MODULE MCHeaders ------------------------------
(***************************************************************************)
(* The accessors of rxe_hdr.h for TLC.  A behaviour is about one subject:  *)
(* a BTH under the setters of BthSetters, or a packet with the extended    *)
(* headers of RxeHdr.  The other one is there and left alone.              *)
(***************************************************************************)
EXTENDS BthSetters, RxeHdr

VARIABLE subject    \* what the setters are called for

\* Every opcode ib_pack.h defines.
AllOpcodes == IB_OPCODES

\* Arguments at the edges of the fields and beyond them.
MCSmall == {0, 6, 31}
MCQp == {0, 2^24 + 1}

Zeroed == [opcode |-> 0, flags |-> 0, pkey |-> 0,
           qpn |-> [top |-> 0, low |-> 0], apsn |-> [top |-> 0, low |-> 0]]
Recycled == [opcode |-> 255, flags |-> 255, pkey |-> 65535,
             qpn |-> [top |-> 255, low |-> 2^24 - 1],
             apsn |-> [top |-> 255, low |-> 2^24 - 1]]

MCStart == {Zeroed, Recycled}

HeadersInit ==
    /\ subject \in {"BTH", "packet"}
    /\ Init
    /\ SettersInit
    /\ IF subject = "BTH"
       THEN pkt.opcode = IB_OPCODE(UD, SEND_ONLY) /\ payload_size(pkt, mem) = 0
       ELSE bth = Zeroed

HeadersNext ==
    \/ subject = "BTH" /\ SettersNext /\ UNCHANGED <<pkt, mem, want, subject>>
    \/ subject = "packet" /\ Next /\ UNCHANGED <<bth, val, subject>>

HeadersSpec == HeadersInit /\ [][HeadersNext]_<<pkt, mem, want, bth, val, subject>>

\* No BTH setter carries into a neighbouring byte or word (BthSetters), and no
\* setter of an extended header moves the packet or overfills a byte (RxeHdr).
HeadersTypeOK == BthTypeOK /\ TypeOK
=============================================================================
