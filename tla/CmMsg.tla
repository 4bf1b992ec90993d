------------------------------- MODULE CmMsg -------------------------------
(***************************************************************************)
(* The layout of the CM messages (ibta_vol1_c12.h) and the accessors of    *)
(* their fields (iba.h, bitfield.h), through which the tracker's handlers  *)
(* read ids and QPNs.                                                      *)
(*                                                                         *)
(* A MAD is the set of its bits that are 1, counted in the order they are  *)
(* sent (bit 0 is the top bit of byte 0).  A word or a field value is the  *)
(* set of its bits that are 1, bit 0 being the lowest: the big-endian      *)
(* conversions are the step between the two numberings.                    *)
(*                                                                         *)
(* The state machine is a sender that fills in the fields of a message in  *)
(* any order, again and again.                                             *)
(***************************************************************************)
EXTENDS Integers

CONSTANTS
    MaxSets,    \* bound on the number of sets
    None        \* no field has been set, no value, a null pointer

\* sizeof(struct ib_mad_hdr), and of a MAD, in bytes
MadHdr == 24
MadSize == 256

-----------------------------------------------------------------------------
(* Field locations: offset in bytes, mask as <<high bit, low bit>> of a word *)
(* of num bits; a field that is only copied (mem) has no mask.               *)

IBA_FIELD_BLOC(byte, bit, n) ==
    [off |-> byte, hi |-> 7 - bit, lo |-> 7 - bit - (n - 1), num |-> 8, mem |-> FALSE]
IBA_FIELD8_LOC(byte, n) == IBA_FIELD_BLOC(byte, 0, n)

IBA_FIELD16_LOC(byte, n) ==
    LET hi == 15 - (byte % 2) * 8
    IN  [off |-> byte - (byte % 2), hi |-> hi, lo |-> hi - (n - 1), num |-> 16, mem |-> FALSE]

\* Mutant: the low end of the mask is one too low.
IBA_FIELD32_LOC_wide(byte, n) ==
    LET hi == 31 - (byte % 4) * 8
    IN  [off |-> byte - (byte % 4), hi |-> hi, lo |-> hi - n, num |-> 32, mem |-> FALSE]

IBA_FIELD32_LOC(byte, n) ==
    LET hi == 31 - (byte % 4) * 8
    IN  [off |-> byte - (byte % 4), hi |-> hi, lo |-> hi - (n - 1), num |-> 32, mem |-> FALSE]

IBA_FIELD64_LOC(byte) ==
    [off |-> byte, hi |-> 63, lo |-> 0, num |-> 64, mem |-> FALSE]
IBA_FIELD_MLOC(byte, n) ==
    [off |-> byte, hi |-> n - 1, lo |-> 0, num |-> n, mem |-> TRUE]

\* Mutant: the MAD header is forgotten.
CM_FIELD32_LOC_no_header(byte, n) == IBA_FIELD32_LOC(byte, n)

\* CM_FIELD_BLOC, CM_FIELD8_LOC, and so on: offsets count from the end of the
\* MAD header.
B(byte, bit, n) == IBA_FIELD_BLOC(byte + MadHdr, bit, n)
F8(byte, n) == IBA_FIELD8_LOC(byte + MadHdr, n)
F16(byte, n) == IBA_FIELD16_LOC(byte + MadHdr, n)
CM_FIELD32_LOC(byte, n) == IBA_FIELD32_LOC(byte + MadHdr, n)
F64(byte) == IBA_FIELD64_LOC(byte + MadHdr)
M(byte, n) == IBA_FIELD_MLOC(byte + MadHdr, n)
F32(byte, n) == CM_FIELD32_LOC(byte, n)

-----------------------------------------------------------------------------
(* The messages *)

cm_req_msg ==
    [LOCAL_COMM_ID |-> F32(0, 32), SERVICE_ID |-> F64(8), LOCAL_CA_GUID |-> F64(16),
     LOCAL_Q_KEY |-> F32(28, 32), LOCAL_QPN |-> F32(32, 24),
     RESPONDER_RESOURCES |-> F8(35, 8), LOCAL_EECN |-> F32(36, 24),
     INITIATOR_DEPTH |-> F8(39, 8), REMOTE_EECN |-> F32(40, 24),
     REMOTE_CM_RESPONSE_TIMEOUT |-> F8(43, 5), TRANSPORT_SERVICE_TYPE |-> B(43, 5, 2),
     END_TO_END_FLOW_CONTROL |-> B(43, 7, 1), STARTING_PSN |-> F32(44, 24),
     LOCAL_CM_RESPONSE_TIMEOUT |-> F8(47, 5), RETRY_COUNT |-> B(47, 5, 3),
     PARTITION_KEY |-> F16(48, 16), PATH_PACKET_PAYLOAD_MTU |-> F8(50, 4),
     RDC_EXISTS |-> B(50, 4, 1), RNR_RETRY_COUNT |-> B(50, 5, 3),
     MAX_CM_RETRIES |-> F8(51, 4), SRQ |-> B(51, 4, 1),
     EXTENDED_TRANSPORT_TYPE |-> B(51, 5, 3), PRIMARY_LOCAL_PORT_LID |-> F16(52, 16),
     PRIMARY_REMOTE_PORT_LID |-> F16(54, 16), PRIMARY_LOCAL_PORT_GID |-> M(56, 128),
     PRIMARY_REMOTE_PORT_GID |-> M(72, 128), PRIMARY_FLOW_LABEL |-> F32(88, 20),
     PRIMARY_PACKET_RATE |-> B(91, 2, 6), PRIMARY_TRAFFIC_CLASS |-> F8(92, 8),
     PRIMARY_HOP_LIMIT |-> F8(93, 8), PRIMARY_SL |-> F8(94, 4),
     PRIMARY_SUBNET_LOCAL |-> B(94, 4, 1), PRIMARY_LOCAL_ACK_TIMEOUT |-> F8(95, 5),
     ALTERNATE_LOCAL_PORT_LID |-> F16(96, 16), ALTERNATE_REMOTE_PORT_LID |-> F16(98, 16),
     ALTERNATE_LOCAL_PORT_GID |-> M(100, 128), ALTERNATE_REMOTE_PORT_GID |-> M(116, 128),
     ALTERNATE_FLOW_LABEL |-> F32(132, 20), ALTERNATE_PACKET_RATE |-> B(135, 2, 6),
     ALTERNATE_TRAFFIC_CLASS |-> F8(136, 8), ALTERNATE_HOP_LIMIT |-> F8(137, 8),
     ALTERNATE_SL |-> F8(138, 4), ALTERNATE_SUBNET_LOCAL |-> B(138, 4, 1),
     ALTERNATE_LOCAL_ACK_TIMEOUT |-> F8(139, 5), SAP_SUPPORTED |-> B(139, 5, 1),
     PRIVATE_DATA |-> M(140, 736)]

cm_mra_msg ==
    [LOCAL_COMM_ID |-> F32(0, 32), REMOTE_COMM_ID |-> F32(4, 32),
     MESSAGE_MRAED |-> F8(8, 2), SERVICE_TIMEOUT |-> F8(9, 5), PRIVATE_DATA |-> M(10, 1776)]

cm_rej_msg ==
    [LOCAL_COMM_ID |-> F32(0, 32), REMOTE_COMM_ID |-> F32(4, 32),
     MESSAGE_REJECTED |-> F8(8, 2), REJECTED_INFO_LENGTH |-> F8(9, 7),
     REASON |-> F16(10, 16), ARI |-> M(12, 576), PRIVATE_DATA |-> M(84, 1184)]

cm_rep_msg ==
    [LOCAL_COMM_ID |-> F32(0, 32), REMOTE_COMM_ID |-> F32(4, 32),
     LOCAL_Q_KEY |-> F32(8, 32), LOCAL_QPN |-> F32(12, 24),
     LOCAL_EE_CONTEXT_NUMBER |-> F32(16, 24), STARTING_PSN |-> F32(20, 24),
     RESPONDER_RESOURCES |-> F8(24, 8), INITIATOR_DEPTH |-> F8(25, 8),
     TARGET_ACK_DELAY |-> F8(26, 5), FAILOVER_ACCEPTED |-> B(26, 5, 2),
     END_TO_END_FLOW_CONTROL |-> B(26, 7, 1), RNR_RETRY_COUNT |-> F8(27, 3),
     SRQ |-> B(27, 3, 1), LOCAL_CA_GUID |-> F64(28), PRIVATE_DATA |-> M(36, 1568)]

cm_rtu_msg ==
    [LOCAL_COMM_ID |-> F32(0, 32), REMOTE_COMM_ID |-> F32(4, 32), PRIVATE_DATA |-> M(8, 1792)]

cm_dreq_msg ==
    [LOCAL_COMM_ID |-> F32(0, 32), REMOTE_COMM_ID |-> F32(4, 32),
     REMOTE_QPN_EECN |-> F32(8, 24), PRIVATE_DATA |-> M(12, 1760)]

cm_drep_msg ==
    [LOCAL_COMM_ID |-> F32(0, 32), REMOTE_COMM_ID |-> F32(4, 32), PRIVATE_DATA |-> M(8, 1792)]

cm_lap_msg ==
    [LOCAL_COMM_ID |-> F32(0, 32), REMOTE_COMM_ID |-> F32(4, 32),
     REMOTE_QPN_EECN |-> F32(12, 24), REMOTE_CM_RESPONSE_TIMEOUT |-> F8(15, 5),
     ALTERNATE_LOCAL_PORT_LID |-> F16(20, 16), ALTERNATE_REMOTE_PORT_LID |-> F16(22, 16),
     ALTERNATE_LOCAL_PORT_GID |-> M(24, 128), ALTERNATE_REMOTE_PORT_GID |-> M(40, 128),
     ALTERNATE_FLOW_LABEL |-> F32(56, 20), ALTERNATE_TRAFFIC_CLASS |-> F8(59, 8),
     ALTERNATE_HOP_LIMIT |-> F8(60, 8), ALTERNATE_PACKET_RATE |-> B(61, 2, 6),
     ALTERNATE_SL |-> F8(62, 4), ALTERNATE_SUBNET_LOCAL |-> B(62, 4, 1),
     ALTERNATE_LOCAL_ACK_TIMEOUT |-> F8(63, 5), PRIVATE_DATA |-> M(64, 1344)]

cm_apr_msg ==
    [LOCAL_COMM_ID |-> F32(0, 32), REMOTE_COMM_ID |-> F32(4, 32),
     ADDITIONAL_INFORMATION_LENGTH |-> F8(8, 8), AR_STATUS |-> F8(9, 8),
     ADDITIONAL_INFORMATION |-> M(12, 576), PRIVATE_DATA |-> M(84, 1184)]

cm_sidr_req_msg ==
    [REQUESTID |-> F32(0, 32), PARTITION_KEY |-> F16(4, 16), SERVICEID |-> F64(8),
     PRIVATE_DATA |-> M(16, 1728)]

cm_sidr_rep_msg ==
    [REQUESTID |-> F32(0, 32), STATUS |-> F8(4, 8), ADDITIONAL_INFORMATION_LENGTH |-> F8(5, 8),
     QPN |-> F32(8, 24), SERVICEID |-> F64(12), Q_KEY |-> F32(20, 32),
     ADDITIONAL_INFORMATION |-> M(24, 576), PRIVATE_DATA |-> M(96, 1088)]

Layout ==
    [REQ |-> cm_req_msg, MRA |-> cm_mra_msg, REJ |-> cm_rej_msg, REP |-> cm_rep_msg,
     RTU |-> cm_rtu_msg, DREQ |-> cm_dreq_msg, DREP |-> cm_drep_msg, LAP |-> cm_lap_msg,
     APR |-> cm_apr_msg, SIDR_REQ |-> cm_sidr_req_msg, SIDR_REP |-> cm_sidr_rep_msg]

-----------------------------------------------------------------------------
(* Accessors *)

\* be*_to_cpu: bit j of the word at l is bit Wire(l, j) of the MAD, and bit x
\* of the MAD is bit Wire(l, x) of the word.
Wire(l, j) == l.off * 8 + l.num - 1 - j

\* The bits of the MAD that the first n bits at l occupy.
Region(l, n) == l.off * 8 .. l.off * 8 + n - 1

Mask(l) == l.lo .. l.hi
FIELD_PREP(l, v) == {i + l.lo : i \in v} \cap Mask(l)
FIELD_GET(l, word) == {j - l.lo : j \in word \cap Mask(l)}

\* _iba_get8, _iba_get16, ...: the word at l.
iba_get(mad, l) == {Wire(l, x) : x \in mad \cap Region(l, l.num)}

\* Mutant: the old bits of the field are not cleared.
iba_set_or(mad, l, prep) == mad \cup {Wire(l, j) : j \in prep}

\* _iba_set8, _iba_set16, ...: the word is stored with the masked bits replaced.
iba_set(mad, l, prep) ==
    (mad \ Region(l, l.num))
    \cup {Wire(l, j) : j \in (iba_get(mad, l) \ Mask(l)) \cup prep}

IBA_GET(mad, l) == FIELD_GET(l, iba_get(mad, l))
IBA_SET(mad, l, v) == iba_set(mad, l, FIELD_PREP(l, v))

\* Copies of the first bytes of a field, in the order they are sent.  A null
\* pointer or no bytes copy nothing.  More bytes than the field has, of which
\* WARN_ON warns, are copied all the same.
IBA_GET_MEM(mad, l, bytes) == {x - l.off * 8 : x \in mad \cap Region(l, bytes * 8)}
IBA_SET_MEM(mad, l, in, bytes) ==
    IF in # None /\ bytes # 0
    THEN (mad \ Region(l, bytes * 8)) \cup {l.off * 8 + i : i \in in}
    ELSE mad

-----------------------------------------------------------------------------
(* A sender *)

VARIABLES
    msg,        \* the kind of message
    mad,        \* its bits
    last,       \* the field set last, with the value it was given, or None if
                \* it was not set as a whole
    sets        \* the number of sets, up to MaxSets

vars == <<msg, mad, last, sets>>

Fields == DOMAIN Layout[msg]

Read(m, f) ==
    LET l == Layout[msg][f]
    IN  IF l.mem THEN IBA_GET_MEM(m, l, l.num \div 8) ELSE IBA_GET(m, l)

Init == msg \in DOMAIN Layout /\ mad = {} /\ last = None /\ sets = 0

\* A field is set to 0, or to ones in one bit more than it has.
Set ==
    /\ sets < MaxSets
    /\ \E f \in Fields :
         LET l == Layout[msg][f]
             width == l.hi - l.lo + 1
         IN  /\ ~l.mem
             /\ \E v \in {{}, 0 .. width} :
                  /\ mad' = IBA_SET(mad, l, v)
                  /\ last' = [field |-> f, value |-> v \cap 0 .. width - 1]
    /\ sets' = sets + 1
    /\ UNCHANGED msg

\* A copied field is given all of its bytes, its first one only, or nothing.
SetMem ==
    /\ sets < MaxSets
    /\ \E f \in Fields :
         LET l == Layout[msg][f]
         IN  /\ l.mem
             /\ \E bytes \in {0, 1, l.num \div 8} :
                \E in \in {None, {}, {0, l.num - 1} \cap 0 .. bytes * 8 - 1} :
                  /\ mad' = IBA_SET_MEM(mad, l, in, bytes)
                  /\ last' = [field |-> f, value |-> IF bytes * 8 = l.num THEN in ELSE None]
    /\ sets' = sets + 1
    /\ UNCHANGED msg

\* The message is complete.
Sent == sets = MaxSets /\ UNCHANGED vars

Next == Set \/ SetMem \/ Sent

Spec == Init /\ [][Next]_vars

-----------------------------------------------------------------------------
(* Properties *)

\* Every bit a setter writes lies in the message, behind the MAD header and
\* within the 256 bytes of a MAD.
TypeOK ==
    /\ msg \in DOMAIN Layout
    /\ mad \subseteq MadHdr * 8 .. MadSize * 8 - 1
    /\ last = None \/ last.field \in Fields
    /\ sets \in 0 .. MaxSets

\* A field that is set as a whole reads back as it was set, cut to its width,
\* whatever its word or its neighbours held before.
ReadsBack == last # None /\ last.value # None => Read(mad, last.field) = last.value

\* No setter changes what another field reads: the offsets, masks and word
\* widths of a message's fields never overlap, also where a 24-bit field and
\* an 8-bit one, or several bit fields, share a word.
SetsOneField ==
    [][\A f \in Fields : Read(mad', f) # Read(mad, f) => f = last'.field]_vars
=============================================================================
