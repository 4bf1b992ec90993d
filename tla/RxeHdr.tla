------------------------------- MODULE RxeHdr -------------------------------
(***************************************************************************)
(* The extended transport headers of RoCE packets (rxe_hdr.h).             *)
(*                                                                         *)
(* A packet is a buffer of bytes and a rxe_pkt_info: the opcode decides    *)
(* which headers follow the BTH, and the table rxe_opcode says where.  An  *)
(* integer is the sequence of its bytes, the least significant first, as   *)
(* a little-endian host keeps it.                                          *)
(*                                                                         *)
(* The state machine is a caller that sets fields of one packet in any     *)
(* order, on recycled memory, next to the values it expects to read.       *)
(***************************************************************************)
EXTENDS Bth, Sequences, SequencesExt

CONSTANTS
    Opcodes,        \* opcodes of the packets
    Offsets,        \* positions of the BTH in the buffer
    PayloadSizes    \* bytes of payload, without padding

-----------------------------------------------------------------------------
(* Opcodes (ib_pack.h): transport plus operation *)

RC == 0
UC == 32
RD == 64
UD == 96

SEND_FIRST == 0
SEND_MIDDLE == 1
SEND_LAST == 2
SEND_LAST_WITH_IMMEDIATE == 3
SEND_ONLY == 4
SEND_ONLY_WITH_IMMEDIATE == 5
RDMA_WRITE_FIRST == 6
RDMA_WRITE_MIDDLE == 7
RDMA_WRITE_LAST == 8
RDMA_WRITE_LAST_WITH_IMMEDIATE == 9
RDMA_WRITE_ONLY == 10
RDMA_WRITE_ONLY_WITH_IMMEDIATE == 11
RDMA_READ_REQUEST == 12
RDMA_READ_RESPONSE_FIRST == 13
RDMA_READ_RESPONSE_MIDDLE == 14
RDMA_READ_RESPONSE_LAST == 15
RDMA_READ_RESPONSE_ONLY == 16
ACKNOWLEDGE == 17
ATOMIC_ACKNOWLEDGE == 18
COMPARE_SWAP == 19
FETCH_ADD == 20
SEND_LAST_WITH_INVALIDATE == 22
SEND_ONLY_WITH_INVALIDATE == 23

IB_OPCODE(transport, op) == transport + op

IB_OPCODES ==
    LET Requests == SEND_FIRST .. RDMA_WRITE_ONLY_WITH_IMMEDIATE
        Reliable == SEND_FIRST .. FETCH_ADD
    IN  {IB_OPCODE(RC, op) : op \in Reliable \cup {SEND_LAST_WITH_INVALIDATE, SEND_ONLY_WITH_INVALIDATE}}
        \cup {IB_OPCODE(UC, op) : op \in Requests}
        \cup {IB_OPCODE(RD, op) : op \in Reliable}
        \cup {IB_OPCODE(UD, op) : op \in {SEND_ONLY, SEND_ONLY_WITH_IMMEDIATE}}

-----------------------------------------------------------------------------
(* Headers: the fields of each, in network byte order unless it says not *)

\* A field of "size" bytes at "off"; the accessors take and return "arg" bytes,
\* which are the bytes "mask" of the word, "shift" bytes up.  A setter keeps
\* the other bytes of the word, or clears them.
Field(off, size, arg, shift, mask, keep, be) ==
    [off |-> off, size |-> size, arg |-> arg, shift |-> shift, mask |-> mask,
     keep |-> keep, be |-> be]
Be(off, size) == Field(off, size, size, 0, 1 .. size, FALSE, TRUE)

rxe_rdeth == [een |-> Field(0, 4, 4, 0, 1 .. 3, FALSE, TRUE)]
rxe_deth == [qkey |-> Be(0, 4), sqp |-> Field(4, 4, 4, 0, 1 .. 3, FALSE, TRUE)]
rxe_reth == [va |-> Be(0, 8), rkey |-> Be(8, 4), len |-> Be(12, 4)]

rxe_atmeth == [va |-> Be(0, 8), rkey |-> Be(8, 4), swap_add |-> Be(12, 8), comp |-> Be(20, 8)]

\* Mutant: the setter of the MSN clears the rest of the word.
rxe_aeth_clears == [syn |-> Field(0, 4, 1, 3, {4}, TRUE, TRUE),
                    msn |-> Field(0, 4, 4, 0, 1 .. 3, FALSE, TRUE)]
rxe_aeth == [syn |-> Field(0, 4, 1, 3, {4}, TRUE, TRUE),
             msn |-> Field(0, 4, 4, 0, 1 .. 3, TRUE, TRUE)]
rxe_atmack == [orig |-> Be(0, 8)]
rxe_immdt == [imm |-> Field(0, 4, 4, 0, 1 .. 4, FALSE, FALSE)]
rxe_ieth == [rkey |-> Be(0, 4)]

Struct == [RDETH |-> rxe_rdeth, DETH |-> rxe_deth, RETH |-> rxe_reth, ATMETH |-> rxe_atmeth,
           AETH |-> rxe_aeth, ATMACK |-> rxe_atmack, IMMDT |-> rxe_immdt, IETH |-> rxe_ieth]

\* sizeof, by the last byte of the struct.
sizeof(hdr) == CHOOSE n \in {Struct[hdr][f].off + Struct[hdr][f].size : f \in DOMAIN Struct[hdr]} :
                  \A f \in DOMAIN Struct[hdr] : Struct[hdr][f].off + Struct[hdr][f].size <= n
RXE_BTH_BYTES == 12
RXE_ICRC_SIZE == 4

-----------------------------------------------------------------------------
(* The table rxe_opcode, which the header declares extern *)

\* The headers between BTH and payload.
Headers(opcode) ==
    LET t == 32 * (opcode \div 32)
        op == opcode % 32
        response == op \in RDMA_READ_RESPONSE_FIRST .. ATOMIC_ACKNOWLEDGE
    IN  (IF t = RD THEN <<"RDETH">> ELSE <<>>)
        \o (IF t = UD \/ (t = RD /\ ~response) THEN <<"DETH">> ELSE <<>>)
        \o (IF op \in {RDMA_WRITE_FIRST, RDMA_WRITE_ONLY, RDMA_WRITE_ONLY_WITH_IMMEDIATE,
                       RDMA_READ_REQUEST} THEN <<"RETH">> ELSE <<>>)
        \o (IF op \in {COMPARE_SWAP, FETCH_ADD} THEN <<"ATMETH">> ELSE <<>>)
        \o (IF response /\ op # RDMA_READ_RESPONSE_MIDDLE THEN <<"AETH">> ELSE <<>>)
        \o (IF op = ATOMIC_ACKNOWLEDGE THEN <<"ATMACK">> ELSE <<>>)
        \o (IF op \in {SEND_LAST_WITH_IMMEDIATE, SEND_ONLY_WITH_IMMEDIATE,
                       RDMA_WRITE_LAST_WITH_IMMEDIATE, RDMA_WRITE_ONLY_WITH_IMMEDIATE}
            THEN <<"IMMDT">> ELSE <<>>)
        \o (IF op \in {SEND_LAST_WITH_INVALIDATE, SEND_ONLY_WITH_INVALIDATE}
            THEN <<"IETH">> ELSE <<>>)

\* rxe_opcode[opcode]: offsets from the BTH of the headers and of the payload
\* (RXE_PAYLOAD), and the length of all headers.
rxe_opcode ==
    [opcode \in IB_OPCODES |->
       LET hs == Headers(opcode)
           before(i) == RXE_BTH_BYTES + FoldLeft(LAMBDA n, h : n + sizeof(h), 0, SubSeq(hs, 1, i - 1))
           parts == Append(hs, "PAYLOAD")
       IN  [offset |-> [h \in ToSet(parts) |-> before(CHOOSE i \in DOMAIN parts : parts[i] = h)],
            length |-> before(Len(hs) + 1)]]

-----------------------------------------------------------------------------
(* Accessors *)

VARIABLES
    pkt,        \* [opcode, offset, paylen] of rxe_pkt_info
    mem,        \* the buffer pkt->hdr points to
    want        \* what each field should read as

vars == <<pkt, mem, want>>

HeaderFields(opcode) == UNION {{h} \X DOMAIN Struct[h] : h \in ToSet(Headers(opcode))}

\* Mutant: the position of the BTH in the buffer is forgotten.
Place_from_start(p, hf) == rxe_opcode[p.opcode].offset[hf[1]] + Struct[hf[1]][hf[2]].off
\* Where the word of a field is: hdr + offset + rxe_opcode[opcode].offset[type].
Place(p, hf) == p.offset + rxe_opcode[p.opcode].offset[hf[1]] + Struct[hf[1]][hf[2]].off

\* htonl, htobe64, and the way back.
ToWire(f, word) == IF f.be THEN Reverse(word) ELSE word

get(p, m, hf) ==
    LET f == Struct[hf[1]][hf[2]]
        at == Place(p, hf)
        word == ToWire(f, [i \in 1 .. f.size |-> m[at + i]])
    IN  [i \in 1 .. f.arg |-> IF i + f.shift \in f.mask THEN word[i + f.shift] ELSE 0]

\* Mutant: the old value is not masked out before the new one is added.
Merged_adds(f, old, v) ==
    [i \in 1 .. f.size |-> IF i \in f.mask THEN old[i] + v[i - f.shift] ELSE old[i]]
\* The word a setter stores, in the byte order of the host.
Merged(f, old, v) ==
    [i \in 1 .. f.size |->
       IF i \in f.mask THEN v[i - f.shift] ELSE IF f.keep THEN old[i] ELSE 0]

set(p, m, hf, v) ==
    LET f == Struct[hf[1]][hf[2]]
        at == Place(p, hf)
        old == ToWire(f, [i \in 1 .. f.size |-> m[at + i]])
        new == ToWire(f, Merged(f, old, v))
    IN  [b \in DOMAIN m |-> IF b \in at + 1 .. at + f.size THEN new[b - at] ELSE m[b]]

pkt_bth_pad(p, m) == Get(PAD, m[p.offset + 2])
header_size(p) == p.offset + rxe_opcode[p.opcode].length
payload_addr(p) == p.offset + rxe_opcode[p.opcode].offset["PAYLOAD"]

\* Mutant: the padding is counted as payload.
payload_size_with_pad(p, m) ==
    p.paylen - rxe_opcode[p.opcode].offset["PAYLOAD"] - RXE_ICRC_SIZE
payload_size(p, m) ==
    p.paylen - rxe_opcode[p.opcode].offset["PAYLOAD"] - pkt_bth_pad(p, m) - RXE_ICRC_SIZE

-----------------------------------------------------------------------------
(* The state machine *)

Garbage == 165
Payload == 200
Pad(size) == (4 - (size % 4)) % 4

\* A packet with so much payload, in memory that is not cleared.
Init ==
    \E opcode \in Opcodes, offset \in Offsets, size \in PayloadSizes :
       LET len == rxe_opcode[opcode].length
       IN  /\ pkt = [opcode |-> opcode, offset |-> offset,
                     paylen |-> len + size + Pad(size) + RXE_ICRC_SIZE]
           /\ mem = [b \in 1 .. offset + pkt.paylen |->
                       IF b = offset + 1 THEN opcode
                       ELSE IF b = offset + 2 THEN Put(PAD, Garbage, Pad(size))
                       ELSE IF b - offset - len \in 1 .. size THEN Payload ELSE Garbage]
           /\ want = [hf \in HeaderFields(opcode) |-> get(pkt, mem, hf)]

\* An argument whose bytes tell its order, and one wider than every mask.
Values(hf) ==
    LET n == Struct[hf[1]][hf[2]].arg
    IN  {[i \in 1 .. n |-> i], [i \in 1 .. n |-> 255]}

\* What is left of v in the field.
Fits(hf, v) ==
    LET f == Struct[hf[1]][hf[2]]
    IN  [i \in 1 .. f.arg |-> IF i + f.shift \in f.mask THEN v[i] ELSE 0]

Set(hf, v) ==
    /\ mem' = set(pkt, mem, hf, v)
    /\ want' = [want EXCEPT ![hf] = Fits(hf, v)]
    /\ UNCHANGED pkt

Next == \E hf \in HeaderFields(pkt.opcode) : \E v \in Values(hf) : Set(hf, v)

Spec == Init /\ [][Next]_vars

-----------------------------------------------------------------------------
(* Properties *)

\* The buffer keeps its size and holds bytes; the packet info keeps its type.
TypeOK ==
    /\ pkt \in [opcode: Opcodes, offset: Offsets, paylen: Nat]
    /\ mem \in [1 .. pkt.offset + pkt.paylen -> 0 .. 255]
    /\ DOMAIN want = HeaderFields(pkt.opcode)

\* Whatever was set before, in whichever order, on whatever was in the buffer:
\* a getter returns what its own setter last stored, cut to the field's width,
\* in the byte order of the host.  Fields that share a word (syndrome and MSN
\* of the AETH) and headers that follow each other do not disturb each other.
FieldsReadBack == \A hf \in HeaderFields(pkt.opcode) : get(pkt, mem, hf) = want[hf]

\* No setter writes outside the headers of the packet's opcode: the BTH, the
\* payload and the bytes before and after keep their contents.
OutsideKept ==
    [][\A b \in DOMAIN mem :
          b - pkt.offset \notin RXE_BTH_BYTES + 1 .. rxe_opcode[pkt.opcode].length =>
             mem'[b] = mem[b]]_vars

\* payload_addr and payload_size give the payload, all of it and nothing else,
\* for every opcode and every amount of padding.
PayloadExact ==
    {b \in DOMAIN mem : mem[b] = Payload}
       = payload_addr(pkt) + 1 .. payload_addr(pkt) + payload_size(pkt, mem)
=============================================================================
